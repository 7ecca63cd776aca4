SPECIFICATION FairSpec
CONSTANTS
    Chan = 1
    Checks = {"err1"}
    Period = 4
    CntMax = 2
    Limits = {0, 1, 2}
INVARIANTS TypeOK TripsOnTime TripOpensContactor
PROPERTIES ClearLeavesNothing ParkedIgnoresError PersistentFaultOpens
