SPECIFICATION FairSpec
CONSTANTS
    Before = {}
    After = {}
    Bits18 = 1
    Bits20 = 2
    VHigh = 1
    VLow = 2
    Scales = {1, 2}
    Amps <- BothSigns
    Garbage <- StackHeld
    MaxCmds = 2
    None = none
INVARIANTS TypeOK FlavourInForce SetptWithinScale 
PROPERTIES SetTakesEffect
