SPECIFICATION FairSpec
CONSTANTS
    Ring = 6
    Pre = 1
    Post = 4
    PollDiv = 2
    DelayPts = 1
    NTrig = 1
INVARIANTS TypeOK WindowExact
PROPERTIES CapturesFreshTriggers TriggersServed
