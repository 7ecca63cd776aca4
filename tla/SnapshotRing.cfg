SPECIFICATION Spec
CONSTANTS
    Ring = 6
    Pre = 2
    Post = 2
    PollDiv = 1
    DelayPts = 1
    NTrig = 1
INVARIANTS WindowContiguous
