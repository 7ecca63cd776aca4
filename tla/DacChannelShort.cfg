SPECIFICATION Spec
CONSTANTS
    Word = 8
    Setpts <- BothSigns
    Rate = 1
    RateDiv = 1
    PhaseHalf = 10
    Pi = 7
    ToFloat <- TwoBits
    One = 8
    RaisedCos <- SevenSteps
    Gain = 8
    Offset = 1
    HighRes = TRUE
    Limit = 5
    Threads = {t1, t2}
    MaxCmds = 1
PROPERTY RampReachesSetpoint
