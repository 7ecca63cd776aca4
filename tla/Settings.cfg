SPECIFICATION Spec
CONSTANTS
    Chans = {1}
    NReg = 2
    Bits = {b1}
    Threads = {t1, t2}
    None = none
INVARIANTS TypeOK LoneSaveSticks
PROPERTIES RestartRestores SaveKeepsSettings
