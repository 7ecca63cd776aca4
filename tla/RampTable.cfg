SPECIFICATION FairSpec
CONSTANTS
    Depth = 2
    LastAddr = 3
    Half = 1
    Limits = {0, 2}
    Tables <- SmallTables
    Lens = {1, 3}
    Threads = {t1, t2}
    None = none
INVARIANTS TypeOK LoneLoadSticks RunPlaysTable
PROPERTIES RunLandsOnLast RunEnds
