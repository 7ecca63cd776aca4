SPECIFICATION Spec
CONSTANTS
    HeadLen = 2
    BufLen = 3
    MaxPts = 1
    Chunk = 2
    Lens = {1, 3, 4, 7}
    MaxMsgs = 2
    OutLen = 1
    Daemons = {d1}
    Handler = Handler
    None = None
INVARIANTS TypeOK Framed
PROPERTIES ActsOnOwnWords WholeMessages MessagesServed
