SPECIFICATION FairSpec
CONSTANTS
    PSC_MAX_CLIENTS = 2
    MaxFd = 2
    Daemons = {d1}
    Conns = {c1, c2}
    Acceptor = acc
    None = none
    Listener = listener
PROPERTIES CloseWakesHandler
