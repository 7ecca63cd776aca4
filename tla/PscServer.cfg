SPECIFICATION FairSpec
CONSTANTS
    PSC_MAX_CLIENTS = 1
    MaxFd = 2
    Daemons = {d1}
    Conns = {c1, c2, c3}
    Acceptor = acc
    None = none
    Listener = listener
INVARIANTS TypeOK SlotOwnership SockFollowsHandler OwnDescriptorUntilSendError
PROPERTIES FanoutSeesOneSet ImplementsPool LeaverEnds
