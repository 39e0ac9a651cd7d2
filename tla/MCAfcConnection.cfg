SPECIFICATION FairSpec
CONSTANTS
    Op = {o1, o2, o3}
    Socket = {s1, s2}
    MaxReconnects = 1
    NoSocket = NoSocket
    NoOp = NoOp
INVARIANTS StateExact RepliesMatch IdleReconnectRecovers
PROPERTIES EveryOpEnds
CHECK_DEADLOCK FALSE
