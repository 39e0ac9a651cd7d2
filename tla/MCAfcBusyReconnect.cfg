SPECIFICATION Spec
CONSTANTS
    Op = {o1, o2}
    Socket = {s1, s2}
    MaxReconnects = 1
    NoSocket = NoSocket
    NoOp = NoOp
INVARIANTS ReconnectRecovers
CHECK_DEADLOCK FALSE
