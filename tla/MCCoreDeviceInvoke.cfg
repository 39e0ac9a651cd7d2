SPECIFICATION FairSpec
CONSTANTS
    Invocation = {i1, i2}
    Sender = {h1}
    MaxTransports = 3
    MaxCloses = 2
    NoTransport = NoTransport
    NoCall = NoCall
INVARIANTS StateExact InvocationsNeverOverlap RepliesMatch NoOrphan
PROPERTIES EveryInvocationEnds
CHECK_DEADLOCK FALSE
