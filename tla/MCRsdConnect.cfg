SPECIFICATION FairSpec
CONSTANTS
    Caller = {c1, c2}
    MaxDiscoveries = 2
INVARIANTS TypeOK NoUnheardError ReleasedOnReturn SuccessAfterClose
PROPERTIES DiscoveryEnds ImplementsDiscovery
CHECK_DEADLOCK FALSE
