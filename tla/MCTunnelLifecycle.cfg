SPECIFICATION FairSpec
CONSTANTS
    Tunnel = {t1, t2, t3}
    Address = {a1, a2, a3}
    Refresher = {r1}
    Setups <- AllSetups
    MaxFaults = 3
    NoTunnel = NoTunnel
    NoAddress = NoAddress
    NoEntry = NoEntry
    Idle = Idle
INVARIANTS TypeOK NoForwarderLeak RegistryTrue
PROPERTIES DeathRemovesEntry TvRunEndsPublished DroppedIsRepublished
CHECK_DEADLOCK FALSE
