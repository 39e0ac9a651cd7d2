SPECIFICATION Spec
CONSTANTS
    Tunnel = {t1, t2, t3}
    Address = {a1, a2, a3}
    Refresher = {r1}
    Setups <- UsbSetups
    MaxFaults = 2
    NoTunnel = NoTunnel
    NoAddress = NoAddress
    NoEntry = NoEntry
    Idle = Idle
INVARIANTS NoDeadEntry
CHECK_DEADLOCK FALSE
