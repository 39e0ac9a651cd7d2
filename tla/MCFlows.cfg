SPECIFICATION Spec
CONSTANTS
    MaxEmptyPolls = 2
    MaxSuites = 2
    Attempts = 2
    MaxCalls = 2
    Asker = {c1, c2}
    MaxAsks = 3
    RtpPackets <- Packets
    FirstSequence = 6
    NumberRange = 8
    Doubled = {2}
    ZipEntries <- Ipa
    ZipBuffer = 2
    SocketHighWater = 2
    ZipRead = 2
    Installations = 2
    ListedEntries = 3
    LongestName = 4
    LongestCalled = 1
    LongestPad = 1
    LongestComment = 5
    WindowSizes = {3, 4, 6}
    FirstWindow = 2
    DnsPackets <- Datagrams
    DnsInstances = {"i", "j"}
    DnsHosts = {"h", "g", "."}
    Discoveries = 2
    DnsHeard = 3
INVARIANTS NothingLeftBehind OutcomeTrue PiecesExact
PROPERTIES EndsInTime
CHECK_DEADLOCK FALSE
