SPECIFICATION Spec
CONSTANTS
    Client = {"c1", "c2"}
    Nobody = "none"
    MaxRequests = 3
    HighWater = 3
    MaxBytes = 3
    Conn = {1, 2, 3}
    ForwarderCalls = 3
    Asker = {"c1", "c2"}
    MaxAsks = 4
    MaxCallbacks = 2
    Chunks = {1, 9}
    Listener = {"a", "b"}
    MaxDials = 2
    MaxLoops = 3
    MaxMessages = 3
    Announced <- Reports
    Watched = {"any", "p"}
    MounterCalls = 3
    MaxTimeouts = 2
    Parts <- Lists
    ProxyRequests = 3
    AfcSize = 5
    AfcChunk = 2
    ReadAhead = 3
    Transfers = 2
    Listed <- Directories
    TopDirectory = "r"
    SafeNames <- SafeName
    LowerCased <- FoldedName
    Suffixes = 2
INVARIANTS AnswersMatch ConnectionsHeld StreamsExact TreesKept RoundTrips
CHECK_DEADLOCK FALSE
