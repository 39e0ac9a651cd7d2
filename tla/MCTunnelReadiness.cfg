SPECIFICATION FairSpec
CONSTANTS
    Client = {c1, c2}
    Udid = {u1}
    Service = {s1, s2}
    MaxWrites = 2
    NoEntry = NoEntry
    NoUdid = NoUdid
INVARIANTS TypeOK WaitersExact PublishedIsSeen FreshAnswer
PROPERTIES PollAnswered StopCompletes
CHECK_DEADLOCK FALSE
