SPECIFICATION PfSpec
CONSTANTS
    Conn = {1, 2}
    MaxCalls = 3
INVARIANTS StopClosesAll
CHECK_DEADLOCK FALSE
