SPECIFICATION Spec
CONSTANTS
  Caller = {c1, c2}
  MaxConnections = 2
  MaxMessages = 4
  ChunkSize = {2, 9}
  MaxRuns = 2
  MaxStops = 2
  User = {u1, u2}
  MaxSends = 2
  MaxAudits = 3
  MaxPlists = 1
INVARIANTS FramesKept RepliesMatch SamplingStops AuditsExact
CHECK_DEADLOCK FALSE
SYMMETRY Symmetry
