CONSTANTS
  w1 = w1
  w2 = w2
  s1 = s1
  s2 = s2
  None = None
  Segments = {s1}
  Workers = {w1, w2}
  F = 3
  Attempts = 2
  Threshold = 2
  Probes = 2
  Chunk = 2
  InsertSize = 2
  MaxRetries = 2
  Threads = 2
  Unreadable <- OneUnreadable
  MaxCrashes = 1
  MaxFaults = 3
SPECIFICATION FairSpec
INVARIANTS
  FramesAccountedFor
  RowsAreRight
PROPERTY EverySettles
