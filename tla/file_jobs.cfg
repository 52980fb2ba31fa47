CONSTANTS
  v1 = v1
  v2 = v2
  a1 = a1  a2 = a2  f1 = f1  g1 = g1
  N = 2
  Videos = {v1, v2}
  Segments = 2
  Threads = 2
  MaxCrashes = 1
  MaxFaults = 1

  Apis = {a1, a2}
  Frames = {f1}
  Others = {g1}
  Configured = {"frames", "events:frame_ready"}
  MaxLen = 2
  MaxReplays = 2
  MaxLost = 1
  MaxAppended = 10
SPECIFICATION MCFairSpec
INVARIANTS
  AvailabilityIsTrue
  CopiesPaidFor
PROPERTIES
  EveryRequestEnds
