CONSTANTS
  p1 = p1
  p2 = p2
  v1 = v1
  v2 = v2
  w1 = w1
  None = None
  Procs = {p1, p2}
  Names = {v1, v2, w1}
  NameChoices <- SharedNames
  MaxMsgs = 2
  Poison = {2}
  StreamLen = 2
  Count = 1
  MaxRetries = 2
  Prompt = TRUE
  MaxCrashes = 0
  MaxFaults = 0
SPECIFICATION Spec
INVARIANTS
  NotDoubleProcessed
