CONSTANTS
  p1 = p1
  p2 = p2
  v1 = v1
  v2 = v2
  w1 = w1
  None = None
  Procs = {p1, p2}
  Names = {v1, v2, w1}
  NameChoices <- StableNames
  MaxMsgs = 2
  Poison = {2}
  StreamLen = 1
  Count = 1
  MaxRetries = 2
  Prompt = TRUE
  MaxCrashes = 1
  MaxFaults = 1
SPECIFICATION FairSpec
INVARIANTS
  TypeOK
  ExclusiveBatches
  RepeatsArePaidFor
PROPERTIES
  EverySettles
  ImplementsContract
