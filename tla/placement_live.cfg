CONSTANTS
  x1 = x1
  x2 = x2
  k1 = k1
  k2 = k2
  q1 = q1
  q2 = q2
  None = None
  Extractors = {x1, x2}
  Cameras = {k1}
  Routers = {q1}
  HardLimit = 2
  SoftLimit = 2
  Batch = 1
  Trusted = FALSE
  Restarts = TRUE
  MaxStarts = 2
  MaxStreams = 2
  MaxCrashes = 2
  MaxFaults = 1
SPECIFICATION FairSpec
PROPERTIES
  UnplacedIsPending
