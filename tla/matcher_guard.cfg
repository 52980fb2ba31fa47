CONSTANTS
  m1 = m1
  m2 = m2
  e1 = e1
  e2 = e2
  d1 = d1
  d2 = d2
  d3 = d3
  c1 = c1
  c2 = c2
  None = None
  Matchers = {m1}
  Entries = {e1, e2}
  Detections = {d1, d2, d3}
  Cameras = {c1, c2}
  CameraOf <- Views
  Matches <- OneEntry
  Cooldown = 2
  Window = 3
  Threshold = 2
  AutoDisable = TRUE
  MaxRetries = 2
  Overlap = FALSE
  MaxTime = 4
  MaxCrashes = 1
  MaxFaults = 1
SPECIFICATION FairSpec
INVARIANTS
  SafeguardHolds
PROPERTIES
  EverySettles
