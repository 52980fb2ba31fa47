CONSTANTS
  m1 = m1
  m2 = m2
  e1 = e1
  e2 = e2
  d1 = d1
  d2 = d2
  d3 = d3
  c1 = c1
  c2 = c2
  None = None
  Matchers = {m1, m2}
  Entries = {e1, e2}
  Detections = {d1, d2}
  Cameras = {c1}
  CameraOf <- TwoViews
  Matches <- TwoEntries
  Cooldown = 1
  Window = 1
  Threshold = 2
  AutoDisable = TRUE
  MaxRetries = 2
  Overlap = TRUE
  MaxTime = 1
  MaxCrashes = 0
  MaxFaults = 2
SPECIFICATION Spec
SYMMETRY Symmetry
INVARIANTS
  MatchesAccountedFor
  OneAlertRow
