\* Eight sides of tenant administration; one behaviour runs one of them.
SPECIFICATION Spec
CONSTANTS
  c1 = c1  c2 = c2  r1 = r1  r2 = r2  p1 = p1  p2 = p2
  admin = admin  editor = editor
  api = api  cleaner = cleaner  north = north  south = south  star = star  o1 = o1  o2 = o2
  nightly = nightly  manual = manual

  Callers = {c1, c2}
  Installed <- InstalledHere
  MaxItems = 2
  MaxCalls = 2
  MaxFaults = 1

  retail = retail  counting = counting
  Admins = {c1, c2, r1}
  Settings = {counting}
  Sector = retail
  MaxAsks = 4

  Requests = {r1, r2}
  Roles = {admin, editor}
  MaxStarts = 2
  MaxLogins = 1
  MaxDeaths = 1

  Clients = {c1, c2}
  MaxUsers = 2
  MaxResets = 2
  MaxConfirms = 3

  AuthProcesses = {p1, p2}
  Verifiers = {r1, r2}
  Limit = 2
  Window = 1
  MaxWrong = 3
  MaxRight = 2
  MaxRestarts = 1

  Servers = {c1, c2}
  Second = 2
  MaxIdle = 3
  Day = 4
  MaxTime = 8
  MaxRefused = 1

  Processes = {api}
  Cleaner = cleaner
  Cameras = {north, south}
  All = star
  Objects = {o1, o2}
  CameraOf <- CameraHere
  Lifecycle = TRUE
  MaxSets = 2
  MaxOutages = 1

  MaxEntries = 2
  Runs = {nightly, manual}
  ChunkSize = 1
  Immutable = {TRUE, FALSE}
  MaxSeconds = 1
  MaxRuns = 3
  MaxTroubles = 1

INVARIANTS
  MembershipsAreWhole
  ProvisionedOnce
  HeldIsKept
  TrailIsComplete
PROPERTIES
  TenantDataHolds
  DevicesHold

\* The requests of every side are bounded, and all of them can be answered.
CHECK_DEADLOCK FALSE
