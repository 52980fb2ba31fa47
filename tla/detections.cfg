\* Vision processing, a camera's job, the plate decoder and the plate search, side by side.
SPECIFICATION FairSpec
CONSTANTS
  w1 = w1 w2 = w2 p1 = p1 v1 = v1 v2 = v2 l1 = l1 u1 = u1
  human = human vehicle = vehicle attr = attr lpr = lpr o = o zero = zero
  Nothing = Nothing Blank = Blank
  Consumers = {w1, w2}
  NFrames = 2
  Plugins = {human, attr, vehicle, lpr}
  Sees <- MCSees
  Finder <- MCFinder
  Class <- MCClass
  Plated = {v1, l1}
  Defaults = {human, vehicle}
  Supports <- MCSupports
  Configurations <- MCConfigurations
  Guessing = {human, attr}
  MinioClient = TRUE
  MaxRetries = 2
  MaxClaims = 1
  MaxErrors = 1
  MaxFailures = 3
  FirstDelay = 2
  LastDelay = 6
  MaxFrames = 3
  MaxHealthy = 1
  MaxRefusals = 1
  Vocabulary = 2
  Unmapped = 1
  MaxSteps = 5
  Characters = {o, zero}
  Confused <- MCConfused
  MaxLength = 3
  NRows = 2
  PageSize = 1
  Scale = 4200
  Threshold = 1260
INVARIANTS
  DetectionsIdentified
  DetectionsAccountedFor
  JobHolds
PROPERTIES
  Ends
  PlatesAreFound
\* A settled event, a job that is over, and a text at its bound are the ends of their sides.
CHECK_DEADLOCK FALSE
