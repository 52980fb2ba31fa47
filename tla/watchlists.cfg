CONSTANTS
  e1 = e1
  c1 = c1
  p1 = p1
  p2 = p2
  x1 = x1
  o1 = o1
  o2 = o2
  Loop = Loop
  Matcher = Matcher
  NoList = NoList
  Nobody = Nobody
  EntryIds = {e1}
  Callers = {c1}
  TTL = 1
  Delay = 1
  MaxChanges = 2
  MaxFailures = 1
  Processes = {p1, p2}
  Streams = {x1}
  Host <- HostOfStream
  Operators = {o1, o2}
  N = 2
  Limit = 1
  Memory = 1
  MaxAgain = 1
  MaxLosses = 1
SPECIFICATION FairSpec
PROPERTIES
  FreshEnough
  Converges
  FeedHolds
  PollCatchesUp
CHECK_DEADLOCK FALSE
