CONSTANTS
  w1 = w1
  w2 = w2
  w3 = w3
  e1 = e1
  e2 = e2
  None = None
  Workers = {w1, w2}
  Events = {e1, e2}
  Malformed = {e2}
  MaxCrashes = 1
  MaxFaults = 2
SPECIFICATION FairSpec
INVARIANTS
  ConfirmedIsStored
  RepeatsArePaidFor
PROPERTIES
  EventuallyConfirmed
