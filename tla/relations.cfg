SPECIFICATION Spec
CONSTANTS
  a = a
  b = b
  c = c
  ep = ep
  None = None
  Entities = {a, b, c}
  Episodes = {ep}
  Writers = {w1, w2, w3}
  Reviewers = {w1, w2}
  InitialStores <- BothStores
  Assertions <- Proposals
  Requests <- SomeRequests
  PageSize = 5
  DreamLimit = 2
  MaxTime = 3
  MaxRecalls = 1
  MaxEvents = 2
SYMMETRY ReviewerSymmetry
INVARIANTS
  PathsSound
  PathsComplete
  RolloutSound
PROPERTIES
  ReviewedKept
CHECK_DEADLOCK FALSE
