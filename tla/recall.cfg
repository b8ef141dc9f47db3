SPECIFICATION Spec
CONSTANTS
  r1 = r1
  r2 = r2
  r3 = r3
  x = x
  t1 = t1
  t2 = t2
  d1 = d1
  h = h
  p1 = p1
  Servers = {s1, s2}
  Records = {r1, r2, r3, p1, x}
  Facts <- FactsOf
  InitialStore <- StoreAtStart
  Queries <- TwoQueries
  Modes = {"vector", "hybrid"}
  Hypotheses <- OneHypothesis
  Limit = 2
  Prefetch = 2
  MaxItems = 3
  MaxTokens = 3
  MaxItemTokens = 2
  EvidenceLimit = 3
  Policy <- SmallPolicy
  StartTime = 2
  MaxTime = 3
  MaxCalls = 3
  MaxFaults = 1
SYMMETRY ServerSymmetry
INVARIANTS
  RecallSound
  AccessSound
PROPERTIES
  TouchedIsRecallable
CHECK_DEADLOCK FALSE
