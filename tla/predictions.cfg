SPECIFICATION Spec
CONSTANTS
  c1 = c1
  c2 = c2
  c3 = c3
  k1 = k1
  t1 = t1
  a1 = a1
  a2 = a2
  NoAgent = NoAgent
  NoRecord = NoRecord
  Callers = {c1, c2, c3}
  ProcessOf <- ProcessOfCaller
  Correlated = {k1}
  StripeOf <- OneStripe
  Tracks = {t1}
  AgentOf <- AgentOfAll
  Confidences = {1, 4}
  Scale = 4
  ScanLimit = 3
  PendingLimit = 1
  StaleTime = 0
  MinSamples = 2
  BiasThreshold = 1
  MaxTime = 1
  MaxCalls = 3
  Judgements = {"confirmed", "indeterminate"}
  MaxErrors = 1
  MaxLate = 1
INVARIANTS
  AckedIsStored
  LearningSound
  HeartbeatSeesStale
  TrackedVerdict
CHECK_DEADLOCK FALSE
