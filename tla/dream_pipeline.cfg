SPECIFICATION Spec
CONSTANTS
  s1 = s1
  s2 = s2
  e1 = e1
  e2 = e2
  e3 = e3
  e4 = e4
  e5 = e5
  w1 = w1
  NoSession = NoSession
  Sessions = {s1, s2}
  Episodes = {e1, e2, e3, e4}
  SessionOf <- SessionOfEpisode
  Workers = {w1}
  MaxAttempts = 2
  EpisodeLimit = 3
  ScanCap = 20000
  MaxErrors = 1
  MaxCrashes = 1
  MaxDefers = 0
  RequeueLimit = 1
  MaxRequeues = 1
SYMMETRY EpisodeSymmetry
INVARIANTS
  QueueConsistent
  ProcessedMeansDreamed
  MarkAfterWriteBack
PROPERTIES
  ProcessedIsFinal
CHECK_DEADLOCK FALSE
