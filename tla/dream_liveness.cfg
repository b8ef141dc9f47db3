SPECIFICATION FairSpec
CONSTANTS
  s1 = s1
  s2 = s2
  e1 = e1
  e2 = e2
  e3 = e3
  e4 = e4
  e5 = e5
  w1 = w1
  NoSession = NoSession
  Sessions = {s1, s2}
  Episodes = {e1, e5}
  SessionOf <- SessionOfEpisode
  Workers = {w1}
  MaxAttempts = 2
  EpisodeLimit = 1000
  ScanCap = 20000
  MaxErrors = 0
  MaxCrashes = 1
  MaxDefers = 1
  RequeueLimit = 100
  MaxRequeues = 0
PROPERTIES
  WorkGetsDone
CHECK_DEADLOCK FALSE
