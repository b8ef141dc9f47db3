SPECIFICATION FairSpec
CONSTANTS
  r1 = r1
  r2 = r2
  t1 = t1
  v1 = v1
  v2 = v2
  NoValue = NoValue
  Runs = {r1, r2}
  Tasks = {t1}
  TasksOf <- EmptyAndOne
  Values = {v1, v2}
  WaitTime = 2
  LeaseTime = 1
  MaxTime = 4
  MaxClaims = 2
  MaxSteps = 1
  MaxPublish = 1
INVARIANTS
  InboxConsistent
  AnswersKept
  NoReplay
PROPERTIES
  ResultIsFinal
  RunFinishes
CHECK_DEADLOCK FALSE
