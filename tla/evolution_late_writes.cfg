SPECIFICATION Spec
CONSTANTS
  e1 = e1
  e2 = e2
  x1 = x1
  x2 = x2
  i1 = i1
  i2 = i2
  i3 = i3
  i4 = i4
  c1 = c1
  c2 = c2
  t1 = t1
  t2 = t2
  p1 = p1
  p2 = p2
  None = None
  Entities = {e1, e2}
  Contexts = {x1}
  Trimmed <- FoldedToOne
  Folded <- FoldedToOne
  Ids = {i1, i2, i3}
  Contents = {c1, c2}
  Threads = {t1, t2}
  Procs = {p1, p2}
  ProcOf <- TwoProcs
  ProcessLock = TRUE
  SearchLimit = 10
  MaxPending = 1000
  ForceInputs = {TRUE}
  Rebuild = FALSE
  LateWrites = TRUE
  MaxFaults = 1
  MaxCrashes = 1
SYMMETRY IdSymmetry
INVARIANTS
  NoLostHead
  AckedDurable
