SPECIFICATION Spec
CONSTANTS
  s1 = s1
  s2 = s2
  n1 = n1
  n2 = n2
  A = A
  B = B
  U = U
  G = G
  H = H
  X = X
  None = None
  NoPrincipal = NoPrincipal
  Values = {A, B, U, G, H, X}
  Servers = {s1, s2}
  Principals <- TwoPrincipals
  Credentials <- TwoCredentials
  Tools = {"memory_search", "memory_store", "dream_enqueue", "dream_review_resolve"}
  Contexts <- SomeContexts
  Limit <- Limits
  Window <- WindowSizes
  Patience = 1
  MaxTime = 2
  MaxCalls = 3
  Modes = {"agent_ready", "multi_user"}
SYMMETRY ServerSymmetry
INVARIANTS
  QuotaExact
  Isolation
  AuthorityConsistent
CHECK_DEADLOCK FALSE
