SPECIFICATION Spec
CONSTANTS
  Episodes = {"e1", "e2", "e3"}
  Knowledge = {"k1", "k2"}
  Session = {"e1", "e2"}
  Topics <- MCTopics
  Hits <- MCHits
  Relevant <- MCRelevant
  Associations <- MCAssociations
  Related <- MCRelated
  Project <- MCProject
  NoProject = "none"
  Verification <- MCVerification
  Markers <- MCMarkers
  Ages <- MCAges
  PerBucket = 2
  PerQuery = 1
  TotalExpanded = 2
  AssociationDepth = 2
  Tokens <- MCTokens
  Advice = {"d"}
  Irrelevant = {"c"}
  Time <- MCTime
  Missing = {{}, {"e1", "e2"}}
  Moving = {"k1", "e2"}
  Later = 500
  Pool <- MCPool
  Pairs = 2
  Protocols <- MCProtocols
  Cooldown <- MCCooldown
  MaxAttempts = 2
  MaxTime = 3
  MaxEvents = 3
  MaxCalls = 2
  MaxMoves = 1
  MaxClaims = 2
INVARIANTS
  EvidenceExact
  GateSound
PROPERTIES
  RouterSound
CHECK_DEADLOCK FALSE
