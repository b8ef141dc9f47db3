SPECIFICATION Spec
CONSTANTS
  r1 = r1
  c1 = c1
  c2 = c2
  e = e
  x1 = x1
  x2 = x2
  x3 = x3
  d1 = d1
  NoDomain = NoDomain
  Other = Other
  Runs = {r1}
  Cands = {c1, c2}
  CandsOf <- TwoOfOne
  EntityOf <- SameEntity
  ContentOf <- OwnContent
  DomainOf <- SecondLacksDomain
  RescueDomainOf <- RescueToD1
  BadEvidence = {}
  MixedIdentity = {}
  Domains = {d1}
  OtherContents = {x3}
  Reviewers = {v1, v2}
  ListClients = {l1}
  PageLimit = 1
  MaxReviews = 2
  MaxOther = 1
  MaxStops = 1
  MaxRescues = 1
SYMMETRY ReviewerSymmetry
INVARIANTS
  AuditConsistent
  WrittenWasDecided
  ListingComplete
PROPERTIES
  ReviewIsFinal
CHECK_DEADLOCK FALSE
