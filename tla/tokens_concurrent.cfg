SPECIFICATION Spec
CONSTANTS
  r1 = r1
  r2 = r2
  i1 = i1
  i2 = i2
  c1 = c1
  c2 = c2
  u1 = u1
  None = None
  Users = {u1}
  Clients = {c1}
  Instances = {i1}
  Reqs = {r1, r2}
  Host <- OneInstance
  CodeTTL = 1
  AccessTTL = 1
  RefreshTTL = 2
  Grace = 1
  ReplayMax = 1
  StoreFaults = TRUE
  MaxId = 8
  MaxGrants = 1
  MaxClock = 2
SYMMETRY RequestSymmetry
INVARIANTS
  ReplayIsFaithful
  CodeSingleUse
  NeverStranded
PROPERTIES
  RotationIsFinal
