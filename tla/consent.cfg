SPECIFICATION Spec
CONSTANTS
  a = a
  b = b
  t1 = t1
  t2 = t2
  r1 = r1
  r2 = r2
  i1 = i1
  home = home
  unknown = unknown
  None = None
  Users = {a, b}
  Tabs = {t1, t2}
  Reqs = {r1, r2}
  Instances = {i1}
  Host <- OneInstance
  Ips = {home, unknown}
  Unknown = unknown
  PerIp = 1
  PerDay = 2
  CapWindow = 1
  StaleAfter = 1
  SweepEvery = 1
  StateTTL = 1
  SessionTTL = 1
  PageTTL = 1
  CodeTTL = 1
  TokenTTL = 2
  StoreFaults = TRUE
  MaxClients = 3
  MaxFlows = 2
  MaxGrants = 1
  MaxClock = 3
  MaxBegun = 3
SYMMETRY Symmetry
CHECK_DEADLOCK FALSE
INVARIANTS
  TypeOK
  RegistrationsBounded
  ConsentKeepsClient
  ApprovedAsShown
  LandsWhereStarted
