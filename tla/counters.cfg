CONSTANTS
  Instances = {i1, i2}
  Shared = Shared
  Tasks = {k1, k2}
  Routes = {r1, r2, r3, r4, r5}
  None = None
  HoursPerDay = 2
  Calls <- MCCalls
  Deployments <- MCDeployments
  Retention = 2
  DayTtl = 3
  RouteCap = 2
  StartHour = 1
  MaxHour = 4
  MaxEvents = 5
SYMMETRY Symmetry
SPECIFICATION Spec
INVARIANTS
  TypeOK
  RoutesBounded
  CountersMatchLog
