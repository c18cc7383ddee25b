SPECIFICATION Spec
CONSTANTS
  r1 = r1
  r2 = r2
  i1 = i1
  c1 = c1
  c2 = c2
  None = None
  Host <- OneInstance
  Clients = {c1, c2}
  Pooled = {c2}
  Requests = {r1, r2}
  Instances = {i1}
  Tools = {"flights"}
  Wanted = {1, 4}
  FullCap = 2
  DayCap = 3
  MonthCap = 4
  GatewayDayCap = 4
  GatewayMonthCap = 5
  HardAfter = 1
  RefusalSlots = 1
  SlotTicks = 1
  DayTicks = 2
  MonthTicks = 4
  Faults = {}
  FeedMayFail = TRUE
  OneAtATime = TRUE
  MaxServed = 20
  MaxRefusals = 2
SYMMETRY RequestSymmetry
INVARIANTS
  TypeOK
  CapHolds
  SearchesAreCharged
