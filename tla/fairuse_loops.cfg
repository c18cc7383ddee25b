SPECIFICATION FairSpec
CONSTANTS
  r1 = r1
  r2 = r2
  i1 = i1
  c1 = c1
  c2 = c2
  None = None
  Host <- OneInstance
  Clients = {c1}
  Pooled = {}
  Requests = {r1, r2}
  Instances = {i1}
  Tools = {"flights", "hotels"}
  Wanted = {2}
  FullCap = 2
  DayCap = 3
  MonthCap = 4
  GatewayDayCap = 0
  GatewayMonthCap = 0
  HardAfter = 2
  RefusalSlots = 2
  SlotTicks = 2
  DayTicks = 6
  MonthTicks = 12
  Faults = {}
  FeedMayFail = FALSE
  OneAtATime = FALSE
  MaxServed = 4
  MaxRefusals = 4
INVARIANTS
  OvershootBounded
PROPERTIES
  EscalatedOnTheLastHour
  LoopsAreEscalated
  EscalationEnds
