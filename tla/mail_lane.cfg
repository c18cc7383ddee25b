SPECIFICATION Spec
CONSTANTS
  u1 = u1
  u2 = u2
  u3 = u3
  t1 = t1
  t2 = t2
  None = None
  Users = {u1, u2, u3}
  Tasks = {t1, t2}
  NoteGap = 1
  WelcomeGap = 1
  LaneCap = 1
  Week = 2
  MonthCap = 3
  MonthDays = 6
  SpareDays = 1
  SettledContacts = {"unsubscribed"}
  FirstDay = 2
  MaxDay = 3
  MaxJobs = 3
SYMMETRY Symmetry
CHECK_DEADLOCK FALSE
INVARIANTS
  TypeOK
  Paced
  LaneCeiling
  ResubscribedOncePerRow
PROPERTIES
  OptOutWins
