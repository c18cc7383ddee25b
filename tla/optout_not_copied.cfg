SPECIFICATION Spec
CONSTANTS
  u1 = u1
  u2 = u2
  u3 = u3
  t1 = t1
  t2 = t2
  None = None
  Users = {u1}
  Tasks = {t1}
  NoteGap = 2
  WelcomeGap = 2
  LaneCap = 1
  Week = 2
  MonthCap = 3
  MonthDays = 6
  SpareDays = 1
  SettledContacts = {"absent", "subscribed", "unsubscribed"}
  FirstDay = 2
  MaxDay = 4
  MaxJobs = 3
CHECK_DEADLOCK FALSE
PROPERTIES
  OptedOutEverywhere
