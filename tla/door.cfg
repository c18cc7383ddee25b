CONSTANTS
  dave = dave
  gate = gate
  here = here
  ann = ann
  t1 = t1
  t2 = t2
  None = None
  Clients = {dave, gate, here}
  ClientKind <- MCKind
  Accounts = {ann}
  Tokens = {t1, t2}
  Owner <- MCOwner
  Elsewhere = {t2}
  Requests <- MCRequests
  Configs <- MCConfigs
  Slots = {s1, s2}
  UserCap = 2
  AnonCap = 1
  HardAfter = 1
SYMMETRY Symmetry
SPECIFICATION Spec
INVARIANTS
  TypeOK
  AccountsOnly
PROPERTIES
  WelcomeKept
