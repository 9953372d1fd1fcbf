SPECIFICATION Spec
CONSTANTS
  NoName = NoName
  None = None
  t1 = t1
  t2 = t2
  Ids = {1, 2}
  Tenants = {t1}
  MaxWrites = 3
  MaxRemote = 0
  MaxLogins = 1
INVARIANT ModifiedHasName
CHECK_DEADLOCK FALSE
