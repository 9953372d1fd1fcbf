SPECIFICATION Spec
CONSTANTS
  NoName = NoName
  None = None
  t1 = t1
  t2 = t2
  Ids = {1, 2}
  Tenants = {t1}
  MaxWrites = 3
  MaxRemote = 2
  MaxLogins = 2
INVARIANT TypeOK ListsMirrorView RowsAreTruthful
CHECK_DEADLOCK FALSE
