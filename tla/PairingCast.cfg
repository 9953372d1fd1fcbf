SPECIFICATION Spec
CONSTANTS
  l1 = l1
  l2 = l2
  t1 = t1
  t2 = t2
  p1 = p1
  p2 = p2
  Landlords = {l1}
  Tenants = {t1}
  Props = {p1}
  None = None
  MaxRegistered = 1
  MaxRequests = 1
  MaxSwipes = 1
INVARIANTS
  PropertyFieldsPresent
CHECK_DEADLOCK FALSE
