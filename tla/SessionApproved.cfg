SPECIFICATION Spec
CONSTANTS
  None = None
  Unset = Unset
  u1 = u1
  u2 = u2
  Users = {u1}
  MaxRequests = 1
  MaxCalls = 2
INVARIANT ApprovedIsLetIn
CHECK_DEADLOCK FALSE
