SPECIFICATION Spec
CONSTANTS
  None = None
  Unset = Unset
  u1 = u1
  u2 = u2
  Users = {u1, u2}
  MaxRequests = 1
  MaxCalls = 2
SYMMETRY UserSymmetry
INVARIANTS
  TypeOK
  SignUpDurable
  ScreenMatchesAccount
PROPERTIES
  AcknowledgedSignUpKeepsPairing
CHECK_DEADLOCK FALSE
