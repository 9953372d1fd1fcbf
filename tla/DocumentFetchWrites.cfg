SPECIFICATION Spec
CONSTANTS
  landlord = landlord
  nobody = nobody
  property = property
  Docs = {property}
  Denied = {}
  Users = {landlord, nobody}
  MaxFetches = 1
  MaxWrites = 2
  MaxClock = 3
  MaxFaults = 1
SYMMETRY UserSymmetry
INVARIANTS
  SyncedWasThere
  LimboIsUntold
CHECK_DEADLOCK FALSE
