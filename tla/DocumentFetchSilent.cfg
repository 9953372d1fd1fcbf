SPECIFICATION SilentSpec
CONSTANTS
  Docs = {listing}
  Denied = {}
  Users = {tenant}
  MaxFetches = 2
  MaxWrites = 0
  MaxClock = 0
  MaxFaults = 1
PROPERTIES
  OnlineStateSettles
CHECK_DEADLOCK FALSE
