SPECIFICATION Spec
CONSTANTS
  Docs = {listing, account}
  Denied = {account}
  Users = {tenant}
  MaxFetches = 2
  MaxWrites = 0
  MaxClock = 1
  MaxFaults = 1
INVARIANTS
  TypeOK
  SyncedWasThere
  AnsweredOnce
  WatchedIsListened
  NoListenerLeft
  StreamIsNeeded
  TimerIsForAttempt
PROPERTIES
  FetchAnswered
CHECK_DEADLOCK FALSE
