SPECIFICATION Spec
CONSTANTS
  Anonymous = anonymous
  Users = {anonymous, u}
  Failed = failed
  MaxPendingWrites = 2
  Refused = {2}
  MaxWrites = 3
  MaxChanges = 2
  MaxRefreshes = 1
  MaxFaults = 1
CHECK_DEADLOCK FALSE
INVARIANTS
  TypeOK
  PipelineIsFront
  ResponsesMatchPipeline
  TokenIsOfUser
  IdleIsDrained
  StartAwaitsToken
  CallbackIsForItsWrite
PROPERTIES
  IsDurableQueue
  WritesSettle
