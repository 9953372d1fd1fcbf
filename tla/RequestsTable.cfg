SPECIFICATION Spec
CONSTANTS
  MaxRequests = 2
  MaxSwipes = 3
  MaxElsewhere = 1
  MaxLogins = 2
INVARIANTS
  TypeOK
  ArrayMirrorsView
  EveryRequestHasRow
  RowsAreTheirs
PROPERTIES
  ArrivalIsShown
CHECK_DEADLOCK FALSE
