CONSTANTS
  NumDrivers = 3
  PageSize = 2
  MaxGeneration = 3
  MaxChanges = 1
SPECIFICATION FairSpec
INVARIANTS
  PendingIsInFlight
  StartIsServedOnce
  ErrorsFollowStates
  CleanLoadIsComplete
PROPERTIES
  LoadEnds
CHECK_DEADLOCK FALSE
