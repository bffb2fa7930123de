CONSTANTS
  NumEntities = 3
  PageSize = 2
  MaxVersion = 3
  MaxGeneration = 3
SPECIFICATION FairSpec
INVARIANTS
  TypeOK
  LoadedMatchesCore
PROPERTIES
  OnlyDeletedIsRemoved
  LoadEnds
CHECK_DEADLOCK FALSE
