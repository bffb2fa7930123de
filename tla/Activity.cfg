CONSTANTS
  MaxStarts = 2
  MaxChanges = 4
  MaxLosses = 2
  MaxCommands = 2
SPECIFICATION Spec
INVARIANTS
  TypeOK
  ListMatchesCore
  ProgressEnds
  ReportedOncePerStart
CHECK_DEADLOCK FALSE
