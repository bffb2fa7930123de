CONSTANTS
  Presses = {p, q}
SPECIFICATION ReadinessFairSpec
INVARIANTS
  AnsweredOnce
  NoOrphanedWait
PROPERTIES
  EveryPressDecided
