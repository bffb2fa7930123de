CONSTANT MaxPlaybacks = 3
SPECIFICATION VoiceFairSpec
INVARIANTS
  EndedOrReplaced
  OnlyNewestPlays
PROPERTIES
  PlaybackEnds
CHECK_DEADLOCK FALSE
