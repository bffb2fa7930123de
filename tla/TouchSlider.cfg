CONSTANTS
  NoCommand = NoCommand
  Values = {0, 1, 2}
  Rest = 0
SPECIFICATION SliderFairSpec
INVARIANTS
  StopsOnRelease
PROPERTIES
  OverlayCloses
