CONSTANTS
  main = main
  popup = popup
  window = window
  off = off
  None = None
  Views = {main, popup}
  Overriding = {window}
  Keys = {off}
  Power = off
  LongPress <- LongPressKeys
SPECIFICATION Spec
INVARIANTS
  HoldsAreReal
  OneActionPerPress
