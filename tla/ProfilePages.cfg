CONSTANTS
  Profiles = {a, b}
  Slots = {1}
  None = None
  MaxChanges = 1
  MaxInputs = 1
  MaxFaults = 1
  MaxInbox = 1
SPECIFICATION Spec
SYMMETRY ProfileSymmetry
INVARIANTS
  TypeOK
  OneProfileShown
  LoadedMatchesCore
  AgreesWithCore
  CurrentIsShown
CHECK_DEADLOCK FALSE
