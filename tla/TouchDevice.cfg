CONSTANTS
  NoValue = NoValue
  Positions = {1, 2}
  MaxQueue = 6
  MaxOutputs = 2
SPECIFICATION DeviceFairSpec
PROPERTIES
  ImplementsStream
  FinalPositionFirst
  TouchEnds
