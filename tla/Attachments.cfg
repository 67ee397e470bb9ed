SPECIFICATION LiveSpec
CONSTANTS
  Shapes <- AllShapes
  MAX_CHUNKS_PER_REQUEST = 1
  MaxInFlight = 2
  MaxCommands = 3
  MaxFaults = 2
INVARIANTS
  TypeOK
  CompleteIsWhole
PROPERTY
  Settles
CHECK_DEADLOCK FALSE
