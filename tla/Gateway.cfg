SPECIFICATION Spec
CONSTANTS
  Commands <- MCCommands
  Readings <- MCReadings
  Nodes <- MCNodes
  EuiDigits = 4
  Options <- MCOptions
  MaxClient = 1
  MaxReports = 1
  MaxOutages = 1
CHECK_DEADLOCK FALSE
INVARIANTS
  TypeOK
  NoEcho
  FramesTell
  ReadingsKept
