SPECIFICATION InterruptsSpec
CONSTANTS
  Fields = {0, 1}
  FieldSize = 2
  NoContext = NoContext
  Devices = {"TTI", "TTO"}
  Characters = {a, b}
  Nul = Nul
  MaxTyped = 2
  MaxDue = 1
INVARIANTS
  NothingLost ResumeIsAtomic InputInOrder OutputInOrder
PROPERTIES
  ResumeIsExact UserModeSticks ImplementsLine
CHECK_DEADLOCK FALSE
