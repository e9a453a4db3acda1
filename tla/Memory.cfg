CONSTANT Addresses = {0, 64, 127, 128, 255, 4095, 4224}
CONSTANT Words <- AllWords
CONSTANT Tapes <- AllTapes
CONSTANTS
  Fields = {0, 1}
  FieldSize = 4
  PageSize = 2
  AutoIndex = {1}
  Stored = {0, 3}
  Used = {1, 3}
  MaxUsed = 2
  NoCall = NoCall
SPECIFICATION MemorySpec
INVARIANTS ReachesThePrinted ComesBack TapesLoad SuccessMeansIntact
PROPERTIES ReturnsToCaller StaysInItsField
CHECK_DEADLOCK FALSE
