SPECIFICATION ArithSpec
CONSTANTS
  Width = 4
  CountMask = 15
  FieldSize = 2
  Operands = {0, 8, 15}
  NoStore = NoStore
  BitAnd <- NumberAnd
  BitOr <- NumberOr
PROPERTY AndGroupSkipsOnAll
CHECK_DEADLOCK FALSE
