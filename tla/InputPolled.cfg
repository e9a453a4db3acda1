SPECIFICATION TermFairSpec
CONSTANTS
  Devices = {"TTI", "TTO"}
  Characters = {a}
  Nul = Nul
  MaxTyped = 1
  MaxDue = 1
PROPERTIES
  InputIsPolled
CHECK_DEADLOCK FALSE
