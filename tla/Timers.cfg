SPECIFICATION TimersSpec
CONSTANTS
  Timers = {m, aux}
  Main = m
  MainRate = 2
  Rates = {3}
  InitialIPS = 20
  Batch = 2
  Second = 4
  GapTooBig = 7
  MaxDrift = 2
  Wrap = 16
  Readings = {1, 2, 9}
  MaxSamples = 3
  MaxExecuted = 16
  MaxDebt = 1
  Mega = 4
  Numbers = {0, 5, 101}
  Speeds = {0, 6, 30}
  SleepTimes = {0, 7}
  MinMeasure = 1
  Target = 3
  Lapses = {0, 3}
  DriftDefault = 5
  Drifts = {0, 7}
  StableMin = 1
  StableMax = 2
  StableDefault = 2
  Thresholds = {0, 1, 2, 3}
  NoController = NoController
INVARIANTS
  TimersTypeOK TicksKeepUp ProductInRange SlowedOnlyWhenFast
PROPERTIES
  CatchesUp DependentsInStep
