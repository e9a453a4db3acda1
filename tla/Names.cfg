SPECIFICATION NamesSpec
CONSTANTS
  CPU_DEVICE_NAME = CPU_name
  Names = {CPU_name, A, B}
  Resources = {R, S}
  CpuResources = {R}
  MaxDevices = 2
  MaxUnits = 2
  Letters = {a, b}
  Commands <- MCCommands
  Inputs <- MCInputs
  Actions = {act1, act2}
  NoAction = NoAction
  MaxCommands = 3
INVARIANTS LookupsAgree FindIsTheTable
CHECK_DEADLOCK FALSE
