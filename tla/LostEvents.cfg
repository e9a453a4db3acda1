SPECIFICATION Spec
CONSTANTS
  cpu = cpu  tti = tti  rk = rk  rk0 = rk0  nobody = nobody  all = all
  s1 = s1  s2 = s2  d1 = d1
  Cpu = cpu
  Devices = {tti, rk}
  Units = {rk0}
  Stranger = nobody
  Everything = all
  OwnerOf <- MCOwnerOf
  Attachable = {rk0}
  Values = {0, 1}
  Zero = 0
  NoValue = NoValue
  DebugStates = {d1}
  NoDebug = NoDebug
  Slots = {s1, s2}
  NoEvent = NoEvent
  Delays = {0, 3}
  Batch = 2
  Commands <- TimerCommands
  Scripts <- OneSource
  NoCall = NoCall
  Pending = Pending
  Disconnected = Disconnected
PROPERTY ExpiredAreServiced
CHECK_DEADLOCK FALSE
