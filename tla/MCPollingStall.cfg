SPECIFICATION PollingSpec
CONSTANTS
  a = a
  b = b
  None = None
  Servers = {a, b}
  MaxConnects = 1
  MaxPending = 2
  MaxTexts = 3
CHECK_DEADLOCK FALSE
INVARIANT
  LoopIsAlive
