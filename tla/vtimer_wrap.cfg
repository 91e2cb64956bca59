SPECIFICATION TimerSpec
CONSTANTS
  Timers = {x1, x2}
  Clients = {c1}
  None = None
  MaxTick = 7
  Start = 5
  Horizon = 12
  MaxCalls = 3
  MaxLag = 1
  QueueSize = 1
  Timeouts = {3}
  Periods = {2}
  Mods = {0, 1}
  CyclicAtWrap = TRUE
INVARIANTS
  CountsMatchTime
SYMMETRY TimerSymmetry
CHECK_DEADLOCK FALSE
