SPECIFICATION TimerSpec
CONSTANTS
  Timers = {x1, x2}
  Clients = {c1}
  None = None
  MaxTick = 7
  Start = 5
  Horizon = 10
  MaxCalls = 3
  MaxLag = 1
  QueueSize = 1
  Timeouts = {0, 2, 6}
  Periods = {2}
  Mods = {0, 1}
  CyclicAtWrap = FALSE
INVARIANTS
  TimerTypeOK
  NeverFiresEarly
  CountsMatchTime
  TimerListsSplitAtWrap
  WorkerWakesInTime
  ActiveMeansListed
SYMMETRY TimerSymmetry
CHECK_DEADLOCK FALSE
