SPECIFICATION TicklessSpec
CONSTANTS
  Threads = {a, b}
  Tpp = 6
  Skew = 3
  MinFirst = 3
  MaxLong = 3
  MinSleep = 2
  MaxTick = 7
  Latency = 5
  Waits = {1, 2, 4, 7}
  NestedWakes = FALSE
  SlowClock = FALSE
  Horizon = 13
INVARIANTS
  TicklessTypeOK
  TicksKept
  NoOversleep
  WakeEndsSleep
PROPERTIES
  UjiffiesForward
SYMMETRY ThreadSymmetry
CHECK_DEADLOCK FALSE
