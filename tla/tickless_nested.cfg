SPECIFICATION TicklessSpec
CONSTANTS
  Threads = {a, b}
  Tpp = 5
  Skew = 2
  MinFirst = 2
  MaxLong = 3
  MinSleep = 2
  MaxTick = 7
  Latency = 3
  Waits = {1, 3, 6}
  NestedWakes = TRUE
  SlowClock = FALSE
  Horizon = 9
INVARIANTS
  NoOversleep
SYMMETRY ThreadSymmetry
CHECK_DEADLOCK FALSE
