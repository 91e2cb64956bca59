SPECIFICATION EvtSpec
CONSTANTS
  t1 = t1
  t2 = t2
  t3 = t3
  Idle = Idle
  Null = Null
  Tasks = {t1, t2, t3}
  Sems = {}
  Mtxs = {}
  Cvs = {}
  Evts = {e1}
  Fifos = {}
  Bits = {0, 1}
  EvWaits <- TwoWaits
  SyncBits = {0, 1}
  SetBits = {{0}, {1}}
  Boot <- ThreeTasks
  BasePrio <- Prios
  NumPrio = 2
  MaxTick = 2
  Timeouts = {0}
  SemInit <- Zeros
  SemLimit <- Ones
  MaxLock = 0
  MaxSkipped = 0
  MaxValue = 1
  ResetValues = {0}
  MaxCount = 1
  NewPrios = {}
  MaxRef = 1
INVARIANTS
  NoMissedEvent
  EventOkMeansBits
SYMMETRY PairSymmetry
