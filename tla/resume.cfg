SPECIFICATION Spec
CONSTANTS
  t1 = t1
  t2 = t2
  t3 = t3
  Idle = Idle
  Null = Null
  Tasks = {t1, t2}
  Sems = {s1}
  Mtxs = {}
  Cvs = {}
  Evts = {}
  Fifos = {}
  Bits = {}
  EvWaits = {}
  SyncBits = {}
  SetBits = {}
  Boot <- TwoTasks
  BasePrio <- Prios
  NumPrio = 2
  MaxTick = 2
  Timeouts = {1}
  SemInit <- Zeros
  SemLimit <- Ones
  MaxLock = 0
  MaxSkipped = 0
  MaxValue = 1
  ResetValues = {0}
  MaxCount = 1
  NewPrios = {}
  MaxRef = 1
INVARIANTS
  SemOkMeansToken
