SPECIFICATION TaskSpec
CONSTANTS
  t1 = t1
  t2 = t2
  t3 = t3
  Idle = Idle
  Null = Null
  Tasks = {t1, t2, t3}
  Sems = {}
  Mtxs = {x1}
  Cvs = {c1}
  Evts = {}
  Fifos = {}
  Bits = {}
  EvWaits = {}
  SyncBits = {}
  SetBits = {}
  Boot <- ThreeTasks
  BasePrio <- Prios
  NumPrio = 2
  MaxTick = 1
  Timeouts = {0}
  SemInit <- Zeros
  SemLimit <- Ones
  MaxLock = 0
  MaxSkipped = 0
  MaxValue = 1
  ResetValues = {0}
  MaxCount = 1
  NewPrios = {}
  MaxRef = 0
INVARIANTS
  InodeWhereStateSays
  OwnershipConsistent
  InheritanceReturned
SYMMETRY PairSymmetry
