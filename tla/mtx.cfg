SPECIFICATION CondSpec
CONSTANTS
  t1 = t1
  t2 = t2
  t3 = t3
  Idle = Idle
  Null = Null
  Tasks = {t1, t2, t3}
  Sems = {}
  Mtxs = {x1, x2}
  Cvs = {c1}
  Evts = {}
  Fifos = {}
  Bits = {}
  EvWaits = {}
  SyncBits = {}
  SetBits = {}
  Boot <- ThreeTasks
  BasePrio <- Ladder
  NumPrio = 3
  MaxTick = 2
  Timeouts = {1}
  SemInit <- Zeros
  SemLimit <- Ones
  MaxLock = 0
  MaxSkipped = 0
  MaxValue = 1
  ResetValues = {0}
  MaxCount = 1
  NewPrios = {}
  MaxRef = 1
INVARIANTS
  WaitListsSorted
  OwnershipConsistent
  LockOkMeansOwner
  InheritanceReturned
  OwnerInherits
  CondWaiterReleased
