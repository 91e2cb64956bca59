SPECIFICATION FairSemSpec
CONSTANTS
  t1 = t1
  t2 = t2
  t3 = t3
  Idle = Idle
  Null = Null
  Tasks = {t2, t3}
  Sems = {s1}
  Mtxs = {}
  Cvs = {}
  Evts = {}
  Fifos = {}
  Bits = {}
  EvWaits = {}
  SyncBits = {}
  SetBits = {}
  Boot <- EqualPair
  BasePrio <- Prios
  NumPrio = 2
  MaxTick = 2
  Timeouts = {1}
  SemInit <- Zeros
  SemLimit <- Ones
  MaxLock = 1
  MaxSkipped = 2
  MaxValue = 1
  ResetValues = {}
  MaxCount = 1
  NewPrios = {}
  MaxRef = 1
INVARIANTS
  TimeListsSplitAtWrap
  SemOkMeansToken
PROPERTIES
  RoundRobin
  TimedSemWaitReturns
