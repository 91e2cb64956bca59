SPECIFICATION FifoSpec
CONSTANTS
  t1 = t1
  t2 = t2
  t3 = t3
  f1 = f1
  r1 = r1
  w1 = w1
  e1 = e1
  Tasks = {t1, t2, t3}
  Idle = idle
  Null = Null
  Sems = {r1, w1}
  Mtxs = {}
  Cvs = {}
  Evts = {e1}
  Fifos = {f1}
  Bits = {0}
  Boot <- ThreeTasks
  BasePrio <- Prios
  NumPrio = 2
  MaxTick = 1
  Timeouts = {0}
  SemInit <- TwoSlots
  SemLimit <- Zeros
  MaxLock = 1
  MaxSkipped = 1
  EvWaits <- OneWait
  SyncBits = {}
  SetBits = {}
  MaxValue = 3
  ResetValues = {}
  Item = {i1, i2}
  RxSem <- Rx
  TxSem <- Tx
  Poller = {t1}
INVARIANTS
  FifoTypeOK
  SlotsConserved
  NotUsedAfterDestroy
  PollerAwakeForItems
  HighestPriorityRuns
PROPERTIES
  IsBoundedFifo
