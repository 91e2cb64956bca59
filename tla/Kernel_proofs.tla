---------------------------- MODULE Kernel_proofs ----------------------------
(***************************************************************************)
(* The inductive invariant of the composed kernel, and what the functions  *)
(* of the scheduler that every service is built from do to it.             *)
(***************************************************************************)
EXTENDS Scheduler_proofs

\* The states of a task whose inode is on the ready list, and of one whose
\* inode_time may be on a time list.
Up    == {"READY", "RUNNING"}
Timed == {"SLEEPING", "WTSEM", "WTCOND", "WTEVT"}
Gone  == {"NONE", "ZOMBIE", "EXITED"}

\* The object t waits for, as Awaited says it.
Aw(m, c, t) == IF m.state[t] \in {"WTEXIT", "WTEVT"} THEN c[t].o ELSE m.obj[t]

\* The inode of every task is where its state says, but for the tasks of X,
\* which are on no list: they are just being moved.
ReadyPlaced(m, X) ==
  \A p \in Prio :
    /\ Distinct(m.ready[p])
    /\ \A t \in Task :
         t \in Range(m.ready[p]) <=> t \notin X /\ m.state[t] \in Up /\ m.prio[t] = p

WaitPlaced(m, c, X) ==
  \A o \in Obj :
    /\ Distinct(m.wait_list[o])
    /\ \A t \in Task :
         t \in Range(m.wait_list[o]) <=> t \notin X /\ m.state[t] \in Waiting /\ Aw(m, c, t) = o

\* The time lists are split at the wrap, and each holds a task at most once.
TimeLists(m) ==
  /\ Split(m)
  /\ Distinct(m.p_wait) /\ Distinct(m.pov_wait)
  /\ Range(m.p_wait) \cap Range(m.pov_wait) = {}

\* ... and only tasks with a timeout.
TimeOK(m) == TimeLists(m) /\ \A t \in OnTimeList(m) : m.state[t] \in Timed

\* The services that may block.
Blocking == {"sleep", "sem", "mtx", "cond", "evt", "sync", "exit", "suspend", "kill"}

\* At most the current task is RUNNING.  A current task that is on no ready
\* list executes no more than the yield it is before, and does so without the
\* scheduler lock; who holds that lock is in no call that blocks.  The idle
\* task never blocks.
CurrentOK(m, c, X) ==
  /\ \A t \in Task : m.state[t] = "RUNNING" => t = m.currp
  /\ m.currp \notin X /\ m.state[m.currp] \notin Up
       => m.sched_lock = 0 /\ (c[m.currp].pc = "yield" \/ m.pendsv)
  /\ m.sched_lock # 0 => c[m.currp].op \notin Blocking
  /\ Idle \notin X /\ m.state[Idle] \in Up /\ m.prio[Idle] = NumPrio
  /\ c[Idle].op \in {"none", "cleanup"} /\ c[Idle].pc \in {"run", "enter"}

\* The state s of a task in the call e, with the union obj holding o and the
\* flag wait_aborted being a: a waiting task is inside of the call its state
\* names, past the critical section that blocked it.
Blocked(s, e, o, a) ==
  /\ s \in Waiting => e.pc \in {"yield", "after"}
  /\ s = "WTSEM"  => e.op = "sem" /\ o \in Sems /\ e.o = o
  /\ s = "WTMTX"  => e.op = "mtx" /\ o \in Mtxs /\ e.o = o
  /\ s = "WTCOND" => e.op = "cond" /\ o \in Cvs
  /\ s = "WTEVT"  => e.op \in {"evt", "sync"}
  /\ s = "WTEXIT" => e.op = "exit"
  /\ s \in Waiting \ {"WTCOND"} => ~a

BlockedOK(m, c, X) ==
  \A t \in Task \ X : Blocked(m.state[t], c[t], m.obj[t], m.wait_aborted[t])

\* The kind of object each service works on; a rendezvous waits for all bits.
CallKind(e) ==
  /\ e.op = "sem" => e.o \in Sems
  /\ e.op \in {"mtx", "cond"} => e.o \in Mtxs
  /\ e.op \in {"evt", "sync", "notify"} => e.o \in Evts
  /\ e.op \in {"connect", "disconnect"} => e.o \in Notifier
  /\ e.op = "connect" => e.set # {}
  /\ e.op = "sync" => e.w.all
  /\ e.op \in {"exit", "cleanup", "unref"} => e.o \in Tasks
  /\ e.op \in {"none", "sleep", "suspend", "kill", "lock"} => e.o = Null
  /\ e.pc = "run" => e.op = "none"

CallsOK(c) == \A t \in Task : CallKind(c[t])

\* The zombies are on the zombie list, nobody waits for the exit of a task that
\* is gone, and who is about to free a control block is the only one.
Freeing(e) == e.op \in {"cleanup", "unref"}

LifeOK(m, c) ==
  /\ Distinct(m.zombie)
  /\ \A t \in Task :
       /\ t \in Range(m.zombie) <=> m.state[t] = "ZOMBIE"
       /\ m.state[t] = "NONE" => m.refcnt[t] = 0
       /\ m.state[t] \in Gone => m.wait_list[t] = <<>>
       /\ Freeing(c[t]) =>
            /\ m.state[c[t].o] = "EXITED" /\ m.refcnt[c[t].o] = 0
            /\ \A v \in Task \ {t} : Freeing(c[v]) => c[v].o # c[t].o

\* Nobody waits for an object that was destroyed, or will look at it again;
\* a notifier is connected to a group that exists.
Harmless(e, a) ==
  e.op \in {"sem", "mtx", "evt", "sync"} /\ e.pc \in {"yield", "after"} /\ ~a

AliveOK(m, c) ==
  /\ \A o \in Object \ m.live : m.wait_list[o] = <<>>
  /\ \A t \in Task : c[t].o \in Object \ m.live => Harmless(c[t], m.wait_aborted[t])
  /\ \A n \in Notifier : m.evt[n] # Null => m.evt[n] \in m.live /\ 0 \in Bits

\* Everything but the ownership of mutexes.
CoreInv(m, c, X) ==
  /\ m \in Kernel /\ c \in [Task -> Call] /\ X \subseteq Task
  /\ ReadyPlaced(m, X) /\ WaitPlaced(m, c, X)
  /\ TimeOK(m) /\ CurrentOK(m, c, X) /\ BlockedOK(m, c, X) /\ CallsOK(c)
  /\ LifeOK(m, c) /\ AliveOK(m, c)
  /\ ~m.bug

\* Owner, count and the list of owned mutexes agree, nobody waits for a free
\* mutex or for its own, no owner is dead, and the idle task owns nothing.
OwnersOK(m) ==
  /\ \A x \in Mtxs :
       /\ m.owner[x] = Null <=> m.count[x] = 0
       /\ m.owner[x] = Null => m.wait_list[x] = <<>>
       /\ m.owner[x] \notin Range(m.wait_list[x])
       /\ m.owner[x] # Null => m.state[m.owner[x]] \notin Gone
       /\ m.owner[x] # Idle
       /\ x \notin m.live => m.owner[x] = Null
  /\ \A t \in Task :
       /\ Distinct(m.owned[t])
       /\ \A x \in Mtxs : x \in Range(m.owned[t]) <=> m.owner[x] = t

\* The inductive invariant of the kernel.
KernelOK(m, c) == CoreInv(m, c, {}) /\ OwnersOK(m)

-----------------------------------------------------------------------------
(***************************************************************************)
(* What a function of the scheduler leaves alone.                          *)
(***************************************************************************)

\* The control of the processor, the objects and the lives of the tasks, as
\* far as the invariant speaks of them ...
SameCore(m, r) ==
  /\ r.currp = m.currp /\ r.sched_lock = m.sched_lock
  /\ r.owner = m.owner /\ r.count = m.count /\ r.owned = m.owned
  /\ r.zombie = m.zombie /\ r.refcnt = m.refcnt /\ r.wait_aborted = m.wait_aborted
  /\ r.live = m.live /\ r.evt = m.evt

\* ... and the rest of them.
SameRest(m, r) ==
  /\ r.value = m.value /\ r.bitset = m.bitset /\ r.bitno = m.bitno /\ r.grant = m.grant
  /\ r.real_prio = m.real_prio /\ r.skipped = m.skipped /\ r.yield_pending = m.yield_pending

\* The time lists.
SameTime(m, r) ==
  /\ r.p_wait = m.p_wait /\ r.pov_wait = m.pov_wait /\ r.deadline = m.deadline
  /\ r.left = m.left /\ r.jiffies = m.jiffies

\* What tasks wait for.
SameWaits(m, r) == r.wait_list = m.wait_list /\ r.obj = m.obj /\ r.evbits = m.evbits

\* The types of all fields.
LEMMA KernelTypes ==
  ASSUME NEW m \in Kernel
  PROVE  /\ m.state \in [Task -> State] /\ m.prio \in [Task -> Prio]
         /\ m.real_prio \in [Task -> Prio] /\ m.refcnt \in [Task -> Nat]
         /\ m.wait_aborted \in [Task -> BOOLEAN]
         /\ m.deadline \in [Task -> Tick] /\ m.left \in [Task -> Tick]
         /\ m.obj \in [Task -> Msg \cup Sems \cup Mtxs \cup Cvs] /\ m.evbits \in [Task -> EvBits]
         /\ m.owned \in [Task -> Seq(Mtxs)]
         /\ m.ready \in [Prio -> Seq(Task)]
         /\ m.p_wait \in Seq(Task) /\ m.pov_wait \in Seq(Task) /\ m.zombie \in Seq(Task)
         /\ m.wait_list \in [Obj -> Seq(Task)]
         /\ m.jiffies \in Tick /\ m.skipped \in Tick /\ m.sched_lock \in Nat
         /\ m.currp \in Task /\ m.pendsv \in BOOLEAN /\ m.yield_pending \in BOOLEAN
         /\ m.value \in [Sems -> Int] /\ m.bug \in BOOLEAN
         /\ m.owner \in [Mtxs -> Task \cup {Null}] /\ m.count \in [Mtxs -> Nat]
         /\ m.bitset \in [Evts -> SUBSET Bits] /\ m.evt \in [Notifier -> Evts \cup {Null}]
         /\ m.bitno \in [Notifier -> Bits \cup {0, InvalidBit}]
         /\ m.live \in SUBSET Object /\ m.grant \in SUBSET Task
BY DEF Kernel

\* Tasks in no list may be in any other state.
LEMMA ReadyFrame ==
  ASSUME NEW m, NEW r, NEW X, NEW Y, ReadyPlaced(m, X), r.ready = m.ready,
         \A t \in Task : (t \notin X /\ m.state[t] \in Up) <=> (t \notin Y /\ r.state[t] \in Up),
         \A t \in Task : t \notin X /\ m.state[t] \in Up => r.prio[t] = m.prio[t]
  PROVE  ReadyPlaced(r, Y)
BY DEF ReadyPlaced

\* The wait lists stay right while no waiting task changes state or object.
LEMMA WaitFrame ==
  ASSUME NEW m, NEW c, NEW r, NEW d, NEW X, NEW Y, WaitPlaced(m, c, X), r.wait_list = m.wait_list,
         \A t \in Task : (t \notin X /\ m.state[t] \in Waiting) <=> (t \notin Y /\ r.state[t] \in Waiting),
         \A t \in Task : t \notin X /\ m.state[t] \in Waiting => Aw(r, d, t) = Aw(m, c, t)
  PROVE  WaitPlaced(r, d, Y)
BY DEF WaitPlaced

\* add_ready_list links tasks that were on no list.
LEMMA AddReadyEffect ==
  ASSUME NEW m \in Kernel, NEW ts \in Seq(Task)
  PROVE  LET r == add_ready_list(m, ts) IN
         /\ r \in Kernel /\ SameCore(m, r) /\ SameRest(m, r) /\ SameTime(m, r) /\ SameWaits(m, r)
         /\ r.prio = m.prio /\ r.pendsv = m.pendsv
         /\ r.state = [t \in Task |-> IF t \in Range(ts) THEN "READY" ELSE m.state[t]]
         /\ r.bug = (m.bug \/ \E t \in Range(ts) : m.state[t] \in {"READY", "ZOMBIE"})
         /\ \A X : ReadyPlaced(m, X) /\ Distinct(ts) /\ Range(ts) \subseteq X
                     => ReadyPlaced(r, X \ Range(ts))
<1> DEFINE K(p) == Keep(ts, {t \in Task : m.prio[t] = p})
           f == [p \in Prio |-> m.ready[p] \o K(p)]
           g == [t \in Task |-> IF t \in Range(ts) THEN "READY" ELSE m.state[t]]
           b == m.bug \/ \E t \in Range(ts) : m.state[t] \in {"READY", "ZOMBIE"}
           r == [m EXCEPT !.bug = b, !.state = g, !.ready = f]
<1>1. add_ready_list(m, ts) = r
  BY DEF add_ready_list
<1>0. /\ m.state \in [Task -> State] /\ m.ready \in [Prio -> Seq(Task)] /\ m.prio \in [Task -> Prio]
      /\ Range(ts) \subseteq Task
  BY KernelTypes, EmptyRange
<1>2. ASSUME NEW p \in Prio
      PROVE  /\ f[p] \in Seq(Task)
             /\ \A t \in Task : t \in Range(f[p]) <=>
                  t \in Range(m.ready[p]) \/ (t \in Range(ts) /\ m.prio[t] = p)
             /\ Distinct(m.ready[p]) /\ Distinct(ts) /\ Range(ts) \cap Range(m.ready[p]) = {} => Distinct(f[p])
  <2> DEFINE S == {t \in Task : m.prio[t] = p}
  <2>1. K(p) \in Seq(Task) /\ Range(K(p)) = Range(ts) \cap S /\ (Distinct(ts) => Distinct(K(p)))
    BY KeepProperties, KeepOrder
  <2>2. m.ready[p] \in Seq(Task) /\ f[p] = m.ready[p] \o K(p)
    BY <1>0
  <2> HIDE DEF K, f
  <2>3. /\ f[p] \in Seq(Task) /\ Range(f[p]) = Range(m.ready[p]) \cup Range(K(p))
        /\ Distinct(m.ready[p]) /\ Distinct(K(p)) /\ Range(m.ready[p]) \cap Range(K(p)) = {} => Distinct(f[p])
    BY <2>1, <2>2, ConcatLists
  <2> QED BY <2>1, <2>3
<1>3. f \in [Prio -> Seq(Task)]
  <2>1. f = [p \in Prio |-> f[p]]
    OBVIOUS
  <2> HIDE DEF f
  <2> QED BY <1>2, <2>1
<1>4. g \in [Task -> State] /\ b \in BOOLEAN
  BY <1>0 DEF State
<1>g. \A t \in Task : g[t] = IF t \in Range(ts) THEN "READY" ELSE m.state[t]
  OBVIOUS
<1> HIDE DEF K, f, b, g
<1>5. /\ r \in Kernel /\ r.ready = f /\ r.state = g /\ r.bug = b
      /\ SameCore(m, r) /\ SameRest(m, r) /\ SameTime(m, r) /\ SameWaits(m, r)
      /\ r.prio = m.prio /\ r.pendsv = m.pendsv
  BY <1>3, <1>4 DEF Kernel, SameCore, SameRest, SameTime, SameWaits
<1> HIDE DEF r
<1>6. ASSUME NEW X, ReadyPlaced(m, X), Distinct(ts), Range(ts) \subseteq X
      PROVE  ReadyPlaced(r, X \ Range(ts))
  <2> SUFFICES ASSUME NEW p \in Prio
               PROVE  /\ Distinct(f[p])
                      /\ \A t \in Task : t \in Range(f[p]) <=>
                           t \notin X \ Range(ts) /\ g[t] \in Up /\ m.prio[t] = p
    BY <1>5 DEF ReadyPlaced
  <2>1. Distinct(m.ready[p]) /\ \A t \in Task :
          t \in Range(m.ready[p]) <=> t \notin X /\ m.state[t] \in Up /\ m.prio[t] = p
    BY <1>6 DEF ReadyPlaced
  <2>2. Distinct(f[p])
    BY <1>2, <1>6, <2>1, <1>0
  <2> QED BY <1>2, <1>6, <2>1, <2>2, <1>g DEF Up
<1> QED BY <1>1, <1>5, <1>6 DEF b, g

\* delete_from_ready_list takes a task off the ready list.
LEMMA DeleteReadyEffect ==
  ASSUME NEW m \in Kernel, NEW t \in Task
  PROVE  LET r == delete_from_ready_list(m, t) IN
         /\ r \in Kernel /\ SameCore(m, r) /\ SameRest(m, r) /\ SameTime(m, r) /\ SameWaits(m, r)
         /\ r.prio = m.prio /\ r.pendsv = m.pendsv /\ r.state = m.state /\ r.bug = m.bug
         /\ \A X : ReadyPlaced(m, X) => ReadyPlaced(r, X \cup {t})
<1> DEFINE f == [p \in Prio |-> Without(m.ready[p], {t})]
           r == [m EXCEPT !.ready = f]
<1>1. delete_from_ready_list(m, t) = r
  BY DEF delete_from_ready_list
<1>2. \A p \in Prio : m.ready[p] \in Seq(Task)
  BY KernelTypes
<1>3. ASSUME NEW p \in Prio
      PROVE  /\ f[p] \in Seq(Task) /\ Range(f[p]) = Range(m.ready[p]) \ {t}
             /\ Distinct(m.ready[p]) => Distinct(f[p])
  <2>1. f[p] = Without(m.ready[p], {t})
    OBVIOUS
  <2> HIDE DEF f
  <2> QED BY <1>2, <2>1, WithoutList
<1>4. f \in [Prio -> Seq(Task)]
  <2>1. f = [p \in Prio |-> f[p]]
    OBVIOUS
  <2> HIDE DEF f
  <2> QED BY <1>3, <2>1
<1> HIDE DEF f
<1>5. /\ r \in Kernel /\ r.ready = f /\ r.state = m.state /\ r.bug = m.bug
      /\ SameCore(m, r) /\ SameRest(m, r) /\ SameTime(m, r) /\ SameWaits(m, r)
      /\ r.prio = m.prio /\ r.pendsv = m.pendsv
  BY <1>4 DEF Kernel, SameCore, SameRest, SameTime, SameWaits
<1> HIDE DEF r
<1>6. \A X : ReadyPlaced(m, X) => ReadyPlaced(r, X \cup {t})
  BY <1>3, <1>5 DEF ReadyPlaced
<1> QED BY <1>1, <1>5, <1>6

\* unlink takes tasks off the wait lists.
LEMMA UnlinkEffect ==
  ASSUME NEW m \in Kernel, NEW S
  PROVE  LET r == unlink(m, S) IN
         /\ r \in Kernel /\ SameCore(m, r) /\ SameRest(m, r) /\ SameTime(m, r)
         /\ r.obj = m.obj /\ r.evbits = m.evbits /\ r.ready = m.ready
         /\ r.prio = m.prio /\ r.pendsv = m.pendsv /\ r.state = m.state /\ r.bug = m.bug
         /\ \A o \in Obj : Range(r.wait_list[o]) = Range(m.wait_list[o]) \ S
         /\ \A X, c : WaitPlaced(m, c, X) => WaitPlaced(r, c, X \cup S)
<1> DEFINE f == [o \in Obj |-> Without(m.wait_list[o], S)]
           r == [m EXCEPT !.wait_list = f]
<1>1. unlink(m, S) = r
  BY DEF unlink
<1>2. \A o \in Obj : m.wait_list[o] \in Seq(Task)
  BY KernelTypes
<1>3. ASSUME NEW o \in Obj
      PROVE  /\ f[o] \in Seq(Task) /\ Range(f[o]) = Range(m.wait_list[o]) \ S
             /\ Distinct(m.wait_list[o]) => Distinct(f[o])
  <2>1. f[o] = Without(m.wait_list[o], S)
    OBVIOUS
  <2> HIDE DEF f
  <2> QED BY <1>2, <2>1, WithoutList
<1>4. f \in [Obj -> Seq(Task)]
  <2>1. f = [o \in Obj |-> f[o]]
    OBVIOUS
  <2> HIDE DEF f
  <2> QED BY <1>3, <2>1
<1> HIDE DEF f
<1>5. /\ r \in Kernel /\ r.wait_list = f /\ r.state = m.state /\ r.bug = m.bug
      /\ SameCore(m, r) /\ SameRest(m, r) /\ SameTime(m, r)
      /\ r.obj = m.obj /\ r.evbits = m.evbits /\ r.ready = m.ready
      /\ r.prio = m.prio /\ r.pendsv = m.pendsv
  BY <1>4 DEF Kernel, SameCore, SameRest, SameTime
<1> HIDE DEF r
<1>6. \A X, c : WaitPlaced(m, c, X) => WaitPlaced(r, c, X \cup S)
  BY <1>3, <1>5 DEF WaitPlaced, Aw
<1> QED BY <1>1, <1>3, <1>5, <1>6

\* time_unlink takes tasks off the time lists.
LEMMA TimeUnlinkEffect ==
  ASSUME NEW m \in Kernel, NEW S
  PROVE  LET r == time_unlink(m, S) IN
         /\ r \in Kernel /\ SameCore(m, r) /\ SameRest(m, r) /\ SameWaits(m, r)
         /\ r.ready = m.ready /\ r.prio = m.prio /\ r.pendsv = m.pendsv
         /\ r.state = m.state /\ r.bug = m.bug /\ r.jiffies = m.jiffies
         /\ OnTimeList(r) = OnTimeList(m) \ S
         /\ TimeLists(m) => TimeLists(r)
<1> DEFINE p == Without(m.p_wait, S)
           q == Without(m.pov_wait, S)
           d == [t \in Task |-> IF t \in S THEN 0 ELSE m.deadline[t]]
           l == [t \in Task |-> IF t \in S THEN 0 ELSE m.left[t]]
           r == [m EXCEPT !.p_wait = p, !.pov_wait = q, !.deadline = d, !.left = l]
<1>1. time_unlink(m, S) = r
  BY DEF time_unlink
<1>2. m.p_wait \in Seq(Task) /\ m.pov_wait \in Seq(Task)
  BY KernelTypes
<1>3. /\ p \in Seq(Task) /\ Range(p) = Range(m.p_wait) \ S /\ (Distinct(m.p_wait) => Distinct(p))
      /\ SortedBy(m.p_wait, m.deadline) => SortedBy(p, m.deadline)
  BY <1>2, WithoutProperties
<1>4. /\ q \in Seq(Task) /\ Range(q) = Range(m.pov_wait) \ S /\ (Distinct(m.pov_wait) => Distinct(q))
      /\ SortedBy(m.pov_wait, m.deadline) => SortedBy(q, m.deadline)
  BY <1>2, WithoutProperties
<1>5. d \in [Task -> Tick] /\ l \in [Task -> Tick]
  BY KernelTypes, Ticks
<1>6. \A t \in Task \ S : d[t] = m.deadline[t]
  OBVIOUS
<1> HIDE DEF p, q, d, l
<1>7. /\ r \in Kernel
      /\ r.p_wait = p /\ r.pov_wait = q /\ r.deadline = d /\ r.jiffies = m.jiffies
      /\ SameCore(m, r) /\ SameRest(m, r) /\ SameWaits(m, r)
      /\ r.ready = m.ready /\ r.prio = m.prio /\ r.pendsv = m.pendsv
      /\ r.state = m.state /\ r.bug = m.bug
  BY <1>3, <1>4, <1>5 DEF Kernel, SameCore, SameRest, SameWaits
<1> HIDE DEF r
<1>8. \A t \in Range(p) \cup Range(q) : d[t] = m.deadline[t]
  BY <1>2, <1>3, <1>4, <1>6, EmptyRange
<1>9. /\ SortedBy(m.p_wait, m.deadline) => SortedBy(p, d)
      /\ SortedBy(m.pov_wait, m.deadline) => SortedBy(q, d)
  BY <1>3, <1>4, <1>8, SortedSame
<1>10. TimeLists(m) => TimeLists(r)
  BY <1>3, <1>4, <1>7, <1>8, <1>9 DEF TimeLists, Split
<1>11. OnTimeList(r) = OnTimeList(m) \ S
  BY <1>3, <1>4, <1>7 DEF OnTimeList
<1> QED BY <1>1, <1>7, <1>10, <1>11

\* wakeup makes tasks ready that are on no ready and on no wait list.
LEMMA WakeupEffect ==
  ASSUME NEW m \in Kernel, NEW ts \in Seq(Task), NEW msg \in Msg
  PROVE  LET r == wakeup(m, ts, msg) IN
         /\ r \in Kernel /\ SameCore(m, r) /\ SameRest(m, r)
         /\ r.wait_list = m.wait_list /\ r.prio = m.prio /\ r.pendsv = m.pendsv
         /\ r.jiffies = m.jiffies
         /\ r.state = [t \in Task |-> IF t \in Range(ts) THEN "READY" ELSE m.state[t]]
         /\ r.obj = [t \in Task |-> IF t \in Range(ts) THEN msg ELSE m.obj[t]]
         /\ r.evbits = [t \in Task |-> IF t \in Range(ts) THEN NoBits ELSE m.evbits[t]]
         /\ r.bug = (m.bug \/ \E t \in Range(ts) : m.state[t] \in {"READY", "ZOMBIE"})
         /\ OnTimeList(r) = OnTimeList(m) \ Range(ts)
         /\ TimeLists(m) => TimeLists(r)
         /\ \A X : ReadyPlaced(m, X) /\ Distinct(ts) /\ Range(ts) \subseteq X
                     => ReadyPlaced(r, X \ Range(ts))
<1> DEFINE n == time_unlink(m, Range(ts))
           ob == [t \in Task |-> IF t \in Range(ts) THEN msg ELSE n.obj[t]]
           ev == [t \in Task |-> IF t \in Range(ts) THEN NoBits ELSE n.evbits[t]]
           w == [n EXCEPT !.obj = ob, !.evbits = ev]
           r == add_ready_list(w, ts)
<1>1. wakeup(m, ts, msg) = r
  BY DEF wakeup
<1>2. /\ n \in Kernel /\ SameCore(m, n) /\ SameRest(m, n) /\ SameWaits(m, n)
      /\ n.ready = m.ready /\ n.prio = m.prio /\ n.pendsv = m.pendsv
      /\ n.state = m.state /\ n.bug = m.bug /\ n.jiffies = m.jiffies
      /\ OnTimeList(n) = OnTimeList(m) \ Range(ts)
      /\ TimeLists(m) => TimeLists(n)
  BY TimeUnlinkEffect
<1> HIDE DEF n
<1>3. /\ ob \in [Task -> Msg \cup Sems \cup Mtxs \cup Cvs] /\ ev \in [Task -> EvBits]
  BY <1>2, KernelTypes, NoBitsType
<1>4. /\ ob = [t \in Task |-> IF t \in Range(ts) THEN msg ELSE m.obj[t]]
      /\ ev = [t \in Task |-> IF t \in Range(ts) THEN NoBits ELSE m.evbits[t]]
  BY <1>2 DEF SameWaits
<1> HIDE DEF ob, ev
<1>5. /\ w \in Kernel /\ w.obj = ob /\ w.evbits = ev /\ w.wait_list = m.wait_list
      /\ SameCore(n, w) /\ SameRest(n, w) /\ SameTime(n, w)
      /\ w.ready = m.ready /\ w.prio = m.prio /\ w.pendsv = m.pendsv
      /\ w.state = m.state /\ w.bug = m.bug /\ w.jiffies = m.jiffies
  BY <1>2, <1>3 DEF Kernel, SameCore, SameRest, SameTime, SameWaits
<1> HIDE DEF w
<1>6. /\ r \in Kernel /\ SameCore(w, r) /\ SameRest(w, r) /\ SameTime(w, r) /\ SameWaits(w, r)
      /\ r.prio = w.prio /\ r.pendsv = w.pendsv
      /\ r.state = [t \in Task |-> IF t \in Range(ts) THEN "READY" ELSE w.state[t]]
      /\ r.bug = (w.bug \/ \E t \in Range(ts) : w.state[t] \in {"READY", "ZOMBIE"})
      /\ \A X : ReadyPlaced(w, X) /\ Distinct(ts) /\ Range(ts) \subseteq X
                  => ReadyPlaced(r, X \ Range(ts))
  BY <1>5, AddReadyEffect
<1> HIDE DEF r
<1>7. SameCore(m, r) /\ SameRest(m, r)
  BY <1>2, <1>5, <1>6 DEF SameCore, SameRest
<1>8. OnTimeList(r) = OnTimeList(m) \ Range(ts) /\ (TimeLists(m) => TimeLists(r))
  BY <1>2, <1>5, <1>6 DEF SameTime, OnTimeList, TimeLists, Split
<1>9. \A X : ReadyPlaced(m, X) => ReadyPlaced(w, X)
  BY <1>5 DEF ReadyPlaced
<1>10. r.jiffies = m.jiffies /\ r.wait_list = m.wait_list /\ r.obj = ob /\ r.evbits = ev
  BY <1>5, <1>6 DEF SameTime, SameWaits
<1> QED BY <1>1, <1>4, <1>5, <1>6, <1>7, <1>8, <1>9, <1>10

\* set_sleep takes the current task off the ready list.
LEMMA SetSleepEffect ==
  ASSUME NEW m \in Kernel, NEW newstate \in State
  PROVE  LET r == set_sleep(m, newstate) IN
         /\ r \in Kernel /\ SameCore(m, r) /\ SameRest(m, r) /\ SameTime(m, r) /\ SameWaits(m, r)
         /\ r.prio = m.prio /\ r.pendsv = m.pendsv /\ r.bug = m.bug
         /\ r.state = [m.state EXCEPT ![m.currp] = newstate]
         /\ \A X : ReadyPlaced(m, X) => ReadyPlaced(r, X \cup {m.currp})
<1> DEFINE n == delete_from_ready_list(m, m.currp)
           g == [n.state EXCEPT ![m.currp] = newstate]
           r == [n EXCEPT !.state = g]
<1>1. set_sleep(m, newstate) = r
  BY DEF set_sleep
<1>2. /\ n \in Kernel /\ SameCore(m, n) /\ SameRest(m, n) /\ SameTime(m, n) /\ SameWaits(m, n)
      /\ n.prio = m.prio /\ n.pendsv = m.pendsv /\ n.state = m.state /\ n.bug = m.bug
      /\ \A X : ReadyPlaced(m, X) => ReadyPlaced(n, X \cup {m.currp})
  BY DeleteReadyEffect, KernelTypes
<1> HIDE DEF n
<1>3. g \in [Task -> State] /\ \A t \in Task : g[t] = IF t = m.currp THEN newstate ELSE m.state[t]
  BY <1>2, KernelTypes
<1>4. g = [m.state EXCEPT ![m.currp] = newstate]
  BY <1>2
<1> HIDE DEF g
<1>5. /\ r \in Kernel /\ r.state = g /\ r.ready = n.ready
      /\ SameCore(n, r) /\ SameRest(n, r) /\ SameTime(n, r) /\ SameWaits(n, r)
      /\ r.prio = m.prio /\ r.pendsv = m.pendsv /\ r.bug = m.bug
  BY <1>2, <1>3 DEF Kernel, SameCore, SameRest, SameTime, SameWaits
<1> HIDE DEF r
<1>6. SameCore(m, r) /\ SameRest(m, r) /\ SameTime(m, r) /\ SameWaits(m, r)
  BY <1>2, <1>5 DEF SameCore, SameRest, SameTime, SameWaits
<1>7. ASSUME NEW X, ReadyPlaced(m, X)
      PROVE  ReadyPlaced(r, X \cup {m.currp})
  <2>1. ReadyPlaced(n, X \cup {m.currp})
    BY <1>2, <1>7
  <2>2. \A t \in Task : t \notin X \cup {m.currp} => r.state[t] = n.state[t] /\ r.prio[t] = n.prio[t]
    BY <1>2, <1>3, <1>5
  <2> HIDE DEF Up
  <2> QED BY <2>1, <2>2, <1>5 DEF ReadyPlaced
<1> QED BY <1>1, <1>4, <1>5, <1>6, <1>7

\* add_task_to_waiting_list puts a task that is on no time list on the one of
\* its turn of the counter.
LEMMA AddTimeEffect ==
  ASSUME NEW m \in Kernel, NEW t \in Task, NEW timeout \in Tick, timeout # Infinite,
         t \notin OnTimeList(m), TimeLists(m)
  PROVE  LET r == add_task_to_waiting_list(m, t, timeout) IN
         /\ r \in Kernel /\ SameCore(m, r) /\ SameRest(m, r) /\ SameWaits(m, r)
         /\ r.ready = m.ready /\ r.prio = m.prio /\ r.pendsv = m.pendsv
         /\ r.state = m.state /\ r.bug = m.bug /\ r.jiffies = m.jiffies
         /\ OnTimeList(r) = OnTimeList(m) \cup {t}
         /\ TimeLists(r)
<1> DEFINE at == (m.jiffies + timeout) % (MaxTick + 1)
           dl == [m.deadline EXCEPT ![t] = at]
           lf == [m.left EXCEPT ![t] = timeout]
           n  == [m EXCEPT !.deadline = dl, !.left = lf]
           rp == [n EXCEPT !.p_wait = InsertSorted(n.p_wait, t, dl)]
           rq == [n EXCEPT !.pov_wait = InsertSorted(n.pov_wait, t, dl)]
           r  == add_task_to_waiting_list(m, t, timeout)
<1>0. m.jiffies \in Tick /\ m.p_wait \in Seq(Task) /\ m.pov_wait \in Seq(Task)
      /\ m.deadline \in [Task -> Tick] /\ m.left \in [Task -> Tick]
  BY KernelTypes
<1>1. r = IF at < m.jiffies THEN rq ELSE rp
  BY DEF add_task_to_waiting_list
<1>2. at \in Tick
  BY <1>0, Deadline
<1>3. dl \in [Task -> Tick] /\ dl \in [Task -> Int] /\ lf \in [Task -> Tick]
  BY <1>0, <1>2, Ticks
<1> HIDE DEF at, dl, lf
<1>4. /\ n \in Kernel /\ n.p_wait = m.p_wait /\ n.pov_wait = m.pov_wait
      /\ SameCore(m, n) /\ SameRest(m, n) /\ SameWaits(m, n)
      /\ n.ready = m.ready /\ n.prio = m.prio /\ n.pendsv = m.pendsv
      /\ n.state = m.state /\ n.bug = m.bug /\ n.jiffies = m.jiffies
  BY <1>3 DEF Kernel, SameCore, SameRest, SameWaits
<1> DEFINE p == InsertSorted(n.p_wait, t, dl)
           q == InsertSorted(n.pov_wait, t, dl)
<1>5. /\ p \in Seq(Task) /\ Range(p) = Range(m.p_wait) \cup {t} /\ (Distinct(m.p_wait) => Distinct(p))
      /\ q \in Seq(Task) /\ Range(q) = Range(m.pov_wait) \cup {t} /\ (Distinct(m.pov_wait) => Distinct(q))
  BY <1>0, <1>3, <1>4, InsertSortedProperties DEF OnTimeList
<1> HIDE DEF n, p, q
<1>6. /\ rp \in Kernel /\ rp.p_wait = p /\ rp.pov_wait = m.pov_wait
      /\ SameCore(m, rp) /\ SameRest(m, rp) /\ SameWaits(m, rp)
      /\ rp.ready = m.ready /\ rp.prio = m.prio /\ rp.pendsv = m.pendsv
      /\ rp.state = m.state /\ rp.bug = m.bug /\ rp.jiffies = m.jiffies
  BY <1>4, <1>5 DEF p, Kernel, SameCore, SameRest, SameWaits
<1>7. /\ rq \in Kernel /\ rq.p_wait = m.p_wait /\ rq.pov_wait = q
      /\ SameCore(m, rq) /\ SameRest(m, rq) /\ SameWaits(m, rq)
      /\ rq.ready = m.ready /\ rq.prio = m.prio /\ rq.pendsv = m.pendsv
      /\ rq.state = m.state /\ rq.bug = m.bug /\ rq.jiffies = m.jiffies
  BY <1>4, <1>5 DEF q, Kernel, SameCore, SameRest, SameWaits
<1>8. Split(r) /\ OnTimeList(r) = OnTimeList(m) \cup {t}
  BY AddTaskToWaitingList DEF TimeLists
<1>9. TimeLists(r)
  BY <1>1, <1>5, <1>6, <1>7, <1>8 DEF TimeLists, OnTimeList
<1> QED BY <1>1, <1>6, <1>7, <1>8, <1>9

-----------------------------------------------------------------------------
(***************************************************************************)
(* How the invariant fares while tasks are moved.                          *)
(***************************************************************************)

\* Where every inode is, and the clock.
SameLinks(m, r) ==
  /\ r.state = m.state /\ r.ready = m.ready /\ r.wait_list = m.wait_list /\ r.zombie = m.zombie
  /\ r.p_wait = m.p_wait /\ r.pov_wait = m.pov_wait
  /\ r.deadline = m.deadline /\ r.jiffies = m.jiffies

SameControl(m, r) ==
  /\ r.currp = m.currp /\ r.sched_lock = m.sched_lock /\ r.refcnt = m.refcnt
  /\ r.live = m.live /\ r.evt = m.evt /\ r.bug = m.bug

\* The parts of the invariant as facts, without their definitions.
LEMMA CoreParts ==
  ASSUME NEW m, NEW c, NEW X, CoreInv(m, c, X)
  PROVE  /\ m \in Kernel /\ c \in [Task -> Call] /\ X \subseteq Task /\ ~m.bug
         /\ ReadyPlaced(m, X) /\ WaitPlaced(m, c, X)
         /\ TimeOK(m) /\ CurrentOK(m, c, X) /\ BlockedOK(m, c, X) /\ CallsOK(c)
         /\ LifeOK(m, c) /\ AliveOK(m, c)
         /\ m.currp \in Task /\ Idle \in Task
BY KernelTypes DEF CoreInv, Task

\* The memory of the objects, the history, the messages of tasks that wait for
\* nothing and the priorities of tasks on no list may change.
LEMMA AlterOK ==
  ASSUME NEW m, NEW c, NEW X, CoreInv(m, c, X),
         NEW r \in Kernel, SameLinks(m, r), SameControl(m, r),
         m.pendsv => r.pendsv,
         \A t \in Task : r.wait_aborted[t] => m.wait_aborted[t],
         \A t \in Task : t \notin X /\ m.state[t] \in Waiting => r.obj[t] = m.obj[t],
         \A t \in Task : t \notin X /\ m.state[t] \in Up => r.prio[t] = m.prio[t]
  PROVE  CoreInv(r, c, X)
<1>0. /\ m \in Kernel /\ c \in [Task -> Call] /\ X \subseteq Task /\ ~m.bug
      /\ ReadyPlaced(m, X) /\ WaitPlaced(m, c, X)
      /\ TimeOK(m) /\ CurrentOK(m, c, X) /\ BlockedOK(m, c, X) /\ CallsOK(c)
      /\ LifeOK(m, c) /\ AliveOK(m, c) /\ m.currp \in Task /\ Idle \in Task
  BY CoreParts
<1>1. ReadyPlaced(r, X)
  BY <1>0, ReadyFrame DEF SameLinks
<1>2. WaitPlaced(r, c, X)
  <2>1. \A t \in Task : t \notin X /\ m.state[t] \in Waiting => Aw(r, c, t) = Aw(m, c, t)
    BY DEF SameLinks, Aw
  <2> QED BY <1>0, <2>1, WaitFrame DEF SameLinks
<1>3. TimeOK(r)
  BY <1>0 DEF TimeOK, TimeLists, Split, OnTimeList, SameLinks
<1>4. CurrentOK(r, c, X)
  BY <1>0 DEF CurrentOK, SameLinks, SameControl
<1>5. BlockedOK(r, c, X)
  BY <1>0 DEF BlockedOK, Blocked, SameLinks, Waiting
<1>6. LifeOK(r, c) /\ ~r.bug
  BY <1>0 DEF LifeOK, SameLinks, SameControl
<1>7. AliveOK(r, c)
  BY <1>0 DEF AliveOK, Harmless, SameLinks, SameControl
<1> QED BY <1>0, <1>1, <1>2, <1>3, <1>4, <1>5, <1>6, <1>7 DEF CoreInv

\* Ownership depends on these fields alone.
LEMMA OwnersFrame ==
  ASSUME NEW m, NEW r, OwnersOK(m),
         r.owner = m.owner, r.count = m.count, r.owned = m.owned, r.live = m.live,
         \A x \in Mtxs : /\ m.wait_list[x] = <<>> => r.wait_list[x] = <<>>
                         /\ Range(r.wait_list[x]) \subseteq Range(m.wait_list[x]),
         \A x \in Mtxs : m.owner[x] # Null => r.state[m.owner[x]] \notin Gone
  PROVE  OwnersOK(r)
BY DEF OwnersOK

\* The task t enters another call, or gets on with the one it is in.
LEMMA CallOK ==
  ASSUME NEW m, NEW c, NEW X, CoreInv(m, c, X), NEW t \in Task, NEW e \in Call, CallKind(e),
         \/ t \in X \/ m.state[t] \notin Waiting
         \/ e.op = c[t].op /\ e.o = c[t].o /\ e.pc \in {"yield", "after"},
         t = m.currp /\ t \notin X /\ m.state[t] \notin Up => e.pc = "yield" \/ m.pendsv,
         t = m.currp /\ m.sched_lock # 0 => e.op \notin Blocking,
         t = Idle => e.op \in {"none", "cleanup"} /\ e.pc \in {"run", "enter"},
         e.o \in Object \ m.live => Harmless(e, m.wait_aborted[t]),
         Freeing(e) => /\ m.state[e.o] = "EXITED" /\ m.refcnt[e.o] = 0
                       /\ \A v \in Task \ {t} : Freeing(c[v]) => c[v].o # e.o
  PROVE  CoreInv(m, [c EXCEPT ![t] = e], X)
<1> DEFINE d == [c EXCEPT ![t] = e]
<1>0. /\ m \in Kernel /\ c \in [Task -> Call] /\ X \subseteq Task /\ ~m.bug
      /\ ReadyPlaced(m, X) /\ WaitPlaced(m, c, X)
      /\ TimeOK(m) /\ CurrentOK(m, c, X) /\ BlockedOK(m, c, X) /\ CallsOK(c)
      /\ LifeOK(m, c) /\ AliveOK(m, c) /\ m.currp \in Task /\ Idle \in Task
  BY CoreParts
<1>1. d \in [Task -> Call] /\ d[t] = e /\ \A u \in Task \ {t} : d[u] = c[u]
  BY <1>0
<1> HIDE DEF d
<1>2. WaitPlaced(m, d, X)
  <2>1. \A u \in Task : u \notin X /\ m.state[u] \in Waiting => Aw(m, d, u) = Aw(m, c, u)
    BY <1>1 DEF Aw
  <2> QED BY <1>0, <2>1, WaitFrame
<1>3. CurrentOK(m, d, X)
  BY <1>0, <1>1 DEF CurrentOK
<1>4. BlockedOK(m, d, X)
  BY <1>0, <1>1 DEF BlockedOK, Blocked, Waiting
<1>5. CallsOK(d)
  BY <1>0, <1>1 DEF CallsOK
<1>6. LifeOK(m, d)
  BY <1>0, <1>1 DEF LifeOK
<1>7. AliveOK(m, d)
  BY <1>0, <1>1 DEF AliveOK
<1> QED BY <1>0, <1>1, <1>2, <1>3, <1>4, <1>5, <1>6, <1>7 DEF CoreInv, d

\* delete_from_ready_list of a task that waits for nothing.
LEMMA TakeReadyOK ==
  ASSUME NEW m, NEW c, NEW X, CoreInv(m, c, X), NEW t \in Task \ {Idle}, m.state[t] \notin Waiting
  PROVE  /\ CoreInv(delete_from_ready_list(m, t), c, X \cup {t})
         /\ OwnersOK(m) => OwnersOK(delete_from_ready_list(m, t))
<1> DEFINE r == delete_from_ready_list(m, t)
           Y == X \cup {t}
<1>0. /\ m \in Kernel /\ c \in [Task -> Call] /\ X \subseteq Task /\ ~m.bug
      /\ ReadyPlaced(m, X) /\ WaitPlaced(m, c, X)
      /\ TimeOK(m) /\ CurrentOK(m, c, X) /\ BlockedOK(m, c, X) /\ CallsOK(c)
      /\ LifeOK(m, c) /\ AliveOK(m, c) /\ m.currp \in Task /\ Idle \in Task
  BY CoreParts
<1>1. /\ r \in Kernel /\ SameCore(m, r) /\ SameRest(m, r) /\ SameTime(m, r) /\ SameWaits(m, r)
      /\ r.prio = m.prio /\ r.pendsv = m.pendsv /\ r.state = m.state /\ r.bug = m.bug
      /\ ReadyPlaced(r, Y)
  BY <1>0, DeleteReadyEffect
<1> HIDE DEF r
<1>2. WaitPlaced(r, c, Y)
  <2>1. \A u \in Task : u \notin X /\ m.state[u] \in Waiting => Aw(r, c, u) = Aw(m, c, u)
    BY <1>1 DEF Aw, SameWaits
  <2> QED BY <1>0, <1>1, <2>1, WaitFrame DEF SameWaits
<1>3. TimeOK(r)
  BY <1>0, <1>1 DEF TimeOK, TimeLists, Split, OnTimeList, SameTime
<1>4. CurrentOK(r, c, Y)
  BY <1>0, <1>1 DEF CurrentOK, SameCore
<1>5. BlockedOK(r, c, Y)
  BY <1>0, <1>1 DEF BlockedOK, SameWaits, SameCore
<1>6. LifeOK(r, c) /\ ~r.bug
  BY <1>0, <1>1 DEF LifeOK, SameWaits, SameCore
<1>7. AliveOK(r, c)
  BY <1>0, <1>1 DEF AliveOK, SameWaits, SameCore
<1>8. OwnersOK(m) => OwnersOK(r)
  BY <1>1 DEF OwnersOK, SameWaits, SameCore
<1> QED BY <1>0, <1>1, <1>2, <1>3, <1>4, <1>5, <1>6, <1>7, <1>8 DEF CoreInv, r

\* unlink of tasks that are on no ready list.
LEMMA TakeWaitOK ==
  ASSUME NEW m, NEW c, NEW X, CoreInv(m, c, X), NEW S \in SUBSET Task,
         \A t \in S : m.state[t] \notin Up
  PROVE  /\ CoreInv(unlink(m, S), c, X \cup S)
         /\ OwnersOK(m) => OwnersOK(unlink(m, S))
<1> DEFINE r == unlink(m, S)
           Y == X \cup S
<1>0. /\ m \in Kernel /\ c \in [Task -> Call] /\ X \subseteq Task /\ ~m.bug
      /\ ReadyPlaced(m, X) /\ WaitPlaced(m, c, X)
      /\ TimeOK(m) /\ CurrentOK(m, c, X) /\ BlockedOK(m, c, X) /\ CallsOK(c)
      /\ LifeOK(m, c) /\ AliveOK(m, c) /\ m.currp \in Task /\ Idle \in Task
  BY CoreParts
<1>1. /\ r \in Kernel /\ SameCore(m, r) /\ SameRest(m, r) /\ SameTime(m, r)
      /\ r.obj = m.obj /\ r.evbits = m.evbits /\ r.ready = m.ready
      /\ r.prio = m.prio /\ r.pendsv = m.pendsv /\ r.state = m.state /\ r.bug = m.bug
      /\ \A o \in Obj : Range(r.wait_list[o]) = Range(m.wait_list[o]) \ S
      /\ WaitPlaced(r, c, Y)
  BY <1>0, UnlinkEffect
<1> HIDE DEF r
<1>2. \A o \in Obj : m.wait_list[o] = <<>> => r.wait_list[o] = <<>>
  <2>1. \A o \in Obj : m.wait_list[o] \in Seq(Task) /\ r.wait_list[o] \in Seq(Task)
    BY <1>0, <1>1, KernelTypes
  <2>2. \A s \in Seq(Task) : s = <<>> <=> Range(s) = {}
    BY EmptyRange
  <2> QED BY <1>1, <2>1, <2>2
<1>3. TimeOK(r)
  BY <1>0, <1>1 DEF TimeOK, TimeLists, Split, OnTimeList, SameTime
<1>4. CurrentOK(r, c, Y)
  BY <1>0, <1>1 DEF CurrentOK, SameCore
<1>5. BlockedOK(r, c, Y)
  BY <1>0, <1>1 DEF BlockedOK, SameCore
<1>6. LifeOK(r, c) /\ ~r.bug
  BY <1>0, <1>1, <1>2 DEF LifeOK, SameCore, Obj
<1>7. AliveOK(r, c)
  BY <1>0, <1>1, <1>2 DEF AliveOK, SameCore, Obj
<1>8. OwnersOK(m) => OwnersOK(r)
  <2>1. \A x \in Mtxs : x \in Obj
    BY DEF Obj, Object
  <2> QED BY <1>1, <1>2, <2>1, OwnersFrame DEF SameCore, OwnersOK
<1>9. ReadyPlaced(r, Y)
  BY <1>0, <1>1, ReadyFrame
<1> QED BY <1>0, <1>1, <1>3, <1>4, <1>5, <1>6, <1>7, <1>8, <1>9 DEF CoreInv, r

\* time_unlink.
LEMMA TakeTimeOK ==
  ASSUME NEW m, NEW c, NEW X, CoreInv(m, c, X), NEW S
  PROVE  /\ CoreInv(time_unlink(m, S), c, X)
         /\ OwnersOK(m) => OwnersOK(time_unlink(m, S))
<1> DEFINE r == time_unlink(m, S)
<1>0. /\ m \in Kernel /\ c \in [Task -> Call] /\ X \subseteq Task /\ ~m.bug
      /\ ReadyPlaced(m, X) /\ WaitPlaced(m, c, X)
      /\ TimeOK(m) /\ CurrentOK(m, c, X) /\ BlockedOK(m, c, X) /\ CallsOK(c)
      /\ LifeOK(m, c) /\ AliveOK(m, c) /\ m.currp \in Task /\ Idle \in Task
  BY CoreParts
<1>1. /\ r \in Kernel /\ SameCore(m, r) /\ SameRest(m, r) /\ SameWaits(m, r)
      /\ r.ready = m.ready /\ r.prio = m.prio /\ r.pendsv = m.pendsv
      /\ r.state = m.state /\ r.bug = m.bug /\ r.jiffies = m.jiffies
      /\ OnTimeList(r) = OnTimeList(m) \ S
      /\ TimeLists(m) => TimeLists(r)
  BY <1>0, TimeUnlinkEffect
<1> HIDE DEF r
<1>2. ReadyPlaced(r, X) /\ WaitPlaced(r, c, X)
  BY <1>0, <1>1 DEF ReadyPlaced, WaitPlaced, SameWaits, Aw
<1>3. TimeOK(r)
  BY <1>0, <1>1 DEF TimeOK
<1>4. CurrentOK(r, c, X)
  BY <1>0, <1>1 DEF CurrentOK, SameCore
<1>5. BlockedOK(r, c, X)
  BY <1>0, <1>1 DEF BlockedOK, SameWaits, SameCore
<1>6. LifeOK(r, c) /\ ~r.bug
  BY <1>0, <1>1 DEF LifeOK, SameWaits, SameCore
<1>7. AliveOK(r, c)
  BY <1>0, <1>1 DEF AliveOK, SameWaits, SameCore
<1>8. OwnersOK(m) => OwnersOK(r)
  BY <1>1 DEF OwnersOK, SameWaits, SameCore
<1> QED BY <1>0, <1>1, <1>2, <1>3, <1>4, <1>5, <1>6, <1>7, <1>8 DEF CoreInv, r

\* add_ready_list of some of the tasks that are being moved.
LEMMA MakeSomeReadyOK ==
  ASSUME NEW m, NEW c, NEW X, CoreInv(m, c, X),
         NEW ts \in Seq(Task), Distinct(ts), Range(ts) \subseteq X,
         \A t \in Range(ts) : /\ t \notin OnTimeList(m)
                              /\ m.state[t] \notin Up \cup {"ZOMBIE", "EXITED"}
  PROVE  /\ CoreInv(add_ready_list(m, ts), c, X \ Range(ts))
         /\ OwnersOK(m) => OwnersOK(add_ready_list(m, ts))
<1> DEFINE r == add_ready_list(m, ts)
           S == Range(ts)
           Y == X \ Range(ts)
<1>0. /\ m \in Kernel /\ c \in [Task -> Call] /\ X \subseteq Task /\ ~m.bug
      /\ ReadyPlaced(m, X) /\ WaitPlaced(m, c, X)
      /\ TimeOK(m) /\ CurrentOK(m, c, X) /\ BlockedOK(m, c, X) /\ CallsOK(c)
      /\ LifeOK(m, c) /\ AliveOK(m, c) /\ m.currp \in Task /\ Idle \in Task
  BY CoreParts
<1>1. /\ r \in Kernel /\ SameCore(m, r) /\ SameRest(m, r) /\ SameTime(m, r) /\ SameWaits(m, r)
      /\ r.prio = m.prio /\ r.pendsv = m.pendsv
      /\ r.bug = (m.bug \/ \E t \in S : m.state[t] \in {"READY", "ZOMBIE"})
      /\ r.state = [t \in Task |-> IF t \in S THEN "READY" ELSE m.state[t]]
      /\ ReadyPlaced(r, Y)
  BY <1>0, AddReadyEffect
<1>2. \A t \in Task : r.state[t] = IF t \in S THEN "READY" ELSE m.state[t]
  BY <1>1
<1> HIDE DEF r, S
<1>4. WaitPlaced(r, c, Y)
  <2>1. \A u \in Task : u \notin X /\ m.state[u] \in Waiting => Aw(r, c, u) = Aw(m, c, u)
    BY <1>1, <1>2 DEF Aw, SameWaits, S
  <2>2. \A u \in Task : (u \notin X /\ m.state[u] \in Waiting) <=> (u \notin Y /\ r.state[u] \in Waiting)
    BY <1>2 DEF Waiting, S
  <2> QED BY <1>0, <1>1, <2>1, <2>2, WaitFrame DEF SameWaits
<1>5. TimeOK(r)
  <2>1. OnTimeList(r) = OnTimeList(m) /\ TimeLists(r)
    BY <1>0, <1>1 DEF TimeOK, TimeLists, Split, OnTimeList, SameTime
  <2>2. \A t \in OnTimeList(m) : t \in Task
    BY <1>0, KernelTypes, RangeType DEF OnTimeList
  <2> QED BY <1>0, <1>2, <2>1, <2>2 DEF TimeOK, S
<1>6. CurrentOK(r, c, Y)
  BY <1>0, <1>1, <1>2 DEF CurrentOK, SameCore, Up, S
<1>7. BlockedOK(r, c, Y)
  BY <1>0, <1>1, <1>2 DEF BlockedOK, Blocked, SameWaits, SameCore, Waiting, S
<1>8. LifeOK(r, c)
  <2>1. \A t \in Task : r.state[t] = "ZOMBIE" <=> m.state[t] = "ZOMBIE"
    BY <1>2 DEF S
  <2>2. \A t \in Task : r.state[t] \in Gone => m.state[t] = r.state[t]
    BY <1>2 DEF Gone
  <2>3. \A t \in Task : Freeing(c[t]) => c[t].o \in Task /\ m.state[c[t].o] = "EXITED"
    BY <1>0 DEF LifeOK, Freeing, CallsOK, CallKind, Task
  <2>4. \A t \in Task : Freeing(c[t]) => r.state[c[t].o] = "EXITED"
    BY <1>2, <2>3 DEF S
  <2> QED BY <1>0, <1>1, <2>1, <2>2, <2>4 DEF LifeOK, SameWaits, SameCore, Gone
<1>9. AliveOK(r, c)
  BY <1>0, <1>1 DEF AliveOK, SameWaits, SameCore
<1>10. OwnersOK(m) => OwnersOK(r)
  <2>1. \A x \in Mtxs : m.owner[x] # Null => m.owner[x] \in Task
    BY <1>0, KernelTypes
  <2> QED BY <1>1, <1>2, <2>1 DEF OwnersOK, SameWaits, SameCore, Gone
<1>11. ~r.bug
  BY <1>0, <1>1 DEF S, Up
<1> QED BY <1>0, <1>1, <1>4, <1>5, <1>6, <1>7, <1>8, <1>9, <1>10, <1>11 DEF CoreInv, r

\* add_ready_list of the tasks that were being moved.
LEMMA MakeReadyOK ==
  ASSUME NEW m, NEW c, NEW ts \in Seq(Task), CoreInv(m, c, Range(ts)), Distinct(ts),
         \A t \in Range(ts) : /\ t \notin OnTimeList(m)
                              /\ m.state[t] \notin Up \cup {"ZOMBIE", "EXITED"}
  PROVE  /\ CoreInv(add_ready_list(m, ts), c, {})
         /\ OwnersOK(m) => OwnersOK(add_ready_list(m, ts))
<1> DEFINE X == Range(ts)
<1>1. CoreInv(add_ready_list(m, ts), c, X \ X) /\ (OwnersOK(m) => OwnersOK(add_ready_list(m, ts)))
  BY MakeSomeReadyOK
<1>2. X \ X = {}
  OBVIOUS
<1> QED BY <1>1, <1>2

\* wakeup of the tasks that were being moved.
LEMMA WakeOK ==
  ASSUME NEW m, NEW c, NEW ts \in Seq(Task), CoreInv(m, c, Range(ts)), Distinct(ts),
         \A t \in Range(ts) : m.state[t] \notin Up \cup {"ZOMBIE", "EXITED"},
         NEW msg \in Msg
  PROVE  /\ CoreInv(wakeup(m, ts, msg), c, {})
         /\ OwnersOK(m) => OwnersOK(wakeup(m, ts, msg))
<1> DEFINE n == time_unlink(m, Range(ts))
           ob == [t \in Task |-> IF t \in Range(ts) THEN msg ELSE n.obj[t]]
           ev == [t \in Task |-> IF t \in Range(ts) THEN NoBits ELSE n.evbits[t]]
           w == [n EXCEPT !.obj = ob, !.evbits = ev]
<1>1. wakeup(m, ts, msg) = add_ready_list(w, ts)
  BY DEF wakeup
<1>2. m \in Kernel
  BY CoreParts
<1>3. CoreInv(n, c, Range(ts)) /\ (OwnersOK(m) => OwnersOK(n))
  BY TakeTimeOK
<1>4. n \in Kernel /\ n.state = m.state /\ OnTimeList(n) = OnTimeList(m) \ Range(ts)
  BY <1>2, TimeUnlinkEffect
<1> HIDE DEF n
<1>5. /\ ob \in [Task -> Msg \cup Sems \cup Mtxs \cup Cvs] /\ ev \in [Task -> EvBits]
      /\ \A t \in Task : t \notin Range(ts) => ob[t] = n.obj[t]
  BY <1>4, KernelTypes, NoBitsType
<1> HIDE DEF ob, ev
<1>6. /\ w \in Kernel /\ SameLinks(n, w) /\ SameControl(n, w) /\ w.obj = ob
      /\ w.owner = n.owner /\ w.count = n.count /\ w.owned = n.owned
      /\ w.prio = n.prio /\ w.pendsv = n.pendsv /\ w.wait_aborted = n.wait_aborted
  BY <1>4, <1>5 DEF Kernel, SameLinks, SameControl
<1> HIDE DEF w
<1>7. CoreInv(w, c, Range(ts))
  BY <1>3, <1>5, <1>6, AlterOK
<1>8. OwnersOK(n) => OwnersOK(w)
  BY <1>6 DEF OwnersOK, SameLinks, SameControl
<1>9. \A t \in Range(ts) : t \notin OnTimeList(w) /\ w.state[t] \notin Up \cup {"ZOMBIE", "EXITED"}
  BY <1>4, <1>6 DEF SameLinks, OnTimeList
<1> QED BY <1>1, <1>3, <1>7, <1>8, <1>9, MakeReadyOK

\* set_sleep takes the current task off the ready list, into its new state.
LEMMA SleepOK ==
  ASSUME NEW m, NEW c, CoreInv(m, c, {}), m.currp # Idle, m.state[m.currp] \in Up,
         NEW newstate \in Waiting \cup {"SLEEPING"}
  PROVE  LET r == set_sleep(m, newstate) IN
         /\ CoreInv(r, c, {m.currp}) /\ (OwnersOK(m) => OwnersOK(r))
         /\ SameCore(m, r) /\ SameWaits(m, r) /\ r.prio = m.prio /\ r.pendsv = m.pendsv
         /\ r.state[m.currp] = newstate /\ \A t \in Task \ {m.currp} : r.state[t] = m.state[t]
         /\ m.currp \notin OnTimeList(r) /\ r.jiffies = m.jiffies
<1> DEFINE r == set_sleep(m, newstate)
           t == m.currp
<1>0. /\ m \in Kernel /\ c \in [Task -> Call] /\ {t} \subseteq Task /\ ~m.bug
      /\ ReadyPlaced(m, {}) /\ WaitPlaced(m, c, {})
      /\ TimeOK(m) /\ CurrentOK(m, c, {}) /\ BlockedOK(m, c, {}) /\ CallsOK(c)
      /\ LifeOK(m, c) /\ AliveOK(m, c) /\ m.currp \in Task /\ Idle \in Task
  BY CoreParts
<1>1. newstate \in State /\ newstate \notin Up \cup Gone
  BY DEF State, Waiting, Up, Gone
<1>2. /\ r \in Kernel /\ SameCore(m, r) /\ SameRest(m, r) /\ SameTime(m, r) /\ SameWaits(m, r)
      /\ r.prio = m.prio /\ r.pendsv = m.pendsv /\ r.bug = m.bug
      /\ r.state = [m.state EXCEPT ![m.currp] = newstate]
      /\ ReadyPlaced(r, {} \cup {m.currp})
  BY <1>0, <1>1, SetSleepEffect
<1>3. r.state[t] = newstate /\ \A u \in Task \ {t} : r.state[u] = m.state[u]
  BY <1>0, <1>2, KernelTypes
<1> HIDE DEF r
<1>4. ReadyPlaced(r, {t})
  BY <1>2 DEF ReadyPlaced
<1>5. WaitPlaced(r, c, {t})
  <2>1. \A u \in Task : u \notin {} /\ m.state[u] \in Waiting => u # t
    BY DEF Waiting, Up
  <2>2. \A u \in Task : u \notin {} /\ m.state[u] \in Waiting => Aw(r, c, u) = Aw(m, c, u)
    BY <1>2, <1>3, <2>1 DEF Aw, SameWaits
  <2>3. \A u \in Task : (u \notin {} /\ m.state[u] \in Waiting) <=> (u \notin {t} /\ r.state[u] \in Waiting)
    BY <1>3, <2>1
  <2> QED BY <1>0, <1>2, <2>2, <2>3 DEF WaitPlaced, SameWaits
<1>6. TimeOK(r) /\ t \notin OnTimeList(r)
  <2>1. OnTimeList(r) = OnTimeList(m) /\ TimeLists(r)
    BY <1>0, <1>2 DEF TimeOK, TimeLists, Split, OnTimeList, SameTime
  <2>2. \A u \in OnTimeList(m) : u \in Task /\ u # t
    BY <1>0, KernelTypes, RangeType DEF OnTimeList, TimeOK, Timed, Up
  <2> QED BY <1>0, <1>3, <2>1, <2>2 DEF TimeOK
<1>7. CurrentOK(r, c, {t})
  BY <1>0, <1>1, <1>2, <1>3 DEF CurrentOK, SameCore, Up
<1>8. BlockedOK(r, c, {t})
  BY <1>0, <1>2, <1>3 DEF BlockedOK, SameWaits, SameCore
<1>9. LifeOK(r, c)
  <2>1. \A u \in Task : r.state[u] = m.state[u] \/ (r.state[u] \notin Gone /\ m.state[u] \notin Gone)
    BY <1>1, <1>3 DEF Up, Gone
  <2>2. \A u \in Task : Freeing(c[u]) => c[u].o \in Task /\ m.state[c[u].o] = "EXITED"
    BY <1>0 DEF LifeOK, Freeing, CallsOK, CallKind, Task
  <2> QED BY <1>0, <1>2, <2>1, <2>2 DEF LifeOK, SameWaits, SameCore, Gone
<1>10. AliveOK(r, c)
  BY <1>0, <1>2 DEF AliveOK, SameWaits, SameCore
<1>11. OwnersOK(m) => OwnersOK(r)
  <2>1. \A x \in Mtxs : m.owner[x] # Null => m.owner[x] \in Task
    BY <1>0, KernelTypes
  <2> QED BY <1>1, <1>2, <1>3, <2>1 DEF OwnersOK, SameWaits, SameCore
<1>12. CoreInv(r, c, {t})
  BY <1>0, <1>2, <1>4, <1>5, <1>6, <1>7, <1>8, <1>9, <1>10 DEF CoreInv
<1> QED BY <1>2, <1>3, <1>6, <1>11, <1>12 DEF SameTime, r

\* add_task_to_waiting_list of a task in a state with a timeout.
LEMMA AddTimeOK ==
  ASSUME NEW m, NEW c, NEW X, CoreInv(m, c, X), NEW t \in Task, NEW timeout \in Tick,
         timeout # Infinite, t \notin OnTimeList(m), m.state[t] \in Timed
  PROVE  LET r == add_task_to_waiting_list(m, t, timeout) IN
         /\ CoreInv(r, c, X) /\ (OwnersOK(m) => OwnersOK(r))
         /\ SameCore(m, r) /\ SameWaits(m, r) /\ r.prio = m.prio /\ r.pendsv = m.pendsv
         /\ r.state = m.state /\ r.jiffies = m.jiffies
<1> DEFINE r == add_task_to_waiting_list(m, t, timeout)
<1>0. /\ m \in Kernel /\ c \in [Task -> Call] /\ X \subseteq Task /\ ~m.bug
      /\ ReadyPlaced(m, X) /\ WaitPlaced(m, c, X)
      /\ TimeOK(m) /\ CurrentOK(m, c, X) /\ BlockedOK(m, c, X) /\ CallsOK(c)
      /\ LifeOK(m, c) /\ AliveOK(m, c) /\ m.currp \in Task /\ Idle \in Task
  BY CoreParts
<1>1. /\ r \in Kernel /\ SameCore(m, r) /\ SameRest(m, r) /\ SameWaits(m, r)
      /\ r.ready = m.ready /\ r.prio = m.prio /\ r.pendsv = m.pendsv
      /\ r.state = m.state /\ r.bug = m.bug /\ r.jiffies = m.jiffies
      /\ OnTimeList(r) = OnTimeList(m) \cup {t}
      /\ TimeLists(r)
  BY <1>0, AddTimeEffect DEF TimeOK
<1> HIDE DEF r
<1>2. ReadyPlaced(r, X) /\ WaitPlaced(r, c, X)
  BY <1>0, <1>1 DEF ReadyPlaced, WaitPlaced, SameWaits, Aw
<1>3. TimeOK(r)
  BY <1>0, <1>1 DEF TimeOK
<1>4. CurrentOK(r, c, X)
  BY <1>0, <1>1 DEF CurrentOK, SameCore
<1>5. BlockedOK(r, c, X)
  BY <1>0, <1>1 DEF BlockedOK, SameWaits, SameCore
<1>6. LifeOK(r, c) /\ ~r.bug
  BY <1>0, <1>1 DEF LifeOK, SameWaits, SameCore
<1>7. AliveOK(r, c)
  BY <1>0, <1>1 DEF AliveOK, SameWaits, SameCore
<1>8. OwnersOK(m) => OwnersOK(r)
  BY <1>1 DEF OwnersOK, SameWaits, SameCore
<1> QED BY <1>0, <1>1, <1>2, <1>3, <1>4, <1>5, <1>6, <1>7, <1>8 DEF CoreInv, r

\* set_sleep_timeout: the same with the time list.
LEMMA SleepTimeoutOK ==
  ASSUME NEW m, NEW c, CoreInv(m, c, {}), m.currp # Idle, m.state[m.currp] \in Up,
         NEW newstate \in Timed, NEW timeout \in Tick
  PROVE  LET r == set_sleep_timeout(m, newstate, timeout) IN
         /\ CoreInv(r, c, {m.currp}) /\ (OwnersOK(m) => OwnersOK(r))
         /\ SameCore(m, r) /\ SameWaits(m, r) /\ r.prio = m.prio /\ r.pendsv = m.pendsv
         /\ r.state[m.currp] = newstate /\ \A t \in Task \ {m.currp} : r.state[t] = m.state[t]
<1> DEFINE n == set_sleep(m, newstate)
           r == add_task_to_waiting_list(n, m.currp, timeout)
<1>1. set_sleep_timeout(m, newstate, timeout) = IF timeout = Infinite THEN n ELSE r
  BY DEF set_sleep_timeout
<1>2. newstate \in Waiting \cup {"SLEEPING"} /\ m.currp \in Task
  BY CoreParts DEF Timed, Waiting
<1>3. /\ CoreInv(n, c, {m.currp}) /\ (OwnersOK(m) => OwnersOK(n))
      /\ SameCore(m, n) /\ SameWaits(m, n) /\ n.prio = m.prio /\ n.pendsv = m.pendsv
      /\ n.state[m.currp] = newstate /\ \A t \in Task \ {m.currp} : n.state[t] = m.state[t]
      /\ m.currp \notin OnTimeList(n)
  BY <1>2, SleepOK
<1> HIDE DEF n
<1>4. CASE timeout = Infinite
  BY <1>1, <1>3, <1>4
<1>5. CASE timeout # Infinite
  <2>1. /\ CoreInv(r, c, {m.currp}) /\ (OwnersOK(n) => OwnersOK(r))
        /\ SameCore(n, r) /\ SameWaits(n, r) /\ r.prio = n.prio /\ r.pendsv = n.pendsv
        /\ r.state = n.state
    BY <1>2, <1>3, <1>5, AddTimeOK
  <2> HIDE DEF r
  <2>2. SameCore(m, r) /\ SameWaits(m, r)
    BY <1>3, <2>1 DEF SameCore, SameWaits
  <2> QED BY <1>1, <1>3, <1>5, <2>1, <2>2
<1> QED BY <1>4, <1>5

\* A task that was being moved arrives at the wait list of o, in the call e.
LEMMA QueueOK ==
  ASSUME NEW m, NEW c, NEW t \in Task, CoreInv(m, c, {t}), m.state[t] \in Waiting,
         NEW o \in Obj, NEW e \in Call, CallKind(e), ~Freeing(e), e.o \in Object => e.o \in m.live,
         NEW r \in Kernel, r.state = m.state, r.ready = m.ready, r.prio = m.prio,
         SameTime(m, r), SameControl(m, r), r.zombie = m.zombie, m.pendsv => r.pendsv,
         \A u \in Task \ {t} : r.obj[u] = m.obj[u] /\ r.wait_aborted[u] = m.wait_aborted[u],
         \A p \in Obj \ {o} : r.wait_list[p] = m.wait_list[p],
         Range(r.wait_list[o]) = Range(m.wait_list[o]) \cup {t},
         Distinct(m.wait_list[o]) /\ t \notin Range(m.wait_list[o]) => Distinct(r.wait_list[o]),
         Blocked(m.state[t], e, r.obj[t], r.wait_aborted[t]),
         o = IF m.state[t] \in {"WTEXIT", "WTEVT"} THEN e.o ELSE r.obj[t],
         o \in Object => o \in m.live,
         o \in Task => m.state[o] \notin Gone,
         t = m.currp => m.sched_lock = 0 /\ (e.pc = "yield" \/ r.pendsv)
  PROVE  CoreInv(r, [c EXCEPT ![t] = e], {})
<1> DEFINE d == [c EXCEPT ![t] = e]
<1>0. /\ m \in Kernel /\ c \in [Task -> Call] /\ ~m.bug
      /\ ReadyPlaced(m, {t}) /\ WaitPlaced(m, c, {t})
      /\ TimeOK(m) /\ CurrentOK(m, c, {t}) /\ BlockedOK(m, c, {t}) /\ CallsOK(c)
      /\ LifeOK(m, c) /\ AliveOK(m, c) /\ m.currp \in Task /\ Idle \in Task
  BY CoreParts
<1>1. d \in [Task -> Call] /\ d[t] = e /\ \A u \in Task \ {t} : d[u] = c[u]
  BY <1>0
<1> HIDE DEF d
<1>2. t # Idle /\ m.state[t] \notin Up /\ m.state[t] \notin Gone
  BY <1>0 DEF CurrentOK, Waiting, Up, Gone
<1>3. ReadyPlaced(r, {})
  BY <1>0, <1>2, ReadyFrame
<1>4. WaitPlaced(r, d, {})
  <2>1. Aw(r, d, t) = o /\ \A u \in Task \ {t} : Aw(r, d, u) = Aw(m, c, u)
    BY <1>1 DEF Aw
  <2>2. ASSUME NEW p \in Obj
        PROVE  /\ Distinct(r.wait_list[p])
               /\ \A u \in Task : u \in Range(r.wait_list[p]) <=>
                    u \notin {} /\ r.state[u] \in Waiting /\ Aw(r, d, u) = p
    <3>1. /\ Distinct(m.wait_list[p])
          /\ \A u \in Task : u \in Range(m.wait_list[p]) <=>
               u \notin {t} /\ m.state[u] \in Waiting /\ Aw(m, c, u) = p
      BY <1>0 DEF WaitPlaced
    <3>2. CASE p = o
      BY <3>1, <3>2, <2>1
    <3>3. CASE p # o
      BY <3>1, <3>3, <2>1
    <3> QED BY <3>2, <3>3
  <2> QED BY <2>2 DEF WaitPlaced
<1>5. TimeOK(r)
  BY <1>0 DEF TimeOK, TimeLists, Split, OnTimeList, SameTime
<1>6. CurrentOK(r, d, {})
  BY <1>0, <1>1, <1>2 DEF CurrentOK, SameControl
<1>7. BlockedOK(r, d, {})
  BY <1>0, <1>1 DEF BlockedOK
<1>8. CallsOK(d)
  BY <1>0, <1>1 DEF CallsOK
<1>9. LifeOK(r, d) /\ ~r.bug
  <2>1. \A u \in Task : m.state[u] \in Gone => r.wait_list[u] = m.wait_list[u]
    BY DEF Obj
  <2>2. Distinct(r.zombie) /\ \A u \in Task : /\ u \in Range(r.zombie) <=> r.state[u] = "ZOMBIE"
                                              /\ r.state[u] = "NONE" => r.refcnt[u] = 0
                                              /\ r.state[u] \in Gone => r.wait_list[u] = <<>>
    BY <1>0, <2>1 DEF LifeOK, SameControl
  <2>3. \A u \in Task : Freeing(d[u]) => d[u] = c[u] /\ Freeing(c[u]) /\ u # t
    BY <1>1
  <2> QED BY <1>0, <1>1, <2>2, <2>3 DEF LifeOK, SameControl
<1>10. AliveOK(r, d)
  BY <1>0, <1>1 DEF AliveOK, SameControl, Obj
<1> QED BY <1>0, <1>1, <1>3, <1>4, <1>5, <1>6, <1>7, <1>8, <1>9, <1>10 DEF CoreInv, d

\* A task that is being moved changes its state.
LEMMA LimboStateOK ==
  ASSUME NEW m, NEW c, NEW X, CoreInv(m, c, X), NEW t \in X, m.state[t] \notin Gone,
         NEW st \in State \ (Up \cup Gone), t \notin OnTimeList(m)
  PROVE  LET r == [m EXCEPT !.state = [@ EXCEPT ![t] = st]] IN
         CoreInv(r, c, X) /\ (OwnersOK(m) => OwnersOK(r))
<1> DEFINE g == [m.state EXCEPT ![t] = st]
           r == [m EXCEPT !.state = g]
<1>0. /\ m \in Kernel /\ c \in [Task -> Call] /\ X \subseteq Task /\ ~m.bug
      /\ ReadyPlaced(m, X) /\ WaitPlaced(m, c, X)
      /\ TimeOK(m) /\ CurrentOK(m, c, X) /\ BlockedOK(m, c, X) /\ CallsOK(c)
      /\ LifeOK(m, c) /\ AliveOK(m, c) /\ m.currp \in Task /\ Idle \in Task
  BY CoreParts
<1>1. g \in [Task -> State] /\ g[t] = st /\ \A u \in Task \ {t} : g[u] = m.state[u]
  BY <1>0, KernelTypes
<1> HIDE DEF g
<1>2. /\ r \in Kernel /\ r.state = g /\ r.ready = m.ready /\ r.prio = m.prio
      /\ SameCore(m, r) /\ SameRest(m, r) /\ SameTime(m, r) /\ SameWaits(m, r)
      /\ r.pendsv = m.pendsv /\ r.bug = m.bug
  BY <1>0, <1>1 DEF Kernel, SameCore, SameRest, SameTime, SameWaits
<1> HIDE DEF r
<1>3. ReadyPlaced(r, X)
  BY <1>0, <1>1, <1>2, ReadyFrame
<1>4. WaitPlaced(r, c, X)
  <2>1. \A u \in Task : u \notin X /\ m.state[u] \in Waiting => Aw(r, c, u) = Aw(m, c, u)
    BY <1>1, <1>2 DEF Aw, SameWaits
  <2> QED BY <1>0, <1>1, <1>2, <2>1, WaitFrame DEF SameWaits
<1>5. TimeOK(r)
  <2>1. OnTimeList(r) = OnTimeList(m) /\ TimeLists(r)
    BY <1>0, <1>2 DEF TimeOK, TimeLists, Split, OnTimeList, SameTime
  <2>2. \A u \in OnTimeList(m) : u \in Task /\ u # t
    BY <1>0, KernelTypes, RangeType DEF OnTimeList
  <2> QED BY <1>0, <1>1, <1>2, <2>1, <2>2 DEF TimeOK
<1>6. CurrentOK(r, c, X)
  BY <1>0, <1>1, <1>2 DEF CurrentOK, SameCore, Up
<1>7. BlockedOK(r, c, X)
  BY <1>0, <1>1, <1>2 DEF BlockedOK, SameWaits, SameCore
<1>8. LifeOK(r, c) /\ ~r.bug
  <2>1. \A u \in Task : r.state[u] = m.state[u] \/ (r.state[u] \notin Gone /\ m.state[u] \notin Gone)
    BY <1>1, <1>2
  <2>2. \A u \in Task : Freeing(c[u]) => c[u].o \in Task /\ m.state[c[u].o] = "EXITED"
    BY <1>0 DEF LifeOK, Freeing, CallsOK, CallKind, Task
  <2> QED BY <1>0, <1>2, <2>1, <2>2 DEF LifeOK, SameWaits, SameCore, Gone
<1>9. AliveOK(r, c)
  BY <1>0, <1>2 DEF AliveOK, SameWaits, SameCore
<1>10. OwnersOK(m) => OwnersOK(r)
  <2>1. \A x \in Mtxs : m.owner[x] # Null => m.owner[x] \in Task
    BY <1>0, KernelTypes
  <2> QED BY <1>1, <1>2, <2>1 DEF OwnersOK, SameWaits, SameCore
<1> QED BY <1>0, <1>2, <1>3, <1>4, <1>5, <1>6, <1>7, <1>8, <1>9, <1>10 DEF CoreInv, r, g

\* Wait lists may change their order, and tasks on no ready list their priority.
LEMMA ReorderOK ==
  ASSUME NEW m, NEW c, NEW X, CoreInv(m, c, X), NEW r \in Kernel,
         r.state = m.state, r.ready = m.ready, r.obj = m.obj, r.pendsv = m.pendsv, r.bug = m.bug,
         SameCore(m, r), SameTime(m, r),
         \A t \in Task : m.state[t] \in Up => r.prio[t] = m.prio[t],
         \A o \in Obj : /\ Range(r.wait_list[o]) = Range(m.wait_list[o])
                        /\ Distinct(m.wait_list[o]) => Distinct(r.wait_list[o])
  PROVE  CoreInv(r, c, X) /\ (OwnersOK(m) => OwnersOK(r))
<1>0. /\ m \in Kernel /\ c \in [Task -> Call] /\ X \subseteq Task /\ ~m.bug
      /\ ReadyPlaced(m, X) /\ WaitPlaced(m, c, X)
      /\ TimeOK(m) /\ CurrentOK(m, c, X) /\ BlockedOK(m, c, X) /\ CallsOK(c)
      /\ LifeOK(m, c) /\ AliveOK(m, c) /\ m.currp \in Task /\ Idle \in Task
  BY CoreParts
<1>1. ReadyPlaced(r, X)
  BY <1>0, ReadyFrame
<1>2. WaitPlaced(r, c, X)
  <2>1. \A u \in Task : Aw(r, c, u) = Aw(m, c, u)
    BY DEF Aw
  <2> QED BY <1>0, <2>1 DEF WaitPlaced
<1>3. \A o \in Obj : m.wait_list[o] = <<>> => r.wait_list[o] = <<>>
  <2>1. \A o \in Obj : m.wait_list[o] \in Seq(Task) /\ r.wait_list[o] \in Seq(Task)
    BY <1>0, KernelTypes
  <2>2. \A s \in Seq(Task) : s = <<>> <=> Range(s) = {}
    BY EmptyRange
  <2> QED BY <2>1, <2>2
<1>4. TimeOK(r)
  BY <1>0 DEF TimeOK, TimeLists, Split, OnTimeList, SameTime
<1>5. CurrentOK(r, c, X)
  BY <1>0 DEF CurrentOK, SameCore
<1>6. BlockedOK(r, c, X)
  BY <1>0 DEF BlockedOK, SameCore
<1>7. LifeOK(r, c) /\ ~r.bug
  BY <1>0, <1>3 DEF LifeOK, SameCore, Obj
<1>8. AliveOK(r, c)
  BY <1>0, <1>3 DEF AliveOK, SameCore, Obj
<1>9. OwnersOK(m) => OwnersOK(r)
  <2>1. \A x \in Mtxs : x \in Obj
    BY DEF Obj, Object
  <2> QED BY <1>3, <2>1, OwnersFrame DEF SameCore, OwnersOK
<1> QED BY <1>0, <1>1, <1>2, <1>4, <1>5, <1>6, <1>7, <1>8, <1>9 DEF CoreInv

\* _isixp_reallocate_priority, also while other tasks are being moved.
LEMMA ReallocateOK ==
  ASSUME NEW m, NEW c, NEW X, CoreInv(m, c, X), NEW t \in Task \ X, t # Idle, NEW np \in Prio
  PROVE  LET r == reallocate_priority(m, t, np) IN
         /\ CoreInv(r, c, X) /\ (OwnersOK(m) => OwnersOK(r))
         /\ SameCore(m, r) /\ SameRest(m, r) /\ SameTime(m, r)
         /\ r.pendsv = m.pendsv /\ r.obj = m.obj /\ r.evbits = m.evbits
         /\ m.state[t] \in Up => r.wait_list = m.wait_list /\ r.state[t] = "READY"
         /\ m.state[t] \notin Up => r.state = m.state
         /\ \A u \in Task \ {t} : r.state[u] = m.state[u]
         /\ \A o \in Obj : Range(r.wait_list[o]) = Range(m.wait_list[o])
<1> DEFINE np1 == [m.prio EXCEPT ![t] = np]
           n == [m EXCEPT !.prio = np1]
           r == reallocate_priority(m, t, np)
<1>0. /\ m \in Kernel /\ c \in [Task -> Call] /\ X \subseteq Task /\ t \in Task
      /\ WaitPlaced(m, c, X) /\ BlockedOK(m, c, X) /\ TimeOK(m)
  BY CoreParts
<1>1. /\ m.prio \in [Task -> Prio] /\ m.state \in [Task -> State] /\ m.wait_list \in [Obj -> Seq(Task)]
      /\ m.ready \in [Prio -> Seq(Task)]
  BY <1>0, KernelTypes
<1>2. np1 \in [Task -> Prio] /\ \A u \in Task \ {t} : np1[u] = m.prio[u]
  BY <1>1
<1> HIDE DEF np1
<1>3. /\ n \in Kernel /\ n.prio = np1 /\ n.state = m.state /\ n.ready = m.ready
      /\ SameCore(m, n) /\ SameRest(m, n) /\ SameTime(m, n) /\ SameWaits(m, n)
      /\ n.pendsv = m.pendsv /\ n.bug = m.bug
  BY <1>0, <1>2 DEF Kernel, SameCore, SameRest, SameTime, SameWaits
<1>4. CASE m.state[t] \in {"READY", "RUNNING"}
  <2> DEFINE a == delete_from_ready_list(m, t)
             b == [a EXCEPT !.prio = np1]
             s == [b EXCEPT !.state = [@ EXCEPT ![t] = "SCHEDULE"]]
             Y == X \cup {t}
  <2>1. delete_from_ready_list(n, t) = b
    BY <1>0, <1>3 DEF delete_from_ready_list, Kernel
  <2>2. r = add_ready_list(s, <<t>>)
    <3>1. r = add_ready_list([delete_from_ready_list(n, t) EXCEPT
                          !.state = [@ EXCEPT ![t] = "SCHEDULE"]], <<t>>)
      BY <1>4 DEF reallocate_priority, np1
    <3> QED BY <3>1, <2>1
  <2>3. m.state[t] \notin Waiting \cup Gone \cup Timed
    BY <1>4 DEF Waiting, Gone, Timed
  <2>4. /\ CoreInv(a, c, Y) /\ (OwnersOK(m) => OwnersOK(a))
        /\ a \in Kernel /\ a.state = m.state /\ a.prio = m.prio
        /\ SameCore(m, a) /\ SameRest(m, a) /\ SameTime(m, a) /\ SameWaits(m, a)
        /\ a.pendsv = m.pendsv
    BY <1>0, <2>3, TakeReadyOK, DeleteReadyEffect
  <2> HIDE DEF a, n, r
  <2>5. /\ b \in Kernel /\ SameLinks(a, b) /\ SameControl(a, b) /\ b.prio = np1
        /\ SameCore(m, b) /\ SameRest(m, b) /\ SameTime(m, b) /\ SameWaits(m, b)
        /\ b.pendsv = m.pendsv /\ b.state = m.state
    BY <1>2, <2>4 DEF Kernel, SameLinks, SameControl, SameCore, SameRest, SameTime, SameWaits
  <2> HIDE DEF b
  <2>6. CoreInv(b, c, Y)
    <3>1. \A u \in Task : u \notin Y => b.prio[u] = a.prio[u]
      BY <1>2, <2>4, <2>5
    <3>2. b.obj = a.obj /\ b.wait_aborted = a.wait_aborted /\ b.pendsv = a.pendsv
      BY <2>4, <2>5 DEF SameWaits, SameCore
    <3> QED BY <2>4, <2>5, <3>1, <3>2, AlterOK
  <2>7. OwnersOK(m) => OwnersOK(b)
    BY <2>4, <2>5 DEF OwnersOK, SameLinks, SameCore
  <2>8. t \notin OnTimeList(b)
    BY <1>0, <2>3, <2>5 DEF TimeOK, OnTimeList, SameTime
  <2>9. /\ CoreInv(s, c, Y) /\ (OwnersOK(m) => OwnersOK(s))
    <3>1. b.state[t] \notin Gone /\ "SCHEDULE" \in State \ (Up \cup Gone)
      BY <2>3, <2>5 DEF State, Up, Gone
    <3> QED BY <2>6, <2>7, <2>8, <3>1, LimboStateOK
  <2>10. /\ s.state = [m.state EXCEPT ![t] = "SCHEDULE"] /\ s.pendsv = m.pendsv
         /\ SameCore(b, s) /\ SameRest(b, s) /\ SameTime(b, s) /\ SameWaits(b, s) /\ s \in Kernel
    <3>1. [b.state EXCEPT ![t] = "SCHEDULE"] \in [Task -> State]
      BY <1>1, <2>5 DEF State
    <3> QED BY <2>5, <3>1 DEF Kernel, SameCore, SameRest, SameTime, SameWaits
  <2> HIDE DEF s
  <2>11. <<t>> \in Seq(Task) /\ Range(<<t>>) = {t} /\ Distinct(<<t>>)
    BY <1>0, OneElement
  <2>12. Y \ {t} = X
    OBVIOUS
  <2>13. s.state[t] = "SCHEDULE" /\ \A u \in Task \ {t} : s.state[u] = m.state[u]
    BY <1>1, <2>10
  <2>14. CoreInv(r, c, Y \ Range(<<t>>)) /\ (OwnersOK(s) => OwnersOK(r))
    <3>1. \A u \in Range(<<t>>) : u \notin OnTimeList(s) /\ s.state[u] \notin Up \cup {"ZOMBIE", "EXITED"}
      BY <2>8, <2>10, <2>11, <2>13 DEF SameTime, OnTimeList, Up
    <3>2. Range(<<t>>) \subseteq Y
      BY <2>11
    <3> HIDE DEF Y
    <3> QED BY <2>2, <2>9, <2>11, <3>1, <3>2, MakeSomeReadyOK
  <2>15. /\ SameCore(s, r) /\ SameRest(s, r) /\ SameTime(s, r) /\ SameWaits(s, r)
         /\ r.pendsv = s.pendsv
         /\ r.state = [u \in Task |-> IF u \in Range(<<t>>) THEN "READY" ELSE s.state[u]]
    BY <2>2, <2>10, <2>11, AddReadyEffect
  <2>16. r.state[t] = "READY" /\ \A u \in Task \ {t} : r.state[u] = m.state[u]
    BY <1>0, <2>11, <2>13, <2>15
  <2>17. SameCore(m, r) /\ SameRest(m, r) /\ SameTime(m, r) /\ SameWaits(m, r) /\ r.pendsv = m.pendsv
    BY <2>5, <2>10, <2>15 DEF SameCore, SameRest, SameTime, SameWaits
  <2>18. m.state[t] \in Up
    BY <1>4 DEF Up
  <2> QED BY <2>9, <2>11, <2>12, <2>14, <2>16, <2>17, <2>18 DEF SameWaits, r
<1>5. CASE m.state[t] \in {"WTSEM", "WTMTX", "WTCOND"}
  <2> DEFINE o == m.obj[t]
             S == {t}
             a == unlink(n, S)
             q == InsertSorted(a.wait_list[o], t, a.prio)
             f == [a.wait_list EXCEPT ![o] = q]
             s == [a EXCEPT !.wait_list = f]
  <2>1. r = add_to_prio_queue(a, o, t)
    BY <1>5 DEF reallocate_priority, np1
  <2> HIDE DEF S
  <2>s. add_to_prio_queue(a, o, t) = s
    BY DEF add_to_prio_queue
  <2> HIDE DEF n, r
  <2>2. /\ o \in Obj /\ m.state[t] \in Waiting /\ Aw(m, c, t) = o /\ m.state[t] \notin Up
    BY <1>0, <1>5 DEF BlockedOK, Blocked, Obj, Object, Waiting, Aw, Up
  <2>3. /\ a \in Kernel /\ SameCore(n, a) /\ SameRest(n, a) /\ SameTime(n, a)
        /\ a.obj = n.obj /\ a.evbits = n.evbits /\ a.ready = n.ready
        /\ a.prio = n.prio /\ a.pendsv = n.pendsv /\ a.state = n.state /\ a.bug = n.bug
        /\ \A p \in Obj : Range(a.wait_list[p]) = Range(n.wait_list[p]) \ S
    BY <1>3, UnlinkEffect
  <2>4. \A p \in Obj : Distinct(m.wait_list[p]) => Distinct(a.wait_list[p])
    <3>1. a.wait_list = [p \in Obj |-> Without(m.wait_list[p], S)]
      BY <1>3, <1>1 DEF unlink, SameWaits, Kernel
    <3>2. \A p \in Obj : a.wait_list[p] = Without(m.wait_list[p], S) /\ m.wait_list[p] \in Seq(Task)
      BY <3>1, <1>1
    <3> HIDE DEF a
    <3> QED BY <3>2, WithoutList
  <2> HIDE DEF a, o
  <2>5. a.wait_list \in [Obj -> Seq(Task)] /\ a.prio \in [Task -> Int]
    BY <2>3, KernelTypes, Prios
  <2>6. /\ q \in Seq(Task) /\ Range(q) = Range(a.wait_list[o]) \cup {t}
        /\ Distinct(a.wait_list[o]) /\ t \notin Range(a.wait_list[o]) => Distinct(q)
    BY <1>0, <2>2, <2>5, InsertSortedProperties
  <2> HIDE DEF q
  <2>7. f \in [Obj -> Seq(Task)] /\ f[o] = q /\ \A p \in Obj \ {o} : f[p] = a.wait_list[p]
    BY <2>2, <2>5, <2>6
  <2> HIDE DEF f
  <2>8. /\ s \in Kernel /\ SameCore(m, s) /\ SameRest(m, s) /\ SameTime(m, s) /\ s.wait_list = f
        /\ s.obj = m.obj /\ s.evbits = m.evbits /\ s.ready = m.ready
        /\ s.prio = np1 /\ s.pendsv = m.pendsv /\ s.state = m.state /\ s.bug = m.bug
    BY <1>3, <2>3, <2>7 DEF Kernel, SameCore, SameRest, SameTime, SameWaits
  <2> HIDE DEF s
  <2>9. \A p \in Obj : t \in Range(m.wait_list[p]) <=> p = o
    BY <1>0, <2>2 DEF WaitPlaced
  <2>10. ASSUME NEW p \in Obj
         PROVE  /\ Range(s.wait_list[p]) = Range(m.wait_list[p])
                /\ Distinct(m.wait_list[p]) => Distinct(s.wait_list[p])
    <3>1. Range(a.wait_list[p]) = Range(m.wait_list[p]) \ {t}
      BY <1>3, <2>3 DEF SameWaits, S
    <3>2. CASE p = o
      BY <2>4, <2>6, <2>7, <2>8, <2>9, <3>1, <3>2
    <3>3. CASE p # o
      BY <2>4, <2>7, <2>8, <2>9, <3>1, <3>3
    <3> QED BY <3>2, <3>3
  <2>11. CoreInv(s, c, X) /\ (OwnersOK(m) => OwnersOK(s))
    <3>1. \A u \in Task : m.state[u] \in Up => s.prio[u] = m.prio[u]
      BY <1>2, <2>2, <2>8
    <3> QED BY <2>8, <2>10, <3>1, ReorderOK
  <2> QED BY <2>1, <2>s, <2>2, <2>8, <2>10, <2>11 DEF r
<1>6. CASE m.state[t] \notin {"READY", "RUNNING", "WTSEM", "WTMTX", "WTCOND"}
  <2>1. r = n
    BY <1>6 DEF reallocate_priority, np1
  <2>2. m.state[t] \notin Up
    BY <1>6 DEF Up
  <2> HIDE DEF n
  <2>3. CoreInv(n, c, X) /\ (OwnersOK(m) => OwnersOK(n))
    <3>1. \A u \in Task : m.state[u] \in Up => n.prio[u] = m.prio[u]
      BY <1>2, <1>3, <2>2
    <3> QED BY <1>3, <3>1, ReorderOK DEF SameWaits
  <2> HIDE DEF r
  <2> QED BY <1>3, <2>1, <2>2, <2>3 DEF SameWaits, r
<1> QED BY <1>4, <1>5, <1>6

\* Tasks that are on no list anyway may be counted among those being moved.
LEMMA LimboOK ==
  ASSUME NEW m, NEW c, NEW X, CoreInv(m, c, X), NEW S \in SUBSET (Task \ {Idle}),
         \A t \in S \ X : m.state[t] \notin Up \cup Waiting
  PROVE  CoreInv(m, c, X \cup S)
<1> DEFINE Y == X \cup S
<1>0. /\ m \in Kernel /\ c \in [Task -> Call] /\ X \subseteq Task /\ ~m.bug
      /\ ReadyPlaced(m, X) /\ WaitPlaced(m, c, X)
      /\ TimeOK(m) /\ CurrentOK(m, c, X) /\ BlockedOK(m, c, X) /\ CallsOK(c)
      /\ LifeOK(m, c) /\ AliveOK(m, c) /\ m.currp \in Task /\ Idle \in Task
  BY CoreParts
<1>1. ReadyPlaced(m, Y)
  BY <1>0, ReadyFrame
<1>2. WaitPlaced(m, c, Y)
  BY <1>0, WaitFrame
<1>3. CurrentOK(m, c, Y) /\ BlockedOK(m, c, Y) /\ Y \subseteq Task
  BY <1>0 DEF CurrentOK, BlockedOK
<1> QED BY <1>0, <1>1, <1>2, <1>3 DEF CoreInv

\* A task that was moved to no list has arrived.
LEMMA SettleOK ==
  ASSUME NEW m, NEW c, NEW t \in Task, CoreInv(m, c, {t}), m.state[t] \notin Up \cup Waiting,
         t = m.currp => m.sched_lock = 0 /\ (c[t].pc = "yield" \/ m.pendsv)
  PROVE  CoreInv(m, c, {})
<1>0. /\ m \in Kernel /\ c \in [Task -> Call] /\ ~m.bug
      /\ ReadyPlaced(m, {t}) /\ WaitPlaced(m, c, {t})
      /\ TimeOK(m) /\ CurrentOK(m, c, {t}) /\ BlockedOK(m, c, {t}) /\ CallsOK(c)
      /\ LifeOK(m, c) /\ AliveOK(m, c) /\ m.currp \in Task /\ Idle \in Task
  BY CoreParts
<1>1. ReadyPlaced(m, {})
  BY <1>0 DEF ReadyPlaced
<1>2. WaitPlaced(m, c, {})
  BY <1>0 DEF WaitPlaced
<1>3. CurrentOK(m, c, {})
  BY <1>0 DEF CurrentOK
<1>4. BlockedOK(m, c, {})
  BY <1>0 DEF BlockedOK, Blocked, Waiting
<1> QED BY <1>0, <1>1, <1>2, <1>3, <1>4 DEF CoreInv

\* Time passes: tasks leave the time lists, which are split at the new time.
LEMMA ClockOK ==
  ASSUME NEW m, NEW c, NEW X, CoreInv(m, c, X), NEW r \in Kernel,
         SameCore(m, r), SameWaits(m, r), r.ready = m.ready, r.prio = m.prio,
         r.state = m.state, r.bug = m.bug, m.pendsv => r.pendsv,
         TimeLists(r), OnTimeList(r) \subseteq OnTimeList(m)
  PROVE  CoreInv(r, c, X) /\ (OwnersOK(m) => OwnersOK(r))
<1>0. /\ m \in Kernel /\ c \in [Task -> Call] /\ X \subseteq Task /\ ~m.bug
      /\ ReadyPlaced(m, X) /\ WaitPlaced(m, c, X)
      /\ TimeOK(m) /\ CurrentOK(m, c, X) /\ BlockedOK(m, c, X) /\ CallsOK(c)
      /\ LifeOK(m, c) /\ AliveOK(m, c) /\ m.currp \in Task /\ Idle \in Task
  BY CoreParts
<1>1. ReadyPlaced(r, X) /\ WaitPlaced(r, c, X)
  BY <1>0 DEF ReadyPlaced, WaitPlaced, SameWaits, Aw
<1>2. TimeOK(r)
  BY <1>0 DEF TimeOK
<1>3. CurrentOK(r, c, X)
  BY <1>0 DEF CurrentOK, SameCore
<1>4. BlockedOK(r, c, X)
  BY <1>0 DEF BlockedOK, SameWaits, SameCore
<1>5. LifeOK(r, c) /\ ~r.bug
  BY <1>0 DEF LifeOK, SameWaits, SameCore
<1>6. AliveOK(r, c)
  BY <1>0 DEF AliveOK, SameWaits, SameCore
<1>7. OwnersOK(m) => OwnersOK(r)
  BY DEF OwnersOK, SameWaits, SameCore
<1> QED BY <1>0, <1>1, <1>2, <1>3, <1>4, <1>5, <1>6, <1>7 DEF CoreInv

\* leave, by a task that waits for nothing.
LEMMA LeaveOK ==
  ASSUME NEW m, NEW c, NEW X, CoreInv(m, c, X), NEW t \in Task, t \in X \/ m.state[t] \notin Waiting
  PROVE  LET r == leave(m, t) IN
         /\ CoreInv(r, c, X) /\ (OwnersOK(m) => OwnersOK(r))
         /\ SameLinks(m, r) /\ SameControl(m, r) /\ r.prio = m.prio /\ r.pendsv = m.pendsv
         /\ ~r.wait_aborted[t] /\ r.owner = m.owner
<1> DEFINE ob == [m.obj EXCEPT ![t] = EOK]
           ev == [m.evbits EXCEPT ![t] = NoBits]
           wa == [m.wait_aborted EXCEPT ![t] = FALSE]
           gr == m.grant \ {t}
           r == [m EXCEPT !.obj = ob, !.evbits = ev, !.wait_aborted = wa, !.grant = gr]
<1>1. leave(m, t) = r
  BY DEF leave
<1>2. m \in Kernel
  BY CoreParts
<1>3. /\ ob \in [Task -> Msg \cup Sems \cup Mtxs \cup Cvs] /\ ev \in [Task -> EvBits]
      /\ wa \in [Task -> BOOLEAN] /\ gr \in SUBSET Task
      /\ \A u \in Task \ {t} : ob[u] = m.obj[u]
      /\ \A u \in Task : wa[u] => m.wait_aborted[u]
      /\ ~wa[t]
  BY <1>2, KernelTypes, NoBitsType DEF Msg
<1> HIDE DEF ob, ev, wa, gr
<1>4. /\ r \in Kernel /\ SameLinks(m, r) /\ SameControl(m, r) /\ r.obj = ob /\ r.wait_aborted = wa
      /\ r.owner = m.owner /\ r.count = m.count /\ r.owned = m.owned
      /\ r.prio = m.prio /\ r.pendsv = m.pendsv
  BY <1>2, <1>3 DEF Kernel, SameLinks, SameControl
<1> HIDE DEF r
<1>5. CoreInv(r, c, X)
  BY <1>3, <1>4, AlterOK
<1>6. OwnersOK(m) => OwnersOK(r)
  BY <1>4 DEF OwnersOK, SameLinks, SameControl
<1> QED BY <1>1, <1>3, <1>4, <1>5, <1>6

-----------------------------------------------------------------------------
(***************************************************************************)
(* Time and the context switch.                                            *)
(***************************************************************************)

\* What the advance of time keeps besides the invariant.
TimeKept(m, r) ==
  /\ r.currp = m.currp /\ r.sched_lock = m.sched_lock /\ r.pendsv = m.pendsv
  /\ \A t \in Task : m.state[t] \in Up => r.state[t] \in Up

\* expire_waiting_tasks at a new time: n is the memory m with the clock moved
\* and the time lists perhaps exchanged.
LEMMA ExpireOK ==
  ASSUME NEW m, NEW c, CoreInv(m, c, {}), OwnersOK(m),
         NEW n \in Kernel, SameCore(m, n), SameWaits(m, n), n.ready = m.ready, n.prio = m.prio,
         n.state = m.state, n.bug = m.bug, n.pendsv = m.pendsv,
         OnTimeList(n) = OnTimeList(m), Distinct(n.p_wait), Distinct(n.pov_wait),
         Range(n.p_wait) \cap Range(n.pov_wait) = {},
         NEW now \in Tick, Split(expire_waiting_tasks(n, now))
  PROVE  LET r == expire_waiting_tasks(n, now) IN
         CoreInv(r, c, {}) /\ OwnersOK(r) /\ TimeKept(m, r)
<1> DEFINE ts == expired(n, now)
           S  == Range(ts)
           W  == {t \in S : n.state[t] \in {"WTSEM", "WTEVT", "WTCOND"}}
           a  == time_unlink(n, S)
           u  == unlink(a, W)
           v  == time_unlink(unlink(n, W), S)
           N(s) == Cardinality({t \in W : n.state[t] = "WTSEM" /\ n.obj[t] = s})
           vl == [s \in Sems |-> sem_inc(v.value[s], SemLimit[s], N(s))]
           ev == [t \in Task |-> IF t \in W THEN NoBits ELSE v.evbits[t]]
           ob == [t \in Task |-> IF t \in W THEN ETIMEOUT ELSE v.obj[t]]
           x  == [v EXCEPT !.value = vl, !.evbits = ev, !.obj = ob]
           r  == add_ready_list(x, ts)
<1>0. m \in Kernel /\ TimeOK(m) /\ WaitPlaced(m, c, {}) /\ CurrentOK(m, c, {}) /\ Idle \in Task
  BY CoreParts
<1>1. expire_waiting_tasks(n, now) = r
  BY DEF expire_waiting_tasks
<1>2. ts \in Seq(Task) /\ S \subseteq OnTimeList(m) /\ Distinct(ts) /\ S \subseteq Task
  <2>1. ts \in Seq(Task) /\ S \subseteq Range(n.p_wait) /\ Distinct(ts)
    BY Expired
  <2> QED BY <2>1, RangeType DEF OnTimeList
<1>3. \A s \in Sems : N(s) \in Nat
  <2> HIDE DEF ts
  <2>1. \A s \in Sems : {t \in W : n.state[t] = "WTSEM" /\ n.obj[t] = s} \in SUBSET Range(ts)
    OBVIOUS
  <2> QED BY <1>2, <2>1, CountInList
<1>4. u = v
  BY DEF unlink, time_unlink, Kernel
<1>w. /\ W \subseteq S /\ \A t \in S : m.state[t] \in Timed
      /\ \A t \in S \ W : m.state[t] = "SLEEPING"
      /\ \A t \in W : m.state[t] \notin Up
  <2> HIDE DEF S
  <2> QED BY <1>0, <1>2 DEF TimeOK, Timed, Up
<1> HIDE DEF ts, S, W, N
<1>5. /\ a \in Kernel /\ SameCore(n, a) /\ SameWaits(n, a)
      /\ a.ready = n.ready /\ a.prio = n.prio /\ a.pendsv = n.pendsv
      /\ a.state = n.state /\ a.bug = n.bug /\ a.jiffies = n.jiffies
      /\ OnTimeList(a) = OnTimeList(n) \ S
  BY TimeUnlinkEffect
<1>6. /\ Range(a.p_wait) = Range(n.p_wait) \ S /\ Range(a.pov_wait) = Range(n.pov_wait) \ S
      /\ Distinct(a.p_wait) /\ Distinct(a.pov_wait)
  <2>1. n.p_wait \in Seq(Task) /\ n.pov_wait \in Seq(Task)
    BY KernelTypes
  <2>2. a.p_wait = Without(n.p_wait, S) /\ a.pov_wait = Without(n.pov_wait, S)
    BY DEF time_unlink, Kernel
  <2> HIDE DEF a
  <2> QED BY <2>1, <2>2, WithoutList
<1> HIDE DEF a
<1>7. /\ u \in Kernel /\ SameCore(a, u) /\ SameRest(a, u) /\ SameTime(a, u)
      /\ u.obj = a.obj /\ u.evbits = a.evbits /\ u.ready = a.ready
      /\ u.prio = a.prio /\ u.pendsv = a.pendsv /\ u.state = a.state /\ u.bug = a.bug
  BY <1>5, UnlinkEffect
<1> HIDE DEF u, v
<1>8. /\ vl \in [Sems -> Int]
      /\ ev \in [Task -> EvBits] /\ ob \in [Task -> Msg \cup Sems \cup Mtxs \cup Cvs]
      /\ \A t \in Task : t \notin W => ob[t] = v.obj[t]
  <2>1. v \in Kernel
    BY <1>4, <1>7
  <2>2. \A s \in Sems : v.value[s] \in Int /\ SemLimit[s] \in Nat
    BY <2>1, KernelTypes, SemAssumption
  <2>3. \A s \in Sems : sem_inc(v.value[s], SemLimit[s], N(s)) \in Int
    BY <1>3, <2>2, SemIncType
  <2>4. vl \in [Sems -> Int]
    BY <2>3
  <2> HIDE DEF vl
  <2> QED BY <2>1, <2>4, KernelTypes, NoBitsType DEF Msg
<1> HIDE DEF vl, ev, ob
<1>9. /\ x \in Kernel /\ SameLinks(v, x) /\ SameControl(v, x) /\ x.obj = ob
      /\ x.owner = v.owner /\ x.count = v.count /\ x.owned = v.owned
      /\ x.prio = v.prio /\ x.pendsv = v.pendsv /\ x.wait_aborted = v.wait_aborted
  BY <1>4, <1>7, <1>8 DEF Kernel, SameLinks, SameControl
<1> HIDE DEF x
<1>10. /\ r \in Kernel /\ SameCore(x, r) /\ SameTime(x, r) /\ r.pendsv = x.pendsv
       /\ r.state = [t \in Task |-> IF t \in S THEN "READY" ELSE x.state[t]]
  BY <1>2, <1>9, AddReadyEffect DEF S
<1> HIDE DEF r
<1>11. Split(a)
  BY <1>1, <1>4, <1>7, <1>9, <1>10 DEF Split, SameTime, SameLinks
<1>12. CoreInv(a, c, {}) /\ OwnersOK(a)
  <2>1. TimeLists(a) /\ OnTimeList(a) \subseteq OnTimeList(m)
    BY <1>5, <1>6, <1>11 DEF TimeLists
  <2>2. SameCore(m, a) /\ SameWaits(m, a)
    BY <1>5 DEF SameCore, SameWaits
  <2> QED BY <1>5, <2>1, <2>2, ClockOK
<1>13. CoreInv(u, c, {} \cup W) /\ OwnersOK(u)
  <2>1. W \in SUBSET Task /\ \A t \in W : a.state[t] \notin Up
    BY <1>2, <1>w, <1>5
  <2> QED BY <1>12, <2>1, TakeWaitOK DEF u
<1>14. CoreInv(u, c, S)
  <2> DEFINE E == {} \cup W
  <2>1. S \in SUBSET (Task \ {Idle})
    BY <1>0, <1>2, <1>w DEF CurrentOK, Timed, Up
  <2>2. \A t \in S \ E : u.state[t] \notin Up \cup Waiting
    BY <1>w, <1>5, <1>7 DEF Up, Waiting
  <2>3. E \cup S = S
    BY <1>w
  <2>4. CoreInv(u, c, E)
    BY <1>13
  <2> HIDE DEF E
  <2>5. CoreInv(u, c, E \cup S)
    BY <2>1, <2>2, <2>4, LimboOK
  <2> QED BY <2>3, <2>5
<1>15. CoreInv(x, c, S) /\ OwnersOK(x)
  <2>1. \A t \in Task : t \notin S => x.obj[t] = u.obj[t]
    BY <1>4, <1>8, <1>9, <1>w
  <2>2. CoreInv(x, c, S)
    BY <1>4, <1>9, <1>14, <2>1, AlterOK
  <2>3. OwnersOK(x)
    BY <1>4, <1>9, <1>13 DEF OwnersOK, SameLinks, SameControl
  <2> QED BY <2>2, <2>3
<1>16. \A t \in Range(ts) : t \notin OnTimeList(x) /\ x.state[t] \notin Up \cup {"ZOMBIE", "EXITED"}
  <2>1. OnTimeList(x) = OnTimeList(a) /\ x.state = m.state
    BY <1>4, <1>5, <1>7, <1>9 DEF OnTimeList, SameTime, SameLinks
  <2> QED BY <2>1, <1>5, <1>w DEF S, Timed, Up
<1>17. CoreInv(r, c, {}) /\ OwnersOK(r)
  BY <1>2, <1>15, <1>16, MakeReadyOK DEF r, S
<1>18. TimeKept(m, r)
  <2>1. \A t \in Task : m.state[t] \in Up => r.state[t] \in Up
    BY <1>10, <1>4, <1>5, <1>7, <1>9 DEF SameLinks, Up
  <2>2. r.currp = m.currp /\ r.sched_lock = m.sched_lock /\ r.pendsv = m.pendsv
    BY <1>4, <1>5, <1>7, <1>9, <1>10 DEF SameCore, SameControl
  <2> QED BY <2>1, <2>2 DEF TimeKept
<1> QED BY <1>1, <1>17, <1>18

\* advance_jiffies below the wrap.
LEMMA AdvanceWithinOK ==
  ASSUME NEW m, NEW c, CoreInv(m, c, {}), OwnersOK(m), NEW ticks \in Nat, m.jiffies + ticks \in Tick
  PROVE  LET r == advance_within(m, ticks) IN
         CoreInv(r, c, {}) /\ OwnersOK(r) /\ TimeKept(m, r)
<1> DEFINE now == m.jiffies + ticks
           n == [m EXCEPT !.jiffies = now]
<1>0. m \in Kernel /\ TimeOK(m)
  BY CoreParts
<1>1. advance_within(m, ticks) = expire_waiting_tasks(n, now)
  BY DEF advance_within
<1>2. Split(expire_waiting_tasks(n, now))
  <2>1. Split(m)
    BY <1>0 DEF TimeOK, TimeLists
  <2> QED BY <1>0, <1>1, <2>1, AdvanceWithin
<1>3. now \in Tick
  OBVIOUS
<1> HIDE DEF now
<1>4. /\ n \in Kernel /\ SameCore(m, n) /\ SameWaits(m, n) /\ n.ready = m.ready /\ n.prio = m.prio
      /\ n.state = m.state /\ n.bug = m.bug /\ n.pendsv = m.pendsv
      /\ n.p_wait = m.p_wait /\ n.pov_wait = m.pov_wait
  BY <1>0, <1>3 DEF Kernel, SameCore, SameWaits
<1> HIDE DEF n
<1>5. /\ OnTimeList(n) = OnTimeList(m) /\ Distinct(n.p_wait) /\ Distinct(n.pov_wait)
      /\ Range(n.p_wait) \cap Range(n.pov_wait) = {}
  BY <1>0, <1>4 DEF OnTimeList, TimeOK, TimeLists
<1> QED BY <1>1, <1>2, <1>3, <1>4, <1>5, ExpireOK

\* advance_jiffies up to the wrap.
LEMMA AdvanceToWrapOK ==
  ASSUME NEW m, NEW c, CoreInv(m, c, {}), OwnersOK(m)
  PROVE  LET r == advance_to_wrap(m) IN
         CoreInv(r, c, {}) /\ OwnersOK(r) /\ TimeKept(m, r) /\ r.jiffies = 0
<1> DEFINE a == expire_waiting_tasks([m EXCEPT !.jiffies = MaxTick], MaxTick)
           b == IF m.jiffies < MaxTick THEN a ELSE m
           n == [b EXCEPT !.jiffies = 0, !.p_wait = b.pov_wait, !.pov_wait = b.p_wait]
           r == expire_waiting_tasks(n, 0)
           ticks == MaxTick - m.jiffies
<1>0. m \in Kernel /\ TimeOK(m) /\ 0 \in Tick
  BY CoreParts, Ticks
<1>1. advance_to_wrap(m) = r
  BY DEF advance_to_wrap
<1>2. Split(r) /\ r.jiffies = 0
  <2>1. Split(m)
    BY <1>0 DEF TimeOK, TimeLists
  <2> QED BY <1>0, <1>1, <2>1, AdvanceToWrap
<1>3. ticks \in Nat /\ m.jiffies + ticks = MaxTick /\ MaxTick \in Tick
  BY <1>0, KernelTypes, Ticks
<1>4. CoreInv(a, c, {}) /\ OwnersOK(a) /\ TimeKept(m, a)
  <2>1. a = advance_within(m, ticks)
    BY <1>3 DEF advance_within
  <2> HIDE DEF a, ticks
  <2> QED BY <1>3, <2>1, AdvanceWithinOK
<1> HIDE DEF a
<1>5. CoreInv(b, c, {}) /\ OwnersOK(b) /\ TimeKept(m, b)
  BY <1>4 DEF TimeKept
<1>6. b \in Kernel /\ TimeOK(b)
  BY <1>5, CoreParts
<1> HIDE DEF b
<1>7. /\ n \in Kernel /\ SameCore(b, n) /\ SameWaits(b, n) /\ n.ready = b.ready /\ n.prio = b.prio
      /\ n.state = b.state /\ n.bug = b.bug /\ n.pendsv = b.pendsv
      /\ n.p_wait = b.pov_wait /\ n.pov_wait = b.p_wait
  BY <1>0, <1>6 DEF Kernel, SameCore, SameWaits
<1> HIDE DEF n
<1>8. /\ OnTimeList(n) = OnTimeList(b) /\ Distinct(n.p_wait) /\ Distinct(n.pov_wait)
      /\ Range(n.p_wait) \cap Range(n.pov_wait) = {}
  BY <1>6, <1>7 DEF OnTimeList, TimeOK, TimeLists
<1>9. CoreInv(r, c, {}) /\ OwnersOK(r) /\ TimeKept(b, r)
  BY <1>0, <1>2, <1>5, <1>7, <1>8, ExpireOK
<1>10. TimeKept(m, r)
  BY <1>5, <1>9 DEF TimeKept
<1> QED BY <1>1, <1>2, <1>9, <1>10

\* advance_jiffies.
LEMMA AdvanceOK ==
  ASSUME NEW m, NEW c, CoreInv(m, c, {}), OwnersOK(m), NEW ticks \in Tick
  PROVE  LET r == advance_jiffies(m, ticks) IN
         CoreInv(r, c, {}) /\ OwnersOK(r) /\ TimeKept(m, r)
<1> DEFINE to_wrap == MaxTick - m.jiffies + 1
           n == advance_to_wrap(m)
           r == advance_jiffies(m, ticks)
<1>0. /\ m \in Kernel /\ m.jiffies \in Nat /\ m.jiffies <= MaxTick /\ ticks \in Nat
      /\ ticks <= MaxTick /\ MaxTick \in Nat
  BY CoreParts, KernelTypes, Ticks
<1>1. CoreInv(n, c, {}) /\ OwnersOK(n) /\ TimeKept(m, n) /\ n.jiffies = 0
  BY AdvanceToWrapOK
<1> HIDE DEF n
<1>2. CASE ticks = 0
  <2>1. r = m
    BY <1>0, <1>2 DEF advance_jiffies
  <2> QED BY <2>1 DEF TimeKept
<1>3. CASE ticks > 0 /\ ticks < to_wrap
  <2>1. r = advance_within(m, ticks) /\ m.jiffies + ticks \in Tick
    BY <1>0, <1>3, Ticks DEF advance_jiffies
  <2> QED BY <1>0, <2>1, AdvanceWithinOK
<1>4. CASE ticks = to_wrap
  <2>1. r = n
    BY <1>0, <1>4 DEF advance_jiffies, n
  <2> QED BY <1>1, <2>1
<1>5. CASE ticks > to_wrap
  <2> DEFINE rest == ticks - to_wrap
  <2>1. r = advance_within(n, rest) /\ rest \in Nat /\ n.jiffies + rest \in Tick
    BY <1>0, <1>1, <1>5, Ticks DEF advance_jiffies, n
  <2> HIDE DEF rest
  <2>2. CoreInv(r, c, {}) /\ OwnersOK(r) /\ TimeKept(n, r)
    BY <1>1, <2>1, AdvanceWithinOK
  <2> QED BY <1>1, <2>2 DEF TimeKept
<1> QED BY <1>0, <1>2, <1>3, <1>4, <1>5

\* rotate: the running task becomes ready at the end of its priority.
LEMMA RotateOK ==
  ASSUME NEW m, NEW c, CoreInv(m, c, {}), OwnersOK(m)
  PROVE  LET r == rotate(m) IN
         /\ CoreInv(r, c, {}) /\ OwnersOK(r) /\ SameCore(m, r) /\ r.pendsv = m.pendsv
         /\ \A t \in Task : r.state[t] # "RUNNING" /\ (m.state[t] \in Up <=> r.state[t] \in Up)
<1>0. /\ m \in Kernel /\ c \in [Task -> Call] /\ ~m.bug
      /\ ReadyPlaced(m, {}) /\ WaitPlaced(m, c, {})
      /\ TimeOK(m) /\ CurrentOK(m, c, {}) /\ BlockedOK(m, c, {}) /\ CallsOK(c)
      /\ LifeOK(m, c) /\ AliveOK(m, c) /\ m.currp \in Task /\ Idle \in Task
  BY CoreParts
<1>1. CASE m.state[m.currp] # "RUNNING"
  <2>1. rotate(m) = m
    BY <1>1 DEF rotate
  <2> QED BY <1>0, <1>1, <2>1 DEF SameCore, CurrentOK
<1>2. CASE m.state[m.currp] = "RUNNING"
  <2> DEFINE t == m.currp
             f == [p \in Prio |-> IF t \in Range(m.ready[p])
                                  THEN Append(Without(m.ready[p], {t}), t) ELSE m.ready[p]]
             g == [m.state EXCEPT ![t] = "READY"]
             b == m.bug \/ \A p \in Prio : t \notin Range(m.ready[p])
             r == [m EXCEPT !.bug = b, !.ready = f, !.state = g]
  <2>1. rotate(m) = r
    BY <1>2 DEF rotate
  <2>2. ~b
    <3>1. m.prio[t] \in Prio /\ m.state[t] \in Up
      BY <1>0, <1>2, KernelTypes DEF Up
    <3> QED BY <1>0, <3>1 DEF ReadyPlaced
  <2>3. ASSUME NEW p \in Prio
        PROVE  /\ f[p] \in Seq(Task) /\ Range(f[p]) = Range(m.ready[p])
               /\ Distinct(m.ready[p]) => Distinct(f[p])
    <3> DEFINE w == Without(m.ready[p], {t})
    <3>1. m.ready[p] \in Seq(Task)
      BY <1>0, KernelTypes
    <3>2. w \in Seq(Task) /\ Range(w) = Range(m.ready[p]) \ {t} /\ (Distinct(m.ready[p]) => Distinct(w))
      BY <3>1, WithoutList
    <3>3. f[p] = IF t \in Range(m.ready[p]) THEN Append(w, t) ELSE m.ready[p]
      OBVIOUS
    <3> HIDE DEF w, f
    <3>4. /\ Append(w, t) \in Seq(Task) /\ Range(Append(w, t)) = Range(w) \cup {t}
          /\ Distinct(w) /\ t \notin Range(w) => Distinct(Append(w, t))
      BY <1>0, <3>2, AppendList
    <3> QED BY <3>1, <3>2, <3>3, <3>4
  <2>4. f \in [Prio -> Seq(Task)]
    <3>1. f = [p \in Prio |-> f[p]]
      OBVIOUS
    <3> HIDE DEF f
    <3> QED BY <2>3, <3>1
  <2>5. g \in [Task -> State] /\ g[t] = "READY" /\ \A u \in Task \ {t} : g[u] = m.state[u]
    BY <1>0, KernelTypes DEF State
  <2>6. b \in BOOLEAN
    BY <1>0, KernelTypes
  <2> HIDE DEF f, g, b
  <2>7. /\ r \in Kernel /\ r.ready = f /\ r.state = g /\ r.bug = b /\ r.prio = m.prio
        /\ SameCore(m, r) /\ SameTime(m, r) /\ SameWaits(m, r) /\ r.pendsv = m.pendsv
    BY <1>0, <2>4, <2>5, <2>6 DEF Kernel, SameCore, SameTime, SameWaits
  <2> HIDE DEF r
  <2>8. \A u \in Task : /\ m.state[u] \in Up <=> r.state[u] \in Up
                        /\ m.state[u] \notin Up => r.state[u] = m.state[u]
    BY <1>2, <2>5, <2>7 DEF Up
  <2>9. ReadyPlaced(r, {})
    BY <1>0, <2>3, <2>7, <2>8 DEF ReadyPlaced
  <2>10. WaitPlaced(r, c, {})
    <3>1. \A u \in Task : u \notin {} /\ m.state[u] \in Waiting => m.state[u] \notin Up
      BY DEF Waiting, Up
    <3>2. \A u \in Task : u \notin {} /\ m.state[u] \in Waiting => Aw(r, c, u) = Aw(m, c, u)
      BY <2>7, <2>8, <3>1 DEF Aw, SameWaits
    <3>3. \A u \in Task : m.state[u] \in Waiting <=> r.state[u] \in Waiting
      BY <2>8, <3>1 DEF Waiting, Up
    <3> QED BY <1>0, <2>7, <3>2, <3>3 DEF WaitPlaced, SameWaits
  <2>11. TimeOK(r)
    <3>1. OnTimeList(r) = OnTimeList(m) /\ TimeLists(r)
      BY <1>0, <2>7 DEF TimeOK, TimeLists, Split, OnTimeList, SameTime
    <3>2. \A u \in OnTimeList(m) : u \in Task /\ m.state[u] \in Timed
      BY <1>0, KernelTypes, RangeType DEF OnTimeList, TimeOK
    <3> QED BY <2>8, <3>1, <3>2 DEF TimeOK, Timed, Up
  <2>12. CurrentOK(r, c, {}) /\ \A u \in Task : r.state[u] # "RUNNING"
    <3>1. \A u \in Task : r.state[u] # "RUNNING"
      BY <1>0, <2>5, <2>7 DEF CurrentOK
    <3> QED BY <1>0, <3>1, <2>7, <2>8 DEF CurrentOK, SameCore
  <2>13. BlockedOK(r, c, {})
    BY <1>0, <2>7, <2>8 DEF BlockedOK, Blocked, SameWaits, SameCore, Waiting, Up
  <2>14. LifeOK(r, c)
    <3>1. \A u \in Task : r.state[u] = m.state[u] \/ (r.state[u] \notin Gone /\ m.state[u] \notin Gone)
      BY <2>8 DEF Up, Gone
    <3>2. \A u \in Task : Freeing(c[u]) => c[u].o \in Task /\ m.state[c[u].o] = "EXITED"
      BY <1>0 DEF LifeOK, Freeing, CallsOK, CallKind, Task
    <3> QED BY <1>0, <2>7, <3>1, <3>2 DEF LifeOK, SameWaits, SameCore, Gone
  <2>15. AliveOK(r, c)
    BY <1>0, <2>7 DEF AliveOK, SameWaits, SameCore
  <2>16. OwnersOK(r)
    <3>1. \A x \in Mtxs : m.owner[x] # Null => m.owner[x] \in Task
      BY <1>0, KernelTypes
    <3> QED BY <2>7, <2>8, <3>1 DEF OwnersOK, SameWaits, SameCore, Up, Gone
  <2>17. CoreInv(r, c, {})
    BY <1>0, <2>2, <2>7, <2>9, <2>10, <2>11, <2>12, <2>13, <2>14, <2>15 DEF CoreInv
  <2> QED BY <2>1, <2>7, <2>8, <2>12, <2>16, <2>17
<1> QED BY <1>1, <1>2

\* pend_svc_isr_vector: the switch to the first task of the highest priority.
LEMMA SwitchOK ==
  ASSUME NEW m, NEW c, KernelOK(m, c)
  PROVE  KernelOK([schedule(m) EXCEPT !.pendsv = FALSE], c)
<1>0. /\ m \in Kernel /\ c \in [Task -> Call] /\ CurrentOK(m, c, {}) /\ m.currp \in Task
      /\ CoreInv(m, c, {}) /\ OwnersOK(m)
  BY CoreParts DEF KernelOK
<1>1. CASE m.sched_lock # 0
  <2> DEFINE r == [m EXCEPT !.yield_pending = TRUE, !.pendsv = FALSE]
  <2>1. [schedule(m) EXCEPT !.pendsv = FALSE] = r
    BY <1>1 DEF schedule
  <2>2. /\ r \in Kernel /\ SameCore(m, r) /\ SameTime(m, r) /\ SameWaits(m, r)
        /\ r.ready = m.ready /\ r.prio = m.prio /\ r.state = m.state /\ r.bug = m.bug
    BY <1>0 DEF Kernel, SameCore, SameTime, SameWaits
  <2> HIDE DEF r
  <2>3. /\ ReadyPlaced(m, {}) /\ WaitPlaced(m, c, {}) /\ TimeOK(m) /\ BlockedOK(m, c, {}) /\ CallsOK(c)
        /\ LifeOK(m, c) /\ AliveOK(m, c) /\ ~m.bug
    BY <1>0, CoreParts
  <2>4. ReadyPlaced(r, {}) /\ WaitPlaced(r, c, {}) /\ TimeOK(r)
    BY <2>2, <2>3 DEF ReadyPlaced, WaitPlaced, SameWaits, Aw, TimeOK, TimeLists, Split, OnTimeList, SameTime
  <2>5. CurrentOK(r, c, {})
    BY <1>0, <1>1, <2>2 DEF CurrentOK, SameCore
  <2>6. BlockedOK(r, c, {}) /\ LifeOK(r, c) /\ AliveOK(r, c)
    BY <2>2, <2>3 DEF BlockedOK, LifeOK, AliveOK, SameWaits, SameCore
  <2>7. OwnersOK(r)
    BY <1>0, <2>2 DEF OwnersOK, SameWaits, SameCore
  <2> QED BY <1>0, <2>1, <2>2, <2>3, <2>4, <2>5, <2>6, <2>7 DEF KernelOK, CoreInv
<1>2. CASE m.sched_lock = 0
  <2> DEFINE n == rotate(m)
             p == top_prio(n)
             t == Head(n.ready[p])
             b == n.bug \/ n.state[t] # "READY" \/ n.prio[t] # p
             g == [n.state EXCEPT ![t] = "RUNNING"]
             r == [n EXCEPT !.bug = b, !.currp = t, !.state = g, !.pendsv = FALSE]
  <2>1. [schedule(m) EXCEPT !.pendsv = FALSE] = r
    BY <1>2 DEF schedule
  <2>2. /\ CoreInv(n, c, {}) /\ OwnersOK(n) /\ SameCore(m, n)
        /\ \A u \in Task : n.state[u] # "RUNNING"
    BY <1>0, RotateOK
  <2> HIDE DEF n
  <2>3. /\ n \in Kernel /\ ReadyPlaced(n, {}) /\ WaitPlaced(n, c, {}) /\ CurrentOK(n, c, {}) /\ TimeOK(n)
        /\ BlockedOK(n, c, {}) /\ CallsOK(c) /\ LifeOK(n, c) /\ AliveOK(n, c) /\ ~n.bug /\ Idle \in Task
    BY <2>2, CoreParts
  <2>4. p \in Prio /\ t \in Range(n.ready[p]) /\ t \in Task
    <3>1. n.ready \in [Prio -> Seq(Task)] /\ NumPrio \in Prio
      BY <2>3, KernelTypes, Prios
    <3>2. Idle \in Range(n.ready[NumPrio])
      BY <2>3, <3>1 DEF ReadyPlaced, CurrentOK
    <3>3. n.ready[NumPrio] # <<>>
      BY <3>1, <3>2, EmptyRange
    <3> QED BY <3>1, <3>3, FirstNonEmpty DEF top_prio
  <2> HIDE DEF p, t
  <2>5. n.state[t] = "READY" /\ n.prio[t] = p
    BY <2>2, <2>3, <2>4 DEF ReadyPlaced, Up
  <2>6. b = FALSE
    BY <2>3, <2>5
  <2>7. g \in [Task -> State] /\ g[t] = "RUNNING" /\ \A u \in Task \ {t} : g[u] = n.state[u]
    BY <2>3, <2>4, KernelTypes DEF State
  <2> HIDE DEF b, g
  <2>8. /\ r \in Kernel /\ r.state = g /\ r.bug = b /\ r.currp = t /\ r.ready = n.ready /\ r.prio = n.prio
        /\ SameTime(n, r) /\ SameWaits(n, r) /\ r.zombie = n.zombie /\ r.refcnt = n.refcnt
        /\ r.wait_aborted = n.wait_aborted /\ r.live = n.live /\ r.evt = n.evt
        /\ r.owner = n.owner /\ r.count = n.count /\ r.owned = n.owned /\ r.sched_lock = n.sched_lock
    BY <2>3, <2>4, <2>6, <2>7 DEF Kernel, SameTime, SameWaits
  <2> HIDE DEF r
  <2>9. \A u \in Task : /\ n.state[u] \in Up <=> r.state[u] \in Up
                        /\ n.state[u] \notin Up => r.state[u] = n.state[u]
    BY <2>5, <2>7, <2>8 DEF Up
  <2>10. ReadyPlaced(r, {})
    BY <2>3, <2>8, <2>9 DEF ReadyPlaced
  <2>11. WaitPlaced(r, c, {})
    <3>1. \A u \in Task : u \notin {} /\ n.state[u] \in Waiting => n.state[u] \notin Up
      BY DEF Waiting, Up
    <3>2. \A u \in Task : u \notin {} /\ n.state[u] \in Waiting => Aw(r, c, u) = Aw(n, c, u)
      BY <2>8, <2>9, <3>1 DEF Aw, SameWaits
    <3>3. \A u \in Task : n.state[u] \in Waiting <=> r.state[u] \in Waiting
      BY <2>9, <3>1 DEF Waiting, Up
    <3> QED BY <2>3, <2>8, <3>2, <3>3 DEF WaitPlaced, SameWaits
  <2>12. TimeOK(r)
    <3>1. OnTimeList(r) = OnTimeList(n) /\ TimeLists(r)
      BY <2>3, <2>8 DEF TimeOK, TimeLists, Split, OnTimeList, SameTime
    <3>2. \A u \in OnTimeList(n) : u \in Task /\ n.state[u] \in Timed
      BY <2>3, KernelTypes, RangeType DEF OnTimeList, TimeOK
    <3> QED BY <2>9, <3>1, <3>2 DEF TimeOK, Timed, Up
  <2>13. CurrentOK(r, c, {})
    <3>1. \A u \in Task : r.state[u] = "RUNNING" => u = r.currp
      BY <2>2, <2>7, <2>8
    <3>2. r.state[r.currp] \in Up
      BY <2>7, <2>8 DEF Up
    <3>3. r.sched_lock = 0
      BY <1>2, <2>2, <2>8 DEF SameCore
    <3> QED BY <2>3, <2>8, <2>9, <3>1, <3>2, <3>3 DEF CurrentOK
  <2>14. BlockedOK(r, c, {})
    BY <2>3, <2>8, <2>9 DEF BlockedOK, Blocked, SameWaits, Waiting, Up
  <2>15. LifeOK(r, c)
    <3>1. \A u \in Task : r.state[u] = n.state[u] \/ (r.state[u] \notin Gone /\ n.state[u] \notin Gone)
      BY <2>9 DEF Up, Gone
    <3>2. \A u \in Task : Freeing(c[u]) => c[u].o \in Task /\ n.state[c[u].o] = "EXITED"
      BY <2>3 DEF LifeOK, Freeing, CallsOK, CallKind, Task
    <3> QED BY <2>3, <2>8, <3>1, <3>2 DEF LifeOK, SameWaits, Gone
  <2>16. AliveOK(r, c)
    BY <2>3, <2>8 DEF AliveOK, SameWaits
  <2>17. OwnersOK(r)
    <3>1. \A x \in Mtxs : n.owner[x] # Null => n.owner[x] \in Task
      BY <2>3, KernelTypes
    <3> QED BY <2>2, <2>8, <2>9, <3>1 DEF OwnersOK, SameWaits, Up, Gone
  <2>18. CoreInv(r, c, {})
    BY <1>0, <2>3, <2>6, <2>8, <2>10, <2>11, <2>12, <2>13, <2>14, <2>15, <2>16 DEF CoreInv
  <2> QED BY <2>1, <2>17, <2>18 DEF KernelOK
<1> QED BY <1>0, <1>1, <1>2, KernelTypes

\* A switch may be requested at any time.
LEMMA PendOK ==
  ASSUME NEW m, NEW c, NEW X, CoreInv(m, c, X), NEW b \in BOOLEAN, m.pendsv => b
  PROVE  LET r == [m EXCEPT !.pendsv = b] IN
         /\ CoreInv(r, c, X) /\ (OwnersOK(m) => OwnersOK(r)) /\ SameLinks(m, r) /\ SameControl(m, r)
         /\ r.prio = m.prio /\ r.pendsv = b /\ r.wait_aborted = m.wait_aborted /\ r.obj = m.obj
         /\ r.owner = m.owner /\ r.owned = m.owned /\ r.count = m.count
<1> DEFINE r == [m EXCEPT !.pendsv = b]
<1>1. m \in Kernel
  BY CoreParts
<1>2. /\ r \in Kernel /\ SameLinks(m, r) /\ SameControl(m, r)
      /\ r.prio = m.prio /\ r.pendsv = b /\ r.wait_aborted = m.wait_aborted /\ r.obj = m.obj
      /\ r.owner = m.owner /\ r.owned = m.owned /\ r.count = m.count
  BY <1>1 DEF Kernel, SameLinks, SameControl
<1> HIDE DEF r
<1>3. CoreInv(r, c, X)
  BY <1>2, AlterOK
<1>4. OwnersOK(m) => OwnersOK(r)
  BY <1>2 DEF OwnersOK, SameLinks, SameControl
<1> QED BY <1>2, <1>3, <1>4 DEF r

-----------------------------------------------------------------------------
(***************************************************************************)
(* The steps of the machine and of the services of the scheduler.          *)
(***************************************************************************)

\* The thread that executes is on the ready list, unless it is before the
\* yield that ends its blocking call.
LEMMA ExecUp ==
  ASSUME KernelOK(k, call), NEW t \in Task, Exec(t), call[t].pc # "yield"
  PROVE  /\ t = k.currp /\ k.state[t] \in Up /\ k.state[t] \notin Waiting \cup Gone
         /\ ~k.pendsv /\ CoreInv(k, call, {}) /\ OwnersOK(k)
         /\ k \in Kernel /\ call \in [Task -> Call] /\ call[t] \in Call
BY CoreParts DEF KernelOK, CurrentOK, Exec, Up, Waiting, Gone

\* Every record of a call that is entered or left is one.
LEMMA NoCallFits ==
  /\ NoCall \in Call /\ CallKind(NoCall) /\ ~Freeing(NoCall)
  /\ NoCall.o = Null /\ NoCall.pc = "run" /\ NoCall.op = "none" /\ Null \notin Object
BY CallType, TaskAssumption DEF NoCall, CallKind, Freeing

\* A task that executes leaves its call.
LEMMA LeaveCallOK ==
  ASSUME NEW m, NEW c, NEW X, CoreInv(m, c, X), NEW t \in Task,
         t \in X \/ m.state[t] \notin Waiting,
         t = m.currp /\ t \notin X => m.state[t] \in Up \/ m.pendsv
  PROVE  CoreInv(m, [c EXCEPT ![t] = NoCall], X)
<1>1. NoCall.op \notin Blocking
  BY NoCallFits DEF Blocking
<1> QED BY <1>1, NoCallFits, CallOK

\* The tick interrupt.
LEMMA SysTickOK ==
  ASSUME KernelOK(k, call), SysTick
  PROVE  KernelOK(k', call')
<1> DEFINE l == [t \in Task |-> IF t \in OnTimeList(k) /\ k.left[t] > 0 THEN k.left[t] - 1 ELSE k.left[t]]
           m == [k EXCEPT !.left = l]
           n == systimer_announce(m)
           b == [n EXCEPT !.pendsv = TRUE]
<1>0. k \in Kernel /\ CoreInv(k, call, {}) /\ OwnersOK(k)
  BY CoreParts DEF KernelOK
<1>1. k' = b /\ call' = call /\ (k.sched_lock # 0 => k.skipped < MaxSkipped)
  BY DEF SysTick, pass, port_yield
<1>2. l \in [Task -> Tick]
  BY <1>0, KernelTypes, Ticks
<1> HIDE DEF l
<1>3. /\ m \in Kernel /\ SameLinks(k, m) /\ SameControl(k, m) /\ m.skipped = k.skipped
      /\ m.owner = k.owner /\ m.count = k.count /\ m.owned = k.owned /\ m.obj = k.obj
      /\ m.prio = k.prio /\ m.pendsv = k.pendsv /\ m.wait_aborted = k.wait_aborted
  BY <1>0, <1>2 DEF Kernel, SameLinks, SameControl
<1> HIDE DEF m
<1>4. CoreInv(m, call, {}) /\ OwnersOK(m)
  <2>1. CoreInv(m, call, {})
    BY <1>0, <1>3, AlterOK
  <2>2. OwnersOK(m)
    BY <1>0, <1>3 DEF OwnersOK, SameLinks, SameControl
  <2> QED BY <2>1, <2>2
<1>5. CoreInv(n, call, {}) /\ OwnersOK(n)
  <2>1. CASE m.sched_lock # 0
    <3> DEFINE s == [m EXCEPT !.skipped = m.skipped + 1]
    <3>1. n = s
      BY <2>1 DEF systimer_announce
    <3>2. m.skipped + 1 \in Tick
      BY <1>0, <1>1, <1>3, <2>1, KernelTypes, Ticks, TimeAssumption DEF SameControl
    <3>3. /\ s \in Kernel /\ SameLinks(m, s) /\ SameControl(m, s)
          /\ s.owner = m.owner /\ s.count = m.count /\ s.owned = m.owned /\ s.obj = m.obj
          /\ s.prio = m.prio /\ s.pendsv = m.pendsv /\ s.wait_aborted = m.wait_aborted
      BY <1>3, <3>2 DEF Kernel, SameLinks, SameControl
    <3> HIDE DEF s, n
    <3>4. CoreInv(s, call, {})
      BY <1>4, <3>3, AlterOK
    <3>5. OwnersOK(s)
      BY <1>4, <3>3 DEF OwnersOK, SameLinks, SameControl
    <3> QED BY <3>1, <3>4, <3>5
  <2>2. CASE ~(m.sched_lock # 0)
    <3>1. n = advance_jiffies(m, 1) /\ 1 \in Tick
      BY <2>2, Ticks DEF systimer_announce
    <3> HIDE DEF n
    <3> QED BY <1>4, <3>1, AdvanceOK
  <2> QED BY <2>1, <2>2
<1> HIDE DEF n
<1>6. CoreInv(b, call, {}) /\ OwnersOK(b)
  BY <1>5, PendOK
<1> QED BY <1>1, <1>6 DEF KernelOK

\* The yield that ends the blocking half of a call.
LEMMA YieldOK ==
  ASSUME KernelOK(k, call), NEW t \in Task, Yield(t)
  PROVE  KernelOK(k', call')
<1> DEFINE m == [k EXCEPT !.pendsv = TRUE]
           e == IF call[t].op \in {"sleep", "suspend"} THEN NoCall ELSE [call[t] EXCEPT !.pc = "after"]
<1>0. /\ k \in Kernel /\ call \in [Task -> Call] /\ CoreInv(k, call, {}) /\ OwnersOK(k) /\ call[t] \in Call
      /\ CallsOK(call) /\ BlockedOK(k, call, {}) /\ CurrentOK(k, call, {}) /\ LifeOK(k, call) /\ AliveOK(k, call)
  BY CoreParts DEF KernelOK
<1>1. k' = m /\ call' = [call EXCEPT ![t] = e] /\ call[t].pc = "yield" /\ t = k.currp
  BY DEF Yield, port_yield, Exec
<1>2. /\ CoreInv(m, call, {}) /\ OwnersOK(m) /\ SameLinks(k, m) /\ SameControl(k, m)
      /\ m.wait_aborted = k.wait_aborted /\ m.pendsv = TRUE
  BY <1>0, PendOK
<1> HIDE DEF m
<1>3. CASE call[t].op \in {"sleep", "suspend"}
  <2>1. m.state[t] \notin Waiting
    BY <1>0, <1>2, <1>3 DEF BlockedOK, Blocked, SameLinks, Waiting
  <2> QED BY <1>1, <1>2, <1>3, <2>1, LeaveCallOK DEF KernelOK
<1>4. CASE call[t].op \notin {"sleep", "suspend"}
  <2>1. /\ e = [call[t] EXCEPT !.pc = "after"] /\ e \in Call
        /\ e.op = call[t].op /\ e.o = call[t].o /\ e.pc = "after" /\ e.set = call[t].set
    BY <1>0, <1>4 DEF Call, Pcs
  <2> HIDE DEF e
  <2>2. CallKind(e)
    BY <1>0, <2>1 DEF CallsOK, CallKind
  <2>3. t # Idle
    BY <1>0, <1>1 DEF CurrentOK
  <2>4. e.o \in Object \ m.live => Harmless(e, m.wait_aborted[t])
    BY <1>0, <1>2, <2>1 DEF AliveOK, Harmless, SameControl
  <2>5. Freeing(e) => /\ m.state[e.o] = "EXITED" /\ m.refcnt[e.o] = 0
                      /\ \A v \in Task \ {t} : Freeing(call[v]) => call[v].o # e.o
    BY <1>0, <1>2, <2>1 DEF LifeOK, Freeing, SameControl, SameLinks
  <2>6. CoreInv(m, [call EXCEPT ![t] = e], {})
    <3>1. t = m.currp /\ m.sched_lock # 0 => e.op \notin Blocking
      BY <1>0, <1>2, <2>1 DEF CurrentOK, SameControl
    <3> QED BY <1>2, <2>1, <2>2, <2>3, <2>4, <2>5, <3>1, CallOK
  <2> QED BY <1>1, <1>2, <2>6 DEF KernelOK
<1> QED BY <1>3, <1>4

\* What goes on under every service.
LEMMA MachineOK ==
  ASSUME KernelOK(k, call), Machine
  PROVE  KernelOK(k', call')
<1>1. CASE SysTick
  BY <1>1, SysTickOK
<1>2. CASE PendSV
  <2>1. k' = [schedule(k) EXCEPT !.pendsv = FALSE] /\ call' = call
    BY <1>2 DEF PendSV
  <2> QED BY <2>1, SwitchOK
<1>3. CASE \E t \in Task : Yield(t)
  BY <1>3, YieldOK
<1> QED BY <1>1, <1>2, <1>3 DEF Machine

\* isix_wait.
LEMMA WaitOK ==
  ASSUME KernelOK(k, call), NEW t \in Task, NEW timeout \in Timeouts, Wait(t, timeout)
  PROVE  KernelOK(k', call')
<1> DEFINE m == set_sleep_timeout(k, "SLEEPING", timeout)
           e == [NoCall EXCEPT !.op = "sleep", !.pc = "yield"]
           d == [call EXCEPT ![t] = e]
<1>1. k' = m /\ call' = d /\ t # Idle /\ k.sched_lock = 0
  BY DEF Wait, MayBlock, Running
<1>2. t = k.currp /\ k.state[t] \in Up /\ CoreInv(k, call, {}) /\ OwnersOK(k) /\ call \in [Task -> Call]
  BY ExecUp DEF Wait, MayBlock, Running
<1>3. timeout \in Tick /\ "SLEEPING" \in Timed
  BY TimeAssumption DEF Timed
<1>4. /\ CoreInv(m, call, {t}) /\ OwnersOK(m) /\ m.state[t] = "SLEEPING"
      /\ m.currp = k.currp /\ m.sched_lock = 0
  BY <1>1, <1>2, <1>3, SleepTimeoutOK DEF SameCore
<1>5. e \in Call /\ CallKind(e) /\ ~Freeing(e) /\ e.o = Null /\ e.pc = "yield" /\ Null \notin Object
  <2>1. "sleep" \in Ops /\ "yield" \in Pcs /\ Null \in Obj \cup Fifos \cup {Null}
    BY DEF Ops, Pcs
  <2>2. e \in Call /\ e.op = "sleep" /\ e.pc = "yield" /\ e.o = Null
    BY <2>1, NoCallFits DEF Call
  <2> HIDE DEF e
  <2> QED BY <2>2, NoCallFits DEF CallKind, Freeing
<1>6. d[t] = e
  BY <1>2
<1> HIDE DEF m, e
<1>7. CoreInv(m, d, {t})
  BY <1>1, <1>4, <1>5, CallOK
<1> HIDE DEF d
<1>8. CoreInv(m, d, {})
  BY <1>4, <1>5, <1>6, <1>7, SettleOK DEF Up, Waiting
<1> QED BY <1>1, <1>4, <1>8 DEF KernelOK

\* The thread that executes may lock the scheduler and unlock it.
LEMMA LockOK ==
  ASSUME NEW m, NEW c, CoreInv(m, c, {}), OwnersOK(m), m.state[m.currp] \in Up,
         c[m.currp].op \notin Blocking, NEW n \in Nat
  PROVE  /\ CoreInv([m EXCEPT !.sched_lock = n], c, {})
         /\ OwnersOK([m EXCEPT !.sched_lock = n])
<1> DEFINE r == [m EXCEPT !.sched_lock = n]
<1>0. /\ m \in Kernel /\ c \in [Task -> Call] /\ ~m.bug
      /\ ReadyPlaced(m, {}) /\ WaitPlaced(m, c, {})
      /\ TimeOK(m) /\ CurrentOK(m, c, {}) /\ BlockedOK(m, c, {}) /\ CallsOK(c)
      /\ LifeOK(m, c) /\ AliveOK(m, c) /\ m.currp \in Task /\ Idle \in Task
  BY CoreParts
<1>1. /\ r \in Kernel /\ SameTime(m, r) /\ SameWaits(m, r)
      /\ r.ready = m.ready /\ r.prio = m.prio /\ r.state = m.state /\ r.bug = m.bug
      /\ r.zombie = m.zombie /\ r.refcnt = m.refcnt /\ r.currp = m.currp
      /\ r.wait_aborted = m.wait_aborted /\ r.live = m.live /\ r.evt = m.evt
      /\ r.owner = m.owner /\ r.count = m.count /\ r.owned = m.owned
  BY <1>0 DEF Kernel, SameTime, SameWaits
<1> HIDE DEF r
<1>2. ReadyPlaced(r, {}) /\ WaitPlaced(r, c, {}) /\ TimeOK(r)
  BY <1>0, <1>1 DEF ReadyPlaced, WaitPlaced, SameWaits, Aw, TimeOK, TimeLists, Split, OnTimeList, SameTime
<1>3. CurrentOK(r, c, {})
  BY <1>0, <1>1 DEF CurrentOK
<1>4. BlockedOK(r, c, {}) /\ LifeOK(r, c) /\ AliveOK(r, c)
  BY <1>0, <1>1 DEF BlockedOK, LifeOK, AliveOK, SameWaits
<1>5. OwnersOK(r)
  BY <1>1 DEF OwnersOK, SameWaits
<1> QED BY <1>0, <1>1, <1>2, <1>3, <1>4, <1>5 DEF CoreInv, r

\* The scheduler lock and isix_yield.
LEMMA ShareOK ==
  ASSUME KernelOK(k, call), NEW t \in Task, YieldCall(t) \/ LockScheduler(t) \/ UnlockScheduler(t)
  PROVE  KernelOK(k', call')
<1>0. /\ t = k.currp /\ k.state[t] \in Up /\ CoreInv(k, call, {}) /\ OwnersOK(k) /\ t # Idle
      /\ k.sched_lock \in Nat /\ call \in [Task -> Call]
  BY ExecUp, KernelTypes DEF YieldCall, LockScheduler, UnlockScheduler, Running
<1>c. call[k.currp].op \notin Blocking
  <2>1. CallKind(call[t]) /\ call[t].pc = "run"
    BY <1>0, CoreParts DEF CallsOK, YieldCall, LockScheduler, UnlockScheduler, Running
  <2> QED BY <1>0, <2>1 DEF CallKind, Blocking
<1>1. CASE YieldCall(t)
  <2>1. k' = [k EXCEPT !.pendsv = TRUE] /\ call' = call
    BY <1>1 DEF YieldCall, port_yield
  <2> QED BY <1>0, <2>1, PendOK DEF KernelOK
<1>2. CASE LockScheduler(t)
  <2>1. k' = [k EXCEPT !.sched_lock = k.sched_lock + 1] /\ call' = call /\ k.sched_lock + 1 \in Nat
    BY <1>0, <1>2 DEF LockScheduler
  <2> QED BY <1>0, <1>c, <2>1, LockOK DEF KernelOK
<1>3. CASE UnlockScheduler(t)
  <2> DEFINE e == [NoCall EXCEPT !.op = "lock", !.pc = "enter"]
             m == [k EXCEPT !.sched_lock = k.sched_lock - 1]
  <2>1. k' = m /\ k.sched_lock - 1 \in Nat
        /\ call' = [call EXCEPT ![t] = IF k.sched_lock = 1 THEN e ELSE call[t]]
    BY <1>0, <1>3 DEF UnlockScheduler
  <2>2. CoreInv(m, call, {}) /\ OwnersOK(m)
    BY <1>0, <1>c, <2>1, LockOK
  <2>3. m.state = k.state /\ m.currp = k.currp
    BY <1>0, CoreParts DEF Kernel
  <2>4. /\ e \in Call /\ CallKind(e) /\ ~Freeing(e) /\ e.o = Null /\ Null \notin Object
        /\ e.op \notin Blocking
    <3>1. "lock" \in Ops /\ "enter" \in Pcs /\ Null \in Obj \cup Fifos \cup {Null}
      BY DEF Ops, Pcs
    <3>2. e \in Call /\ e.op = "lock" /\ e.pc = "enter" /\ e.o = Null
      BY <3>1, NoCallFits DEF Call
    <3> HIDE DEF e
    <3> QED BY <3>2, NoCallFits DEF CallKind, Freeing, Blocking
  <2> HIDE DEF e, m
  <2>5. CASE k.sched_lock = 1
    <3>1. m.state[t] \notin Waiting
      BY <1>0, <2>3 DEF Up, Waiting
    <3>2. CoreInv(m, [call EXCEPT ![t] = e], {})
      BY <1>0, <2>2, <2>3, <2>4, <3>1, CallOK
    <3> QED BY <2>1, <2>2, <2>5, <3>2 DEF KernelOK
  <2>6. CASE k.sched_lock # 1
    <3>1. call' = call
      BY <1>0, <2>1, <2>6
    <3> QED BY <2>1, <2>2, <3>1 DEF KernelOK
  <2> QED BY <2>5, <2>6
<1> QED BY <1>1, <1>2, <1>3

\* The replay of the ticks that were skipped under the lock.
LEMMA UnlockFlushOK ==
  ASSUME KernelOK(k, call), NEW t \in Task, UnlockFlush(t)
  PROVE  KernelOK(k', call')
<1> DEFINE a == advance_jiffies(k, k.skipped)
           m == [a EXCEPT !.skipped = 0]
           r == [m EXCEPT !.pendsv = m.pendsv \/ m.yield_pending, !.yield_pending = FALSE]
<1>0. t = k.currp /\ k.state[t] \in Up /\ CoreInv(k, call, {}) /\ OwnersOK(k) /\ k \in Kernel
  BY ExecUp DEF UnlockFlush
<1>1. k' = r /\ call' = [call EXCEPT ![t] = NoCall]
  BY DEF UnlockFlush, unlock_flush
<1>2. CoreInv(a, call, {}) /\ OwnersOK(a) /\ TimeKept(k, a)
  <2>1. k.skipped \in Tick
    BY <1>0, KernelTypes
  <2> QED BY <1>0, <2>1, AdvanceOK
<1>3. a \in Kernel /\ 0 \in Tick
  BY <1>2, CoreParts, Ticks
<1> HIDE DEF a
<1>4. /\ r \in Kernel /\ SameLinks(a, r) /\ SameControl(a, r) /\ (a.pendsv => r.pendsv)
      /\ r.owner = a.owner /\ r.count = a.count /\ r.owned = a.owned /\ r.obj = a.obj
      /\ r.prio = a.prio /\ r.wait_aborted = a.wait_aborted
  BY <1>3 DEF Kernel, SameLinks, SameControl
<1> HIDE DEF r
<1>5. CoreInv(r, call, {})
  BY <1>2, <1>4, AlterOK
<1>6. OwnersOK(r)
  BY <1>2, <1>4 DEF OwnersOK, SameLinks, SameControl
<1>7. r.state[t] \in Up /\ r.state[t] \notin Waiting
  BY <1>0, <1>2, <1>4 DEF TimeKept, SameLinks, Up, Waiting
<1>8. CoreInv(r, [call EXCEPT ![t] = NoCall], {})
  BY <1>5, <1>7, LeaveCallOK
<1> QED BY <1>1, <1>6, <1>8 DEF KernelOK

\* The services of the scheduler.
LEMMA SchedOpsOK ==
  ASSUME KernelOK(k, call), SchedOps
  PROVE  KernelOK(k', call')
<1>1. CASE SleepOps
  BY <1>1, WaitOK DEF SleepOps
<1>2. CASE ShareOps
  BY <1>2, ShareOK, UnlockFlushOK DEF ShareOps
<1> QED BY <1>1, <1>2 DEF SchedOps

-----------------------------------------------------------------------------
(***************************************************************************)
(* What the services are made of.                                          *)
(***************************************************************************)

\* Waiters leave the object o and become ready with the message msg.
LEMMA WakeWaitersOK ==
  ASSUME NEW m, NEW c, CoreInv(m, c, {}), OwnersOK(m), NEW o \in Obj, NEW ws \in Seq(Task),
         Distinct(ws), Range(ws) \subseteq Range(m.wait_list[o]), NEW msg \in Msg
  PROVE  LET r == wakeup(unlink(m, Range(ws)), ws, msg) IN
         /\ CoreInv(r, c, {}) /\ OwnersOK(r) /\ r \in Kernel
         /\ SameCore(m, r) /\ SameRest(m, r) /\ r.prio = m.prio /\ r.pendsv = m.pendsv
         /\ r.jiffies = m.jiffies
         /\ \A t \in Task :
              /\ r.state[t] = IF t \in Range(ws) THEN "READY" ELSE m.state[t]
              /\ r.obj[t] = IF t \in Range(ws) THEN msg ELSE m.obj[t]
              /\ r.evbits[t] = IF t \in Range(ws) THEN NoBits ELSE m.evbits[t]
         /\ \A p \in Obj : Range(r.wait_list[p]) = Range(m.wait_list[p]) \ Range(ws)
<1> DEFINE S == Range(ws)
           n == unlink(m, S)
           r == wakeup(n, ws, msg)
<1>0. m \in Kernel /\ WaitPlaced(m, c, {})
  BY CoreParts
<1>1. S \in SUBSET Task /\ \A t \in S : m.state[t] \in Waiting
  BY <1>0, RangeType DEF WaitPlaced
<1>2. \A t \in S : m.state[t] \notin Up \cup {"ZOMBIE", "EXITED"}
  BY <1>1 DEF Waiting, Up
<1>3. /\ n \in Kernel /\ SameCore(m, n) /\ SameRest(m, n) /\ SameTime(m, n)
      /\ n.obj = m.obj /\ n.evbits = m.evbits
      /\ n.prio = m.prio /\ n.pendsv = m.pendsv /\ n.state = m.state
      /\ \A p \in Obj : Range(n.wait_list[p]) = Range(m.wait_list[p]) \ S
  BY <1>0, UnlinkEffect
<1>4. CoreInv(n, c, S) /\ OwnersOK(n)
  <2> HIDE DEF S, n
  <2>1. CoreInv(n, c, {} \cup S) /\ OwnersOK(n)
    BY <1>1, <1>2, TakeWaitOK DEF n
  <2>2. {} \cup S = S
    OBVIOUS
  <2> QED BY <2>1, <2>2
<1>5. \A t \in Range(ws) : n.state[t] \notin Up \cup {"ZOMBIE", "EXITED"}
  BY <1>2, <1>3
<1> HIDE DEF n
<1>6. CoreInv(r, c, {}) /\ OwnersOK(r)
  BY <1>4, <1>5, WakeOK DEF S
<1>7. /\ r \in Kernel /\ SameCore(n, r) /\ SameRest(n, r)
      /\ r.wait_list = n.wait_list /\ r.prio = n.prio /\ r.pendsv = n.pendsv
      /\ r.jiffies = n.jiffies
      /\ r.state = [t \in Task |-> IF t \in S THEN "READY" ELSE n.state[t]]
      /\ r.obj = [t \in Task |-> IF t \in S THEN msg ELSE n.obj[t]]
      /\ r.evbits = [t \in Task |-> IF t \in S THEN NoBits ELSE n.evbits[t]]
  BY <1>3, WakeupEffect DEF S
<1> HIDE DEF r
<1>8. SameCore(m, r) /\ SameRest(m, r) /\ r.jiffies = m.jiffies
  BY <1>3, <1>7 DEF SameCore, SameRest, SameTime
<1> QED BY <1>3, <1>6, <1>7, <1>8 DEF r, n, S

\* The switch for a woken task.
LEMMA RescheduleOK ==
  ASSUME NEW m, NEW c, NEW X, CoreInv(m, c, X), NEW t \in Task
  PROVE  LET r == do_reschedule(m, t) IN
         /\ CoreInv(r, c, X) /\ (OwnersOK(m) => OwnersOK(r)) /\ SameLinks(m, r) /\ SameControl(m, r)
         /\ r.prio = m.prio /\ r.wait_aborted = m.wait_aborted /\ r.obj = m.obj
         /\ r.owner = m.owner /\ r.owned = m.owned /\ r.count = m.count
         /\ (m.pendsv => r.pendsv)
<1> DEFINE b == m.pendsv \/ prio_gt(m.prio[t], m.prio[m.currp])
<1>1. do_reschedule(m, t) = [m EXCEPT !.pendsv = b]
  BY DEF do_reschedule
<1>2. b \in BOOLEAN /\ (m.pendsv => b)
  BY DEF prio_gt
<1> HIDE DEF b
<1> QED BY <1>1, <1>2, PendOK

\* Objects are created and destroyed, and groups connected.
LEMMA LiveOK ==
  ASSUME NEW m, NEW c, NEW X, CoreInv(m, c, X), NEW r \in Kernel, SameLinks(m, r),
         r.currp = m.currp, r.sched_lock = m.sched_lock, r.refcnt = m.refcnt, r.bug = m.bug,
         r.pendsv = m.pendsv, r.prio = m.prio, r.obj = m.obj, r.wait_aborted = m.wait_aborted,
         \A o \in Object \ r.live : m.wait_list[o] = <<>>,
         \A t \in Task : c[t].o \in Object \ r.live => Harmless(c[t], m.wait_aborted[t]),
         \A n \in Notifier : r.evt[n] # Null => r.evt[n] \in r.live /\ 0 \in Bits
  PROVE  CoreInv(r, c, X)
<1>0. /\ m \in Kernel /\ c \in [Task -> Call] /\ X \subseteq Task /\ ~m.bug
      /\ ReadyPlaced(m, X) /\ WaitPlaced(m, c, X)
      /\ TimeOK(m) /\ CurrentOK(m, c, X) /\ BlockedOK(m, c, X) /\ CallsOK(c)
      /\ LifeOK(m, c) /\ AliveOK(m, c)
  BY CoreParts
<1>1. ReadyPlaced(r, X) /\ WaitPlaced(r, c, X)
  BY <1>0 DEF SameLinks, ReadyPlaced, WaitPlaced, Aw
<1>2. TimeOK(r)
  BY <1>0 DEF SameLinks, TimeOK, TimeLists, Split, OnTimeList
<1>3. CurrentOK(r, c, X) /\ BlockedOK(r, c, X)
  BY <1>0 DEF SameLinks, CurrentOK, BlockedOK
<1>4. LifeOK(r, c) /\ AliveOK(r, c)
  BY <1>0 DEF SameLinks, LifeOK, AliveOK
<1> QED BY <1>0, <1>1, <1>2, <1>3, <1>4 DEF CoreInv

\* Who is queued on an object that is quiescent and destroyed does not look at
\* it again.
LEMMA QuiescentHarmless ==
  ASSUME KernelOK(k, call), NEW o \in Object, Quiescent(o)
  PROVE  \A t \in Task : call[t].o = o => Harmless(call[t], k.wait_aborted[t])
<1>0. BlockedOK(k, call, {}) /\ CallsOK(call) /\ call \in [Task -> Call]
  BY CoreParts DEF KernelOK
<1> SUFFICES ASSUME NEW t \in Task, call[t].o = o
             PROVE  Harmless(call[t], k.wait_aborted[t])
  OBVIOUS
<1>1. k.state[t] \in Waiting \ {"WTCOND"}
  BY DEF Quiescent
<1>2. o \notin Tasks
  BY TaskAssumption DEF Task
<1>3. Blocked(k.state[t], call[t], k.obj[t], k.wait_aborted[t]) /\ CallKind(call[t])
  BY <1>0 DEF BlockedOK, CallsOK
<1> QED BY <1>1, <1>2, <1>3 DEF Harmless, Blocked, CallKind, Waiting

\* A task that was just put to sleep is queued on the object o.
LEMMA EnqueueOK ==
  ASSUME NEW m, NEW c, NEW t \in Task, CoreInv(m, c, {t}), OwnersOK(m),
         m.state[t] \in {"WTSEM", "WTMTX", "WTCOND"}, NEW o \in Sems \cup Mtxs \cup Cvs,
         NEW e \in Call, CallKind(e), ~Freeing(e), e.o \in Object => e.o \in m.live, o \in m.live,
         Blocked(m.state[t], e, o, m.wait_aborted[t]),
         t = m.currp => m.sched_lock = 0 /\ (e.pc = "yield" \/ m.pendsv),
         o \in Mtxs => m.owner[o] \notin {Null, t},
         NEW r, \/ r = [add_to_prio_queue(m, o, t) EXCEPT !.obj = [@ EXCEPT ![t] = o]]
                \/ r = add_to_prio_queue(m, o, t) /\ m.obj[t] = o
  PROVE  CoreInv(r, [c EXCEPT ![t] = e], {}) /\ OwnersOK(r)
<1>0. m \in Kernel /\ m.prio \in [Task -> Prio] /\ m.wait_list \in [Obj -> Seq(Task)]
      /\ m.obj \in [Task -> Msg \cup Sems \cup Mtxs \cup Cvs] /\ o \in Obj /\ o \in Object /\ o \notin Task
  BY CoreParts, KernelTypes, TaskAssumption DEF Obj, Object
<1> DEFINE q == InsertSorted(m.wait_list[o], t, m.prio)
           f == [m.wait_list EXCEPT ![o] = q]
           g == [m.obj EXCEPT ![t] = o]
           n == [m EXCEPT !.wait_list = f, !.obj = g]
<1>1. /\ q \in Seq(Task) /\ Range(q) = Range(m.wait_list[o]) \cup {t}
      /\ Distinct(m.wait_list[o]) /\ t \notin Range(m.wait_list[o]) => Distinct(q)
  <2>1. m.prio \in [Task -> Int] /\ m.wait_list[o] \in Seq(Task)
    BY <1>0, Prios
  <2> QED BY <2>1, InsertSortedProperties
<1>2. r = n
  <2>1. add_to_prio_queue(m, o, t) = [m EXCEPT !.wait_list = f]
    BY <1>0 DEF add_to_prio_queue, Kernel
  <2>2. CASE r = [add_to_prio_queue(m, o, t) EXCEPT !.obj = [@ EXCEPT ![t] = o]]
    <3> HIDE DEF f
    <3> QED BY <1>0, <2>1, <2>2 DEF Kernel
  <2>3. CASE r = add_to_prio_queue(m, o, t) /\ m.obj[t] = o
    <3>1. g = m.obj
      BY <1>0, <2>3
    <3> HIDE DEF f, g
    <3> QED BY <1>0, <2>1, <2>3, <3>1 DEF Kernel
  <2> QED BY <2>2, <2>3
<1> HIDE DEF q
<1>3. /\ f \in [Obj -> Seq(Task)] /\ f[o] = q /\ \A p \in Obj \ {o} : f[p] = m.wait_list[p]
      /\ g \in [Task -> Msg \cup Sems \cup Mtxs \cup Cvs] /\ g[t] = o
      /\ \A u \in Task \ {t} : g[u] = m.obj[u]
  BY <1>0, <1>1
<1> HIDE DEF f, g
<1>4. /\ n \in Kernel /\ n.wait_list = f /\ n.obj = g /\ n.state = m.state /\ n.ready = m.ready
      /\ n.prio = m.prio /\ SameTime(m, n) /\ SameControl(m, n) /\ n.zombie = m.zombie
      /\ n.pendsv = m.pendsv /\ n.wait_aborted = m.wait_aborted
      /\ n.owner = m.owner /\ n.count = m.count /\ n.owned = m.owned
  BY <1>0, <1>3 DEF Kernel, SameTime, SameControl
<1> HIDE DEF n
<1>5. m.state[t] \in Waiting /\ m.state[t] \notin {"WTEXIT", "WTEVT"}
  BY DEF Waiting
<1>6. CoreInv(n, [c EXCEPT ![t] = e], {})
  <2>1. /\ \A u \in Task \ {t} : n.obj[u] = m.obj[u] /\ n.wait_aborted[u] = m.wait_aborted[u]
        /\ \A p \in Obj \ {o} : n.wait_list[p] = m.wait_list[p]
        /\ Range(n.wait_list[o]) = Range(m.wait_list[o]) \cup {t}
        /\ Distinct(m.wait_list[o]) /\ t \notin Range(m.wait_list[o]) => Distinct(n.wait_list[o])
    BY <1>1, <1>3, <1>4
  <2>2. /\ Blocked(m.state[t], e, n.obj[t], n.wait_aborted[t])
        /\ o = IF m.state[t] \in {"WTEXIT", "WTEVT"} THEN e.o ELSE n.obj[t]
        /\ (o \in Object => o \in m.live) /\ (o \in Task => m.state[o] \notin Gone)
        /\ t = m.currp => m.sched_lock = 0 /\ (e.pc = "yield" \/ n.pendsv)
        /\ (m.pendsv => n.pendsv)
    BY <1>0, <1>3, <1>4, <1>5
  <2> QED BY <1>0, <1>4, <1>5, <2>1, <2>2, QueueOK
<1>7. OwnersOK(n)
  <2>1. \A x \in Mtxs : x \in Obj
    BY DEF Obj, Object
  <2>2. ASSUME NEW x \in Mtxs
        PROVE  /\ n.owner[x] = Null => n.wait_list[x] = <<>>
               /\ n.owner[x] \notin Range(n.wait_list[x])
    BY <1>1, <1>3, <1>4, <2>1 DEF OwnersOK
  <2> QED BY <1>4, <2>2 DEF OwnersOK, SameControl
<1> QED BY <1>2, <1>6, <1>7

\* A thread that is not blocked enters a service.
LEMMA BeginCallOK ==
  ASSUME NEW m, NEW c, CoreInv(m, c, {}), NEW t \in Task, m.state[t] \in Up, t # Idle,
         NEW e \in Call, CallKind(e), ~Freeing(e), e.o \in Object => e.o \in m.live,
         m.sched_lock # 0 => e.op \notin Blocking
  PROVE  CoreInv(m, [c EXCEPT ![t] = e], {})
<1>1. m.state[t] \notin Waiting
  BY DEF Up, Waiting
<1> QED BY <1>1, CallOK

\* The end of a service that did not block.
LEMMA EndCallOK ==
  ASSUME NEW m, NEW c, CoreInv(m, c, {}), NEW t \in Task, m.state[t] \in Up
  PROVE  CoreInv(m, [c EXCEPT ![t] = NoCall], {})
<1>1. m.state[t] \notin Waiting
  BY DEF Up, Waiting
<1> QED BY <1>1, LeaveCallOK

\* Back from a wait: the service ends, or enters its critical section again
\* when a suspend cut the wait short; then its object still exists.
LEMMA ReturnOK ==
  ASSUME KernelOK(k, call), NEW t \in Task, Exec(t), call[t].pc = "after",
         \/ k.wait_aborted[t] /\ call' = [call EXCEPT ![t].pc = "enter"] /\ k' = k
         \/ call' = [call EXCEPT ![t] = NoCall] /\ k' = leave(k, t)
  PROVE  KernelOK(k', call')
<1>0. /\ t = k.currp /\ k.state[t] \in Up /\ CoreInv(k, call, {}) /\ OwnersOK(k)
      /\ call[t] \in Call /\ call \in [Task -> Call] /\ k.state[t] \notin Waiting
  BY ExecUp
<1>1. CurrentOK(k, call, {}) /\ CallsOK(call) /\ LifeOK(k, call) /\ AliveOK(k, call)
  BY <1>0, CoreParts
<1>2. CASE k.wait_aborted[t] /\ call' = [call EXCEPT ![t].pc = "enter"] /\ k' = k
  <2> DEFINE e == [call[t] EXCEPT !.pc = "enter"]
  <2>1. call' = [call EXCEPT ![t] = e]
    BY <1>2
  <2>2. /\ e \in Call /\ e.pc = "enter" /\ e.op = call[t].op /\ e.o = call[t].o /\ e.set = call[t].set
        /\ e.w = call[t].w
    BY <1>0 DEF Call, Pcs
  <2> HIDE DEF e
  <2>3. t # Idle
    BY <1>1 DEF CurrentOK
  <2>4. CallKind(call[t]) /\ CallKind(e)
    BY <1>1, <2>2 DEF CallsOK, CallKind
  <2>5. e.o \notin Object \ k.live
    BY <1>1, <1>2, <2>2 DEF AliveOK, Harmless
  <2>6. Freeing(e) => /\ k.state[e.o] = "EXITED" /\ k.refcnt[e.o] = 0
                      /\ \A v \in Task \ {t} : Freeing(call[v]) => call[v].o # e.o
    BY <1>1, <2>2 DEF LifeOK, Freeing
  <2>7. CoreInv(k, [call EXCEPT ![t] = e], {})
    <3>1. t = k.currp /\ k.sched_lock # 0 => e.op \notin Blocking
      BY <1>1, <2>2 DEF CurrentOK
    <3> QED BY <1>0, <2>2, <2>3, <2>4, <2>5, <2>6, <3>1, CallOK
  <2> QED BY <1>0, <1>2, <2>1, <2>7 DEF KernelOK
<1>3. CASE call' = [call EXCEPT ![t] = NoCall] /\ k' = leave(k, t)
  <2> DEFINE r == leave(k, t)
  <2>1. CoreInv(r, call, {}) /\ OwnersOK(r) /\ SameLinks(k, r)
    BY <1>0, LeaveOK
  <2>2. r.state[t] \in Up
    BY <1>0, <2>1 DEF SameLinks
  <2> HIDE DEF r
  <2>3. CoreInv(r, [call EXCEPT ![t] = NoCall], {})
    BY <2>1, <2>2, EndCallOK
  <2> QED BY <1>3, <2>1, <2>3 DEF KernelOK, r
<1> QED BY <1>2, <1>3

\* Between two calls a thread is no idle task and holds no object.
LEMMA RunningUp ==
  ASSUME KernelOK(k, call), NEW t \in Task, Running(t)
  PROVE  /\ t = k.currp /\ t # Idle /\ k.state[t] \in Up /\ k.state[t] \notin Waiting \cup Gone
         /\ ~k.pendsv /\ CoreInv(k, call, {}) /\ OwnersOK(k)
         /\ k \in Kernel /\ call \in [Task -> Call]
BY ExecUp DEF Running

\* A thread in the critical section of a service that may block: it is not the
\* idle task, the scheduler is not locked, and its object exists.
LEMMA EnterUp ==
  ASSUME KernelOK(k, call), NEW t \in Task, Exec(t), call[t].pc = "enter", call[t].op \in Blocking
  PROVE  /\ t = k.currp /\ t # Idle /\ k.state[t] \in Up /\ k.sched_lock = 0
         /\ CoreInv(k, call, {}) /\ OwnersOK(k) /\ k \in Kernel
         /\ call \in [Task -> Call] /\ call[t] \in Call /\ CallKind(call[t])
         /\ call[t].o \in Object => call[t].o \in k.live
<1>1. /\ t = k.currp /\ k.state[t] \in Up /\ CoreInv(k, call, {}) /\ OwnersOK(k) /\ k \in Kernel
      /\ call \in [Task -> Call] /\ call[t] \in Call
  BY ExecUp
<1>2. CurrentOK(k, call, {}) /\ CallsOK(call) /\ AliveOK(k, call)
  BY <1>1, CoreParts
<1>3. t # Idle /\ k.sched_lock = 0
  BY <1>1, <1>2 DEF CurrentOK, Blocking
<1>4. call[t].o \in Object => call[t].o \in k.live
  BY <1>2 DEF AliveOK, Harmless
<1> QED BY <1>1, <1>2, <1>3, <1>4 DEF CallsOK

\* The current task prepares its control block for a wait and goes to sleep.
LEMMA PrepareSleepOK ==
  ASSUME NEW m, NEW c, CoreInv(m, c, {}), OwnersOK(m), m.currp # Idle, m.state[m.currp] \in Up,
         NEW n \in Kernel, SameLinks(m, n), SameControl(m, n), n.pendsv = m.pendsv, n.prio = m.prio,
         n.owner = m.owner, n.count = m.count, n.owned = m.owned,
         ~n.wait_aborted[m.currp],
         \A u \in Task \ {m.currp} : n.wait_aborted[u] = m.wait_aborted[u] /\ n.obj[u] = m.obj[u],
         NEW newstate \in Timed, NEW timeout \in Tick
  PROVE  LET r == set_sleep_timeout(n, newstate, timeout) IN
         /\ CoreInv(r, c, {m.currp}) /\ OwnersOK(r) /\ r \in Kernel
         /\ r.currp = m.currp /\ r.sched_lock = m.sched_lock /\ r.live = m.live /\ r.pendsv = m.pendsv
         /\ r.owner = m.owner /\ r.obj = n.obj
         /\ r.state[m.currp] = newstate /\ ~r.wait_aborted[m.currp]
<1>1. CoreInv(n, c, {}) /\ m.currp \in Task
  <2>1. \A t \in Task : n.wait_aborted[t] => m.wait_aborted[t]
    OBVIOUS
  <2>2. m.state[m.currp] \notin Waiting
    BY DEF Up, Waiting
  <2>3. \A t \in Task : m.state[t] \in Waiting => n.obj[t] = m.obj[t]
    BY <2>2
  <2> QED BY <2>1, <2>3, AlterOK, CoreParts
<1>2. OwnersOK(n) /\ n.currp = m.currp /\ n.state = m.state /\ n.sched_lock = m.sched_lock /\ n.live = m.live
  BY DEF OwnersOK, SameLinks, SameControl
<1>3. n.currp # Idle /\ n.state[n.currp] \in Up
  BY <1>2
<1> DEFINE r == set_sleep_timeout(n, newstate, timeout)
<1>4. /\ CoreInv(r, c, {n.currp}) /\ OwnersOK(r) /\ SameCore(n, r) /\ SameWaits(n, r) /\ r.pendsv = n.pendsv
      /\ r.state[n.currp] = newstate
  <2>1. CoreInv(r, c, {n.currp}) /\ (OwnersOK(n) => OwnersOK(r))
    BY <1>1, <1>3, SleepTimeoutOK
  <2>2. SameCore(n, r)
    BY <1>1, <1>3, SleepTimeoutOK
  <2>3. SameWaits(n, r)
    BY <1>1, <1>3, SleepTimeoutOK
  <2>4. r.pendsv = n.pendsv
    BY <1>1, <1>3, SleepTimeoutOK
  <2>5. r.state[n.currp] = newstate
    BY <1>1, <1>3, SleepTimeoutOK
  <2> HIDE DEF r
  <2> QED BY <1>2, <2>1, <2>2, <2>3, <2>4, <2>5
<1> HIDE DEF r
<1>5. r \in Kernel
  BY <1>4, CoreParts
<1> QED BY <1>2, <1>4, <1>5 DEF SameCore, SameWaits, r

\* What the signalling half of a service leaves alone.
Signalled(m, r) ==
  /\ r.currp = m.currp /\ r.sched_lock = m.sched_lock /\ r.live = m.live
  /\ r.wait_aborted = m.wait_aborted /\ (m.pendsv => r.pendsv) /\ r.evt = m.evt
  /\ r.jiffies = m.jiffies
  /\ \A t \in Task : m.state[t] \in Up => r.state[t] \in Up

\* Everyone leaves the wait list of o; the first decides on the switch.
LEMMA WakeAllOK ==
  ASSUME NEW m, NEW c, CoreInv(m, c, {}), OwnersOK(m), NEW o \in Obj, NEW msg \in Msg
  PROVE  LET ws == m.wait_list[o]
             r  == IF ws = <<>> THEN m ELSE do_reschedule(wakeup(unlink(m, Range(ws)), ws, msg), Head(ws))
         IN  CoreInv(r, c, {}) /\ OwnersOK(r) /\ Signalled(m, r) /\ r.wait_list[o] = <<>>
<1> DEFINE ws == m.wait_list[o]
           n  == wakeup(unlink(m, Range(ws)), ws, msg)
           r  == do_reschedule(n, Head(ws))
<1>0. m \in Kernel /\ ws \in Seq(Task) /\ Distinct(ws)
  <2>1. m \in Kernel /\ WaitPlaced(m, c, {})
    BY CoreParts
  <2> QED BY <2>1, KernelTypes DEF WaitPlaced
<1>1. CASE ws = <<>>
  BY <1>1 DEF Signalled
<1>2. CASE ws # <<>>
  <2>1. /\ CoreInv(n, c, {}) /\ OwnersOK(n) /\ n \in Kernel
        /\ SameCore(m, n) /\ n.pendsv = m.pendsv /\ n.jiffies = m.jiffies
        /\ \A t \in Task : n.state[t] = IF t \in Range(ws) THEN "READY" ELSE m.state[t]
        /\ \A p \in Obj : Range(n.wait_list[p]) = Range(m.wait_list[p]) \ Range(ws)
    BY <1>0, WakeWaitersOK
  <2>2. n.wait_list[o] = <<>>
    <3>1. Range(n.wait_list[o]) = {} /\ n.wait_list[o] \in Seq(Task)
      BY <2>1, KernelTypes
    <3> HIDE DEF n
    <3> QED BY <3>1, EmptyRange
  <2>3. Head(ws) \in Task
    BY <1>0, <1>2, EmptyRange
  <2> HIDE DEF n, ws
  <2>4. /\ CoreInv(r, c, {}) /\ OwnersOK(r) /\ SameLinks(n, r) /\ SameControl(n, r)
        /\ r.wait_aborted = n.wait_aborted /\ (n.pendsv => r.pendsv)
    BY <2>1, <2>3, RescheduleOK
  <2> HIDE DEF r
  <2>5. Signalled(m, r) /\ r.wait_list[o] = <<>>
    BY <2>1, <2>2, <2>4 DEF Signalled, SameCore, SameLinks, SameControl, Up
  <2> QED BY <1>2, <2>4, <2>5 DEF r, n, ws
<1> QED BY <1>1, <1>2

\* All the invariant speaks of is as before.
SameState(m, r) ==
  /\ SameLinks(m, r) /\ SameControl(m, r) /\ r.pendsv = m.pendsv
  /\ r.wait_aborted = m.wait_aborted /\ r.obj = m.obj /\ r.prio = m.prio
  /\ r.owner = m.owner /\ r.count = m.count /\ r.owned = m.owned

\* Other data of the kernel may change freely.
LEMMA DataOK ==
  ASSUME NEW m, NEW c, CoreInv(m, c, {}), OwnersOK(m), NEW r \in Kernel, SameState(m, r)
  PROVE  CoreInv(r, c, {}) /\ OwnersOK(r) /\ Signalled(m, r)
<1>1. CoreInv(r, c, {})
  BY AlterOK DEF SameState
<1>2. OwnersOK(r)
  BY DEF SameState, OwnersOK, SameLinks, SameControl
<1>3. Signalled(m, r)
  BY DEF SameState, SameLinks, SameControl, Signalled
<1> QED BY <1>1, <1>2, <1>3

-----------------------------------------------------------------------------
\* The state after isix_start_scheduler.
LEMMA InitOK ==
  ASSUME Init
  PROVE  KernelOK(k, call)
<1> DEFINE R(p) == {t \in Tasks : BasePrio[t] = p}
           B == Range(Boot)
<1>0. /\ k = InitKernel /\ call = [t \in Task |-> NoCall] /\ k \in Kernel /\ call \in [Task -> Call]
      /\ \A t \in Task : call[t] = NoCall
  BY InitInv DEF Init, SchedInv, TypeOK
<1>1. Boot \in Seq(Tasks) /\ Distinct(Boot) /\ B \subseteq Tasks /\ Idle \notin Tasks /\ Task = Tasks \cup {Idle}
  BY TaskAssumption, EmptyRange DEF Task
<1>2. Prio = 0 .. NumPrio /\ NumPrio \in Nat \ {0} /\ BasePrio \in [Tasks -> 0 .. NumPrio - 1]
  BY Prios, PrioAssumption
<1>3. ASSUME NEW p \in Prio
      PROVE  /\ Distinct(InitReady[p]) /\ InitReady[p] \in Seq(Task)
             /\ \A t \in Task : t \in Range(InitReady[p]) <=> t \in B \cup {Idle} /\ InitPrio[t] = p
  <2>1. CASE p = NumPrio
    <3>1. InitReady[p] = <<Idle>>
      BY <1>2, <2>1 DEF InitReady
    <3>2. Idle \in Task /\ \A t \in Task : InitPrio[t] = p <=> t = Idle
      BY <1>1, <1>2, <2>1 DEF InitPrio
    <3> QED BY <3>1, <3>2, OneElement
  <2>2. CASE p # NumPrio
    <3>1. InitReady[p] = Keep(Boot, R(p))
      BY <1>2, <2>2 DEF InitReady
    <3> HIDE DEF B, R
    <3>2. /\ InitReady[p] \in Seq(Tasks) /\ Range(InitReady[p]) = B \cap R(p)
      BY <1>1, <3>1, KeepProperties DEF B
    <3>3. Distinct(InitReady[p])
      BY <1>1, <3>1, KeepOrder
    <3>4. \A t \in Task : t \in B \cap R(p) <=> t \in B \cup {Idle} /\ InitPrio[t] = p
      BY <1>1, <1>2, <2>2 DEF InitPrio, R
    <3> QED BY <1>1, <3>2, <3>3, <3>4
  <2> QED BY <2>1, <2>2
<1>4. InitCurrp \in B \cup {Idle} /\ InitCurrp \in Task
  <2> DEFINE q == CHOOSE p \in Prio : InitReady[p] # <<>> /\ \A r \in Prio : r < p => InitReady[r] = <<>>
  <2>1. InitReady \in [Prio -> Seq(Task)]
    <3>1. InitReady = [p \in Prio |-> InitReady[p]]
      BY DEF InitReady
    <3> QED BY <1>3, <3>1
  <2>2. InitReady[NumPrio] # <<>>
    BY <1>2 DEF InitReady
  <2>3. q \in Prio /\ Head(InitReady[q]) \in Range(InitReady[q]) /\ Head(InitReady[q]) \in Task
    BY <2>1, <2>2, FirstNonEmpty
  <2>4. InitCurrp = Head(InitReady[q])
    BY DEF InitCurrp
  <2> HIDE DEF q, B
  <2> QED BY <1>3, <2>3, <2>4
<1>5. /\ k.ready = InitReady /\ k.prio = InitPrio /\ k.p_wait = <<>> /\ k.pov_wait = <<>> /\ k.zombie = <<>>
      /\ k.currp = InitCurrp /\ k.sched_lock = 0 /\ ~k.bug /\ k.live = Object
      /\ \A o \in Obj : k.wait_list[o] = <<>>
      /\ \A t \in Task : k.refcnt[t] = 0 /\ k.owned[t] = <<>>
      /\ \A x \in Mtxs : k.owner[x] = Null /\ k.count[x] = 0
      /\ \A n \in Notifier : k.evt[n] = Null
  BY <1>0 DEF InitKernel
<1>6. \A t \in Task : /\ t = InitCurrp => k.state[t] = "RUNNING"
                      /\ t # InitCurrp /\ t \in B \cup {Idle} => k.state[t] = "READY"
                      /\ t \notin B \cup {Idle} => k.state[t] = "NONE"
  <2>1. \A t \in Task : k.state[t] = CASE t = InitCurrp -> "RUNNING"
                                       [] t # InitCurrp /\ t \in B \cup {Idle} -> "READY"
                                       [] OTHER -> "NONE"
    BY <1>0 DEF InitKernel
  <2> HIDE DEF B
  <2> QED BY <1>4, <2>1
<1>7. Range(<<>>) = {} /\ Distinct(<<>>)
  BY DEF Range, Distinct
<1> HIDE DEF B, R
<1>8. ReadyPlaced(k, {})
  BY <1>3, <1>4, <1>5, <1>6 DEF ReadyPlaced, Up
<1>9. WaitPlaced(k, call, {})
  BY <1>4, <1>5, <1>6, <1>7 DEF WaitPlaced, Waiting
<1>10. TimeOK(k)
  <2>1. OnTimeList(k) = {} /\ Range(k.p_wait) \cap Range(k.pov_wait) = {} /\ Distinct(k.p_wait) /\ Distinct(k.pov_wait)
    BY <1>5, <1>7 DEF OnTimeList
  <2>2. Split(k)
    BY InitInv, SplitIsInvariant DEF SchedInv
  <2> QED BY <2>1, <2>2 DEF TimeOK, TimeLists
<1>11. CurrentOK(k, call, {})
  <2>1. k.state[Idle] \in Up /\ k.prio[Idle] = NumPrio /\ k.state[k.currp] \in Up
    BY <1>1, <1>4, <1>5, <1>6 DEF Up, InitPrio
  <2>2. \A t \in Task : k.state[t] = "RUNNING" => t = k.currp
    BY <1>4, <1>5, <1>6
  <2> QED BY <1>0, <1>1, <1>5, <2>1, <2>2, NoCallFits DEF CurrentOK
<1>12. BlockedOK(k, call, {}) /\ CallsOK(call)
  BY <1>0, <1>4, <1>6, NoCallFits DEF BlockedOK, Blocked, CallsOK, Waiting
<1>13. LifeOK(k, call)
  BY <1>0, <1>4, <1>5, <1>6, <1>7, NoCallFits DEF LifeOK, Obj
<1>14. AliveOK(k, call)
  BY <1>0, <1>5, NoCallFits DEF AliveOK
<1>15. OwnersOK(k)
  <2>1. Null \notin Task /\ Idle # Null /\ Mtxs \subseteq Obj
    BY <1>1, TaskAssumption DEF Obj, Object
  <2> QED BY <1>5, <1>7, <2>1 DEF OwnersOK
<1> QED BY <1>0, <1>5, <1>8, <1>9, <1>10, <1>11, <1>12, <1>13, <1>14, <1>15 DEF KernelOK, CoreInv

\* What the invariant says of the kernel in the words of the runs.
LEMMA KernelSays ==
  ASSUME KernelOK(k, call)
  PROVE  TypeOK /\ NoPanic /\ InodeWhereStateSays /\ UnionMatchesState /\ TimeListsSplitAtWrap
<1>0. /\ k \in Kernel /\ call \in [Task -> Call] /\ ~k.bug
      /\ ReadyPlaced(k, {}) /\ WaitPlaced(k, call, {})
      /\ TimeOK(k) /\ BlockedOK(k, call, {}) /\ LifeOK(k, call)
  BY CoreParts DEF KernelOK
<1>1. TypeOK /\ NoPanic
  BY <1>0 DEF TypeOK, NoPanic
<1>2. \A p \in Prio : Distinct(k.ready[p]) /\ Range(k.ready[p]) = {t \in Task : Linked(t) /\ k.prio[t] = p}
  <2> SUFFICES ASSUME NEW p \in Prio
               PROVE  Distinct(k.ready[p]) /\ Range(k.ready[p]) = {t \in Task : Linked(t) /\ k.prio[t] = p}
    OBVIOUS
  <2>1. Range(k.ready[p]) \subseteq Task
    BY <1>0, KernelTypes, EmptyRange
  <2> QED BY <1>0, <2>1 DEF ReadyPlaced, Linked, Up
<1>3. \A o \in Obj : /\ Distinct(k.wait_list[o])
                     /\ Range(k.wait_list[o]) = {t \in Task : k.state[t] \in Waiting /\ Awaited(t) = o}
  <2> SUFFICES ASSUME NEW o \in Obj
               PROVE  /\ Distinct(k.wait_list[o])
                      /\ Range(k.wait_list[o]) = {t \in Task : k.state[t] \in Waiting /\ Awaited(t) = o}
    OBVIOUS
  <2>1. Range(k.wait_list[o]) \subseteq Task
    BY <1>0, KernelTypes, EmptyRange
  <2> QED BY <1>0, <2>1 DEF WaitPlaced, Aw, Awaited
<1>4. Distinct(k.zombie) /\ Range(k.zombie) = {t \in Task : k.state[t] = "ZOMBIE"}
  <2>1. Range(k.zombie) \subseteq Task
    BY <1>0, KernelTypes, EmptyRange
  <2> QED BY <1>0, <2>1 DEF LifeOK
<1>5. UnionMatchesState
  BY <1>0 DEF BlockedOK, Blocked, UnionMatchesState
<1>6. TimeListsSplitAtWrap
  BY <1>0, SplitIsInvariant DEF TimeOK, TimeLists
<1> QED BY <1>1, <1>2, <1>3, <1>4, <1>5, <1>6 DEF InodeWhereStateSays
=============================================================================
