----------------------------- MODULE Isix_proofs -----------------------------
(***************************************************************************)
(* The control of tasks keeps the invariant of the kernel, and with it so  *)
(* does every step of the system: what the invariant says of the kernel    *)
(* holds for any number of tasks, objects and priorities.                  *)
(***************************************************************************)
EXTENDS Isix, Sync_proofs

\* Where a waiting task is queued, and that its object exists.
LEMMA WaiterWhere ==
  ASSUME NEW m, NEW c, CoreInv(m, c, {}), NEW t \in Task, m.state[t] \in Waiting
  PROVE  /\ m.state[t] = "WTSEM" => m.obj[t] \in Sems
         /\ m.state[t] = "WTMTX" => m.obj[t] \in Mtxs /\ t \in Range(m.wait_list[m.obj[t]])
         /\ m.state[t] # "WTCOND" /\ c[t].o \in Object => c[t].o \in m.live
<1> DEFINE o == Aw(m, c, t)
<1>0. m \in Kernel /\ WaitPlaced(m, c, {}) /\ BlockedOK(m, c, {}) /\ CallsOK(c) /\ AliveOK(m, c)
  BY CoreParts
<1>1. Blocked(m.state[t], c[t], m.obj[t], m.wait_aborted[t]) /\ CallKind(c[t])
  BY <1>0 DEF BlockedOK, CallsOK
<1>2. /\ m.state[t] = "WTSEM"  => o = m.obj[t] /\ o \in Sems /\ o = c[t].o
      /\ m.state[t] = "WTMTX"  => o = m.obj[t] /\ o \in Mtxs /\ o = c[t].o
      /\ m.state[t] = "WTEVT"  => o = c[t].o /\ o \in Evts
      /\ m.state[t] = "WTEXIT" => c[t].o \in Tasks
  BY <1>1 DEF Aw, Blocked, CallKind
<1>3. o \in Obj => t \in Range(m.wait_list[o])
  BY <1>0 DEF WaitPlaced
<1> HIDE DEF o
<1>4. Range(<<>>) = {}
  BY DEF Range
<1>5. o \in Object => o \in m.live
  BY <1>0, <1>3, <1>4, MutexObjects DEF AliveOK
<1>6. m.state[t] # "WTCOND" /\ c[t].o \in Object => c[t].o \in m.live
  <2>1. m.state[t] \in {"WTSEM", "WTMTX", "WTCOND", "WTEVT", "WTEXIT"}
    BY DEF Waiting
  <2>2. m.state[t] = "WTEXIT" => c[t].o \notin Object
    BY <1>2, MutexObjects DEF Task
  <2> QED BY <1>2, <1>5, <2>1, <2>2
<1> QED BY <1>2, <1>3, <1>6, MutexObjects

\* What the first half of _isixp_add_kill_or_set_suspend does: t leaves
\* whatever list it is on.
Detach(m, t) ==
  LET st == m.state[t]
      m1 == time_unlink(m, {t})
  IN CASE st \in {"READY", "RUNNING"} -> delete_from_ready_list(m1, t)
       [] st = "WTSEM" -> unlink(sem_fast_signal(m1, m.obj[t]), {t})
       [] st = "WTMTX" -> mutex_waiter_removed(unlink(m1, {t}), m.obj[t])
       [] st \in {"WTEVT", "WTCOND", "WTEXIT"} -> unlink(m1, {t})
       [] OTHER -> m1

\* The tasks but t, and the control of the processor, are as before.
Detached(m, r, t) ==
  /\ r.currp = m.currp /\ r.sched_lock = m.sched_lock /\ r.live = m.live /\ r.pendsv = m.pendsv
  /\ r.wait_aborted = m.wait_aborted /\ r.owner = m.owner /\ r.owned = m.owned
  /\ r.state[t] = m.state[t] /\ t \notin OnTimeList(r)
  /\ \A o \in Obj : Range(r.wait_list[o]) \subseteq Range(m.wait_list[o])

\* A task taken off its list, whatever it was waiting for, leaves the kernel
\* consistent with that one task in limbo.
LEMMA DetachOK ==
  ASSUME NEW m, NEW c, CoreInv(m, c, {}), OwnersOK(m), NEW t \in Task, t # Idle, m.state[t] \notin Gone
  PROVE  LET r == Detach(m, t) IN CoreInv(r, c, {t}) /\ OwnersOK(r) /\ Detached(m, r, t)
<1> DEFINE S  == {t}
           m1 == time_unlink(m, S)
           r  == Detach(m, t)
<1>0. m \in Kernel /\ m.state[t] \in State /\ S \in SUBSET Task /\ {} \cup S = S
  BY CoreParts, KernelTypes
<1>1. CoreInv(m1, c, {}) /\ OwnersOK(m1)
  <2> HIDE DEF S
  <2> QED BY TakeTimeOK
<1>2. /\ m1 \in Kernel /\ SameCore(m, m1) /\ SameRest(m, m1) /\ SameWaits(m, m1)
      /\ m1.ready = m.ready /\ m1.prio = m.prio /\ m1.pendsv = m.pendsv
      /\ m1.state = m.state /\ m1.bug = m.bug /\ m1.jiffies = m.jiffies
      /\ OnTimeList(m1) = OnTimeList(m) \ S
  <2> HIDE DEF S
  <2> QED BY <1>0, TimeUnlinkEffect
<1>3. \/ m.state[t] \in Up /\ r = delete_from_ready_list(m1, t)
      \/ m.state[t] = "WTSEM" /\ r = unlink(sem_fast_signal(m1, m.obj[t]), S)
      \/ m.state[t] = "WTMTX" /\ r = mutex_waiter_removed(unlink(m1, S), m.obj[t])
      \/ m.state[t] \in {"WTEVT", "WTCOND", "WTEXIT"} /\ r = unlink(m1, S)
      \/ m.state[t] \notin Up \cup Waiting /\ r = m1
  <2> HIDE DEF m1
  <2>1. CASE m.state[t] \in Up
    BY <2>1 DEF Detach, Up, m1
  <2>2. CASE m.state[t] = "WTSEM"
    BY <2>2 DEF Detach, Up, m1
  <2>3. CASE m.state[t] = "WTMTX"
    BY <2>3 DEF Detach, Up, m1
  <2>4. CASE m.state[t] \in {"WTEVT", "WTCOND", "WTEXIT"}
    BY <2>4 DEF Detach, Up, m1
  <2>5. CASE m.state[t] \notin Up \cup Waiting
    BY <2>5 DEF Detach, Up, Waiting, m1
  <2> QED BY <2>1, <2>2, <2>3, <2>4, <2>5 DEF Waiting
<1> HIDE DEF m1, r
<1>4. t \notin OnTimeList(m1) /\ m1.wait_list = m.wait_list /\ m1.obj = m.obj
  BY <1>2 DEF SameWaits
\* Taking t off a wait list, from a state n that differs from m1 in no link.
<1>5. ASSUME NEW n, CoreInv(n, c, {}), OwnersOK(n), SameLinks(m1, n), SameCore(m1, n), n.pendsv = m1.pendsv,
             m.state[t] \in Waiting
      PROVE  /\ CoreInv(unlink(n, S), c, S) /\ OwnersOK(unlink(n, S)) /\ Detached(m, unlink(n, S), t)
             /\ \A o \in Obj : t \notin Range(unlink(n, S).wait_list[o])
  <2> DEFINE q == unlink(n, S)
  <2>1. \A u \in S : n.state[u] \notin Up
    BY <1>2, <1>5 DEF SameLinks, Up, Waiting
  <2>2. n \in Kernel
    BY <1>5, CoreParts
  <2>3. CoreInv(q, c, S) /\ OwnersOK(q)
    <3> HIDE DEF S
    <3>1. CoreInv(q, c, {} \cup S) /\ (OwnersOK(n) => OwnersOK(q))
      BY <1>0, <1>5, <2>1, TakeWaitOK
    <3> HIDE DEF q
    <3> QED BY <1>0, <1>5, <3>1
  <2>4. /\ q \in Kernel /\ SameCore(n, q) /\ SameRest(n, q) /\ SameTime(n, q)
        /\ q.obj = n.obj /\ q.evbits = n.evbits /\ q.ready = n.ready
        /\ q.prio = n.prio /\ q.pendsv = n.pendsv /\ q.state = n.state /\ q.bug = n.bug
        /\ \A o \in Obj : Range(q.wait_list[o]) = Range(n.wait_list[o]) \ S
    BY <2>2, UnlinkEffect
  <2> HIDE DEF q
  <2>5. Detached(m, q, t)
    BY <1>2, <1>4, <1>5, <2>4 DEF Detached, SameCore, SameLinks, SameTime, OnTimeList
  <2> QED BY <2>3, <2>4, <2>5 DEF q
<1>6. SameLinks(m1, m1) /\ SameCore(m1, m1)
  BY DEF SameLinks, SameCore
<1>7. CASE m.state[t] \in Up /\ r = delete_from_ready_list(m1, t)
  <2>1. t \in Task \ {Idle} /\ m1.state[t] \notin Waiting
    BY <1>2, <1>7 DEF Up, Waiting
  <2>2. CoreInv(r, c, {} \cup {t}) /\ (OwnersOK(m1) => OwnersOK(r))
    BY <1>1, <1>7, <2>1, TakeReadyOK
  <2>3. /\ r \in Kernel /\ SameCore(m1, r) /\ SameRest(m1, r) /\ SameTime(m1, r) /\ SameWaits(m1, r)
        /\ r.prio = m1.prio /\ r.pendsv = m1.pendsv /\ r.state = m1.state /\ r.bug = m1.bug
    BY <1>2, <1>7, DeleteReadyEffect
  <2>4. Detached(m, r, t)
    BY <1>2, <1>4, <2>3 DEF Detached, SameCore, SameTime, SameWaits, OnTimeList
  <2> QED BY <1>0, <1>1, <2>2, <2>4 DEF r
<1>8. CASE m.state[t] = "WTSEM" /\ r = unlink(sem_fast_signal(m1, m.obj[t]), S)
  <2> DEFINE s == m.obj[t]
             n == sem_fast_signal(m1, s)
  <2>1. m.state[t] \in Waiting
    BY <1>8 DEF Waiting
  <2>2. s \in Sems
    BY <1>8, <2>1, WaiterWhere
  <2> HIDE DEF s
  <2> DEFINE v == sem_inc(m1.value[s], SemLimit[s], 1)
             f == [m1.value EXCEPT ![s] = v]
  <2>3. v \in Int /\ n = [m1 EXCEPT !.value = f] /\ CoreInv(n, c, {}) /\ OwnersOK(n)
    BY <1>1, <2>2, FastSignalOK
  <2> HIDE DEF v, f
  <2>4. SameLinks(m1, n) /\ SameCore(m1, n) /\ n.pendsv = m1.pendsv
    <3>1. n = [m1 EXCEPT !.value = f] /\ m1 \in Kernel
      BY <1>2, <2>3
    <3> HIDE DEF n
    <3> QED BY ONLY <3>1 DEF Kernel, SameLinks, SameCore
  <2> HIDE DEF n
  <2> QED BY <1>5, <1>8, <2>1, <2>3, <2>4 DEF n, s, r
<1>9. CASE m.state[t] = "WTMTX" /\ r = mutex_waiter_removed(unlink(m1, S), m.obj[t])
  <2> DEFINE x == m.obj[t]
             n == unlink(m1, S)
             o == n.owner[x]
  <2>1. m.state[t] \in Waiting
    BY <1>9 DEF Waiting
  <2>2. x \in Mtxs /\ t \in Range(m.wait_list[x])
    BY <1>9, <2>1, WaiterWhere
  <2>3. CoreInv(n, c, S) /\ OwnersOK(n) /\ Detached(m, n, t) /\ \A y \in Obj : t \notin Range(n.wait_list[y])
    BY <1>1, <1>5, <1>6, <2>1
  <2> HIDE DEF n
  <2>4. o # t
    BY <2>2, <2>3 DEF OwnersOK, Detached
  <2>5. CASE o = Null
    BY <1>9, <2>3, <2>5 DEF mutex_waiter_removed, n, r
  <2>6. CASE o # Null
    <3>1. o \in Task \ S /\ o # Idle
      BY <2>2, <2>3, <2>4, <2>6, CoreParts, KernelTypes DEF OwnersOK
    <3>2. r = inherit(n, o)
      BY <1>9, <2>6 DEF mutex_waiter_removed, n, r
    <3> HIDE DEF o, S
    <3>3. CoreInv(r, c, S) /\ OwnersOK(r) /\ Reordered(n, r)
      BY <2>3, <3>1, <3>2, InheritOK
    <3>4. n.state[t] \notin Up
      BY <1>9, <2>3 DEF Detached, Up
    <3>5. Detached(m, r, t)
      BY <2>3, <3>3, <3>4 DEF Detached, Reordered, SameCore, SameTime, OnTimeList
    <3> QED BY <3>3, <3>5 DEF r, S
  <2> QED BY <2>5, <2>6
<1>10. CASE m.state[t] \in {"WTEVT", "WTCOND", "WTEXIT"} /\ r = unlink(m1, S)
  <2>1. m.state[t] \in Waiting
    BY <1>10 DEF Waiting
  <2> QED BY <1>1, <1>5, <1>6, <1>10, <2>1 DEF r
<1>11. CASE m.state[t] \notin Up \cup Waiting /\ r = m1
  <2>1. S \in SUBSET (Task \ {Idle}) /\ \A u \in S \ {} : m1.state[u] \notin Up \cup Waiting
    BY <1>2, <1>11
  <2>2. CoreInv(m1, c, {} \cup S)
    <3> HIDE DEF S
    <3> QED BY <1>1, <2>1, LimboOK
  <2>3. Detached(m, m1, t)
    BY <1>2, <1>4 DEF Detached, SameCore
  <2> QED BY <1>0, <1>1, <1>11, <2>2, <2>3 DEF r
<1> QED BY <1>3, <1>7, <1>8, <1>9, <1>10, <1>11

\* ... and its second half: a wait that is cut short is marked as such, to be
\* taken up again after the resume.
CutShort(m, t, suspend) ==
  IF m.state[t] \in Waiting \ {"WTCOND"}
  THEN [Detach(m, t) EXCEPT !.wait_aborted = [@ EXCEPT ![t] = suspend]] ELSE Detach(m, t)

\* All of Detached but the mark.
TakenOff(m, r, t) ==
  /\ r.currp = m.currp /\ r.sched_lock = m.sched_lock /\ r.live = m.live /\ r.pendsv = m.pendsv
  /\ r.owner = m.owner /\ r.owned = m.owned
  /\ r.state[t] = m.state[t] /\ t \notin OnTimeList(r)
  /\ \A o \in Obj : Range(r.wait_list[o]) \subseteq Range(m.wait_list[o])

\* Marking a wait as cut short keeps the kernel consistent: the object it will
\* be taken up on is alive.
LEMMA CutShortOK ==
  ASSUME NEW m, NEW c, CoreInv(m, c, {}), OwnersOK(m), NEW t \in Task, t # Idle, m.state[t] \notin Gone,
         NEW suspend \in BOOLEAN
  PROVE  LET r == CutShort(m, t, suspend) IN CoreInv(r, c, {t}) /\ OwnersOK(r) /\ TakenOff(m, r, t)
<1> DEFINE n == Detach(m, t)
           S == {t}
           a == [n.wait_aborted EXCEPT ![t] = suspend]
           r == [n EXCEPT !.wait_aborted = a]
<1>1. CoreInv(n, c, S) /\ OwnersOK(n) /\ Detached(m, n, t)
  BY DetachOK
<1>2. m.state[t] \in Waiting \ {"WTCOND"} /\ c[t].o \in Object => c[t].o \in m.live
  BY WaiterWhere
<1>3. \/ m.state[t] \in Waiting \ {"WTCOND"} /\ CutShort(m, t, suspend) = r
      \/ CutShort(m, t, suspend) = n
  BY DEF CutShort
<1> HIDE DEF n
<1>4. CASE CutShort(m, t, suspend) = n
  BY <1>1, <1>4 DEF Detached, TakenOff
<1>5. CASE m.state[t] \in Waiting \ {"WTCOND"} /\ CutShort(m, t, suspend) = r
  <2>0. /\ n \in Kernel /\ c \in [Task -> Call] /\ S \subseteq Task /\ ~n.bug
        /\ ReadyPlaced(n, S) /\ WaitPlaced(n, c, S)
        /\ TimeOK(n) /\ CurrentOK(n, c, S) /\ BlockedOK(n, c, S) /\ CallsOK(c)
        /\ LifeOK(n, c) /\ AliveOK(n, c) /\ n.currp \in Task /\ Idle \in Task
    <3> HIDE DEF S
    <3> QED BY <1>1, CoreParts
  <2>1. a \in [Task -> BOOLEAN] /\ \A u \in Task \ {t} : a[u] = n.wait_aborted[u]
    BY <2>0, KernelTypes
  <2> HIDE DEF a
  <2>2. /\ r \in Kernel /\ SameLinks(n, r) /\ SameControl(n, r) /\ r.pendsv = n.pendsv
        /\ r.wait_aborted = a /\ r.obj = n.obj /\ r.prio = n.prio
        /\ r.owner = n.owner /\ r.count = n.count /\ r.owned = n.owned
    <3>1. n \in Kernel
      BY <2>0
    <3> QED BY ONLY <2>1, <3>1 DEF Kernel, SameLinks, SameControl
  <2> HIDE DEF r
  <2>3. ReadyPlaced(r, S)
    BY <2>0, <2>2, ReadyFrame DEF SameLinks
  <2>4. WaitPlaced(r, c, S)
    <3>1. \A u \in Task : Aw(r, c, u) = Aw(n, c, u)
      BY <2>2 DEF SameLinks, Aw
    <3> QED BY <2>0, <2>2, <3>1, WaitFrame DEF SameLinks
  <2>5. TimeOK(r)
    BY <2>0, <2>2 DEF TimeOK, TimeLists, Split, OnTimeList, SameLinks
  <2>6. CurrentOK(r, c, S)
    BY <2>0, <2>2 DEF CurrentOK, SameLinks, SameControl
  <2>7. BlockedOK(r, c, S)
    BY <2>0, <2>1, <2>2 DEF BlockedOK, SameLinks
  <2>8. LifeOK(r, c) /\ ~r.bug
    BY <2>0, <2>2 DEF LifeOK, SameLinks, SameControl
  <2>9. AliveOK(r, c)
    <3>1. c[t].o \in Object => c[t].o \in n.live
      BY <1>1, <1>2, <1>5 DEF Detached
    <3> QED BY <2>0, <2>1, <2>2, <3>1 DEF AliveOK, SameLinks, SameControl
  <2>10. OwnersOK(r)
    BY <1>1, <2>2 DEF OwnersOK, SameLinks, SameControl
  <2>11. CoreInv(r, c, S)
    BY <2>0, <2>2, <2>3, <2>4, <2>5, <2>6, <2>7, <2>8, <2>9 DEF CoreInv
  <2>12. TakenOff(m, r, t)
    BY <1>1, <2>2 DEF Detached, TakenOff, SameLinks, SameControl, OnTimeList
  <2> QED BY <1>5, <2>10, <2>11, <2>12
<1> QED BY <1>3, <1>4, <1>5

\* isix_task_suspend: t is on no list any more.
LEMMA SuspendFunOK ==
  ASSUME NEW m, NEW c, CoreInv(m, c, {}), OwnersOK(m), NEW t \in Task, t # Idle, m.state[t] \notin Gone
  PROVE  LET r == kill_or_suspend(m, t, TRUE) IN
         /\ CoreInv(r, c, {t}) /\ OwnersOK(r) /\ r.state[t] = "SUSPEND"
         /\ r.currp = m.currp /\ r.sched_lock = m.sched_lock /\ r.pendsv = m.pendsv
<1> DEFINE n == CutShort(m, t, TRUE)
           S == {t}
           g == [n.state EXCEPT ![t] = "SUSPEND"]
           r == [n EXCEPT !.state = g]
<1>1. CoreInv(n, c, S) /\ OwnersOK(n) /\ TakenOff(m, n, t)
  BY CutShortOK
<1>2. kill_or_suspend(m, t, TRUE) = r
  BY DEF kill_or_suspend, CutShort, Detach
<1> HIDE DEF n
<1>3. "SUSPEND" \in State \ (Up \cup Gone) /\ t \in S /\ n.state[t] \notin Gone /\ t \notin OnTimeList(n)
  BY <1>1 DEF TakenOff, State, Up, Gone
<1>4. CoreInv(r, c, S) /\ OwnersOK(r)
  <2> HIDE DEF S
  <2> QED BY <1>1, <1>3, LimboStateOK
<1>5. r.state[t] = "SUSPEND" /\ r.currp = n.currp /\ r.sched_lock = n.sched_lock /\ r.pendsv = n.pendsv
  <2>1. n \in Kernel
    <3> HIDE DEF S
    <3> QED BY <1>1, CoreParts
  <2>2. g[t] = "SUSPEND"
    BY <2>1, KernelTypes
  <2> HIDE DEF g
  <2> QED BY ONLY <2>1, <2>2 DEF Kernel
<1> QED BY <1>1, <1>2, <1>4, <1>5 DEF TakenOff

\* The end of a task that owns nothing and for whose exit nobody waits.
LEMMA KillFunOK ==
  ASSUME NEW m, NEW c, CoreInv(m, c, {}), OwnersOK(m), NEW t \in Task, t # Idle, m.state[t] \notin Gone,
         m.owned[t] = <<>>, m.wait_list[t] = <<>>
  PROVE  LET r == kill_or_suspend(m, t, FALSE) IN
         /\ CoreInv(r, c, {t}) /\ OwnersOK(r) /\ r.state[t] = "ZOMBIE"
         /\ r.currp = m.currp /\ r.sched_lock = m.sched_lock /\ r.pendsv = m.pendsv
<1> DEFINE n == CutShort(m, t, FALSE)
           X == {t}
           g == [n.state EXCEPT ![t] = "ZOMBIE"]
           z == Append(n.zombie, t)
           r == [n EXCEPT !.state = g, !.zombie = z]
<1>1. CoreInv(n, c, X) /\ OwnersOK(n) /\ TakenOff(m, n, t)
  BY CutShortOK
<1>2. kill_or_suspend(m, t, FALSE) = r
  BY DEF kill_or_suspend, CutShort, Detach
<1> HIDE DEF n
<1>0. /\ n \in Kernel /\ c \in [Task -> Call] /\ X \subseteq Task /\ ~n.bug
      /\ ReadyPlaced(n, X) /\ WaitPlaced(n, c, X)
      /\ TimeOK(n) /\ CurrentOK(n, c, X) /\ BlockedOK(n, c, X) /\ CallsOK(c)
      /\ LifeOK(n, c) /\ AliveOK(n, c) /\ n.currp \in Task /\ Idle \in Task
  <2> HIDE DEF X
  <2> QED BY <1>1, CoreParts
<1>3. /\ n.state[t] \notin Gone /\ t \notin OnTimeList(n) /\ t \in X /\ n.owned[t] = <<>>
      /\ n.wait_list[t] = <<>>
  <2>1. t \in Obj /\ n.wait_list[t] \in Seq(Task)
    BY <1>0, KernelTypes, SyncObjects
  <2>2. Range(<<>>) = {}
    BY DEF Range
  <2>3. Range(n.wait_list[t]) = {}
    BY <1>1, <2>1, <2>2 DEF TakenOff
  <2> QED BY <1>1, <2>1, <2>3, EmptyRange DEF TakenOff
<1>4. g \in [Task -> State] /\ g[t] = "ZOMBIE" /\ \A u \in Task \ {t} : g[u] = n.state[u]
  BY <1>0, KernelTypes DEF State
<1>5. z \in Seq(Task) /\ Range(z) = Range(n.zombie) \cup {t} /\ Distinct(z)
  <2>1. n.zombie \in Seq(Task) /\ Distinct(n.zombie) /\ t \notin Range(n.zombie)
    BY <1>0, <1>3, KernelTypes DEF LifeOK, Gone
  <2> QED BY <2>1, AppendList
<1> HIDE DEF g, z
<1>6. /\ r \in Kernel /\ r.state = g /\ r.zombie = z /\ r.ready = n.ready /\ r.prio = n.prio
      /\ SameTime(n, r) /\ SameWaits(n, r) /\ SameControl(n, r) /\ r.wait_aborted = n.wait_aborted
      /\ r.pendsv = n.pendsv /\ r.owner = n.owner /\ r.count = n.count /\ r.owned = n.owned
  <2>1. n \in Kernel
    BY <1>0
  <2> QED BY ONLY <1>4, <1>5, <2>1 DEF Kernel, SameTime, SameWaits, SameControl
<1> HIDE DEF r
<1>7. ReadyPlaced(r, X)
  BY <1>0, <1>4, <1>6, ReadyFrame
<1>8. WaitPlaced(r, c, X)
  <2>1. \A u \in Task : u \notin X /\ n.state[u] \in Waiting => Aw(r, c, u) = Aw(n, c, u)
    BY <1>4, <1>6 DEF Aw, SameWaits
  <2> QED BY <1>0, <1>4, <1>6, <2>1, WaitFrame DEF SameWaits
<1>9. TimeOK(r)
  <2>1. OnTimeList(r) = OnTimeList(n) /\ TimeLists(r)
    BY <1>0, <1>6 DEF TimeOK, TimeLists, Split, OnTimeList, SameTime
  <2>2. \A u \in OnTimeList(n) : u \in Task /\ u # t
    BY <1>0, <1>3, KernelTypes, RangeType DEF OnTimeList
  <2> QED BY <1>0, <1>4, <1>6, <2>1, <2>2 DEF TimeOK
<1>10. CurrentOK(r, c, X)
  BY <1>0, <1>4, <1>6 DEF CurrentOK, SameControl, Up
<1>11. BlockedOK(r, c, X)
  BY <1>0, <1>4, <1>6 DEF BlockedOK, SameWaits
<1>12. LifeOK(r, c) /\ ~r.bug
  <2>1. \A u \in Task \ {t} : r.state[u] = n.state[u]
    BY <1>4, <1>6
  <2>2. \A u \in Task : Freeing(c[u]) => c[u].o \in Task /\ c[u].o # t
    BY <1>0, <1>3 DEF LifeOK, Freeing, CallsOK, CallKind, Task, Gone
  <2>3. /\ r.zombie = z /\ r.state[t] = "ZOMBIE" /\ r.refcnt = n.refcnt /\ r.wait_list = n.wait_list /\ r.bug = n.bug
    BY <1>4, <1>6 DEF SameWaits, SameControl
  <2> QED BY <1>0, <1>3, <1>5, <2>1, <2>2, <2>3 DEF LifeOK
<1>13. AliveOK(r, c)
  BY <1>0, <1>6 DEF AliveOK, SameWaits, SameControl
<1>14. OwnersOK(r)
  <2>1. Range(<<>>) = {}
    BY DEF Range
  <2>2. \A x \in Mtxs : n.owner[x] # t /\ (n.owner[x] # Null => n.owner[x] \in Task)
    BY <1>0, <1>1, <1>3, <2>1, KernelTypes DEF OwnersOK
  <2> QED BY <1>1, <1>4, <1>6, <2>2 DEF OwnersOK, SameWaits, SameControl
<1>15. CoreInv(r, c, X)
  BY <1>0, <1>6, <1>7, <1>8, <1>9, <1>10, <1>11, <1>12, <1>13 DEF CoreInv
<1> QED BY <1>1, <1>2, <1>4, <1>6, <1>14, <1>15 DEF TakenOff, SameControl

-----------------------------------------------------------------------------
(***************************************************************************)
(* The services of tasks.                                                  *)
(***************************************************************************)

\* The task u is in limbo and blocked by nothing: it settles, in the call e.
LEMMA SettleCallOK ==
  ASSUME NEW m, NEW c, NEW u \in Task, CoreInv(m, c, {u}), u # Idle, m.state[u] \notin Up \cup Waiting,
         NEW e \in Call, CallKind(e), e.o = Null, u = m.currp => m.sched_lock = 0 /\ e.pc = "yield"
  PROVE  CoreInv(m, [c EXCEPT ![u] = e], {})
<1> DEFINE X == {u}
           d == [c EXCEPT ![u] = e]
<1>1. /\ u \in X /\ e.o \notin Object \ m.live /\ e.o \notin Task
  BY NoCallFits, MutexObjects
<1>2. ~Freeing(e)
  BY <1>1 DEF Freeing, CallKind, Task
<1>3. c \in [Task -> Call] /\ d[u] = e
  <2>1. c \in [Task -> Call]
    <3> HIDE DEF X
    <3> QED BY CoreParts DEF X
  <2> QED BY <2>1
<1>4. CoreInv(m, d, X)
  <2>1. u \in X \/ m.state[u] \notin Waiting
    BY <1>1
  <2>2. /\ u = m.currp /\ u \notin X /\ m.state[u] \notin Up => e.pc = "yield" \/ m.pendsv
        /\ u = m.currp /\ m.sched_lock # 0 => e.op \notin Blocking
        /\ u = Idle => e.op \in {"none", "cleanup"} /\ e.pc \in {"run", "enter"}
    BY <1>1
  <2>3. CoreInv(m, c, X)
    OBVIOUS
  <2> HIDE DEF X
  <2> QED BY <1>1, <1>2, <2>1, <2>2, <2>3, CallOK
<1> HIDE DEF d
<1>5. CoreInv(m, d, {})
  BY <1>3, <1>4, SettleOK
<1> QED BY <1>5 DEF d

\* isix_task_suspend.
LEMMA TaskSuspendOK ==
  ASSUME KernelOK(k, call), NEW t \in Task, NEW u \in Tasks, TaskSuspend(t, u)
  PROVE  KernelOK(k', call')
<1> DEFINE r == kill_or_suspend(k, u, TRUE)
           d == [NoCall EXCEPT !.op = "suspend", !.pc = "yield"]
<1>0. /\ t = k.currp /\ CoreInv(k, call, {}) /\ OwnersOK(k) /\ k' = r
      /\ u = t => k.sched_lock = 0
  BY RunningUp DEF TaskSuspend, MayBlock
<1>1. u \in Task /\ u # Idle /\ k.state[u] \notin Gone
  BY TaskAssumption DEF TaskSuspend, Handle, Dead, Gone, Task
<1>2. /\ CoreInv(r, call, {u}) /\ OwnersOK(r) /\ r.state[u] = "SUSPEND"
      /\ r.currp = k.currp /\ r.sched_lock = k.sched_lock /\ r.pendsv = k.pendsv
  BY <1>0, <1>1, SuspendFunOK
<1> HIDE DEF r
<1>3. r.state[u] \notin Up \cup Waiting
  BY <1>2 DEF Up, Waiting
<1>4. CASE u = t
  <2>1. d \in Call /\ d.op = "suspend" /\ d.pc = "yield" /\ d.o = Null
    <3>1. "suspend" \in Ops /\ "yield" \in Pcs
      BY DEF Ops, Pcs
    <3> QED BY <3>1, NoCallFits DEF Call
  <2>2. call' = [call EXCEPT ![u] = d]
    BY <1>4 DEF TaskSuspend
  <2> HIDE DEF d
  <2>3. CallKind(d) /\ (u = r.currp => r.sched_lock = 0 /\ d.pc = "yield")
    BY <1>0, <1>2, <1>4, <2>1 DEF CallKind
  <2>4. CoreInv(r, [call EXCEPT ![u] = d], {})
    BY <1>1, <1>2, <1>3, <2>1, <2>3, SettleCallOK
  <2> QED BY <1>0, <1>2, <2>2, <2>4 DEF KernelOK
<1>5. CASE u # t
  <2>1. CoreInv(r, call, {})
    BY <1>0, <1>1, <1>2, <1>3, <1>5, SettleOK
  <2> QED BY <1>0, <1>2, <1>5, <2>1 DEF KernelOK, TaskSuspend
<1> QED BY <1>4, <1>5

\* isix_task_kill: the mutexes of u go to their waiters, who waits for its exit
\* is woken, and u becomes a zombie.
LEMMA TaskKillOK ==
  ASSUME KernelOK(k, call), NEW t \in Task, NEW u \in Tasks, TaskKill(t, u)
  PROVE  KernelOK(k', call')
<1> DEFINE m1  == mutex_unlock_all_in_task(k, u)
           ws  == m1.wait_list[u]
           msg == IF u = k.currp THEN EOK ELSE EDESTROY
           m2  == wakeup(unlink(m1, Range(ws)), ws, msg)
           m3  == kill_or_suspend(m2, u, FALSE)
           m4  == leave(m3, u)
           b   == m4.pendsv \/ (u # k.currp /\ \E w \in Range(k.wait_list[u]) : prio_gt(m4.prio[w], m4.prio[k.currp]))
           r   == [m4 EXCEPT !.pendsv = b]
           d   == IF u = t THEN [NoCall EXCEPT !.op = "kill", !.pc = "yield"] ELSE NoCall
           X   == {u}
<1>0. /\ t = k.currp /\ CoreInv(k, call, {}) /\ OwnersOK(k)
      /\ u = t => k.sched_lock = 0
  BY RunningUp DEF TaskKill, MayBlock
<1>1. u \in Task /\ u # Idle /\ k.state[u] \notin Gone /\ u \in Obj
  BY TaskAssumption DEF TaskKill, Handle, Dead, Gone, Task, Obj
<1>2. k' = r /\ call' = [call EXCEPT ![u] = d]
  BY <1>0 DEF TaskKill, task_kill, wake_exit_waiters
<1>3. /\ CoreInv(m1, call, {}) /\ OwnersOK(m1) /\ Signalled(k, m1) /\ m1.owned[u] = <<>>
      /\ m1.state[u] \notin Gone
  <2>1. /\ CoreInv(m1, call, {}) /\ OwnersOK(m1) /\ Signalled(k, m1)
        /\ m1.owned[u] = <<>>
        /\ \A v \in Task : k.state[v] \notin Gone => m1.state[v] \notin Gone
    BY <1>0, <1>1, UnlockAllOK
  <2> HIDE DEF m1
  <2> QED BY <1>1, <2>1
<1> HIDE DEF m1
<1>4. ws \in Seq(Task) /\ Distinct(ws) /\ msg \in Msg
  <2>1. m1 \in Kernel /\ WaitPlaced(m1, call, {})
    BY <1>3, CoreParts
  <2> QED BY <1>1, <2>1, KernelTypes DEF WaitPlaced, Msg
<1>5. /\ CoreInv(m2, call, {}) /\ OwnersOK(m2) /\ SameCore(m1, m2) /\ m2.pendsv = m1.pendsv
      /\ m2.wait_list[u] = <<>> /\ m2.state[u] \notin Gone
  <2>1. Range(ws) \subseteq Range(m1.wait_list[u])
    OBVIOUS
  <2> HIDE DEF msg
  <2>2. /\ CoreInv(m2, call, {}) /\ OwnersOK(m2) /\ m2 \in Kernel
        /\ SameCore(m1, m2) /\ SameRest(m1, m2) /\ m2.prio = m1.prio /\ m2.pendsv = m1.pendsv
        /\ m2.jiffies = m1.jiffies
        /\ \A v \in Task :
             /\ m2.state[v] = IF v \in Range(ws) THEN "READY" ELSE m1.state[v]
             /\ m2.obj[v] = IF v \in Range(ws) THEN msg ELSE m1.obj[v]
             /\ m2.evbits[v] = IF v \in Range(ws) THEN NoBits ELSE m1.evbits[v]
        /\ \A p \in Obj : Range(m2.wait_list[p]) = Range(m1.wait_list[p]) \ Range(ws)
    <3> DEFINE q == ws
    <3>1. q \in Seq(Task) /\ Distinct(q) /\ Range(q) \subseteq Range(m1.wait_list[u]) /\ q = ws
      BY <1>4
    <3> HIDE DEF q
    <3> QED BY <1>1, <1>3, <1>4, <3>1, WakeWaitersOK
  <2> HIDE DEF m2
  <2>3. m2.wait_list[u] \in Seq(Task) /\ Range(m2.wait_list[u]) = {}
    BY <1>1, <2>2, KernelTypes
  <2>4. m2.wait_list[u] = <<>>
    BY <2>3, EmptyRange
  <2> QED BY <1>1, <1>3, <2>2, <2>4 DEF Gone
<1> HIDE DEF m2, ws, msg
<1>6. m2.owned[u] = <<>> /\ m2.currp = k.currp /\ m2.sched_lock = k.sched_lock
  BY <1>3, <1>5 DEF SameCore, Signalled
<1>7. /\ CoreInv(m3, call, X) /\ OwnersOK(m3) /\ m3.state[u] = "ZOMBIE"
      /\ m3.currp = m2.currp /\ m3.sched_lock = m2.sched_lock /\ m3.pendsv = m2.pendsv
  BY <1>1, <1>5, <1>6, KillFunOK
<1> HIDE DEF m3
<1>8. /\ CoreInv(m4, call, X) /\ OwnersOK(m4) /\ SameLinks(m3, m4) /\ SameControl(m3, m4)
      /\ m4.pendsv = m3.pendsv
  <2>1. u \in X
    OBVIOUS
  <2> HIDE DEF X
  <2> QED BY <1>1, <1>7, <2>1, LeaveOK
<1> HIDE DEF m4
<1>9. b \in BOOLEAN /\ (m4.pendsv => b)
  <2>1. m4.pendsv \in BOOLEAN
    <3> HIDE DEF X
    <3> QED BY <1>8, CoreParts, KernelTypes
  <2> QED BY <2>1
<1> HIDE DEF b
<1>10. CoreInv(r, call, X) /\ OwnersOK(r) /\ SameLinks(m4, r) /\ SameControl(m4, r)
  <2> HIDE DEF X
  <2> QED BY <1>8, <1>9, PendOK
<1> HIDE DEF r
<1>11. r.state[u] = "ZOMBIE" /\ r.currp = t /\ r.sched_lock = k.sched_lock
  BY <1>0, <1>6, <1>7, <1>8, <1>10 DEF SameLinks, SameControl
<1>12. d \in Call /\ CallKind(d) /\ d.o = Null /\ (u = t => d.pc = "yield")
  <2>1. CASE u = t
    <3>1. "kill" \in Ops /\ "yield" \in Pcs
      BY DEF Ops, Pcs
    <3>2. d \in Call /\ d.op = "kill" /\ d.pc = "yield" /\ d.o = Null
      BY <2>1, <3>1, NoCallFits DEF Call
    <3> HIDE DEF d
    <3> QED BY <3>2 DEF CallKind
  <2>2. CASE u # t
    BY <2>2, NoCallFits
  <2> QED BY <2>1, <2>2
<1> HIDE DEF d
<1>13. r.state[u] \notin Up \cup Waiting /\ (u = r.currp => r.sched_lock = 0 /\ d.pc = "yield")
  BY <1>0, <1>11, <1>12 DEF Up, Waiting
<1>14. CoreInv(r, [call EXCEPT ![u] = d], {})
  BY <1>1, <1>10, <1>12, <1>13, SettleCallOK
<1> QED BY <1>2, <1>10, <1>14 DEF KernelOK

\* A reference is taken or given back.
LEMMA RefOK ==
  ASSUME NEW m, NEW c, NEW X, CoreInv(m, c, X), NEW u \in Task, NEW n \in Nat,
         n # 0 => m.state[u] # "NONE" /\ \A v \in Task : Freeing(c[v]) => c[v].o # u,
         NEW r, r = [m EXCEPT !.refcnt = [m.refcnt EXCEPT ![u] = n]]
  PROVE  /\ CoreInv(r, c, X) /\ (OwnersOK(m) => OwnersOK(r)) /\ SameLinks(m, r)
         /\ r.currp = m.currp /\ r.sched_lock = m.sched_lock /\ r.pendsv = m.pendsv /\ r.prio = m.prio
         /\ r.refcnt[u] = n /\ \A v \in Task \ {u} : r.refcnt[v] = m.refcnt[v]
<1> DEFINE f == [m.refcnt EXCEPT ![u] = n]
           q == [m EXCEPT !.refcnt = f]
<1>0. /\ m \in Kernel /\ c \in [Task -> Call] /\ X \subseteq Task /\ ~m.bug
      /\ ReadyPlaced(m, X) /\ WaitPlaced(m, c, X)
      /\ TimeOK(m) /\ CurrentOK(m, c, X) /\ BlockedOK(m, c, X) /\ CallsOK(c)
      /\ LifeOK(m, c) /\ AliveOK(m, c) /\ m.currp \in Task /\ Idle \in Task
  BY CoreParts
<1>1. f \in [Task -> Nat] /\ f[u] = n /\ \A v \in Task \ {u} : f[v] = m.refcnt[v]
  BY <1>0, KernelTypes
<1>2. r = q
  OBVIOUS
<1> HIDE DEF f
<1>3. /\ q \in Kernel /\ SameLinks(m, q) /\ q.pendsv = m.pendsv /\ q.refcnt = f
      /\ q.wait_aborted = m.wait_aborted /\ q.obj = m.obj /\ q.prio = m.prio
      /\ q.owner = m.owner /\ q.count = m.count /\ q.owned = m.owned
      /\ q.currp = m.currp /\ q.sched_lock = m.sched_lock
      /\ q.live = m.live /\ q.evt = m.evt /\ q.bug = m.bug
  <2>1. m \in Kernel
    BY <1>0
  <2> QED BY ONLY <1>1, <2>1 DEF Kernel, SameLinks
<1> HIDE DEF q
<1>4. ReadyPlaced(q, X)
  BY <1>0, <1>3, ReadyFrame DEF SameLinks
<1>5. WaitPlaced(q, c, X)
  <2>1. \A v \in Task : Aw(q, c, v) = Aw(m, c, v)
    BY <1>3 DEF SameLinks, Aw
  <2> QED BY <1>0, <1>3, <2>1, WaitFrame DEF SameLinks
<1>6. TimeOK(q)
  BY <1>0, <1>3 DEF TimeOK, TimeLists, Split, OnTimeList, SameLinks
<1>7. CurrentOK(q, c, X) /\ BlockedOK(q, c, X) /\ AliveOK(q, c)
  BY <1>0, <1>3 DEF CurrentOK, BlockedOK, AliveOK, SameLinks
<1>8. LifeOK(q, c) /\ ~q.bug
  <2>1. \A v \in Task : Freeing(c[v]) => c[v].o \in Task
    BY <1>0 DEF Freeing, CallsOK, CallKind, Task
  <2> QED BY <1>0, <1>1, <1>3, <2>1 DEF LifeOK, SameLinks
<1>9. OwnersOK(m) => OwnersOK(q)
  BY <1>3 DEF OwnersOK, SameLinks
<1>10. CoreInv(q, c, X)
  BY <1>0, <1>3, <1>4, <1>5, <1>6, <1>7, <1>8 DEF CoreInv
<1> QED BY <1>1, <1>2, <1>3, <1>9, <1>10

\* isix_task_ref.
LEMMA TaskRefOK ==
  ASSUME KernelOK(k, call), NEW t \in Task, NEW u \in Tasks, TaskRef(t, u)
  PROVE  KernelOK(k', call')
<1> DEFINE n == k.refcnt[u] + 1
           r == [k EXCEPT !.refcnt = [k.refcnt EXCEPT ![u] = n]]
<1>0. /\ CoreInv(k, call, {}) /\ OwnersOK(k) /\ k \in Kernel /\ LifeOK(k, call) /\ u \in Task
      /\ call' = call /\ k.refcnt[u] \in Nat /\ Handle(u)
  BY CoreParts, KernelTypes DEF KernelOK, TaskRef, Task
<1>1. k' = r
  BY <1>0 DEF TaskRef, Kernel
<1>2. n \in Nat /\ k.state[u] # "NONE" /\ \A v \in Task : Freeing(call[v]) => call[v].o # u
  BY <1>0 DEF Handle, Dead, LifeOK
<1> HIDE DEF n
<1>3. CoreInv(r, call, {}) /\ OwnersOK(r)
  BY <1>0, <1>2, RefOK
<1> QED BY <1>0, <1>1, <1>3 DEF KernelOK

\* A thread gives back a reference it holds: there is one.
LEMMA ReferenceHeld ==
  ASSUME NEW u \in Task, k \in Kernel, k.refcnt[u] > Cardinality(ExitWaiters(u))
  PROVE  k.refcnt[u] \in Nat \ {0}
<1>1. IsFiniteSet(Task)
  BY TaskAssumption, FS_AddElement DEF Task
<1>2. ExitWaiters(u) \subseteq Task
  BY DEF ExitWaiters
<1>3. Cardinality(ExitWaiters(u)) \in Nat
  BY <1>1, <1>2, FS_Subset, FS_CardinalityType
<1>4. k.refcnt[u] \in Nat
  BY KernelTypes
<1> QED BY <1>3, <1>4

\* The critical section of isix_task_unref: who takes the last reference to an
\* exited task is the one that frees it.
LEMMA TaskUnrefOK ==
  ASSUME KernelOK(k, call), NEW t \in Task, NEW u \in Tasks, TaskUnref(t, u)
  PROVE  KernelOK(k', call')
<1> DEFINE n == k.refcnt[u] - 1
           r == [k EXCEPT !.refcnt = [k.refcnt EXCEPT ![u] = n]]
           d == [NoCall EXCEPT !.op = "unref", !.pc = "enter", !.o = u]
<1>0. /\ CoreInv(k, call, {}) /\ OwnersOK(k) /\ k \in Kernel /\ u \in Task
      /\ t # Idle /\ k.state[t] \in Up /\ k.state[t] \notin Waiting
  BY RunningUp DEF TaskUnref, Task
<1>1. LifeOK(k, call)
  BY <1>0, CoreParts
<1>2. k.refcnt[u] \in Nat \ {0}
  BY <1>0, ReferenceHeld DEF TaskUnref
<1>3. k' = r
  BY <1>0 DEF TaskUnref, Kernel
<1>4. n \in Nat /\ k.state[u] # "NONE" /\ \A v \in Task : Freeing(call[v]) => call[v].o # u
  BY <1>0, <1>1, <1>2 DEF LifeOK
<1> HIDE DEF n
<1>5. /\ CoreInv(r, call, {}) /\ OwnersOK(r) /\ SameLinks(k, r) /\ r.refcnt[u] = n
  BY <1>0, <1>4, RefOK
<1> HIDE DEF r
<1>6. \/ call' = call
      \/ r.refcnt[u] = 0 /\ k.state[u] = "EXITED" /\ call' = [call EXCEPT ![t] = d]
  BY <1>3 DEF TaskUnref
<1>7. CASE call' = call
  BY <1>3, <1>5, <1>7 DEF KernelOK
<1>8. CASE r.refcnt[u] = 0 /\ k.state[u] = "EXITED" /\ call' = [call EXCEPT ![t] = d]
  <2>1. d \in Call /\ d.op = "unref" /\ d.pc = "enter" /\ d.o = u
    <3>1. "unref" \in Ops /\ "enter" \in Pcs /\ u \in Obj
      BY <1>0, SyncObjects DEF Ops, Pcs
    <3> QED BY <3>1, NoCallFits DEF Call
  <2> HIDE DEF d
  <2>2. CallKind(d) /\ d.op \notin Blocking /\ d.o \notin Object
    BY <1>0, <2>1, SyncObjects DEF CallKind, Blocking
  <2>3. r.state[t] \in Up /\ r.state[t] \notin Waiting /\ r.state[u] = "EXITED"
    BY <1>0, <1>5, <1>8 DEF SameLinks
  <2>4. Freeing(d) => /\ r.state[d.o] = "EXITED" /\ r.refcnt[d.o] = 0
                      /\ \A v \in Task \ {t} : Freeing(call[v]) => call[v].o # d.o
    BY <1>4, <1>8, <2>1, <2>3
  <2>5. CoreInv(r, [call EXCEPT ![t] = d], {})
    BY <1>0, <1>5, <2>1, <2>2, <2>3, <2>4, CallOK
  <2> QED BY <1>3, <1>5, <1>8, <2>5 DEF KernelOK
<1> QED BY <1>6, <1>7, <1>8

\* isix_task_change_prio.
LEMMA TaskChangePrioOK ==
  ASSUME KernelOK(k, call), NEW t \in Task, NEW u \in Tasks, NEW p \in NewPrios, TaskChangePrio(t, u, p)
  PROVE  KernelOK(k', call')
<1> DEFINE f == [k.real_prio EXCEPT ![u] = p]
           m == [k EXCEPT !.real_prio = f]
           n == reallocate_priority(m, u, p)
<1>0. /\ CoreInv(k, call, {}) /\ OwnersOK(k) /\ k \in Kernel /\ u \in Task \ {} /\ u # Idle /\ call' = call
      /\ p \in Prio
  BY CoreParts, TaskAssumption, ControlAssumption, Prios DEF KernelOK, TaskChangePrio, Task, Prio
<1>1. k' = m \/ k' = [n EXCEPT !.pendsv = TRUE]
  BY DEF TaskChangePrio, port_yield
<1>2. f \in [Task -> Prio]
  BY <1>0, KernelTypes
<1> HIDE DEF f
<1>3. m \in Kernel /\ SameState(k, m)
  BY <1>0, <1>2 DEF Kernel, SameState, SameLinks, SameControl
<1> HIDE DEF m
<1>4. CoreInv(m, call, {}) /\ OwnersOK(m)
  BY <1>0, <1>3, DataOK
<1>5. CoreInv(n, call, {}) /\ OwnersOK(n)
  BY <1>0, <1>4, PrioOK
<1> HIDE DEF n
<1>6. CoreInv([n EXCEPT !.pendsv = TRUE], call, {}) /\ OwnersOK([n EXCEPT !.pendsv = TRUE])
  BY <1>5, PendOK
<1> QED BY <1>0, <1>1, <1>4, <1>6 DEF KernelOK

\* The wake-up of a suspended task.
LEMMA ResumeFunOK ==
  ASSUME NEW m, NEW c, CoreInv(m, c, {}), OwnersOK(m), NEW u \in Tasks, m.state[u] = "SUSPEND"
  PROVE  CoreInv(task_resume(m, u), c, {}) /\ OwnersOK(task_resume(m, u))
<1> DEFINE q == <<u>>
           S == {u}
           n == wakeup(m, q, EOK)
           r == do_reschedule(n, u)
<1>0. u \in Task /\ u # Idle /\ task_resume(m, u) = r
  BY TaskAssumption DEF task_resume, Task
<1>1. q \in Seq(Task) /\ Range(q) = S /\ Distinct(q) /\ EOK \in Msg
  <2>1. EOK \in Msg
    BY DEF Msg
  <2> QED BY <1>0, <2>1, OneElement
<1>2. S \in SUBSET (Task \ {Idle}) /\ (\A v \in S : m.state[v] \notin Up \cup Waiting \cup {"ZOMBIE", "EXITED"})
      /\ {} \cup S = S
  BY <1>0 DEF Up, Waiting
<1> HIDE DEF q, S
<1>3. CoreInv(m, c, Range(q))
  <2>1. \A v \in S \ {} : m.state[v] \notin Up \cup Waiting
    BY <1>2
  <2>2. CoreInv(m, c, {} \cup S)
    BY <1>0, <1>2, <2>1, LimboOK
  <2> QED BY <1>1, <1>2, <2>2
<1>4. CoreInv(n, c, {}) /\ OwnersOK(n)
  <2>1. \A v \in Range(q) : m.state[v] \notin Up \cup {"ZOMBIE", "EXITED"}
    BY <1>1, <1>2
  <2> QED BY <1>0, <1>1, <1>3, <2>1, WakeOK
<1> HIDE DEF n
<1>5. CoreInv(r, c, {}) /\ OwnersOK(r)
  BY <1>0, <1>4, RescheduleOK
<1> QED BY <1>0, <1>5

\* isix_task_resume.
LEMMA TaskResumeOK ==
  ASSUME KernelOK(k, call), NEW t \in Task, NEW u \in Tasks, TaskResume(t, u)
  PROVE  KernelOK(k', call')
BY ResumeFunOK DEF KernelOK, TaskResume

\* A task that is gone becomes something else that is on no list: a new task,
\* or one step further gone.
LEMMA FateOK ==
  ASSUME NEW m, NEW c, CoreInv(m, c, {}), OwnersOK(m), NEW u \in Tasks, m.state[u] \in Gone,
         NEW r \in Kernel, r.state[u] \notin Up \cup Waiting,
         \A v \in Task \ {u} : r.state[v] = m.state[v] /\ r.prio[v] = m.prio[v],
         r.ready = m.ready, SameTime(m, r), SameWaits(m, r), r.wait_aborted = m.wait_aborted,
         r.currp = m.currp, r.sched_lock = m.sched_lock, r.pendsv = m.pendsv,
         r.live = m.live, r.evt = m.evt, r.bug = m.bug,
         r.owner = m.owner, r.count = m.count, r.owned = m.owned,
         LifeOK(r, c)
  PROVE  CoreInv(r, c, {}) /\ OwnersOK(r)
<1>0. /\ m \in Kernel /\ c \in [Task -> Call] /\ ~m.bug
      /\ ReadyPlaced(m, {}) /\ WaitPlaced(m, c, {})
      /\ TimeOK(m) /\ CurrentOK(m, c, {}) /\ BlockedOK(m, c, {}) /\ CallsOK(c)
      /\ LifeOK(m, c) /\ AliveOK(m, c) /\ m.currp \in Task /\ Idle \in Task
  BY CoreParts
<1>1. u \in Task /\ u # Idle /\ m.state[u] \notin Up \cup Waiting \cup Timed
  BY TaskAssumption DEF Task, Gone, Up, Waiting, Timed
<1>2. \A v \in Task : /\ m.state[v] \in Up => v # u
                      /\ m.state[v] \in Waiting => v # u
                      /\ m.state[v] \in Up <=> r.state[v] \in Up
                      /\ m.state[v] \in Waiting <=> r.state[v] \in Waiting
  BY <1>1
<1>3. ReadyPlaced(r, {})
  BY <1>0, <1>2, ReadyFrame
<1>4. WaitPlaced(r, c, {})
  <2>1. \A v \in Task : m.state[v] \in Waiting => Aw(r, c, v) = Aw(m, c, v)
    BY <1>2 DEF Aw, SameWaits
  <2> QED BY <1>0, <1>2, <2>1, WaitFrame DEF SameWaits
<1>5. TimeOK(r)
  <2>1. OnTimeList(r) = OnTimeList(m) /\ TimeLists(r)
    BY <1>0 DEF TimeOK, TimeLists, Split, OnTimeList, SameTime
  <2>2. \A v \in OnTimeList(m) : v \in Task /\ m.state[v] \in Timed /\ v # u
    BY <1>0, <1>1, KernelTypes, RangeType DEF OnTimeList, TimeOK
  <2> QED BY <2>1, <2>2 DEF TimeOK
<1>6. CurrentOK(r, c, {})
  <2>1. \A v \in Task : r.state[v] = "RUNNING" => m.state[v] = "RUNNING"
    BY <1>1 DEF Up
  <2> QED BY <1>0, <1>1, <1>2, <2>1 DEF CurrentOK
<1>7. BlockedOK(r, c, {})
  <2>1. Blocked(r.state[u], c[u], r.obj[u], r.wait_aborted[u])
    BY DEF Blocked, Waiting
  <2>2. \A v \in Task \ {u} : Blocked(r.state[v], c[v], r.obj[v], r.wait_aborted[v])
    BY <1>0 DEF BlockedOK, SameWaits
  <2> QED BY <2>1, <2>2 DEF BlockedOK
<1>8. AliveOK(r, c)
  BY <1>0 DEF AliveOK, SameWaits
<1>9. OwnersOK(r)
  <2>1. \A x \in Mtxs : m.owner[x] # Null => m.owner[x] \in Task \ {u} /\ m.state[m.owner[x]] \notin Gone
    BY <1>0, KernelTypes DEF OwnersOK
  <2>2. \A x \in Mtxs : m.owner[x] # Null => r.state[m.owner[x]] \notin Gone
    BY <2>1
  <2> QED BY <2>2, OwnersFrame DEF SameWaits
<1> QED BY <1>0, <1>3, <1>4, <1>5, <1>6, <1>7, <1>8, <1>9 DEF CoreInv

\* Back from isix_task_wait_for.
LEMMA TaskWaitForReturnOK ==
  ASSUME KernelOK(k, call), NEW t \in Task, TaskWaitForReturn(t)
  PROVE  KernelOK(k', call')
BY ReturnOK DEF TaskWaitForReturn

\* cleanup_tasks: the first zombie leaves the list.
LEMMA CleanupOK ==
  ASSUME KernelOK(k, call), Cleanup
  PROVE  KernelOK(k', call')
<1> DEFINE u == Head(k.zombie)
           z == Tail(k.zombie)
           g == [k.state EXCEPT ![u] = "EXITED"]
           r == [k EXCEPT !.zombie = z, !.state = g]
           d == [NoCall EXCEPT !.op = "cleanup", !.pc = "enter", !.o = u]
<1>0. /\ CoreInv(k, call, {}) /\ OwnersOK(k) /\ k \in Kernel /\ LifeOK(k, call) /\ CallsOK(call)
      /\ k.currp = Idle /\ Idle \in Task /\ k.state[Idle] \in Up /\ k.zombie # <<>>
  BY CoreParts DEF KernelOK, Cleanup, Exec, CurrentOK
<1>1. k' = r /\ (call' = call \/ (k.refcnt[u] = 0 /\ call' = [call EXCEPT ![Idle] = d]))
  BY DEF Cleanup
<1>2. z \in Seq(Task) /\ Range(z) = Range(k.zombie) \ {u} /\ Distinct(z)
      /\ u \in Range(k.zombie) /\ u \in Task
  <2>1. k.zombie \in Seq(Task) /\ Distinct(k.zombie)
    BY <1>0, KernelTypes DEF LifeOK
  <2> QED BY <1>0, <2>1, TailList, EmptyRange
<1> HIDE DEF u, z
<1>3. k.state[u] = "ZOMBIE" /\ u \in Tasks
  <2>1. k.state[u] = "ZOMBIE"
    BY <1>0, <1>2 DEF LifeOK
  <2> QED BY <1>0, <1>2, <2>1 DEF Task, Up
<1>4. g \in [Task -> State] /\ g[u] = "EXITED" /\ \A v \in Task \ {u} : g[v] = k.state[v]
  BY <1>0, <1>2, KernelTypes DEF State
<1> HIDE DEF g
<1>5. /\ r \in Kernel /\ r.state = g /\ r.zombie = z /\ r.ready = k.ready /\ r.prio = k.prio
      /\ SameTime(k, r) /\ SameWaits(k, r) /\ SameControl(k, r) /\ r.wait_aborted = k.wait_aborted
      /\ r.pendsv = k.pendsv /\ r.owner = k.owner /\ r.count = k.count /\ r.owned = k.owned
  <2>1. k \in Kernel
    BY <1>0
  <2> QED BY ONLY <1>2, <1>4, <2>1 DEF Kernel, SameTime, SameWaits, SameControl
<1> HIDE DEF r
<1>6. \A v \in Task : Freeing(call[v]) => call[v].o \in Task /\ call[v].o # u
  BY <1>0, <1>3 DEF LifeOK, Freeing, CallsOK, CallKind, Task
<1>7. LifeOK(r, call)
  <2>1. /\ r.zombie = z /\ r.state[u] = "EXITED" /\ r.refcnt = k.refcnt /\ r.wait_list = k.wait_list
        /\ \A v \in Task \ {u} : r.state[v] = k.state[v]
    BY <1>4, <1>5 DEF SameWaits, SameControl
  <2>2. k.wait_list[u] = <<>>
    BY <1>0, <1>2, <1>3 DEF LifeOK, Gone
  <2> QED BY <1>0, <1>2, <1>3, <1>6, <2>1, <2>2 DEF LifeOK
<1>8. CoreInv(r, call, {}) /\ OwnersOK(r)
  <2>1. /\ k.state[u] \in Gone /\ r.state[u] \notin Up \cup Waiting
        /\ \A v \in Task \ {u} : r.state[v] = k.state[v] /\ r.prio[v] = k.prio[v]
    BY <1>3, <1>4, <1>5 DEF Gone, Up, Waiting
  <2>2. /\ r.currp = k.currp /\ r.sched_lock = k.sched_lock
        /\ r.live = k.live /\ r.evt = k.evt /\ r.bug = k.bug
    BY <1>5 DEF SameControl
  <2> QED BY <1>0, <1>3, <1>5, <1>7, <2>1, <2>2, FateOK
<1>9. CASE call' = call
  BY <1>1, <1>8, <1>9 DEF KernelOK
<1>10. CASE k.refcnt[u] = 0 /\ call' = [call EXCEPT ![Idle] = d]
  <2>1. d \in Call /\ d.op = "cleanup" /\ d.pc = "enter" /\ d.o = u
    <3>1. "cleanup" \in Ops /\ "enter" \in Pcs /\ u \in Obj
      BY <1>2, SyncObjects DEF Ops, Pcs
    <3> QED BY <3>1, NoCallFits DEF Call
  <2> HIDE DEF d
  <2>2. CallKind(d) /\ d.op \notin Blocking /\ d.o \notin Object
    BY <1>2, <1>3, <2>1, SyncObjects DEF CallKind, Blocking
  <2>3. r.state[Idle] \in Up /\ r.state[Idle] \notin Waiting
    BY <1>0, <1>3, <1>4, <1>5 DEF Up, Waiting
  <2>4. Freeing(d) => /\ r.state[d.o] = "EXITED" /\ r.refcnt[d.o] = 0
                      /\ \A v \in Task \ {Idle} : Freeing(call[v]) => call[v].o # d.o
    BY <1>4, <1>5, <1>6, <1>10, <2>1 DEF SameControl
  <2>5. CoreInv(r, [call EXCEPT ![Idle] = d], {})
    BY <1>0, <1>8, <2>1, <2>2, <2>3, <2>4, CallOK
  <2> QED BY <1>1, <1>8, <1>10, <2>5 DEF KernelOK
<1> QED BY <1>1, <1>9, <1>10

\* The release of a control block, by the idle task or by isix_task_unref.
LEMMA FreeTcbOK ==
  ASSUME KernelOK(k, call), NEW t \in Task, FreeTcb(t)
  PROVE  KernelOK(k', call')
<1> DEFINE u  == call[t].o
           c1 == [call EXCEPT ![t] = NoCall]
           c2 == [c1 EXCEPT ![u] = NoCall]
           b  == k.bug \/ k.state[u] = "NONE"
           g  == [k.state EXCEPT ![u] = "NONE"]
           p  == [k.prio EXCEPT ![u] = BasePrio[u]]
           q  == [k.real_prio EXCEPT ![u] = BasePrio[u]]
           r  == [k EXCEPT !.bug = b, !.state = g, !.prio = p, !.real_prio = q]
<1>0. /\ CoreInv(k, call, {}) /\ OwnersOK(k) /\ k \in Kernel /\ call \in [Task -> Call]
      /\ t = k.currp /\ k.state[t] \in Up /\ Freeing(call[t])
  BY ExecUp DEF FreeTcb, Freeing
<1>1. k' = r /\ call' = c2
  <2>1. k' = r /\ call' = [call EXCEPT ![t] = NoCall, ![u] = NoCall]
    BY DEF FreeTcb
  <2> QED BY <2>1
<1>2. /\ LifeOK(k, call) /\ CallsOK(call) /\ ~k.bug
  BY <1>0, CoreParts
<1>3. /\ u \in Tasks /\ u \in Task /\ k.state[u] = "EXITED" /\ k.refcnt[u] = 0 /\ k.wait_list[u] = <<>>
      /\ \A v \in Task \ {t} : Freeing(call[v]) => call[v].o # u
  BY <1>0, <1>2 DEF LifeOK, CallsOK, CallKind, Freeing, Task, Gone
<1> HIDE DEF u
<1>4. CoreInv(k, c1, {}) /\ c1 \in [Task -> Call] /\ c1[t] = NoCall /\ \A v \in Task \ {t} : c1[v] = call[v]
  BY <1>0, EndCallOK, NoCallFits
<1> HIDE DEF c1
<1>5. CoreInv(k, c2, {}) /\ c2[u] = NoCall /\ \A v \in Task \ {u} : c2[v] = c1[v]
  <2>1. k.state[u] \notin Waiting /\ u # k.currp
    BY <1>0, <1>3 DEF Waiting, Up
  <2> QED BY <1>3, <1>4, <2>1, LeaveCallOK
<1> HIDE DEF c2
<1>6. \A v \in Task : Freeing(c2[v]) => Freeing(call[v]) /\ c2[v] = call[v] /\ v # t /\ call[v].o # u
  BY <1>3, <1>4, <1>5, NoCallFits
<1>7. /\ g \in [Task -> State] /\ g[u] = "NONE" /\ (\A v \in Task \ {u} : g[v] = k.state[v])
      /\ p \in [Task -> Prio] /\ q \in [Task -> Prio] /\ (\A v \in Task \ {u} : p[v] = k.prio[v])
      /\ b = k.bug /\ b \in BOOLEAN
  <2>1. BasePrio[u] \in Prio
    BY <1>3, Prios, PrioAssumption
  <2>2. "NONE" \in State
    BY DEF State
  <2>3. k.bug \in BOOLEAN /\ b = k.bug
    BY <1>0, <1>2, <1>3, KernelTypes
  <2> HIDE DEF b
  <2> QED BY <1>0, <1>3, <2>1, <2>2, <2>3, KernelTypes
<1> HIDE DEF g, p, q, b
<1>8. /\ r \in Kernel /\ r.state = g /\ r.prio = p /\ r.zombie = k.zombie /\ r.ready = k.ready
      /\ SameTime(k, r) /\ SameWaits(k, r) /\ SameControl(k, r) /\ r.wait_aborted = k.wait_aborted
      /\ r.pendsv = k.pendsv /\ r.owner = k.owner /\ r.count = k.count /\ r.owned = k.owned
  <2>1. k \in Kernel
    BY <1>0
  <2> QED BY ONLY <1>7, <2>1 DEF Kernel, SameTime, SameWaits, SameControl
<1> HIDE DEF r
<1>9. LifeOK(r, c2)
  <2>1. /\ r.zombie = k.zombie /\ r.state[u] = "NONE" /\ r.refcnt = k.refcnt /\ r.wait_list = k.wait_list
        /\ \A v \in Task \ {u} : r.state[v] = k.state[v]
    BY <1>7, <1>8 DEF SameWaits, SameControl
  <2>2. \A v \in Task : Freeing(c2[v]) => c2[v].o \in Task \ {u}
    BY <1>2, <1>6 DEF Freeing, CallsOK, CallKind, Task
  <2>3. \A v \in Task : Freeing(c2[v]) =>
          /\ r.state[c2[v].o] = "EXITED" /\ r.refcnt[c2[v].o] = 0
          /\ \A w \in Task \ {v} : Freeing(c2[w]) => c2[w].o # c2[v].o
    BY <1>2, <1>6, <2>1, <2>2 DEF LifeOK
  <2> QED BY <1>2, <1>3, <2>1, <2>3 DEF LifeOK
<1>10. CoreInv(r, c2, {}) /\ OwnersOK(r)
  <2>1. /\ k.state[u] \in Gone /\ r.state[u] \notin Up \cup Waiting
        /\ \A v \in Task \ {u} : r.state[v] = k.state[v] /\ r.prio[v] = k.prio[v]
    BY <1>3, <1>7, <1>8 DEF Gone, Up, Waiting
  <2>2. /\ r.currp = k.currp /\ r.sched_lock = k.sched_lock
        /\ r.live = k.live /\ r.evt = k.evt /\ r.bug = k.bug
    BY <1>8 DEF SameControl
  <2> QED BY <1>0, <1>3, <1>5, <1>8, <1>9, <2>1, <2>2, FateOK
<1> QED BY <1>1, <1>10 DEF KernelOK

\* A task that is gone owns no mutex, and nobody waits for its exit.
LEMMA GoneIsFree ==
  ASSUME NEW m, NEW c, CoreInv(m, c, {}), OwnersOK(m), NEW u \in Task, m.state[u] \in Gone
  PROVE  m.owned[u] = <<>> /\ m.wait_list[u] = <<>>
<1>1. m \in Kernel /\ LifeOK(m, c)
  BY CoreParts
<1>2. m.owned[u] \in Seq(Mtxs)
  BY <1>1, KernelTypes
<1>3. Range(m.owned[u]) = {}
  <2>1. Range(m.owned[u]) \subseteq Mtxs
    BY <1>2, EmptyRange
  <2>2. u # Null
    BY MutexObjects
  <2>3. \A x \in Mtxs : x \notin Range(m.owned[u])
    BY <2>2 DEF OwnersOK
  <2> QED BY <2>1, <2>3
<1> QED BY <1>1, <1>2, <1>3, EmptyRange DEF LifeOK

\* isix_task_create.  A task that is created ready is one created suspended
\* and resumed at once: its wake-up does not look at the state it had.
LEMMA TaskCreateOK ==
  ASSUME KernelOK(k, call), NEW t \in Task, NEW u \in Tasks, NEW suspended \in BOOLEAN, NEW ref \in 0 .. 1,
         TaskCreate(t, u, suspended, ref)
  PROVE  KernelOK(k', call')
<1> DEFINE c == [call EXCEPT ![u] = NoCall]
           p == [k.prio EXCEPT ![u] = BasePrio[u]]
           q == [k.real_prio EXCEPT ![u] = BasePrio[u]]
           f == [k.refcnt EXCEPT ![u] = ref]
           g == [k.state EXCEPT ![u] = "SUSPEND"]
           m == [k EXCEPT !.prio = p, !.real_prio = q, !.refcnt = f]
           s == [m EXCEPT !.state = g]
<1>0. /\ CoreInv(k, call, {}) /\ OwnersOK(k) /\ k \in Kernel /\ call \in [Task -> Call]
      /\ t = k.currp /\ k.state[t] \in Up /\ k.state[u] = "NONE" /\ u \in Task /\ u # t
  BY RunningUp DEF TaskCreate, Task, Up
<1>1. k.state[u] \in Gone /\ k.owned[u] = <<>> /\ k.wait_list[u] = <<>>
  <2>1. k.state[u] \in Gone
    BY <1>0 DEF Gone
  <2> QED BY <1>0, <2>1, GoneIsFree
<1>2. call' = c /\ k' = IF suspended THEN s ELSE task_resume(m, u)
  <2>1. [k.owned EXCEPT ![u] = <<>>] = k.owned /\ [k.wait_list EXCEPT ![u] = <<>>] = k.wait_list
    BY <1>0, <1>1, KernelTypes, SyncObjects
  <2> DEFINE n == [k EXCEPT !.prio = p, !.real_prio = q, !.refcnt = f, !.owned = k.owned, !.wait_list = k.wait_list]
  <2>2. call' = c /\ k' = IF suspended THEN [n EXCEPT !.state = g] ELSE do_reschedule(wakeup(n, <<u>>, EOK), u)
    BY <2>1 DEF TaskCreate
  <2> HIDE DEF p, q, f, g, c
  <2>3. n = m
    BY <1>0 DEF Kernel
  <2> HIDE DEF n, m
  <2> QED BY <2>2, <2>3 DEF task_resume
<1>3. CoreInv(k, c, {}) /\ c[u] = NoCall /\ \A v \in Task \ {u} : c[v] = call[v]
  <2>1. k.state[u] \notin Waiting /\ u # k.currp
    BY <1>0 DEF Waiting
  <2> QED BY <1>0, <2>1, LeaveCallOK
<1> HIDE DEF c
<1>4. /\ g \in [Task -> State] /\ g[u] = "SUSPEND" /\ (\A v \in Task \ {u} : g[v] = k.state[v])
      /\ p \in [Task -> Prio] /\ q \in [Task -> Prio] /\ (\A v \in Task \ {u} : p[v] = k.prio[v])
      /\ f \in [Task -> Nat] /\ (\A v \in Task \ {u} : f[v] = k.refcnt[v])
  <2>1. BasePrio[u] \in Prio /\ ref \in Nat
    BY Prios, PrioAssumption
  <2>2. "SUSPEND" \in State
    BY DEF State
  <2> QED BY <1>0, <2>1, <2>2, KernelTypes
<1> HIDE DEF g, p, q, f
<1>5. /\ m \in Kernel /\ m.state = k.state /\ m.zombie = k.zombie
      /\ s \in Kernel /\ s.state = g /\ s.prio = p /\ s.refcnt = f /\ s.zombie = k.zombie /\ s.ready = k.ready
      /\ SameTime(k, s) /\ SameWaits(k, s) /\ s.wait_aborted = k.wait_aborted
      /\ s.pendsv = k.pendsv /\ s.owner = k.owner /\ s.count = k.count /\ s.owned = k.owned
      /\ s.currp = k.currp /\ s.sched_lock = k.sched_lock
      /\ s.live = k.live /\ s.evt = k.evt /\ s.bug = k.bug
  <2>1. k \in Kernel
    BY <1>0
  <2> QED BY ONLY <1>4, <2>1 DEF Kernel, SameTime, SameWaits
<1>6. LifeOK(s, c)
  <2>1. LifeOK(k, c) /\ CallsOK(c)
    BY <1>3, CoreParts
  <2>2. /\ s.zombie = k.zombie /\ s.state[u] = "SUSPEND" /\ s.wait_list = k.wait_list
        /\ \A v \in Task \ {u} : s.state[v] = k.state[v] /\ s.refcnt[v] = k.refcnt[v]
    BY <1>4, <1>5 DEF SameWaits
  <2>3. \A v \in Task : Freeing(c[v]) => c[v].o \in Task \ {u}
    BY <1>0, <2>1 DEF LifeOK, Freeing, CallsOK, CallKind, Task
  <2> HIDE DEF s, m
  <2>4. \A v \in Task : Freeing(c[v]) =>
          /\ s.state[c[v].o] = "EXITED" /\ s.refcnt[c[v].o] = 0
          /\ \A w \in Task \ {v} : Freeing(c[w]) => c[w].o # c[v].o
    BY <2>1, <2>2, <2>3 DEF LifeOK
  <2> QED BY <1>0, <2>1, <2>2, <2>4 DEF LifeOK, Gone
<1>7. CoreInv(s, c, {}) /\ OwnersOK(s)
  <2>1. /\ s.state[u] \notin Up \cup Waiting
        /\ \A v \in Task \ {u} : s.state[v] = k.state[v] /\ s.prio[v] = k.prio[v]
    BY <1>4, <1>5 DEF Up, Waiting
  <2> HIDE DEF s, m
  <2> QED BY <1>0, <1>1, <1>3, <1>5, <1>6, <2>1, FateOK
<1>8. CoreInv(task_resume(s, u), c, {}) /\ OwnersOK(task_resume(s, u))
  <2>1. s.state[u] = "SUSPEND"
    BY <1>4, <1>5
  <2> HIDE DEF s
  <2> QED BY <1>7, <2>1, ResumeFunOK
<1>9. task_resume(s, u) = task_resume(m, u)
  <2> DEFINE ts == <<u>>
  <2>1. Range(ts) = {u}
    BY <1>0, OneElement
  <2>2. wakeup(s, ts, EOK) = wakeup(m, ts, EOK)
    <3> DEFINE R == Range(ts)
               A(n) == n.bug \/ \E v \in R : n.state[v] \in {"READY", "ZOMBIE"}
               W(n) == [v \in Task |-> IF v \in R THEN "READY" ELSE n.state[v]]
               D(n) == [v \in Task |-> IF v \in R THEN 0 ELSE n.deadline[v]]
               L(n) == [v \in Task |-> IF v \in R THEN 0 ELSE n.left[v]]
               O(n) == [v \in Task |-> IF v \in R THEN EOK ELSE n.obj[v]]
               E(n) == [v \in Task |-> IF v \in R THEN NoBits ELSE n.evbits[v]]
               Y(n) == [i \in Prio |-> n.ready[i] \o Keep(ts, {v \in Task : n.prio[v] = i})]
               F(n) == [n EXCEPT !.p_wait = Without(n.p_wait, R), !.pov_wait = Without(n.pov_wait, R),
                                 !.deadline = D(n), !.left = L(n), !.obj = O(n), !.evbits = E(n),
                                 !.bug = A(n), !.state = W(n), !.ready = Y(n)]
    <3>1. ASSUME NEW n \in Kernel
          PROVE  wakeup(n, ts, EOK) = F(n)
      <4> HIDE DEF ts
      <4> QED BY DEF wakeup, time_unlink, add_ready_list, Kernel
    <3>2. A(s) = A(m) /\ W(s) = W(m)
      BY <1>0, <1>4, <1>5, <2>1
    <3>3. /\ s.p_wait = m.p_wait /\ s.pov_wait = m.pov_wait /\ s.deadline = m.deadline /\ s.left = m.left
          /\ s.obj = m.obj /\ s.evbits = m.evbits /\ s.ready = m.ready /\ s.prio = m.prio
      BY <1>5 DEF Kernel
    <3> HIDE DEF m, R, ts
    <3>4. F(s) = F(m)
      <4> DEFINE d1 == Without(m.p_wait, R)
                 d2 == Without(m.pov_wait, R)
                 d3 == D(m)
                 d4 == L(m)
                 d5 == O(m)
                 d6 == E(m)
                 d7 == A(m)
                 d8 == W(m)
                 d9 == Y(m)
                 G(n) == [n EXCEPT !.p_wait = d1, !.pov_wait = d2,
                                 !.deadline = d3, !.left = d4, !.obj = d5, !.evbits = d6,
                                 !.bug = d7, !.state = d8, !.ready = d9]
      <4>1. F(s) = G(s) /\ F(m) = G(m)
        <5> HIDE DEF s
        <5>1. D(s) = D(m) /\ L(s) = L(m) /\ O(s) = O(m) /\ E(s) = E(m)
          BY <3>3
        <5>2. Y(s) = Y(m)
          BY <3>3
        <5>3. Without(s.p_wait, R) = d1 /\ Without(s.pov_wait, R) = d2
          BY <3>3
        <5> HIDE DEF A, W, D, L, O, E, Y
        <5> QED BY <3>2, <5>1, <5>2, <5>3
      <4> HIDE DEF d1, d2, d3, d4, d5, d6, d7, d8, d9
      <4>2. G(s) = G(m)
        BY <1>5 DEF Kernel
      <4> QED BY <4>1, <4>2
    <3> HIDE DEF F
    <3> QED BY <1>5, <3>1, <3>4
  <2> QED BY <2>2 DEF task_resume
<1> QED BY <1>2, <1>7, <1>8, <1>9 DEF KernelOK

\* The current task goes to sleep until the exit of u.
LEMMA ExitBlockOK ==
  ASSUME NEW m, NEW c, CoreInv(m, c, {}), OwnersOK(m), NEW t \in Task, t = m.currp, t # Idle,
         m.state[t] \in Up, m.sched_lock = 0, NEW u \in Tasks, m.state[u] \notin Gone,
         NEW n, n = [m EXCEPT !.wait_aborted = [m.wait_aborted EXCEPT ![t] = FALSE]],
         NEW d \in Call, d.op = "exit", d.pc = "yield", d.o = u
  PROVE  LET r == [set_sleep(n, "WTEXIT") EXCEPT !.wait_list[u] = Append(@, t)]
         IN CoreInv(r, [c EXCEPT ![t] = d], {}) /\ OwnersOK(r)
<1>0. /\ m \in Kernel /\ m.wait_aborted \in [Task -> BOOLEAN] /\ m.state \in [Task -> State]
      /\ u \in Obj /\ u \in Task /\ u \notin Object /\ u \notin Mtxs
  <2>1. u \in Task
    BY DEF Task
  <2> QED BY <2>1, CoreParts, KernelTypes, MutexObjects, SyncObjects
<1> DEFINE a == [m.wait_aborted EXCEPT ![t] = FALSE]
           p == [m EXCEPT !.wait_aborted = a]
           s == set_sleep(p, "WTEXIT")
           q == Append(s.wait_list[u], t)
           f == [s.wait_list EXCEPT ![u] = q]
           r == [s EXCEPT !.wait_list = f]
<1>1. a \in [Task -> BOOLEAN] /\ ~a[t] /\ \A v \in Task \ {t} : a[v] = m.wait_aborted[v]
  BY <1>0
<1>n. n = p
  OBVIOUS
<1> HIDE DEF a
<1>2. /\ p \in Kernel /\ SameLinks(m, p) /\ SameControl(m, p) /\ p.pendsv = m.pendsv
      /\ p.wait_aborted = a /\ p.obj = m.obj /\ p.prio = m.prio
      /\ p.owner = m.owner /\ p.count = m.count /\ p.owned = m.owned
  <2>1. m \in Kernel
    BY <1>0
  <2> QED BY ONLY <1>1, <2>1 DEF Kernel, SameLinks, SameControl
<1> HIDE DEF p
<1>3. CoreInv(p, c, {}) /\ OwnersOK(p) /\ p.currp = t /\ p.state[t] \in Up
  <2>1. \A v \in Task : p.wait_aborted[v] => m.wait_aborted[v]
    BY <1>1, <1>2
  <2>2. CoreInv(p, c, {})
    BY <1>2, <2>1, AlterOK
  <2>3. OwnersOK(p)
    BY <1>2 DEF OwnersOK, SameLinks, SameControl
  <2> QED BY <1>2, <2>2, <2>3 DEF SameLinks, SameControl
<1>4. /\ CoreInv(s, c, {t}) /\ OwnersOK(s) /\ SameCore(p, s) /\ SameWaits(p, s) /\ s.pendsv = p.pendsv
      /\ s.state[t] = "WTEXIT" /\ (\A v \in Task \ {t} : s.state[v] = p.state[v])
  <2>1. "WTEXIT" \in Waiting \cup {"SLEEPING"}
    BY DEF Waiting
  <2>2. /\ CoreInv(s, c, {p.currp}) /\ (OwnersOK(p) => OwnersOK(s))
        /\ SameCore(p, s) /\ SameWaits(p, s) /\ s.prio = p.prio /\ s.pendsv = p.pendsv
        /\ s.state[p.currp] = "WTEXIT" /\ \A v \in Task \ {p.currp} : s.state[v] = p.state[v]
        /\ p.currp \notin OnTimeList(s) /\ s.jiffies = p.jiffies
    BY <1>3, <2>1, SleepOK
  <2> HIDE DEF s
  <2> QED BY <1>3, <2>2
<1> HIDE DEF s
<1>5. /\ s.currp = t /\ s.sched_lock = 0 /\ ~s.wait_aborted[t] /\ s.state[u] \notin Gone
  <2>1. s.currp = t /\ s.sched_lock = 0 /\ ~s.wait_aborted[t]
    BY <1>1, <1>2, <1>3, <1>4 DEF SameCore, SameControl
  <2>2. "WTEXIT" \notin Gone /\ p.state = m.state
    BY <1>2 DEF SameLinks, Gone
  <2> QED BY <1>0, <1>4, <2>1, <2>2
<1>6. s \in Kernel /\ s.wait_list \in [Obj -> Seq(Task)]
  <2> DEFINE X == {t}
  <2>1. CoreInv(s, c, X)
    BY <1>4
  <2> HIDE DEF X
  <2> QED BY <2>1, CoreParts, KernelTypes
<1>7. [set_sleep(n, "WTEXIT") EXCEPT !.wait_list[u] = Append(@, t)] = r
  BY <1>n, <1>6 DEF Kernel, s
<1>8. /\ q \in Seq(Task) /\ Range(q) = Range(s.wait_list[u]) \cup {t}
      /\ Distinct(s.wait_list[u]) /\ t \notin Range(s.wait_list[u]) => Distinct(q)
  <2>1. s.wait_list[u] \in Seq(Task)
    BY <1>0, <1>6
  <2> QED BY <2>1, AppendList
<1> HIDE DEF q
<1>9. f \in [Obj -> Seq(Task)] /\ f[u] = q /\ \A o \in Obj \ {u} : f[o] = s.wait_list[o]
  BY <1>0, <1>6, <1>8
<1> HIDE DEF f
<1>10. /\ r \in Kernel /\ r.wait_list = f /\ r.obj = s.obj /\ r.state = s.state /\ r.ready = s.ready
       /\ r.prio = s.prio /\ SameTime(s, r) /\ SameControl(s, r) /\ r.zombie = s.zombie
       /\ r.pendsv = s.pendsv /\ r.wait_aborted = s.wait_aborted
       /\ r.owner = s.owner /\ r.count = s.count /\ r.owned = s.owned
  <2>1. s \in Kernel
    BY <1>6
  <2> QED BY ONLY <1>9, <2>1 DEF Kernel, SameTime, SameControl
<1> HIDE DEF r
<1>11. CoreInv(r, [c EXCEPT ![t] = d], {})
  <2>1. /\ \A v \in Task \ {t} : r.obj[v] = s.obj[v] /\ r.wait_aborted[v] = s.wait_aborted[v]
        /\ \A o \in Obj \ {u} : r.wait_list[o] = s.wait_list[o]
        /\ Range(r.wait_list[u]) = Range(s.wait_list[u]) \cup {t}
        /\ Distinct(s.wait_list[u]) /\ t \notin Range(s.wait_list[u]) => Distinct(r.wait_list[u])
    BY <1>8, <1>9, <1>10
  <2>2. /\ Blocked(s.state[t], d, r.obj[t], r.wait_aborted[t]) /\ ~Freeing(d) /\ CallKind(d)
        /\ u = IF s.state[t] \in {"WTEXIT", "WTEVT"} THEN d.o ELSE r.obj[t]
        /\ s.state[t] \in Waiting
    BY <1>4, <1>5, <1>10 DEF Blocked, Waiting, Freeing, CallKind
  <2>3. /\ u \notin Object /\ (d.o \in Object => d.o \in s.live) /\ s.state[u] \notin Gone
        /\ t = s.currp => s.sched_lock = 0 /\ (d.pc = "yield" \/ r.pendsv)
        /\ (s.pendsv => r.pendsv)
    BY <1>0, <1>5, <1>10
  <2> QED BY <1>0, <1>4, <1>10, <2>1, <2>2, <2>3, QueueOK
<1>12. OwnersOK(r)
  <2>1. \A x \in Mtxs : r.wait_list[x] = s.wait_list[x]
    BY <1>0, <1>9, <1>10, SyncObjects
  <2> QED BY <1>4, <1>10, <2>1 DEF OwnersOK, SameControl
<1> QED BY <1>7, <1>11, <1>12

\* isix_task_wait_for.
LEMMA TaskWaitForOK ==
  ASSUME KernelOK(k, call), NEW t \in Task, NEW u \in Tasks, TaskWaitFor(t, u)
  PROVE  KernelOK(k', call')
<1> DEFINE n == [k EXCEPT !.wait_aborted = [k.wait_aborted EXCEPT ![t] = FALSE]]
           r == [set_sleep(n, "WTEXIT") EXCEPT !.wait_list[u] = Append(@, t)]
           d == [NoCall EXCEPT !.op = "exit", !.pc = "yield", !.o = u]
<1>0. /\ t = k.currp /\ t # Idle /\ k.state[t] \in Up /\ k.sched_lock = 0
      /\ CoreInv(k, call, {}) /\ OwnersOK(k) /\ k \in Kernel
  <2>1. CASE MayBlock(t)
    BY <2>1, RunningUp DEF MayBlock
  <2>2. CASE Exec(t) /\ call[t].op = "exit" /\ call[t].pc = "enter"
    <3>1. call[t].op \in Blocking
      BY <2>2 DEF Blocking
    <3> QED BY <2>2, <3>1, EnterUp
  <2> QED BY <2>1, <2>2 DEF TaskWaitFor
<1>1. \/ call' = [call EXCEPT ![t] = NoCall] /\ k' = leave(k, t)
      \/ k.refcnt[u] > 0 /\ k.state[u] \notin Dead /\ k' = r /\ call' = [call EXCEPT ![t] = d]
  BY DEF TaskWaitFor
<1>2. CASE call' = [call EXCEPT ![t] = NoCall] /\ k' = leave(k, t)
  <2> DEFINE l == leave(k, t)
  <2>1. k.state[t] \notin Waiting
    BY <1>0 DEF Up, Waiting
  <2>2. CoreInv(l, call, {}) /\ OwnersOK(l) /\ SameLinks(k, l)
    BY <1>0, <2>1, LeaveOK
  <2> HIDE DEF l
  <2>3. l.state[t] \in Up
    BY <1>0, <2>2 DEF SameLinks
  <2>4. CoreInv(l, [call EXCEPT ![t] = NoCall], {})
    BY <2>2, <2>3, EndCallOK
  <2> QED BY <1>2, <2>2, <2>4 DEF KernelOK, l
<1>3. CASE k.refcnt[u] > 0 /\ k.state[u] \notin Dead /\ k' = r /\ call' = [call EXCEPT ![t] = d]
  <2>1. k.state[u] \notin Gone /\ u \in Task
    <3>1. LifeOK(k, call) /\ u \in Task
      BY <1>0, CoreParts DEF Task
    <3>2. k.refcnt[u] # 0
      BY <1>3
    <3> QED BY <1>3, <3>1, <3>2 DEF LifeOK, Dead, Gone
  <2>2. d \in Call /\ d.op = "exit" /\ d.pc = "yield" /\ d.o = u
    <3>1. "exit" \in Ops /\ "yield" \in Pcs /\ u \in Obj
      BY <2>1, SyncObjects DEF Ops, Pcs
    <3> QED BY <3>1, NoCallFits DEF Call
  <2> HIDE DEF d
  <2>3. CoreInv(r, [call EXCEPT ![t] = d], {}) /\ OwnersOK(r)
    BY <1>0, <2>1, <2>2, ExitBlockOK
  <2> HIDE DEF r
  <2> QED BY <1>3, <2>3 DEF KernelOK
<1> QED BY <1>1, <1>2, <1>3

\* The services of tasks keep the invariant.
LEMMA TaskOpsOK ==
  ASSUME KernelOK(k, call), TaskOps
  PROVE  KernelOK(k', call')
<1>1. ASSUME NEW t \in Task, NEW u \in Tasks,
             \/ \E suspended \in BOOLEAN, ref \in 0 .. 1 : TaskCreate(t, u, suspended, ref)
             \/ \E p \in NewPrios : TaskChangePrio(t, u, p)
             \/ TaskSuspend(t, u) \/ TaskResume(t, u) \/ TaskKill(t, u)
             \/ TaskRef(t, u) \/ TaskUnref(t, u) \/ TaskWaitFor(t, u)
      PROVE  KernelOK(k', call')
  BY <1>1, TaskCreateOK, TaskChangePrioOK, TaskSuspendOK, TaskResumeOK, TaskKillOK, TaskRefOK, TaskUnrefOK,
     TaskWaitForOK
<1>2. ASSUME NEW t \in Task, TaskWaitForReturn(t) \/ FreeTcb(t)
      PROVE  KernelOK(k', call')
  BY <1>2, TaskWaitForReturnOK, FreeTcbOK
<1> QED BY <1>1, <1>2, CleanupOK DEF TaskOps

-----------------------------------------------------------------------------
(***************************************************************************)
(* The theorems.                                                           *)
(***************************************************************************)

\* Every step of the composed kernel keeps the inductive invariant.
LEMMA NextOK ==
  ASSUME KernelOK(k, call), [Next]_vars
  PROVE  KernelOK(k', call')
<1>1. CASE Next
  BY <1>1, MachineOK, SchedOpsOK, SemOpsOK, EventOpsOK, ConnectOpsOK, MtxOpsOK, CondOpsOK, TaskOpsOK DEF Next
<1>2. CASE UNCHANGED vars
  BY <1>2 DEF vars
<1> QED BY <1>1, <1>2

(***************************************************************************)
(* The inductive invariant of the kernel holds whatever the services, the  *)
(* tick, the interrupt handlers and the context switch do, in any order.   *)
(***************************************************************************)
THEOREM KernelInvariant == Spec => []KernelOK(k, call)
<1>1. Init => KernelOK(k, call)
  BY InitOK
<1>2. KernelOK(k, call) /\ [Next]_vars => KernelOK(k, call)'
  BY NextOK
<1> QED BY <1>1, <1>2, PTL DEF Spec

(***************************************************************************)
(* The kernel memory and the calls of the threads stay well formed.        *)
(***************************************************************************)
THEOREM IsixTypeOK == Spec => []TypeOK
<1>1. KernelOK(k, call) => TypeOK
  BY KernelSays
<1> QED BY <1>1, KernelInvariant, PTL

(***************************************************************************)
(* No isix_bug() of the scheduler, the mutexes, the condition variables or *)
(* the release of control blocks is ever reached.                          *)
(***************************************************************************)
THEOREM IsixNoPanic == Spec => []NoPanic
<1>1. KernelOK(k, call) => NoPanic
  BY KernelSays
<1> QED BY <1>1, KernelInvariant, PTL

(***************************************************************************)
(* The one inode of every task is linked exactly where the state of the    *)
(* task says, so that the bare list_delete of a timeout, of a kill and of  *)
(* a suspend always takes it off the right list.                           *)
(***************************************************************************)
THEOREM IsixInodes == Spec => []InodeWhereStateSays
<1>1. KernelOK(k, call) => InodeWhereStateSays
  BY KernelSays
<1> QED BY <1>1, KernelInvariant, PTL

(***************************************************************************)
(* The union obj of a waiting task holds the object its state names: the   *)
(* expiry of a wait, a kill and a change of priority dereference it.       *)
(***************************************************************************)
THEOREM IsixUnions == Spec => []UnionMatchesState
<1>1. KernelOK(k, call) => UnionMatchesState
  BY KernelSays
<1> QED BY <1>1, KernelInvariant, PTL

(***************************************************************************)
(* The time lists stay split at the wrap of the counter when tasks with    *)
(* timeouts are also woken, suspended and killed.                          *)
(***************************************************************************)
THEOREM IsixTimeLists == Spec => []TimeListsSplitAtWrap
<1>1. KernelOK(k, call) => TimeListsSplitAtWrap
  BY KernelSays
<1> QED BY <1>1, KernelInvariant, PTL

(***************************************************************************)
(* Owner, recursion count and the owner's list of mutexes agree, nobody    *)
(* waits for a free mutex and no owner is dead: whatever is unlocked,      *)
(* destroyed, waited for with a condition, suspended or killed.            *)
(***************************************************************************)
THEOREM IsixOwnership == Spec => []OwnershipConsistent
<1>1. KernelOK(k, call) => OwnershipConsistent
  <2> SUFFICES ASSUME KernelOK(k, call)
               PROVE  OwnershipConsistent
    OBVIOUS
  <2>1. k \in Kernel /\ OwnersOK(k)
    BY CoreParts DEF KernelOK
  <2>2. \A t \in Task : Range(k.owned[t]) \subseteq Mtxs
    <3>1. \A t \in Task : k.owned[t] \in Seq(Mtxs)
      BY <2>1, KernelTypes
    <3> QED BY <3>1, EmptyRange
  <2>3. \A t \in Task : Distinct(k.owned[t]) /\ Range(k.owned[t]) = {x \in Mtxs : k.owner[x] = t}
    BY <2>1, <2>2 DEF OwnersOK
  <2>4. \A x \in Mtxs : /\ k.owner[x] = Null <=> k.count[x] = 0
                        /\ k.wait_list[x] # <<>> => k.owner[x] # Null
                        /\ k.owner[x] # Null => k.state[k.owner[x]] \notin {"NONE", "ZOMBIE", "EXITED"}
    BY <2>1 DEF OwnersOK, Gone
  <2> QED BY <2>3, <2>4 DEF OwnershipConsistent
<1> QED BY <1>1, KernelInvariant, PTL

(***************************************************************************)
(* A control block is freed once, by the idle task or by the last          *)
(* isix_task_unref, and nobody can reach it then.                          *)
(***************************************************************************)
THEOREM IsixFreedOnce == Spec => []FreedOnceUnreachable
<1>1. KernelOK(k, call) => FreedOnceUnreachable
  <2> SUFFICES ASSUME KernelOK(k, call), NEW t \in Task, Freeing(call[t])
               PROVE  /\ k.state[call[t].o] = "EXITED" /\ k.refcnt[call[t].o] = 0
                      /\ k.wait_list[call[t].o] = <<>>
                      /\ \A v \in Task \ {t} : Freeing(call[v]) => call[v].o # call[t].o
    BY DEF FreedOnceUnreachable, Freeing
  <2>1. LifeOK(k, call) /\ CallsOK(call)
    BY CoreParts DEF KernelOK
  <2>2. call[t].o \in Task
    BY <2>1 DEF CallsOK, CallKind, Freeing, Task
  <2> QED BY <2>1, <2>2 DEF LifeOK, Gone
<1> QED BY <1>1, KernelInvariant, PTL
=============================================================================
