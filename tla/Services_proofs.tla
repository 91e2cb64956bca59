--------------------------- MODULE Services_proofs ---------------------------
(***************************************************************************)
(* What the services promise to their callers, for the composed kernel: on *)
(* top of the consistency of its memory (KernelOK), the counter of a       *)
(* semaphore against its waiters, no missed event, waits for an exit.      *)
(***************************************************************************)
EXTENDS Isix_proofs

\* The fields of the kernel memory.
Fields ==
  {"state", "prio", "real_prio", "refcnt", "wait_aborted", "deadline", "obj", "evbits", "owned",
   "ready", "p_wait", "pov_wait", "zombie", "wait_list", "jiffies", "skipped", "sched_lock",
   "yield_pending", "currp", "pendsv", "value", "owner", "count", "bitset", "evt", "bitno",
   "live", "bug", "left", "grant"}

\* The record is the kernel memory as far as the tasks are concerned.
Shape(m) ==
  /\ DOMAIN m = Fields /\ m.state \in [Task -> State]
  /\ DOMAIN m.obj = Task /\ DOMAIN m.evbits = Task /\ DOMAIN m.wait_aborted = Task

\* r differs from m at most in the fields F.
Only(m, r, F) == \A f \in Fields \ F : r[f] = m[f]

\* The tasks are as they were, but for the ones that run or are about to.
SameTasks(m, r, S) ==
  \A t \in Task \ S :
    /\ r.obj[t] = m.obj[t] /\ r.evbits[t] = m.evbits[t]
    /\ r.state[t] = m.state[t] \/ (m.state[t] \in Up /\ r.state[t] \in Up)

\* Well-typed kernel memory has that shape.
LEMMA ShapeOfKernel ==
  ASSUME NEW m \in Kernel
  PROVE  Shape(m)
BY DEF Shape, Fields, Kernel

\* What add_ready_list changes.
LEMMA AddReadyFields ==
  ASSUME NEW m, Shape(m), NEW ts
  PROVE  LET r == add_ready_list(m, ts) IN
         /\ Shape(r) /\ Only(m, r, {"bug", "state", "ready"})
         /\ r.state = [t \in Task |-> IF t \in Range(ts) THEN "READY" ELSE m.state[t]]
BY DEF Shape, Only, Fields, add_ready_list, State

\* Taking tasks off the wait lists changes nothing else.
LEMMA UnlinkFields ==
  ASSUME NEW m, Shape(m), NEW S
  PROVE  LET r == unlink(m, S) IN Shape(r) /\ Only(m, r, {"wait_list"})
BY DEF Shape, Only, Fields, unlink

\* Taking tasks off the time lists changes nothing else.
LEMMA TimeUnlinkFields ==
  ASSUME NEW m, Shape(m), NEW S
  PROVE  LET r == time_unlink(m, S) IN
         Shape(r) /\ Only(m, r, {"p_wait", "pov_wait", "deadline", "left"})
BY DEF Shape, Only, Fields, time_unlink

\* A wake-up makes its tasks ready and leaves them its message.
LEMMA WakeupFields ==
  ASSUME NEW m, Shape(m), NEW ts, NEW msg
  PROVE  LET r == wakeup(m, ts, msg) IN
         /\ Shape(r) /\ Only(m, r, {"p_wait", "pov_wait", "deadline", "left", "obj", "evbits", "bug", "state", "ready"})
         /\ r.state = [t \in Task |-> IF t \in Range(ts) THEN "READY" ELSE m.state[t]]
         /\ r.obj = [t \in Task |-> IF t \in Range(ts) THEN msg ELSE m.obj[t]]
         /\ r.evbits = [t \in Task |-> IF t \in Range(ts) THEN NoBits ELSE m.evbits[t]]
BY DEF Shape, Only, Fields, wakeup, time_unlink, add_ready_list, State

\* The current task falls asleep, with or without a timeout.
LEMMA SleepFields ==
  ASSUME NEW m, Shape(m), m.currp \in Task, NEW newstate \in State, NEW timeout
  PROVE  LET r == set_sleep(m, newstate)
             q == set_sleep_timeout(m, newstate, timeout)
         IN /\ Shape(r) /\ Only(m, r, {"ready", "state"})
            /\ r.state = [m.state EXCEPT ![m.currp] = newstate]
            /\ Shape(q) /\ Only(m, q, {"ready", "state", "deadline", "left", "p_wait", "pov_wait"})
            /\ q.state = [m.state EXCEPT ![m.currp] = newstate]
<1> DEFINE r == set_sleep(m, newstate)
<1>1. /\ Shape(r) /\ Only(m, r, {"ready", "state"}) /\ r.currp = m.currp
      /\ r.state = [m.state EXCEPT ![m.currp] = newstate]
  BY DEF Shape, Only, Fields, set_sleep, delete_from_ready_list
<1> HIDE DEF r
<1>2. LET q == add_task_to_waiting_list(r, m.currp, timeout) IN
      Shape(q) /\ Only(r, q, {"deadline", "left", "p_wait", "pov_wait"}) /\ q.state = r.state
  BY <1>1 DEF Shape, Only, Fields, add_task_to_waiting_list
<1> QED BY <1>1, <1>2 DEF set_sleep_timeout, Only, r

\* Queueing a waiter changes its wait list only.
LEMMA QueueFields ==
  ASSUME NEW m, Shape(m), NEW o, NEW t
  PROVE  LET r == add_to_prio_queue(m, o, t) IN Shape(r) /\ Only(m, r, {"wait_list"})
BY DEF Shape, Only, Fields, add_to_prio_queue

\* do_reschedule can only ask for a switch.
LEMMA RescheduleFields ==
  ASSUME NEW m, Shape(m), NEW t
  PROVE  LET r == do_reschedule(m, t) IN Shape(r) /\ Only(m, r, {"pendsv"})
BY DEF Shape, Only, Fields, do_reschedule

\* A change of priority moves a task, and wakes or stops nobody.
LEMMA ReallocateFields ==
  ASSUME NEW m, Shape(m), NEW t \in Task, NEW np
  PROVE  LET r == reallocate_priority(m, t, np) IN
         /\ Shape(r) /\ Only(m, r, {"prio", "ready", "state", "bug", "wait_list"})
         /\ SameTasks(m, r, {})
<1> DEFINE n == [m EXCEPT !.prio = [@ EXCEPT ![t] = np]]
           d == [delete_from_ready_list(n, t) EXCEPT !.state = [@ EXCEPT ![t] = "SCHEDULE"]]
<1>1. Shape(n) /\ Only(m, n, {"prio"}) /\ n.state = m.state
  BY DEF Shape, Only, Fields
<1>2. Shape(d) /\ Only(n, d, {"ready", "state"}) /\ d.state = [n.state EXCEPT ![t] = "SCHEDULE"]
  <2> HIDE DEF n
  <2> QED BY <1>1 DEF Shape, Only, Fields, State, delete_from_ready_list
<1> DEFINE a == add_ready_list(d, <<t>>)
           b == add_to_prio_queue(unlink(n, {t}), m.obj[t], t)
<1>3. reallocate_priority(m, t, np) = CASE m.state[t] \in {"READY", "RUNNING"} -> a
                                        [] m.state[t] \in {"WTSEM", "WTMTX", "WTCOND"} -> b
                                        [] OTHER -> n
  BY DEF reallocate_priority
<1> HIDE DEF n, d
<1>4. Shape(a) /\ Only(d, a, {"bug", "state", "ready"}) /\ a.state = [u \in Task |-> IF u \in {t} THEN "READY" ELSE d.state[u]]
  <2>1. Range(<<t>>) = {t}
    BY OneElement
  <2> DEFINE ts == <<t>>
  <2> HIDE DEF ts
  <2>2. LET b2 == add_ready_list(d, ts) IN
        /\ Shape(b2) /\ Only(d, b2, {"bug", "state", "ready"})
        /\ b2.state = [u \in Task |-> IF u \in Range(ts) THEN "READY" ELSE d.state[u]]
    BY <1>2, AddReadyFields
  <2> QED BY <2>1, <2>2 DEF ts
<1>5. Shape(b) /\ Only(n, b, {"wait_list"})
  BY <1>1, UnlinkFields, QueueFields DEF Only
<1> HIDE DEF a, b
<1>6. CASE m.state[t] \in Up
  <2>1. reallocate_priority(m, t, np) = a
    BY <1>3, <1>6 DEF Up
  <2>2. Only(m, a, {"prio", "ready", "state", "bug", "wait_list"})
    BY <1>1, <1>2, <1>4 DEF Only
  <2>3. SameTasks(m, a, {})
    BY <1>1, <1>2, <1>4, <1>6, <2>2 DEF SameTasks, Only, Fields, Up, Shape
  <2> QED BY <2>1, <2>2, <2>3, <1>4
<1>7. CASE m.state[t] \notin Up
  <2>1. reallocate_priority(m, t, np) \in {b, n}
    BY <1>3, <1>7 DEF Up
  <2>2. Only(m, b, {"prio", "ready", "state", "bug", "wait_list"}) /\ Only(m, n, {"prio", "ready", "state", "bug", "wait_list"})
    BY <1>1, <1>5 DEF Only
  <2>3. b.state = m.state /\ n.state = m.state /\ b.obj = m.obj /\ n.obj = m.obj /\ b.evbits = m.evbits /\ n.evbits = m.evbits
    BY <1>1, <1>5 DEF Only, Fields
  <2> QED BY <2>1, <2>2, <2>3, <1>1, <1>5 DEF SameTasks
<1> QED BY <1>6, <1>7

\* The same of the priority an owner inherits.
LEMMA InheritFields ==
  ASSUME NEW m, Shape(m), NEW t \in Task
  PROVE  LET r == inherit(m, t) IN
         /\ Shape(r) /\ Only(m, r, {"prio", "ready", "state", "bug", "wait_list"})
         /\ SameTasks(m, r, {})
<1>1. Only(m, m, {"prio", "ready", "state", "bug", "wait_list"}) /\ SameTasks(m, m, {})
  BY DEF Only, SameTasks
<1> QED BY <1>1, ReallocateFields DEF inherit

\* What the services leave alone when they wake tasks, hand over mutexes,
\* switch or lend priorities ...
Kept == {"value", "bitset", "refcnt", "wait_aborted"}

\* The fields such a step may change.
Linkage == Fields \ Kept

\* ... and make the tasks of S ready.
Wakes(m, r, S) ==
  /\ Shape(r) /\ Only(m, r, Linkage) /\ SameTasks(m, r, S) /\ Sems \cap r.live = Sems \cap m.live
  /\ \A t \in S \cap Task : r.state[t] \in Up

\* Two wake-ups in a row wake the tasks of both.
LEMMA WakesTrans ==
  ASSUME NEW m, NEW n, NEW r, NEW S, NEW T, Wakes(m, n, S), Wakes(n, r, T)
  PROVE  Wakes(m, r, S \cup T)
<1>1. Only(m, r, Linkage)
  BY DEF Wakes, Only
<1>2. SameTasks(m, r, S \cup T)
  BY DEF Wakes, SameTasks
<1>3. \A t \in (S \cup T) \cap Task : r.state[t] \in Up
  BY DEF Wakes, SameTasks
<1> QED BY <1>1, <1>2, <1>3 DEF Wakes

\* A store into other fields wakes nobody.
LEMMA WakesNobody ==
  ASSUME NEW m, Shape(m), NEW r, Shape(r), NEW F, Only(m, r, F),
         F \cap (Kept \cup {"state", "obj", "evbits"}) = {},
         "live" \in F => Sems \cap r.live = Sems \cap m.live
  PROVE  Wakes(m, r, {})
<1>1. Only(m, r, Linkage)
  BY DEF Only, Linkage, Fields
<1>2. r.state = m.state /\ r.obj = m.obj /\ r.evbits = m.evbits /\ Sems \cap r.live = Sems \cap m.live
  BY DEF Only, Fields, Kept
<1> QED BY <1>1, <1>2 DEF Wakes, SameTasks

\* Whom the functions of the scheduler wake.
LEMMA FunctionsWake ==
  ASSUME NEW m, Shape(m), NEW t \in Task, NEW np, NEW S, NEW o, NEW ts, NEW msg
  PROVE  /\ Wakes(m, m, {}) /\ Wakes(m, unlink(m, S), {}) /\ Wakes(m, time_unlink(m, S), {})
         /\ Wakes(m, do_reschedule(m, t), {}) /\ Wakes(m, add_to_prio_queue(m, o, t), {})
         /\ Wakes(m, reallocate_priority(m, t, np), {}) /\ Wakes(m, inherit(m, t), {})
         /\ Wakes(m, wakeup(m, ts, msg), Range(ts))
<1>1. Wakes(m, m, {})
  BY DEF Wakes, Only, SameTasks
<1>2. /\ Wakes(m, unlink(m, S), {}) /\ Wakes(m, time_unlink(m, S), {})
      /\ Wakes(m, do_reschedule(m, t), {}) /\ Wakes(m, add_to_prio_queue(m, o, t), {})
  BY UnlinkFields, TimeUnlinkFields, RescheduleFields, QueueFields, WakesNobody DEF Kept
<1>3. Wakes(m, reallocate_priority(m, t, np), {}) /\ Wakes(m, inherit(m, t), {})
  <2>1. \A r : Only(m, r, {"prio", "ready", "state", "bug", "wait_list"}) => Only(m, r, Linkage) /\ r.live = m.live
    BY DEF Only, Linkage, Kept, Fields
  <2> QED BY <2>1, ReallocateFields, InheritFields DEF Wakes
<1>4. Wakes(m, wakeup(m, ts, msg), Range(ts))
  <2> DEFINE r == wakeup(m, ts, msg)
  <2>1. /\ Shape(r) /\ Only(m, r, {"p_wait", "pov_wait", "deadline", "left", "obj", "evbits", "bug", "state", "ready"})
        /\ r.state = [u \in Task |-> IF u \in Range(ts) THEN "READY" ELSE m.state[u]]
        /\ r.obj = [u \in Task |-> IF u \in Range(ts) THEN msg ELSE m.obj[u]]
        /\ r.evbits = [u \in Task |-> IF u \in Range(ts) THEN NoBits ELSE m.evbits[u]]
    BY WakeupFields
  <2> HIDE DEF r
  <2>2. Only(m, r, Linkage) /\ r.live = m.live
    BY <2>1 DEF Only, Linkage, Kept, Fields
  <2> QED BY <2>1, <2>2 DEF Wakes, SameTasks, Up, r
<1> QED BY <1>1, <1>2, <1>3, <1>4

\* The first waiter of x, if there is one.
First(m, x) == IF m.wait_list[x] = <<>> THEN {} ELSE {Head(m.wait_list[x])}

\* Releasing a mutex wakes at most its first waiter.
LEMMA ReleaseWakes ==
  ASSUME NEW m, Shape(m), m.currp \in Task, NEW x, m.wait_list[x] # <<>> => Head(m.wait_list[x]) \in Task
  PROVE  /\ Wakes(m, mtx_release(m, x), First(m, x))
         /\ Wakes(m, mutex_unlock(m, x), First(m, x)) \/ Wakes(m, mutex_unlock(m, x), {})
<1> DEFINE t  == m.currp
           m1 == [m EXCEPT !.bug = @ \/ x \notin Range(m.owned[t]), !.owned[t] = Without(@, {x})]
           m2 == reallocate_priority(m1, t, calc_inherited_priority(m1, t))
           m3 == transfer(m2, x)
           w  == Head(m.wait_list[x])
           m4 == wakeup(m3, <<w>>, EOK)
           r  == do_reschedule(m4, w)
           q  == [m1 EXCEPT !.count = [@ EXCEPT ![x] = 0], !.owner = [@ EXCEPT ![x] = Null]]
           n  == [m EXCEPT !.count[x] = @ - 1]
<1>1. /\ mtx_release(m, x) = IF m.wait_list[x] = <<>> THEN q ELSE r
      /\ mutex_unlock(m, x) = IF m.count[x] > 1 THEN n ELSE mtx_release(m, x)
  BY DEF mtx_release, mutex_unlock
<1>2. Shape(m1) /\ Only(m, m1, {"bug", "owned"}) /\ Shape(n) /\ Only(m, n, {"count"})
  BY DEF Shape, Only, Fields
<1> HIDE DEF m1, n
<1>3. Shape(q) /\ Only(m1, q, {"count", "owner"})
  BY <1>2 DEF Shape, Only, Fields
<1>4. Wakes(m, m1, {}) /\ Wakes(m, q, {}) /\ Wakes(m, n, {})
  <2>1. Wakes(m, m1, {}) /\ Wakes(m1, q, {}) /\ Wakes(m, n, {})
    BY <1>2, <1>3, WakesNobody DEF Kept
  <2> HIDE DEF q
  <2> QED BY <2>1, WakesTrans
<1>5. CASE m.wait_list[x] = <<>>
  BY <1>1, <1>4, <1>5 DEF First
<1>6. CASE m.wait_list[x] # <<>>
  <2>1. Wakes(m1, m2, {}) /\ Shape(m2)
    <3>1. Wakes(m1, m2, {})
      BY <1>2, FunctionsWake
    <3> QED BY <3>1 DEF Wakes
  <2> HIDE DEF m2
  <2>2. Wakes(m2, m3, {}) /\ Shape(m3)
    <3> DEFINE h == Head(m2.wait_list[x])
               u == unlink(m2, {h})
    <3>1. Shape(u) /\ Only(m2, u, {"wait_list"})
      BY <2>1, UnlinkFields
    <3>2. m3 = [u EXCEPT !.count = [@ EXCEPT ![x] = 1], !.owner = [@ EXCEPT ![x] = h],
                         !.owned = [v \in Task |-> IF v = h THEN InsertFirst(@[v], x) ELSE Without(@[v], {x})]]
      BY DEF transfer
    <3> HIDE DEF u, h, m3
    <3>3. Shape(m3) /\ Only(u, m3, {"count", "owner", "owned"})
      BY <3>1, <3>2 DEF Shape, Only, Fields
    <3>4. Wakes(m2, u, {}) /\ Wakes(u, m3, {})
      BY <2>1, <3>1, <3>3, WakesNobody DEF Kept
    <3> QED BY <3>3, <3>4, WakesTrans
  <2> HIDE DEF m3
  <2>3. Wakes(m3, m4, {w}) /\ Shape(m4) /\ w \in Task
    <3>1. w \in Task /\ Range(<<w>>) = {w}
      BY <1>6, OneElement
    <3> DEFINE ts == <<w>>
    <3> HIDE DEF ts
    <3>2. Wakes(m3, wakeup(m3, ts, EOK), Range(ts))
      BY <2>2, <3>1, FunctionsWake
    <3> QED BY <3>1, <3>2 DEF ts, Wakes
  <2> HIDE DEF m4
  <2>4. Wakes(m4, r, {})
    BY <2>3, FunctionsWake
  <2> HIDE DEF r
  <2>5. Wakes(m, r, {w})
    <3>1. Wakes(m, m3, {})
      BY <1>4, <2>1, <2>2, WakesTrans
    <3>2. Wakes(m, m4, {w})
      BY <2>3, <3>1, WakesTrans
    <3> QED BY <2>4, <3>2, WakesTrans
  <2> QED BY <1>1, <1>4, <1>6, <2>5 DEF First
<1> QED BY <1>5, <1>6

\* Releasing the mutexes of a task wakes their heirs.
LEMMA UnlockAllWakes ==
  ASSUME NEW m, Shape(m), NEW u \in Task, Heirs(m, Contended(m, u)) \in Seq(Task)
  PROVE  Wakes(m, mutex_unlock_all_in_task(m, u), Range(Heirs(m, Contended(m, u))))
<1> DEFINE ms == m.owned[u]
           hs == Keep(ms, {x \in Mtxs : m.wait_list[x] # <<>>})
           ws == [i \in 1 .. Len(hs) |-> Head(m.wait_list[hs[i]])]
           n  == unlink(m, Range(ws))
           C  == [x \in Mtxs |-> CASE x \in Range(hs) -> 1
                                   [] x \in Range(ms) \ Range(hs) -> 0
                                   [] OTHER -> n.count[x]]
           O  == [x \in Mtxs |-> CASE x \in Range(hs) -> Head(m.wait_list[x])
                                   [] x \in Range(ms) \ Range(hs) -> Null
                                   [] OTHER -> n.owner[x]]
           P  == [t \in Task |-> CASE t = u -> <<>>
                                   [] t \in Range(ws) -> InsertFirst(n.owned[t], m.obj[t])
                                   [] OTHER -> n.owned[t]]
           d  == [n EXCEPT !.count = C, !.owner = O, !.owned = P]
           m1 == wakeup(d, ws, EOK)
           m2 == IF u = m.currp THEN inherit(m1, u) ELSE m1
           r  == IF ws = <<>> THEN m2 ELSE do_reschedule(m2, ws[1])
<1>1. Shape(n) /\ Only(m, n, {"wait_list"})
  BY UnlinkFields
<1>2. mutex_unlock_all_in_task(m, u) = r
  BY DEF mutex_unlock_all_in_task
<1>9. ws = Heirs(m, Contended(m, u))
  BY DEF Heirs, Contended
<1> HIDE DEF ws
<1> HIDE DEF n, C, O, P
<1>3. Shape(d) /\ Only(n, d, {"count", "owner", "owned"})
  BY <1>1 DEF Shape, Only, Fields
<1> HIDE DEF d
<1>4. Wakes(m, n, {}) /\ Wakes(n, d, {})
  BY <1>1, <1>3, WakesNobody DEF Kept
<1>5. Wakes(d, m1, Range(ws)) /\ Shape(m1)
  BY <1>3, FunctionsWake DEF Wakes
<1> HIDE DEF m1
<1>6. Wakes(m1, m2, {}) /\ Shape(m2)
  BY <1>5, FunctionsWake DEF Wakes
<1> HIDE DEF m2
<1>7. Wakes(m2, r, {})
  <2>1. ws # <<>> => ws[1] \in Task
    BY <1>9
  <2> QED BY <1>6, <2>1, FunctionsWake
<1> HIDE DEF r
<1>8. Wakes(m, r, Range(ws))
  <2>1. Wakes(m, d, {})
    BY <1>4, WakesTrans
  <2>2. Wakes(m, m1, Range(ws))
    BY <1>5, <2>1, WakesTrans
  <2>3. Wakes(m, m2, Range(ws))
    BY <1>6, <2>2, WakesTrans
  <2> QED BY <1>7, <2>3, WakesTrans
<1> QED BY <1>2, <1>8, <1>9

\* Destroying a mutex wakes everyone that waits for it.
LEMMA DestroyWakes ==
  ASSUME NEW m, Shape(m), NEW x, m.wait_list[x] \in Seq(Task), m.owner[x] \in Task \cup {Null}
  PROVE  Wakes(m, mutex_destroy(m, x), Range(m.wait_list[x]))
<1> DEFINE o  == m.owner[x]
           ws == m.wait_list[x]
           n  == unlink(m, Range(ws))
           m1 == [n EXCEPT !.owned = [t \in Task |-> Without(@[t], {x})],
                           !.owner = [@ EXCEPT ![x] = Null], !.count = [@ EXCEPT ![x] = 0]]
           p1 == [m1 EXCEPT !.prio = [t \in Task |-> IF t \in Range(ws)
                                        THEN calc_inherited_priority(m1, t) ELSE @[t]]]
           m2 == wakeup(p1, ws, EDESTROY)
           m3 == IF o = Null THEN m2 ELSE inherit(m2, o)
           r  == IF ws = <<>> THEN m3 ELSE do_reschedule(m3, Head(ws))
<1>0. Idle \in Task
  BY DEF Task
<1>1. mutex_destroy(m, x) = r
  BY DEF mutex_destroy
<1>2. Shape(n) /\ Only(m, n, {"wait_list"})
  BY UnlinkFields
<1> HIDE DEF n
<1>3. Shape(m1) /\ Only(n, m1, {"owned", "owner", "count"})
  BY <1>2 DEF Shape, Only, Fields
<1> HIDE DEF m1
<1>4. Shape(p1) /\ Only(m1, p1, {"prio"})
  BY <1>3 DEF Shape, Only, Fields
<1> HIDE DEF p1
<1>5. Wakes(m, n, {}) /\ Wakes(n, m1, {}) /\ Wakes(m1, p1, {})
  BY <1>2, <1>3, <1>4, WakesNobody DEF Kept
<1>6. Wakes(p1, m2, Range(ws)) /\ Shape(m2)
  BY <1>0, <1>4, FunctionsWake DEF Wakes
<1> HIDE DEF m2
<1>7. Wakes(m2, m3, {}) /\ Shape(m3)
  BY <1>0, <1>6, FunctionsWake DEF Wakes
<1> HIDE DEF m3
<1>8. Wakes(m3, r, {})
  <2>1. ws # <<>> => Head(ws) \in Task
    BY EmptyRange
  <2> QED BY <1>0, <1>7, <2>1, FunctionsWake
<1> HIDE DEF r
<1>9. Wakes(m, r, Range(ws))
  <2> HIDE DEF ws
  <2>1. Wakes(m, p1, {})
    BY <1>5, WakesTrans
  <2>2. Wakes(m, m2, Range(ws))
    BY <1>6, <2>1, WakesTrans
  <2>3. Wakes(m, m3, Range(ws))
    BY <1>7, <2>2, WakesTrans
  <2> QED BY <1>8, <2>3, WakesTrans
<1> QED BY <1>1, <1>9

-----------------------------------------------------------------------------
(***************************************************************************)
(* The invariant.                                                          *)
(***************************************************************************)

\* The tasks that wait for a token of s, and what its counter says of them.
TokenWaiters(m, s) == {t \in Task : m.state[t] = "WTSEM" /\ m.obj[t] = s}

\* The counter of a live semaphore counts its waiters below zero.
SemsOK(m) ==
  \A s \in Sems \cap m.live :
    Cardinality(TokenWaiters(m, s)) = IF m.value[s] < 0 THEN -m.value[s] ELSE 0

\* Nobody waits for bits that are set.
EventsOK(m, c) ==
  \A t \in Task : m.state[t] = "WTEVT" => ~check_cond(m.bitset[c[t].o], m.evbits[t])

\* t is past its wait for an exit, and will not take it up again.
Returned(m, c, t) ==
  /\ c[t].op = "exit" /\ c[t].pc \in {"yield", "after"}
  /\ m.state[t] # "WTEXIT" /\ ~m.wait_aborted[t]

\* Who was told of the end of a task was told the truth.
ExitsOK(m, c) == \A t \in Task : Returned(m, c, t) => m.state[c[t].o] \in Gone

\* Everyone inside isix_task_wait_for holds a reference of its own.
InWaitFor(c, u) == {t \in Task : c[t].op = "exit" /\ c[t].o = u}

\* ... so that references cannot run out under a wait.
RefsOK(m, c) == \A u \in Tasks : Cardinality(InWaitFor(c, u)) <= m.refcnt[u]

\* What the services promise.
ServiceOK(m, c) == SemsOK(m) /\ EventsOK(m, c) /\ ExitsOK(m, c) /\ RefsOK(m, c)

\* A step that leaves the counters, the bits and the references alone.
Touches(m, r, S) ==
  /\ r.value = m.value /\ r.bitset = m.bitset /\ r.refcnt = m.refcnt
  /\ Sems \cap r.live = Sems \cap m.live
  /\ SameTasks(m, r, S)
  /\ \A t \in Task \ S : r.wait_aborted[t] = m.wait_aborted[t]

\* There are finitely many tasks.
LEMMA FiniteTasks == IsFiniteSet(Task)
<1>1. IsFiniteSet(Tasks \cup {Idle})
  BY TaskAssumption, FS_AddElement
<1> QED BY <1>1 DEF Task

\* Such a step keeps the promises when the tasks of S leave no wait for a token,
\* enter none for events and are not told of an exit.
LEMMA TouchService ==
  ASSUME NEW m, NEW c, CallsOK(c), ServiceOK(m, c), NEW r, NEW S, Touches(m, r, S),
         \A t \in S : /\ m.state[t] # "WTSEM" /\ r.state[t] \notin {"WTSEM", "WTEVT"}
                      /\ m.state[t] \in Gone => r.state[t] \in Gone
                      /\ Returned(r, c, t) => Returned(m, c, t)
  PROVE  ServiceOK(r, c)
<1>1. \A t \in Task : /\ r.state[t] = "WTSEM" <=> m.state[t] = "WTSEM"
                      /\ m.state[t] = "WTSEM" => r.obj[t] = m.obj[t]
                      /\ m.state[t] \in Gone => r.state[t] \in Gone
                      /\ r.state[t] = "WTEVT" => m.state[t] = "WTEVT" /\ r.evbits[t] = m.evbits[t]
                      /\ Returned(r, c, t) => Returned(m, c, t)
  BY DEF Touches, SameTasks, Up, Gone, Returned
<1>2. \A s : TokenWaiters(r, s) = TokenWaiters(m, s)
  BY <1>1 DEF TokenWaiters
<1>3. SemsOK(r)
  BY <1>2 DEF SemsOK, ServiceOK, Touches
<1>4. EventsOK(r, c)
  BY <1>1 DEF EventsOK, ServiceOK, Touches
<1>5. ExitsOK(r, c)
  <2> SUFFICES ASSUME NEW t \in Task, Returned(r, c, t)
               PROVE  r.state[c[t].o] \in Gone
    BY DEF ExitsOK
  <2>1. m.state[c[t].o] \in Gone
    BY <1>1 DEF ServiceOK, ExitsOK
  <2>2. c[t].o \in Task
    BY DEF Returned, CallsOK, CallKind, Task
  <2> QED BY <1>1, <2>1, <2>2
<1>6. RefsOK(r, c)
  BY DEF RefsOK, ServiceOK, Touches
<1> QED BY <1>3, <1>4, <1>5, <1>6 DEF ServiceOK

\* So does waking tasks that wait neither for a token nor for an exit.
LEMMA WakesService ==
  ASSUME NEW m, NEW c, CallsOK(c), ServiceOK(m, c), NEW r, NEW S, Wakes(m, r, S),
         \A t \in S : t \in Task /\ m.state[t] \notin {"WTSEM", "WTEXIT"} \cup Gone
  PROVE  ServiceOK(r, c)
<1>1. /\ r.value = m.value /\ r.bitset = m.bitset /\ r.refcnt = m.refcnt
      /\ r.wait_aborted = m.wait_aborted
  BY DEF Wakes, Only, Fields, Linkage, Kept
<1>2. Touches(m, r, S)
  BY <1>1 DEF Touches, Wakes
<1>3. \A t \in S : /\ m.state[t] # "WTSEM" /\ r.state[t] \notin {"WTSEM", "WTEVT"}
                   /\ m.state[t] \in Gone => r.state[t] \in Gone
                   /\ Returned(r, c, t) => Returned(m, c, t)
  BY <1>1 DEF Wakes, Up, Returned
<1> QED BY <1>2, <1>3, TouchService

\* A thread gets on with its call.
LEMMA CallService ==
  ASSUME NEW m, NEW c \in [Task -> Call], ServiceOK(m, c), m \in Kernel, NEW t \in Task, NEW e \in Call,
         m.state[t] = "WTEVT" => e.o = c[t].o,
         e.op = "exit" => /\ c[t].op = "exit" /\ e.o = c[t].o
                          /\ e.pc \in {"yield", "after"} => c[t].pc \in {"yield", "after"}
  PROVE  ServiceOK(m, [c EXCEPT ![t] = e])
<1> DEFINE d == [c EXCEPT ![t] = e]
<1>1. d[t] = e /\ \A u \in Task \ {t} : d[u] = c[u]
  OBVIOUS
<1> HIDE DEF d
<1>2. EventsOK(m, d)
  BY <1>1 DEF EventsOK, ServiceOK
<1>3. ExitsOK(m, d)
  BY <1>1 DEF ExitsOK, Returned, ServiceOK
<1>4. RefsOK(m, d)
  <2> SUFFICES ASSUME NEW u \in Tasks
               PROVE  Cardinality(InWaitFor(d, u)) <= m.refcnt[u]
    BY DEF RefsOK
  <2>1. InWaitFor(d, u) \subseteq InWaitFor(c, u) /\ InWaitFor(c, u) \subseteq Task
    BY <1>1 DEF InWaitFor
  <2>2. IsFiniteSet(InWaitFor(c, u))
    BY <2>1, FiniteTasks, FS_Subset
  <2>3. /\ Cardinality(InWaitFor(d, u)) <= Cardinality(InWaitFor(c, u))
        /\ Cardinality(InWaitFor(d, u)) \in Nat /\ Cardinality(InWaitFor(c, u)) \in Nat
    BY <2>1, <2>2, FS_Subset, FS_CardinalityType
  <2>4. Cardinality(InWaitFor(c, u)) <= m.refcnt[u] /\ m.refcnt[u] \in Nat
    BY KernelTypes DEF ServiceOK, RefsOK, Task
  <2> QED BY <2>3, <2>4
<1> QED BY <1>2, <1>3, <1>4 DEF ServiceOK, d

\* What the invariant of the kernel says of the types.
LEMMA KernelShape ==
  ASSUME NEW m, NEW c, KernelOK(m, c)
  PROVE  /\ m \in Kernel /\ Shape(m) /\ c \in [Task -> Call] /\ CallsOK(c) /\ m.currp \in Task
         /\ CoreInv(m, c, {}) /\ OwnersOK(m)
         /\ DOMAIN m = Fields /\ m.state \in [Task -> State] /\ m.wait_list \in [Obj -> Seq(Task)]
         /\ DOMAIN m.obj = Task /\ DOMAIN m.evbits = Task /\ DOMAIN m.wait_aborted = Task
         /\ m.owner \in [Mtxs -> Task \cup {Null}]
BY CoreParts, ShapeOfKernel, KernelTypes DEF KernelOK, Shape

\* A step of the thread t: it may fall asleep, and wakes the other tasks of S.
StepOf(m, c, r, d, t, S) ==
  /\ KernelOK(m, c) /\ KernelOK(r, d) /\ ServiceOK(m, c)
  /\ t \in Task /\ m.state[t] \in Up /\ r.state[t] \notin {"WTSEM", "WTEVT"}
  /\ d[t].op # "exit" /\ \A u \in Task \ {t} : d[u] = c[u]
  /\ Touches(m, r, S \cup {t})
  /\ \A u \in S : /\ u \in Task /\ m.state[u] \notin {"WTSEM", "WTEXIT"} \cup Gone
                  /\ u # t => r.state[u] \in Up /\ r.wait_aborted[u] = m.wait_aborted[u]

\* Such a step keeps the promises.
LEMMA StepService ==
  ASSUME NEW m, NEW c, NEW r, NEW d, NEW t, NEW S, StepOf(m, c, r, d, t, S)
  PROVE  ServiceOK(r, d)
<1> DEFINE e == d[t]
           T == S \cup {t}
<1>0. KernelOK(m, c) /\ KernelOK(r, d) /\ ServiceOK(m, c) /\ t \in Task /\ Touches(m, r, T)
  BY DEF StepOf
<1>1. /\ m \in Kernel /\ c \in [Task -> Call] /\ d \in [Task -> Call] /\ CallsOK(d)
  BY <1>0, KernelShape
<1>2. d = [c EXCEPT ![t] = e] /\ e \in Call
  BY <1>0, <1>1 DEF StepOf
<1>3. m.state[t] # "WTEVT" /\ m.state[t] # "WTSEM" /\ m.state[t] \notin Gone /\ e.op # "exit"
  BY DEF Up, Gone, StepOf
<1> HIDE DEF e
<1>4. ServiceOK(m, d)
  BY <1>0, <1>1, <1>2, <1>3, CallService
<1>5. \A u \in T :
        /\ m.state[u] # "WTSEM" /\ r.state[u] \notin {"WTSEM", "WTEVT"}
        /\ m.state[u] \in Gone => r.state[u] \in Gone
        /\ Returned(r, d, u) => Returned(m, d, u)
  BY <1>3 DEF Up, Gone, Returned, e, StepOf
<1> HIDE DEF T
<1> QED BY <1>0, <1>1, <1>4, <1>5, TouchService

\* A step of the thread t that wakes the tasks of S and goes on.
WakeStep(m, c, r, d, t, S) ==
  /\ KernelOK(m, c) /\ KernelOK(r, d) /\ ServiceOK(m, c)
  /\ t \in Task /\ m.state[t] \in Up
  /\ d[t].op # "exit" /\ \A u \in Task \ {t} : d[u] = c[u]
  /\ Wakes(m, r, S) /\ \A u \in S : u \in Task /\ m.state[u] \notin {"WTSEM", "WTEXIT"} \cup Gone

\* Such a step keeps the promises.
LEMMA WakeStepService ==
  ASSUME NEW m, NEW c, NEW r, NEW d, NEW t, NEW S, WakeStep(m, c, r, d, t, S)
  PROVE  ServiceOK(r, d)
<1>1. /\ r.value = m.value /\ r.bitset = m.bitset /\ r.refcnt = m.refcnt
      /\ r.wait_aborted = m.wait_aborted
  BY DEF WakeStep, Wakes, Only, Fields, Linkage, Kept
<1>2. Touches(m, r, S \cup {t})
  BY <1>1 DEF WakeStep, Touches, Wakes, SameTasks
<1>3. r.state[t] \notin {"WTSEM", "WTEVT"}
  BY DEF WakeStep, Wakes, SameTasks, Up
<1>4. \A u \in S : /\ u \in Task /\ m.state[u] \notin {"WTSEM", "WTEXIT"} \cup Gone
                   /\ u # t => r.state[u] \in Up /\ r.wait_aborted[u] = m.wait_aborted[u]
  BY <1>1 DEF WakeStep, Wakes
<1>5. StepOf(m, c, r, d, t, S)
  BY <1>2, <1>3, <1>4 DEF StepOf, WakeStep
<1> QED BY <1>5, StepService

\* A service that returns clears the fields of its caller only.
LEMMA LeaveTouches ==
  ASSUME NEW m, Shape(m), NEW t \in Task
  PROVE  LET r == leave(m, t) IN Touches(m, r, {t}) /\ r.state = m.state /\ ~r.wait_aborted[t] /\ Shape(r)
<1> DEFINE r == leave(m, t)
<1>1. /\ r.value = m.value /\ r.bitset = m.bitset /\ r.refcnt = m.refcnt /\ r.live = m.live
      /\ r.state = m.state
      /\ r.obj = [m.obj EXCEPT ![t] = EOK]
      /\ r.evbits = [m.evbits EXCEPT ![t] = NoBits]
      /\ r.wait_aborted = [m.wait_aborted EXCEPT ![t] = FALSE]
      /\ DOMAIN r = DOMAIN m
  BY DEF leave, Shape, Fields
<1> HIDE DEF r
<1>2. Touches(m, r, {t}) /\ ~r.wait_aborted[t] /\ Shape(r)
  BY <1>1 DEF Touches, SameTasks, Shape
<1> QED BY <1>1, <1>2 DEF r

\* A service returns to the thread t.
LEMMA LeaveService ==
  ASSUME NEW m, NEW c, KernelOK(m, c), ServiceOK(m, c), NEW r, NEW d, KernelOK(r, d),
         NEW t \in Task, m.state[t] \in Up, r = leave(m, t) \/ r = m,
         d[t].op # "exit", \A u \in Task \ {t} : d[u] = c[u]
  PROVE  ServiceOK(r, d)
<1>1. Touches(m, leave(m, t), {t}) /\ leave(m, t).state = m.state
  BY LeaveTouches, KernelShape
<1>2. Touches(m, m, {t})
  BY DEF Touches, SameTasks
<1>3. r.state[t] \notin {"WTSEM", "WTEVT"}
  BY <1>1 DEF Up
<1>4. {t} = {} \cup {t} /\ Touches(m, r, {t})
  BY <1>1, <1>2
<1>5. StepOf(m, c, r, d, t, {})
  BY <1>3, <1>4 DEF StepOf
<1> QED BY <1>5, StepService

-----------------------------------------------------------------------------
(***************************************************************************)
(* The steps of the mutexes and of the condition variables.                *)
(***************************************************************************)

\* Falling asleep changes the task itself, and no counter.
LEMMA SleepTouches ==
  ASSUME NEW m, Shape(m), m.currp \in Task, NEW newstate \in State, NEW timeout,
         NEW t, t = m.currp
  PROVE  /\ Touches(m, set_sleep(m, newstate), {t}) /\ Shape(set_sleep(m, newstate))
         /\ set_sleep(m, newstate).state[t] = newstate
         /\ set_sleep(m, newstate).obj = m.obj /\ set_sleep(m, newstate).evbits = m.evbits
         /\ set_sleep(m, newstate).wait_aborted = m.wait_aborted
         /\ Touches(m, set_sleep_timeout(m, newstate, timeout), {t}) /\ Shape(set_sleep_timeout(m, newstate, timeout))
         /\ set_sleep_timeout(m, newstate, timeout).state[t] = newstate
         /\ set_sleep_timeout(m, newstate, timeout).obj = m.obj
         /\ set_sleep_timeout(m, newstate, timeout).evbits = m.evbits
         /\ set_sleep_timeout(m, newstate, timeout).wait_aborted = m.wait_aborted
<1> DEFINE r == set_sleep(m, newstate)
           q == set_sleep_timeout(m, newstate, timeout)
<1>1. /\ Shape(r) /\ Only(m, r, {"ready", "state"})
      /\ r.state = [m.state EXCEPT ![m.currp] = newstate]
      /\ Shape(q) /\ Only(m, q, {"ready", "state", "deadline", "left", "p_wait", "pov_wait"})
      /\ q.state = [m.state EXCEPT ![m.currp] = newstate]
  BY SleepFields
<1> HIDE DEF r, q
<1>2. /\ r.value = m.value /\ r.bitset = m.bitset /\ r.refcnt = m.refcnt /\ r.live = m.live
      /\ r.obj = m.obj /\ r.evbits = m.evbits /\ r.wait_aborted = m.wait_aborted
  BY <1>1 DEF Only, Fields
<1>3. /\ q.value = m.value /\ q.bitset = m.bitset /\ q.refcnt = m.refcnt /\ q.live = m.live
      /\ q.obj = m.obj /\ q.evbits = m.evbits /\ q.wait_aborted = m.wait_aborted
  BY <1>1 DEF Only, Fields
<1>4. Touches(m, r, {t}) /\ Touches(m, q, {t}) /\ r.state[t] = newstate /\ q.state[t] = newstate
  BY <1>1, <1>2, <1>3 DEF Touches, SameTasks, Shape
<1> QED BY <1>1, <1>2, <1>3, <1>4 DEF r, q

\* Two such steps in a row are one.
LEMMA TouchesTrans ==
  ASSUME NEW m, NEW n, NEW r, NEW S, Touches(m, n, S), Touches(n, r, S)
  PROVE  Touches(m, r, S)
BY DEF Touches, SameTasks

\* Waking nobody leaves the counters alone.
LEMMA WakesTouches ==
  ASSUME NEW m, NEW r, NEW S, Wakes(m, r, S)
  PROVE  Touches(m, r, S) /\ r.wait_aborted = m.wait_aborted /\ Shape(r)
BY DEF Touches, Wakes, Only, Fields, Linkage, Kept

\* The set of tasks a step may touch can be enlarged.
LEMMA TouchesMore ==
  ASSUME NEW m, NEW r, NEW S, NEW T, Touches(m, r, S), S \subseteq T
  PROVE  Touches(m, r, T)
BY DEF Touches, SameTasks

\* A store into the fields of t.
LEMMA OwnTouches ==
  ASSUME NEW m, Shape(m), NEW t \in Task, NEW r, Shape(r), NEW F,
         F \subseteq {"obj", "wait_aborted", "evbits", "grant"},
         Only(m, r, F),
         \A u \in Task \ {t} : /\ r.obj[u] = m.obj[u] /\ r.wait_aborted[u] = m.wait_aborted[u]
                               /\ r.evbits[u] = m.evbits[u]
  PROVE  Touches(m, r, {t}) /\ r.state = m.state
<1>1. /\ r.value = m.value /\ r.bitset = m.bitset /\ r.refcnt = m.refcnt /\ r.live = m.live
      /\ r.state = m.state
  BY DEF Only, Fields
<1> QED BY <1>1 DEF Touches, SameTasks

\* Blocking on a mutex touches the caller only: the owner is at most moved.
LEMMA MtxBlockTouches ==
  ASSUME NEW m, Shape(m), m.currp \in Task, NEW x, m.owner[x] \in Task, NEW t, t = m.currp
  PROVE  Touches(m, mtx_block(m, x), {t}) /\ mtx_block(m, x).state[t] = "WTMTX"
<1> DEFINE o  == m.owner[x]
           m1 == IF prio_gt(m.prio[t], m.prio[o]) THEN reallocate_priority(m, o, m.prio[t]) ELSE m
           a  == [m1 EXCEPT !.wait_aborted = [@ EXCEPT ![t] = FALSE]]
           m2 == set_sleep(a, "WTMTX")
           q  == add_to_prio_queue(m2, x, t)
           r  == [q EXCEPT !.obj = [@ EXCEPT ![t] = x]]
<1>1. Wakes(m, m1, {})
  BY FunctionsWake
<1>2. Touches(m, m1, {t}) /\ Shape(m1) /\ m1.currp = m.currp
  <2>1. Touches(m, m1, {}) /\ Shape(m1)
    BY <1>1, WakesTouches
  <2>2. m1.currp = m.currp
    BY ReallocateFields DEF Only, Fields
  <2> QED BY <2>1, <2>2, TouchesMore
<1>0. mtx_block(m, x) = r
  BY DEF mtx_block
<1> HIDE DEF m1
<1>3. Touches(m1, a, {t}) /\ Shape(a) /\ a.currp = t
  <2>1. Shape(a) /\ Only(m1, a, {"wait_aborted"}) /\ a.wait_aborted = [m1.wait_aborted EXCEPT ![t] = FALSE]
        /\ a.obj = m1.obj /\ a.evbits = m1.evbits /\ a.currp = m1.currp
    BY <1>2 DEF Shape, Only, Fields
  <2> HIDE DEF a
  <2>2. \A u \in Task \ {t} : /\ a.obj[u] = m1.obj[u] /\ a.wait_aborted[u] = m1.wait_aborted[u]
                              /\ a.evbits[u] = m1.evbits[u]
    BY <1>2, <2>1 DEF Shape
  <2> DEFINE F == {"wait_aborted"}
  <2>3. Only(m1, a, F) /\ F \subseteq {"obj", "wait_aborted", "evbits", "grant"}
    BY <2>1
  <2> HIDE DEF F
  <2> QED BY <1>2, <2>1, <2>2, <2>3, OwnTouches
<1> HIDE DEF a
<1>4. Touches(a, m2, {t}) /\ Shape(m2) /\ m2.state[t] = "WTMTX"
  <2>1. "WTMTX" \in State
    BY DEF State
  <2> QED BY <1>3, <2>1, SleepTouches
<1> HIDE DEF m2
<1>5. Touches(m2, q, {t}) /\ Shape(q) /\ q.state = m2.state
  <2>1. Shape(q) /\ Only(m2, q, {"wait_list"})
    BY <1>4, QueueFields
  <2> HIDE DEF q
  <2>2. /\ q.value = m2.value /\ q.bitset = m2.bitset /\ q.refcnt = m2.refcnt /\ q.live = m2.live
        /\ q.state = m2.state /\ q.obj = m2.obj /\ q.evbits = m2.evbits /\ q.wait_aborted = m2.wait_aborted
    BY <2>1 DEF Only, Fields
  <2> QED BY <2>1, <2>2 DEF Touches, SameTasks
<1> HIDE DEF q
<1>6. Touches(q, r, {t}) /\ r.state = q.state
  <2>1. Shape(r) /\ Only(q, r, {"obj"}) /\ r.obj = [q.obj EXCEPT ![t] = x]
        /\ r.wait_aborted = q.wait_aborted /\ r.evbits = q.evbits
    BY <1>5 DEF Shape, Only, Fields
  <2> HIDE DEF r
  <2>2. \A u \in Task \ {t} : /\ r.obj[u] = q.obj[u] /\ r.wait_aborted[u] = q.wait_aborted[u]
                              /\ r.evbits[u] = q.evbits[u]
    BY <1>5, <2>1 DEF Shape
  <2> DEFINE F == {"obj"}
  <2>3. Only(q, r, F) /\ F \subseteq {"obj", "wait_aborted", "evbits", "grant"}
    BY <2>1
  <2> HIDE DEF F
  <2>4. Shape(q) /\ Shape(r) /\ t \in Task
    BY <1>5, <2>1
  <2> QED BY <2>2, <2>3, <2>4, OwnTouches
<1> HIDE DEF r
<1>7. Touches(m, r, {t})
  <2> DEFINE T == {t}
  <2> HIDE DEF T
  <2>1. Touches(m, m1, T) /\ Touches(m1, a, T) /\ Touches(a, m2, T) /\ Touches(m2, q, T) /\ Touches(q, r, T)
    BY <1>2, <1>3, <1>4, <1>5, <1>6 DEF T
  <2>2. Touches(m, r, T)
    BY <2>1, TouchesTrans
  <2> QED BY <2>2 DEF T
<1> QED BY <1>0, <1>4, <1>5, <1>6, <1>7

\* A thread between two calls.
LEMMA RunningFree ==
  ASSUME KernelOK(k, call), NEW t \in Task, Running(t)
  PROVE  call[t].op = "none" /\ t = k.currp /\ k.state[t] \in Up
BY RunningUp, CoreParts DEF Running, CallsOK, CallKind

\* A store that concerns no wait, by the thread t.
QuietStep(m, c, r, d, t, F) ==
  /\ KernelOK(m, c) /\ KernelOK(r, d) /\ ServiceOK(m, c)
  /\ t \in Task /\ m.state[t] \in Up
  /\ d[t].op # "exit" /\ \A u \in Task \ {t} : d[u] = c[u]
  /\ Only(m, r, F) /\ F \cap (Kept \cup {"state", "obj", "evbits"}) = {}
  /\ "live" \in F => Sems \cap r.live = Sems \cap m.live

\* Such a store keeps the promises.
LEMMA QuietService ==
  ASSUME NEW m, NEW c, NEW r, NEW d, NEW t, NEW F, QuietStep(m, c, r, d, t, F)
  PROVE  ServiceOK(r, d)
<1>1. Shape(m) /\ Shape(r)
  BY KernelShape DEF QuietStep
<1>2. Wakes(m, r, {})
  BY <1>1, WakesNobody DEF QuietStep
<1>3. WakeStep(m, c, r, d, t, {})
  BY <1>2 DEF WakeStep, QuietStep
<1> QED BY <1>3, WakeStepService

\* Taking a free mutex, or once more.
LEMMA TakeFields ==
  ASSUME NEW m, DOMAIN m = Fields, NEW x, NEW r,
         r = set_ownership_to_current(m, x) \/ r = [m EXCEPT !.count[x] = @ + 1]
  PROVE  Only(m, r, {"bug", "count", "owner", "owned"})
BY DEF Only, Fields, set_ownership_to_current

\* isix_mutex_lock and isix_mutex_trylock.
LEMMA MtxLockService ==
  ASSUME KernelOK(k, call), KernelOK(k', call'), ServiceOK(k, call), NEW t \in Task, NEW x \in Mtxs,
         MtxLock(t, x) \/ MtxTryLock(t, x)
  PROVE  ServiceOK(k', call')
<1>1. k.state[t] \in Up /\ t = k.currp /\ call[t].op \in {"none", "mtx"}
  BY RunningFree, ExecUp DEF MtxLock, MtxTryLock, MayBlock
<1>3. DOMAIN k = Fields /\ Shape(k) /\ call \in [Task -> Call] /\ k.owner \in [Mtxs -> Task \cup {Null}]
  BY KernelShape
<1>4. CASE k' = set_ownership_to_current(k, x) \/ k' = [k EXCEPT !.count[x] = @ + 1]
  <2>1. Only(k, k', {"bug", "count", "owner", "owned"})
    BY <1>3, <1>4, TakeFields
  <2>2. call'[t].op # "exit" /\ \A u \in Task \ {t} : call'[u] = call[u]
    <3>1. call' = call \/ call' = [call EXCEPT ![t] = NoCall]
                       \/ call' = [call EXCEPT ![t] = [NoCall EXCEPT !.op = "mtx", !.pc = "yield", !.o = x]]
      BY DEF MtxLock, MtxTryLock
    <3> DEFINE e == [NoCall EXCEPT !.op = "mtx", !.pc = "yield", !.o = x]
    <3>2. NoCall.op # "exit" /\ e.op # "exit"
      BY DEF NoCall
    <3>3. call' = call \/ call' = [call EXCEPT ![t] = NoCall] \/ call' = [call EXCEPT ![t] = e]
      BY <3>1
    <3> HIDE DEF e
    <3> QED BY <1>1, <1>3, <3>2, <3>3
  <2>3. QuietStep(k, call, k', call', t, {"bug", "count", "owner", "owned"})
    BY <1>1, <2>1, <2>2 DEF QuietStep, Kept
  <2> QED BY <2>3, QuietService
<1>5. CASE k.owner[x] \notin {Null, t} /\ k' = mtx_block(k, x)
           /\ call' = [call EXCEPT ![t] = [NoCall EXCEPT !.op = "mtx", !.pc = "yield", !.o = x]]
  <2>1. k.owner[x] \in Task /\ k.currp \in Task
    BY <1>1, <1>3, <1>5
  <2>2. Touches(k, k', {t}) /\ k'.state[t] = "WTMTX"
    BY <1>1, <1>3, <1>5, <2>1, MtxBlockTouches
  <2>3. call'[t].op # "exit" /\ \A u \in Task \ {t} : call'[u] = call[u]
    BY <1>3, <1>5 DEF NoCall
  <2>4. {t} = {} \cup {t}
    OBVIOUS
  <2>5. StepOf(k, call, k', call', t, {})
    BY <1>1, <2>2, <2>3, <2>4 DEF StepOf
  <2> QED BY <2>5, StepService
<1> QED BY <1>4, <1>5 DEF MtxLock, MtxTryLock

\* A blocking call returns, or enters its critical section again.
LEMMA ReturnService ==
  ASSUME KernelOK(k, call), KernelOK(k', call'), ServiceOK(k, call), NEW t \in Task,
         Exec(t), call[t].pc = "after", k' = k \/ k' = leave(k, t),
         call'[t].op # "exit", \A u \in Task \ {t} : call'[u] = call[u]
  PROVE  ServiceOK(k', call')
<1>1. k.state[t] \in Up
  BY ExecUp
<1> QED BY <1>1, LeaveService

\* The return from a blocking lock.
LEMMA MtxLockReturnService ==
  ASSUME KernelOK(k, call), KernelOK(k', call'), ServiceOK(k, call), NEW t \in Task, MtxLockReturn(t)
  PROVE  ServiceOK(k', call')
<1>1. Exec(t) /\ call[t].pc = "after" /\ (k' = k \/ k' = leave(k, t))
  BY DEF MtxLockReturn
<1>2. call \in [Task -> Call]
  BY KernelShape
<1>3. call'[t].op # "exit" /\ \A u \in Task \ {t} : call'[u] = call[u]
  BY <1>2 DEF MtxLockReturn, NoCall, Call
<1> QED BY <1>1, <1>3, ReturnService

\* isix_mutex_unlock.
LEMMA MtxUnlockService ==
  ASSUME KernelOK(k, call), KernelOK(k', call'), ServiceOK(k, call), NEW t \in Task, NEW x \in Mtxs,
         MtxUnlock(t, x)
  PROVE  ServiceOK(k', call')
<1>1. Running(t) /\ k' = mutex_unlock(k, x) /\ call' = call
  BY DEF MtxUnlock
<1>2. call[t].op = "none" /\ t = k.currp /\ k.state[t] \in Up
  BY <1>1, RunningFree
<1>3. Shape(k) /\ CoreInv(k, call, {}) /\ k.wait_list \in [Obj -> Seq(Task)] /\ x \in Obj
  BY KernelShape, MutexObjects
<1>4. \A u \in First(k, x) : u \in Task /\ k.state[u] = "WTMTX"
  <2>1. k.wait_list[x] # <<>> => Head(k.wait_list[x]) \in Range(k.wait_list[x])
    BY <1>3, EmptyRange
  <2> QED BY <1>3, <2>1, MutexWaiter DEF First
<1>5. Wakes(k, k', First(k, x)) \/ Wakes(k, k', {})
  <2>1. k.wait_list[x] # <<>> => Head(k.wait_list[x]) \in Task
    BY <1>4 DEF First
  <2> QED BY <1>1, <1>2, <1>3, <2>1, ReleaseWakes
<1>6. WakeStep(k, call, k', call', t, First(k, x)) \/ WakeStep(k, call, k', call', t, {})
  BY <1>1, <1>2, <1>4, <1>5 DEF WakeStep, Gone
<1> QED BY <1>6, WakeStepService

\* isix_mutex_unlock_all.
LEMMA MtxUnlockAllService ==
  ASSUME KernelOK(k, call), KernelOK(k', call'), ServiceOK(k, call), NEW t \in Task, MtxUnlockAll(t)
  PROVE  ServiceOK(k', call')
<1> DEFINE hs == Contended(k, t)
           ws == Heirs(k, hs)
<1>1. Running(t) /\ k' = mutex_unlock_all_in_task(k, t) /\ call' = call /\ t # Idle
  BY DEF MtxUnlockAll, Running
<1>2. call[t].op = "none" /\ t = k.currp /\ k.state[t] \in Up
  BY <1>1, RunningFree
<1>3. Shape(k) /\ CoreInv(k, call, {}) /\ OwnersOK(k)
  BY KernelShape
<1>4. ws \in Seq(Task) /\ \A u \in Range(ws) : u \in Task /\ k.state[u] = "WTMTX"
  BY <1>1, <1>3, HeirsOK
<1>5. Wakes(k, k', Range(ws))
  BY <1>1, <1>3, <1>4, UnlockAllWakes
<1> HIDE DEF ws
<1>6. WakeStep(k, call, k', call', t, Range(ws))
  BY <1>1, <1>2, <1>4, <1>5 DEF WakeStep, Gone
<1> QED BY <1>6, WakeStepService

\* isix_mutex_destroy.
LEMMA MtxDestroyService ==
  ASSUME KernelOK(k, call), KernelOK(k', call'), ServiceOK(k, call), NEW t \in Task, NEW x \in Mtxs,
         MtxDestroy(t, x)
  PROVE  ServiceOK(k', call')
<1> DEFINE n == mutex_destroy(k, x)
<1>1. Running(t) /\ k' = [n EXCEPT !.live = @ \ {x}] /\ call' = call
  BY DEF MtxDestroy
<1>2. call[t].op = "none" /\ t = k.currp /\ k.state[t] \in Up
  BY <1>1, RunningFree
<1>3. Shape(k) /\ CoreInv(k, call, {}) /\ k.wait_list \in [Obj -> Seq(Task)] /\ x \in Obj /\ x \notin Sems
      /\ k.owner[x] \in Task \cup {Null}
  BY KernelShape, MutexObjects
<1>4. \A u \in Range(k.wait_list[x]) : u \in Task /\ k.state[u] = "WTMTX"
  BY <1>3, MutexWaiter
<1>5. Wakes(k, n, Range(k.wait_list[x])) /\ Shape(n)
  <2>1. Wakes(k, n, Range(k.wait_list[x]))
    BY <1>3, DestroyWakes
  <2> QED BY <2>1 DEF Wakes
<1> HIDE DEF n
<1>6. Wakes(n, k', {})
  <2>1. Shape(k') /\ Only(n, k', {"live"}) /\ Sems \cap k'.live = Sems \cap n.live
    BY <1>1, <1>3, <1>5 DEF Shape, Only, Fields
  <2> QED BY <1>5, <2>1, WakesNobody DEF Kept
<1>7. Wakes(k, k', Range(k.wait_list[x]))
  BY <1>5, <1>6, WakesTrans
<1>8. WakeStep(k, call, k', call', t, Range(k.wait_list[x]))
  BY <1>1, <1>2, <1>4, <1>7 DEF WakeStep, Gone
<1> QED BY <1>8, WakeStepService

\* isix_mutex_create.
LEMMA MtxCreateService ==
  ASSUME KernelOK(k, call), KernelOK(k', call'), ServiceOK(k, call), NEW t \in Task, NEW x \in Mtxs,
         MtxCreate(t, x)
  PROVE  ServiceOK(k', call')
<1>1. Running(t) /\ call' = call
  BY DEF MtxCreate
<1>2. call[t].op = "none" /\ t = k.currp /\ k.state[t] \in Up
  BY <1>1, RunningFree
<1>3. DOMAIN k = Fields /\ x \notin Sems
  BY KernelShape, MutexObjects
<1>4. Only(k, k', {"live", "owner", "count", "wait_list"}) /\ Sems \cap k'.live = Sems \cap k.live
  BY <1>3 DEF MtxCreate, Only, Fields
<1>5. QuietStep(k, call, k', call', t, {"live", "owner", "count", "wait_list"})
  BY <1>1, <1>2, <1>4 DEF QuietStep, Kept
<1> QED BY <1>5, QuietService

\* The services of mutexes keep the promises.
LEMMA MtxOpsService ==
  ASSUME KernelOK(k, call), KernelOK(k', call'), ServiceOK(k, call), MtxOps
  PROVE  ServiceOK(k', call')
BY MtxLockService, MtxLockReturnService, MtxUnlockService, MtxUnlockAllService,
   MtxDestroyService, MtxCreateService DEF MtxOps

\* Everybody on a wait list is woken, and the first decides on the switch.
LEMMA BroadcastWakes ==
  ASSUME NEW m, Shape(m), NEW ws \in Seq(Task), NEW msg
  PROVE  LET r == IF ws = <<>> THEN m ELSE do_reschedule(wakeup(unlink(m, Range(ws)), ws, msg), Head(ws))
         IN  Wakes(m, r, Range(ws))
<1> DEFINE n == unlink(m, Range(ws))
           w == wakeup(n, ws, msg)
           r == do_reschedule(w, Head(ws))
<1>0. Idle \in Task
  BY DEF Task
<1>1. CASE ws = <<>>
  <2>1. Wakes(m, m, {})
    BY <1>0, FunctionsWake
  <2>2. Range(ws) = {}
    BY <1>1, EmptyRange
  <2> QED BY <1>1, <2>1, <2>2
<1>2. CASE ws # <<>>
  <2>1. Head(ws) \in Task
    BY <1>2
  <2>2. Wakes(m, n, {})
    BY <1>0, FunctionsWake
  <2>3. Shape(n)
    BY <2>2 DEF Wakes
  <2> HIDE DEF n
  <2>4. Wakes(n, w, Range(ws))
    BY <1>0, <2>3, FunctionsWake
  <2>5. Shape(w)
    BY <2>4 DEF Wakes
  <2> HIDE DEF w
  <2>6. Wakes(w, r, {})
    BY <2>1, <2>5, FunctionsWake
  <2> HIDE DEF r
  <2>7. Wakes(m, w, Range(ws))
    BY <2>2, <2>4, WakesTrans
  <2>8. Wakes(m, r, Range(ws))
    BY <2>6, <2>7, WakesTrans
  <2> QED BY <1>2, <2>8 DEF r, w, n
<1> QED BY <1>1, <1>2

\* A signal wakes at most the first waiter.
LEMMA CondSignalWakes ==
  ASSUME NEW m, Shape(m), NEW c, m.wait_list[c] # <<>> => Head(m.wait_list[c]) \in Task
  PROVE  Wakes(m, condvar_signal(m, c), First(m, c))
<1> DEFINE t == Head(m.wait_list[c])
           n == unlink(m, {t})
           b == [n EXCEPT !.bug = @ \/ m.state[t] # "WTCOND"]
           w == wakeup(b, <<t>>, EOK)
           r == do_reschedule(w, t)
<1>0. Idle \in Task /\ condvar_signal(m, c) = IF m.wait_list[c] = <<>> THEN m ELSE r
  BY DEF Task, condvar_signal
<1>1. CASE m.wait_list[c] = <<>>
  BY <1>0, <1>1, FunctionsWake DEF First
<1>2. CASE m.wait_list[c] # <<>>
  <2>1. t \in Task /\ First(m, c) = {t}
    BY <1>2 DEF First
  <2>2. Wakes(m, n, {})
    BY <1>0, FunctionsWake
  <2>3. Shape(n)
    BY <2>2 DEF Wakes
  <2> HIDE DEF n, t
  <2>4. Shape(b) /\ Only(n, b, {"bug"})
    BY <2>3 DEF Shape, Only, Fields
  <2>5. Wakes(n, b, {})
    BY <2>3, <2>4, WakesNobody DEF Kept
  <2> HIDE DEF b
  <2>6. Wakes(b, w, {t})
    <3> DEFINE ts == <<t>>
    <3>1. Range(ts) = {t}
      BY <2>1, OneElement
    <3> HIDE DEF ts
    <3>2. Wakes(b, wakeup(b, ts, EOK), Range(ts))
      BY <1>0, <2>4, FunctionsWake
    <3> QED BY <3>1, <3>2 DEF ts
  <2>7. Shape(w)
    BY <2>6 DEF Wakes
  <2> HIDE DEF w
  <2>8. Wakes(w, r, {})
    BY <2>1, <2>7, FunctionsWake
  <2> HIDE DEF r
  <2>9. Wakes(m, b, {})
    BY <2>2, <2>5, WakesTrans
  <2>10. Wakes(m, w, {t})
    BY <2>6, <2>9, WakesTrans
  <2>11. Wakes(m, r, {t})
    BY <2>8, <2>10, WakesTrans
  <2> QED BY <1>0, <1>2, <2>1, <2>11
<1> QED BY <1>1, <1>2

\* The current task falls asleep in a wait list.
LEMMA SleepOnTouches ==
  ASSUME NEW m, Shape(m), m.currp \in Task, NEW newstate \in State, NEW timeout, NEW o,
         NEW t, t = m.currp
  PROVE  LET r == [add_to_prio_queue(set_sleep_timeout(m, newstate, timeout), o, t) EXCEPT !.obj = [@ EXCEPT ![t] = o]]
         IN  Touches(m, r, {t}) /\ r.state[t] = newstate /\ Shape(r)
<1> DEFINE n == set_sleep_timeout(m, newstate, timeout)
           q == add_to_prio_queue(n, o, t)
           r == [q EXCEPT !.obj = [@ EXCEPT ![t] = o]]
<1>1. Touches(m, n, {t}) /\ Shape(n) /\ n.state[t] = newstate
  BY SleepTouches
<1> HIDE DEF n
<1>2. Touches(n, q, {t}) /\ Shape(q) /\ q.state = n.state
  <2>1. Shape(q) /\ Only(n, q, {"wait_list"})
    BY <1>1, QueueFields
  <2> HIDE DEF q
  <2>2. /\ q.value = n.value /\ q.bitset = n.bitset /\ q.refcnt = n.refcnt /\ q.live = n.live
        /\ q.state = n.state /\ q.obj = n.obj /\ q.evbits = n.evbits /\ q.wait_aborted = n.wait_aborted
    BY <2>1 DEF Only, Fields
  <2> QED BY <2>1, <2>2 DEF Touches, SameTasks
<1> HIDE DEF q
<1>3. Touches(q, r, {t}) /\ r.state = q.state /\ Shape(r)
  <2>1. Shape(r) /\ Only(q, r, {"obj"}) /\ r.obj = [q.obj EXCEPT ![t] = o]
        /\ r.wait_aborted = q.wait_aborted /\ r.evbits = q.evbits
    BY <1>2 DEF Shape, Only, Fields
  <2> HIDE DEF r
  <2>2. \A u \in Task \ {t} : /\ r.obj[u] = q.obj[u] /\ r.wait_aborted[u] = q.wait_aborted[u]
                              /\ r.evbits[u] = q.evbits[u]
    BY <1>2, <2>1 DEF Shape
  <2> DEFINE F == {"obj"}
  <2>3. Only(q, r, F) /\ F \subseteq {"obj", "wait_aborted", "evbits", "grant"}
    BY <2>1
  <2> HIDE DEF F
  <2>4. Shape(q) /\ Shape(r) /\ t \in Task
    BY <1>2, <2>1
  <2> QED BY <2>2, <2>3, <2>4, OwnTouches
<1> HIDE DEF r
<1>4. Touches(m, r, {t})
  BY <1>1, <1>2, <1>3, TouchesTrans
<1> QED BY <1>1, <1>2, <1>3, <1>4 DEF r, q, n

\* The thread t wakes the tasks of S and falls asleep.
LEMMA SleepAfterWakes ==
  ASSUME NEW m, NEW c, NEW n, NEW r, NEW d, NEW t, NEW S,
         KernelOK(m, c), KernelOK(r, d), ServiceOK(m, c), t \in Task, m.state[t] \in Up,
         d[t].op # "exit", \A u \in Task \ {t} : d[u] = c[u],
         Wakes(m, n, S), \A u \in S : u \in Task /\ m.state[u] \notin {"WTSEM", "WTEXIT"} \cup Gone,
         Touches(n, r, {t}), r.state[t] \notin {"WTSEM", "WTEVT"}
  PROVE  ServiceOK(r, d)
<1>1. Touches(m, n, S) /\ n.wait_aborted = m.wait_aborted
  BY WakesTouches
<1>2. Touches(m, r, S \cup {t})
  BY <1>1 DEF Touches, SameTasks
<1>3. \A u \in S : u # t => r.state[u] \in Up /\ r.wait_aborted[u] = m.wait_aborted[u]
  BY <1>1 DEF Wakes, Touches, SameTasks, Up
<1>4. StepOf(m, c, r, d, t, S)
  BY <1>2, <1>3 DEF StepOf
<1> QED BY <1>4, StepService

\* isix_condvar_wait.
LEMMA CondWaitService ==
  ASSUME KernelOK(k, call), KernelOK(k', call'), ServiceOK(k, call), NEW t \in Task, NEW v \in Cvs,
         NEW timeout \in Timeouts, CondWait(t, v, timeout)
  PROVE  ServiceOK(k', call')
<1> DEFINE x == top_mutex(k)
           n == mutex_unlock(k, x)
<1>1. Running(t) /\ k.owned[t] # <<>>
      /\ k' = [add_to_prio_queue(set_sleep_timeout(n, "WTCOND", timeout), v, k.currp) EXCEPT
                 !.obj = [@ EXCEPT ![k.currp] = v]]
  BY DEF CondWait, MayBlock, cond_block
<1>2. call[t].op = "none" /\ t = k.currp /\ k.state[t] \in Up
  BY <1>1, RunningFree
<1>3. Shape(k) /\ CoreInv(k, call, {}) /\ k.wait_list \in [Obj -> Seq(Task)] /\ call \in [Task -> Call]
  BY KernelShape
<1>4. x \in Mtxs /\ x \in Obj
  BY <1>1, <1>2, KernelShape, KernelTypes, MutexObjects DEF top_mutex
<1> HIDE DEF x
<1>5. \A u \in First(k, x) : u \in Task /\ k.state[u] = "WTMTX"
  <2>1. k.wait_list[x] # <<>> => Head(k.wait_list[x]) \in Range(k.wait_list[x])
    BY <1>3, <1>4, EmptyRange
  <2> QED BY <1>3, <1>4, <2>1, MutexWaiter DEF First
<1>6. Wakes(k, n, First(k, x)) \/ Wakes(k, n, {})
  <2>1. k.wait_list[x] # <<>> => Head(k.wait_list[x]) \in Task
    BY <1>5 DEF First
  <2> QED BY <1>2, <1>3, <2>1, ReleaseWakes
<1>7. n.currp = k.currp /\ Shape(n)
  <2>1. Shape(n)
    BY <1>6 DEF Wakes
  <2>2. LET r == mutex_unlock(k, x) IN CoreInv(r, call, {}) /\ OwnersOK(r) /\ Signalled(k, r)
    <3>1. k.owner[x] = k.currp /\ k.currp # Idle /\ k.state[k.currp] \in Up /\ OwnersOK(k)
      <4>1. x \in Range(k.owned[t]) /\ OwnersOK(k)
        BY <1>1, <1>2, KernelShape, KernelTypes, EmptyRange DEF top_mutex, x
      <4> QED BY <1>1, <1>2, <1>4, <4>1 DEF OwnersOK, Running
    <3> QED BY <1>3, <1>4, <3>1, UnlockFunOK
  <2> QED BY <2>1, <2>2 DEF Signalled
<1> HIDE DEF n
<1>8. Touches(n, k', {t}) /\ k'.state[t] = "WTCOND"
  <2>1. "WTCOND" \in State
    BY DEF State
  <2>2. n.currp \in Task /\ t = n.currp /\ Shape(n)
        /\ k' = [add_to_prio_queue(set_sleep_timeout(n, "WTCOND", timeout), v, t) EXCEPT !.obj = [@ EXCEPT ![t] = v]]
    BY <1>1, <1>2, <1>7
  <2> DEFINE st == "WTCOND"
             r  == [add_to_prio_queue(set_sleep_timeout(n, st, timeout), v, t) EXCEPT !.obj = [@ EXCEPT ![t] = v]]
  <2>3. k' = r /\ st \in State
    BY <2>1, <2>2
  <2> HIDE DEF st
  <2>4. Touches(n, r, {t}) /\ r.state[t] = st /\ Shape(r)
    BY <2>2, <2>3, SleepOnTouches
  <2> QED BY <2>3, <2>4 DEF st
<1>9. call'[t].op # "exit" /\ \A u \in Task \ {t} : call'[u] = call[u]
  BY <1>3 DEF CondWait, NoCall
<1>10. \A S : S = {} \/ S = First(k, x) => \A u \in S : u \in Task /\ k.state[u] \notin {"WTSEM", "WTEXIT"} \cup Gone
  BY <1>5 DEF Gone
<1>11. k'.state[t] \notin {"WTSEM", "WTEVT"}
  BY <1>8
<1>12. PICK S : Wakes(k, n, S) /\ \A u \in S : u \in Task /\ k.state[u] \notin {"WTSEM", "WTEXIT"} \cup Gone
  BY <1>6, <1>10
<1> QED BY <1>2, <1>8, <1>9, <1>11, <1>12, SleepAfterWakes

\* The return from a wait for a condition.
LEMMA CondWaitReturnService ==
  ASSUME KernelOK(k, call), KernelOK(k', call'), ServiceOK(k, call), NEW t \in Task, CondWaitReturn(t)
  PROVE  ServiceOK(k', call')
<1>1. Exec(t) /\ call[t].pc = "after" /\ k' = leave(k, t)
  BY DEF CondWaitReturn
<1>2. call \in [Task -> Call]
  BY KernelShape
<1>3. call'[t].op # "exit" /\ \A u \in Task \ {t} : call'[u] = call[u]
  BY <1>2 DEF CondWaitReturn, NoCall
<1> QED BY <1>1, <1>3, ReturnService

\* A wait list of condition waiters.
LEMMA CondWaiters ==
  ASSUME NEW m, NEW c, KernelOK(m, c), NEW v \in Cvs
  PROVE  /\ m.wait_list[v] \in Seq(Task)
         /\ m.wait_list[v] # <<>> => Head(m.wait_list[v]) \in Range(m.wait_list[v])
         /\ \A u \in Range(m.wait_list[v]) : u \in Task /\ m.state[u] \notin {"WTSEM", "WTEXIT"} \cup Gone
<1>1. CoreInv(m, c, {}) /\ m.wait_list[v] \in Seq(Task)
  BY KernelShape, MutexObjects
<1>2. \A u \in Range(m.wait_list[v]) : u \in Task /\ m.state[u] = "WTCOND"
  BY <1>1, MutexWaiter
<1>3. m.wait_list[v] # <<>> => Head(m.wait_list[v]) \in Range(m.wait_list[v])
  BY <1>1, EmptyRange
<1> QED BY <1>1, <1>2, <1>3 DEF Gone

\* isix_condvar_signal and isix_condvar_broadcast.
LEMMA CondWakeService ==
  ASSUME KernelOK(k, call), KernelOK(k', call'), ServiceOK(k, call), NEW v \in Cvs,
         CondSignal(v) \/ CondBroadcast(v)
  PROVE  ServiceOK(k', call')
<1> DEFINE ws == k.wait_list[v]
<1>1. Shape(k) /\ CallsOK(call) /\ ServiceOK(k, call) /\ ws \in Seq(Task) /\ call' = call
  <2>1. ws \in Seq(Task)
    BY CondWaiters
  <2>2. Shape(k) /\ CallsOK(call)
    BY KernelShape
  <2> QED BY <2>1, <2>2 DEF CondSignal, CondBroadcast
<1>2. \A u \in Range(ws) : u \in Task /\ k.state[u] \notin {"WTSEM", "WTEXIT"} \cup Gone
  BY CondWaiters
<1>3. CASE CondSignal(v)
  <2>1. Wakes(k, k', First(k, v))
    BY <1>1, <1>2, <1>3, CondWaiters, CondSignalWakes DEF CondSignal
  <2>2. \A u \in First(k, v) : u \in Task /\ k.state[u] \notin {"WTSEM", "WTEXIT"} \cup Gone
    <3>1. ws # <<>> => Head(ws) \in Range(ws)
      BY CondWaiters
    <3> QED BY <1>2, <3>1 DEF First
  <2> QED BY <1>1, <2>1, <2>2, WakesService
<1>4. CASE CondBroadcast(v)
  <2>1. Wakes(k, k', Range(ws))
    BY <1>1, <1>4, BroadcastWakes DEF CondBroadcast, condvar_broadcast_msg
  <2> HIDE DEF ws
  <2> QED BY <1>1, <1>2, <2>1, WakesService
<1> QED BY <1>3, <1>4

\* isix_condvar_destroy and isix_condvar_create.
LEMMA CondDestroyService ==
  ASSUME KernelOK(k, call), KernelOK(k', call'), ServiceOK(k, call), NEW t \in Task, NEW v \in Cvs,
         CondDestroy(t, v) \/ CondCreate(t, v)
  PROVE  ServiceOK(k', call')
<1> DEFINE n == condvar_broadcast_msg(k, v, EDESTROY)
           ws == k.wait_list[v]
<1>1. Shape(k) /\ CallsOK(call) /\ ServiceOK(k, call) /\ ws \in Seq(Task) /\ call' = call
      /\ DOMAIN k = Fields /\ v \notin Sems
  BY KernelShape, CondWaiters, MutexObjects DEF CondDestroy, CondCreate
<1>2. \A u \in Range(ws) : u \in Task /\ k.state[u] \notin {"WTSEM", "WTEXIT"} \cup Gone
  BY CondWaiters
<1>3. CASE CondDestroy(t, v)
  <2>1. Wakes(k, n, Range(ws))
    BY <1>1, BroadcastWakes DEF condvar_broadcast_msg
  <2>2. Shape(n) /\ k' = [n EXCEPT !.live = @ \ {v}]
    BY <1>3, <2>1 DEF Wakes, CondDestroy
  <2> HIDE DEF n
  <2>3. Shape(k') /\ Only(n, k', {"live"}) /\ Sems \cap k'.live = Sems \cap n.live
    BY <1>1, <2>2 DEF Shape, Only, Fields
  <2>4. Wakes(n, k', {})
    BY <2>2, <2>3, WakesNobody DEF Kept
  <2>5. Wakes(k, k', Range(ws))
    BY <2>1, <2>4, WakesTrans
  <2> HIDE DEF ws
  <2> QED BY <1>1, <1>2, <2>5, WakesService
<1>4. CASE CondCreate(t, v)
  <2>1. call[t].op = "none" /\ t = k.currp /\ k.state[t] \in Up
    BY <1>4, RunningFree DEF CondCreate
  <2>2. Only(k, k', {"live", "wait_list"}) /\ Sems \cap k'.live = Sems \cap k.live
    BY <1>1, <1>4 DEF CondCreate, Only, Fields
  <2>3. QuietStep(k, call, k', call', t, {"live", "wait_list"})
    BY <1>1, <2>1, <2>2 DEF QuietStep, Kept
  <2> QED BY <2>3, QuietService
<1> QED BY <1>3, <1>4

\* The services of condition variables keep the promises.
LEMMA CondOpsService ==
  ASSUME KernelOK(k, call), KernelOK(k', call'), ServiceOK(k, call), CondOps
  PROVE  ServiceOK(k', call')
BY CondWaitService, CondWaitReturnService, CondWakeService, CondDestroyService DEF CondOps

-----------------------------------------------------------------------------
(***************************************************************************)
(* The scheduler.                                                          *)
(***************************************************************************)

\* The context switch changes who runs, and nobody's wait.
LEMMA PendSVService ==
  ASSUME KernelOK(k, call), KernelOK(k', call'), ServiceOK(k, call), PendSV
  PROVE  ServiceOK(k', call')
<1> DEFINE m1 == rotate(k)
           p  == top_prio(m1)
           t  == Head(m1.ready[p])
           n  == [m1 EXCEPT !.bug   = @ \/ m1.state[t] # "READY" \/ m1.prio[t] # p,
                            !.currp = t,
                            !.state = [@ EXCEPT ![t] = "RUNNING"]]
<1>0. /\ DOMAIN k = Fields /\ Shape(k) /\ CallsOK(call) /\ call' = call /\ k.currp \in Task /\ ~k'.bug
      /\ ServiceOK(k, call) /\ CoreInv(k, call, {}) /\ OwnersOK(k)
  BY KernelShape, CoreParts DEF PendSV, KernelOK
<1>1. CASE k.sched_lock # 0
  <2>1. k' = [[k EXCEPT !.yield_pending = TRUE] EXCEPT !.pendsv = FALSE]
    BY <1>1 DEF PendSV, schedule
  <2>2. Shape(k') /\ Only(k, k', {"yield_pending", "pendsv"})
    BY <1>0, <2>1 DEF Shape, Only, Fields
  <2>3. Wakes(k, k', {})
    BY <1>0, <2>2, WakesNobody DEF Kept
  <2> QED BY <1>0, <2>3, WakesService
<1>2. CASE k.sched_lock = 0
  <2>1. k' = [n EXCEPT !.pendsv = FALSE]
    BY <1>2 DEF PendSV, schedule
  <2>2. Wakes(k, m1, {}) /\ Shape(m1)
    <3>1. CASE k.state[k.currp] # "RUNNING"
      <4>1. m1 = k
        BY <3>1 DEF rotate
      <4>2. Wakes(k, k, {})
        BY <1>0, FunctionsWake
      <4> QED BY <1>0, <4>1, <4>2
    <3>2. CASE k.state[k.currp] = "RUNNING"
      <4>1. /\ Shape(m1) /\ Only(k, m1, {"bug", "ready", "state"})
            /\ m1.state = [k.state EXCEPT ![k.currp] = "READY"]
        BY <1>0, <3>2 DEF rotate, Shape, Only, Fields, State
      <4> HIDE DEF m1
      <4>2. Only(k, m1, Linkage) /\ m1.obj = k.obj /\ m1.evbits = k.evbits /\ m1.live = k.live
        BY <4>1 DEF Only, Linkage, Fields, Kept
      <4> QED BY <1>0, <3>2, <4>1, <4>2 DEF Wakes, SameTasks, Up, Shape
    <3> QED BY <3>1, <3>2
  <2> HIDE DEF m1
  <2>3. m1.state[t] = "READY"
    <3> HIDE DEF t
    <3>1. DOMAIN m1 = Fields
      BY <2>2 DEF Shape
    <3>2. DOMAIN n = Fields /\ n.bug = (m1.bug \/ m1.state[t] # "READY" \/ m1.prio[t] # p)
      BY <3>1 DEF Fields
    <3> HIDE DEF n
    <3>3. k'.bug = n.bug
      BY <2>1, <3>2 DEF Fields
    <3> QED BY <1>0, <3>2, <3>3
  <2> HIDE DEF t, p
  <2>4. /\ Shape(k') /\ Only(m1, k', {"bug", "currp", "state", "pendsv"})
        /\ k'.state = [m1.state EXCEPT ![t] = "RUNNING"]
    <3>1. /\ Shape(n) /\ Only(m1, n, {"bug", "currp", "state"})
          /\ n.state = [m1.state EXCEPT ![t] = "RUNNING"]
      BY <2>2 DEF Shape, Only, Fields, State
    <3> HIDE DEF n
    <3>2. Shape(k') /\ Only(n, k', {"pendsv"}) /\ k'.state = n.state
      BY <2>1, <3>1 DEF Shape, Only, Fields
    <3> QED BY <3>1, <3>2 DEF Only
  <2>5. Only(m1, k', Linkage) /\ k'.obj = m1.obj /\ k'.evbits = m1.evbits /\ k'.live = m1.live
    BY <2>4 DEF Only, Linkage, Fields, Kept
  <2>6. Wakes(m1, k', {})
    BY <2>2, <2>3, <2>4, <2>5 DEF Wakes, SameTasks, Up, Shape
  <2>7. Wakes(k, k', {})
    BY <2>2, <2>6, WakesTrans
  <2> QED BY <1>0, <2>7, WakesService
<1> QED BY <1>1, <1>2 DEF KernelOK

\* The yield that ends the blocking half of a call.
LEMMA YieldService ==
  ASSUME KernelOK(k, call), KernelOK(k', call'), ServiceOK(k, call), NEW t \in Task, Yield(t)
  PROVE  ServiceOK(k', call')
<1> DEFINE e == IF call[t].op \in {"sleep", "suspend"} THEN NoCall ELSE [call[t] EXCEPT !.pc = "after"]
<1>1. /\ k \in Kernel /\ Shape(k) /\ call \in [Task -> Call] /\ call' \in [Task -> Call] /\ CallsOK(call')
      /\ DOMAIN k = Fields /\ CoreInv(k, call, {})
  BY KernelShape
<1>2. /\ call' = [call EXCEPT ![t] = e] /\ k' = [k EXCEPT !.pendsv = TRUE] /\ call[t].pc = "yield"
      /\ e \in Call /\ call[t] \in Call
  BY <1>1 DEF Yield, port_yield
<1>3. /\ k.state[t] = "WTEVT" => e.o = call[t].o
      /\ e.op = "exit" => /\ call[t].op = "exit" /\ e.o = call[t].o
                          /\ e.pc \in {"yield", "after"} => call[t].pc \in {"yield", "after"}
  <2>1. k.state[t] = "WTEVT" => call[t].op \in {"evt", "sync"}
    BY <1>1, CoreParts DEF BlockedOK, Blocked
  <2> QED BY <1>2, <2>1 DEF NoCall, Call
<1> HIDE DEF e
<1>4. ServiceOK(k, call')
  BY <1>1, <1>2, <1>3, CallService
<1>5. Shape(k') /\ Only(k, k', {"pendsv"})
  BY <1>1, <1>2 DEF Shape, Only, Fields
<1>6. Wakes(k, k', {})
  BY <1>1, <1>5, WakesNobody DEF Kept
<1> QED BY <1>1, <1>4, <1>6, WakesService

\* What does not concern semaphores: bits are only cleared, and the tasks of S
\* end no wait for an exit.
Rest(m, c) == EventsOK(m, c) /\ ExitsOK(m, c) /\ RefsOK(m, c)

RestKept(m, r, c, S) ==
  /\ r.refcnt = m.refcnt /\ \A e \in Evts : r.bitset[e] \subseteq m.bitset[e]
  /\ SameTasks(m, r, S)
  /\ \A t \in Task \ S : r.wait_aborted[t] = m.wait_aborted[t]
  /\ \A t \in S : /\ r.state[t] # "WTEVT" /\ (m.state[t] \in Gone => r.state[t] \in Gone)
                  /\ Returned(r, c, t) => Returned(m, c, t)

\* Such a step keeps what does not concern semaphores.
LEMMA RestService ==
  ASSUME NEW m, NEW c, CallsOK(c), BlockedOK(m, c, {}), Rest(m, c), NEW r, NEW S, RestKept(m, r, c, S)
  PROVE  Rest(r, c)
<1>1. \A t \in Task : /\ m.state[t] \in Gone => r.state[t] \in Gone
                      /\ r.state[t] = "WTEVT" => m.state[t] = "WTEVT" /\ r.evbits[t] = m.evbits[t]
                      /\ Returned(r, c, t) => Returned(m, c, t)
  BY DEF RestKept, SameTasks, Up, Gone, Returned
<1>3. EventsOK(r, c)
  <2> SUFFICES ASSUME NEW t \in Task, r.state[t] = "WTEVT"
               PROVE  ~check_cond(r.bitset[c[t].o], r.evbits[t])
    BY DEF EventsOK
  <2>1. m.state[t] = "WTEVT" /\ r.evbits[t] = m.evbits[t]
    BY <1>1
  <2>2. ~check_cond(m.bitset[c[t].o], m.evbits[t])
    BY <2>1 DEF Rest, EventsOK
  <2>3. c[t].o \in Evts
    BY <2>1 DEF BlockedOK, Blocked, CallsOK, CallKind
  <2>4. r.bitset[c[t].o] \subseteq m.bitset[c[t].o]
    BY <2>3 DEF RestKept
  <2> QED BY <2>1, <2>2, <2>4 DEF check_cond
<1>4. ExitsOK(r, c)
  <2> SUFFICES ASSUME NEW t \in Task, Returned(r, c, t)
               PROVE  r.state[c[t].o] \in Gone
    BY DEF ExitsOK
  <2>1. m.state[c[t].o] \in Gone
    BY <1>1 DEF Rest, ExitsOK
  <2>2. c[t].o \in Task
    BY DEF Returned, CallsOK, CallKind, Task
  <2> QED BY <1>1, <2>1, <2>2
<1>5. RefsOK(r, c)
  BY DEF RefsOK, Rest, RestKept
<1> QED BY <1>3, <1>4, <1>5 DEF Rest

\* The waiters of S leave the semaphores, and each gives its request for a
\* token back: the counters still count those that wait.
Requests(m, S, s) == {t \in S : m.state[t] = "WTSEM" /\ m.obj[t] = s}

\* The tokens that are there to take, and that they are as many as before.
Tokens(m, s) == IF m.value[s] > 0 THEN m.value[s] ELSE 0
SameTokens(m, r) == \A s \in Sems \cap m.live : Tokens(r, s) = Tokens(m, s)

\* A negative counter grows by one for each waiter that leaves: sem_inc cannot
\* reach its limit there, and no token appears.
LEMMA TokensBack ==
  ASSUME NEW m, SemsOK(m), m.value \in [Sems -> Int], NEW r, NEW S \in SUBSET Task,
         Sems \cap r.live = Sems \cap m.live,
         \A t \in Task \ S : /\ r.state[t] = "WTSEM" <=> m.state[t] = "WTSEM"
                             /\ m.state[t] = "WTSEM" => r.obj[t] = m.obj[t],
         \A t \in S : r.state[t] # "WTSEM",
         \A s \in Sems : r.value[s] = sem_inc(m.value[s], SemLimit[s], Cardinality(Requests(m, S, s)))
  PROVE  SemsOK(r) /\ SameTokens(m, r)
<1> SUFFICES ASSUME NEW s \in Sems \cap m.live
             PROVE  /\ Cardinality(TokenWaiters(r, s)) = IF r.value[s] < 0 THEN -r.value[s] ELSE 0
                    /\ Tokens(r, s) = Tokens(m, s)
  BY DEF SemsOK, SameTokens
<1> DEFINE T == TokenWaiters(m, s)
           D == Requests(m, S, s)
           A == T \ D
           v == m.value[s]
           l == SemLimit[s]
           n == Cardinality(D)
<1>1. D \subseteq T /\ TokenWaiters(r, s) = A /\ T \subseteq Task
  BY DEF TokenWaiters, Requests
<1>2. IsFiniteSet(T) /\ IsFiniteSet(D) /\ IsFiniteSet(A)
  BY <1>1, FiniteTasks, FS_Subset
<1>3. v \in Int /\ l \in Nat /\ Cardinality(T) = IF v < 0 THEN -v ELSE 0
  BY SemAssumption DEF SemsOK
<1>4. r.value[s] = sem_inc(v, l, n)
  OBVIOUS
<1>41. Tokens(m, s) = IF v > 0 THEN v ELSE 0
  BY DEF Tokens
<1> HIDE DEF T, D, v, l
<1>5. A \cup D = T /\ A \cap D = {}
  BY <1>1
<1>6. n \in Nat /\ Cardinality(A) \in Nat
  BY <1>2, FS_CardinalityType
<1>7. Cardinality(T) = Cardinality(A) + n
  <2> HIDE DEF A, n
  <2>1. Cardinality(A \cup D) = Cardinality(A) + Cardinality(D) - Cardinality(A \cap D)
    BY <1>2, FS_Union
  <2>2. Cardinality(A \cap D) = 0
    BY <1>5, FS_EmptySet
  <2>3. Cardinality(T) = Cardinality(A \cup D)
    BY <1>5
  <2>4. Cardinality(D) = n
    BY DEF n
  <2> QED BY <1>6, <2>1, <2>2, <2>3, <2>4
<1> HIDE DEF A, n
<1>8. sem_inc(v, l, n) = v + n /\ (v + n < 0 => Cardinality(A) = -(v + n)) /\ (v + n >= 0 => Cardinality(A) = 0)
  BY <1>3, <1>6, <1>7 DEF sem_inc
<1>9. Tokens(r, s) = Tokens(m, s)
  <2>1. Tokens(r, s) = IF v + n > 0 THEN v + n ELSE 0
    BY <1>4, <1>8 DEF Tokens
  <2> QED BY <1>3, <1>6, <1>7, <1>41, <2>1
<1> QED BY <1>1, <1>3, <1>4, <1>6, <1>8, <1>9

\* Nobody else waits for a token when the counter is not negative.
LEMMA NoRequests ==
  ASSUME NEW m, NEW S, NEW s, \A t \in S : ~(m.state[t] = "WTSEM" /\ m.obj[t] = s)
  PROVE  Cardinality(Requests(m, S, s)) = 0
<1>1. Requests(m, S, s) = {}
  BY DEF Requests
<1> QED BY <1>1, FS_EmptySet

\* The expiry of timed waits.
LEMMA ExpireService ==
  ASSUME NEW m, NEW c, KernelOK(m, c), ServiceOK(m, c),
         NEW n \in Kernel, Only(m, n, {"jiffies", "p_wait", "pov_wait", "left"}),
         Range(n.p_wait) \subseteq OnTimeList(m), NEW now \in Tick
  PROVE  ServiceOK(expire_waiting_tasks(n, now), c)
<1> DEFINE ts == expired(n, now)
           S  == Range(ts)
           W  == {t \in S : n.state[t] \in {"WTSEM", "WTEVT", "WTCOND"}}
           u  == unlink(n, W)
           v  == time_unlink(u, S)
           N(s) == Cardinality({t \in W : n.state[t] = "WTSEM" /\ n.obj[t] = s})
           vl == [s \in Sems |-> sem_inc(v.value[s], SemLimit[s], N(s))]
           ev == [t \in Task |-> IF t \in W THEN NoBits ELSE v.evbits[t]]
           ob == [t \in Task |-> IF t \in W THEN ETIMEOUT ELSE v.obj[t]]
           x  == [v EXCEPT !.value = vl, !.evbits = ev, !.obj = ob]
           r  == add_ready_list(x, ts)
<1>0. m \in Kernel /\ TimeOK(m) /\ Shape(n) /\ m.value \in [Sems -> Int]
  BY CoreParts, ShapeOfKernel, KernelTypes DEF KernelOK
<1>1. expire_waiting_tasks(n, now) = r
  BY DEF expire_waiting_tasks
<1>2. /\ n.state = m.state /\ n.obj = m.obj /\ n.evbits = m.evbits /\ n.value = m.value /\ n.live = m.live
      /\ n.bitset = m.bitset /\ n.refcnt = m.refcnt /\ n.wait_aborted = m.wait_aborted
  BY DEF Only, Fields
<1>3. S \subseteq Task /\ \A t \in S : m.state[t] \in Timed
  <2>1. ts \in Seq(Task) /\ S \subseteq Range(n.p_wait)
    BY Expired
  <2> QED BY <1>0, <2>1, RangeType DEF TimeOK
<1>4. \A s \in Sems : {t \in W : n.state[t] = "WTSEM" /\ n.obj[t] = s} = Requests(m, S, s)
  BY <1>2 DEF Requests
<1> HIDE DEF S, W
<1>5. Shape(u) /\ Only(n, u, {"wait_list"})
  BY <1>0, UnlinkFields
<1> HIDE DEF u
<1>6. Shape(v) /\ Only(u, v, {"p_wait", "pov_wait", "deadline", "left"})
  BY <1>5, TimeUnlinkFields
<1> HIDE DEF v
<1>7. /\ v.state = m.state /\ v.obj = m.obj /\ v.evbits = m.evbits /\ v.value = m.value /\ v.live = m.live
      /\ v.bitset = m.bitset /\ v.refcnt = m.refcnt /\ v.wait_aborted = m.wait_aborted
  BY <1>2, <1>5, <1>6 DEF Only, Fields
<1> HIDE DEF vl, ev, ob
<1>8. /\ Shape(x) /\ Only(v, x, {"value", "evbits", "obj"})
      /\ x.value = vl /\ x.evbits = ev /\ x.obj = ob
  <2>1. DOMAIN ev = Task /\ DOMAIN ob = Task
    BY DEF ev, ob
  <2> QED BY <1>6, <2>1 DEF Shape, Only, Fields
<1> HIDE DEF x
<1>9. /\ Shape(r) /\ Only(x, r, {"bug", "state", "ready"})
      /\ r.state = [t \in Task |-> IF t \in S THEN "READY" ELSE x.state[t]]
  BY <1>8, AddReadyFields DEF S
<1> HIDE DEF r
<1>10. x.state = v.state /\ x.live = v.live /\ x.bitset = v.bitset /\ x.refcnt = v.refcnt /\ x.wait_aborted = v.wait_aborted
  BY <1>8 DEF Only, Fields
<1>11. /\ r.live = m.live /\ r.bitset = m.bitset /\ r.refcnt = m.refcnt /\ r.wait_aborted = m.wait_aborted
       /\ r.value = vl /\ r.evbits = ev /\ r.obj = ob
       /\ r.state = [t \in Task |-> IF t \in S THEN "READY" ELSE m.state[t]]
  BY <1>7, <1>8, <1>9, <1>10 DEF Only, Fields
<1>12. /\ \A t \in Task \ S : r.state[t] = m.state[t] /\ r.obj[t] = m.obj[t] /\ r.evbits[t] = m.evbits[t]
       /\ \A t \in S : r.state[t] = "READY"
  BY <1>3, <1>7, <1>11 DEF ev, ob, W
<1>13. SemsOK(r)
  <2>1. \A s \in Sems : r.value[s] = sem_inc(m.value[s], SemLimit[s], Cardinality(Requests(m, S, s)))
    BY <1>4, <1>7, <1>11 DEF vl
  <2>2. /\ \A t \in Task \ S : /\ r.state[t] = "WTSEM" <=> m.state[t] = "WTSEM"
                               /\ m.state[t] = "WTSEM" => r.obj[t] = m.obj[t]
        /\ \A t \in S : r.state[t] # "WTSEM"
        /\ Sems \cap r.live = Sems \cap m.live /\ SemsOK(m)
    BY <1>11, <1>12 DEF ServiceOK
  <2> QED BY <1>0, <1>3, <2>1, <2>2, TokensBack
<1>14. Rest(r, c)
  <2>1. RestKept(m, r, c, S)
    BY <1>3, <1>11, <1>12 DEF RestKept, SameTasks, Timed, Gone, Returned
  <2>2. CallsOK(c) /\ BlockedOK(m, c, {})
    BY CoreParts DEF KernelOK
  <2> QED BY <2>1, <2>2, RestService DEF ServiceOK, Rest
<1> QED BY <1>1, <1>13, <1>14 DEF ServiceOK, Rest

\* The tasks a tick wakes give their requests for tokens back.
LEMMA AdvanceWithinService ==
  ASSUME NEW m, NEW c, KernelOK(m, c), ServiceOK(m, c), NEW ticks \in Nat, m.jiffies + ticks \in Tick
  PROVE  ServiceOK(advance_within(m, ticks), c) /\ KernelOK(advance_within(m, ticks), c)
<1> DEFINE now == m.jiffies + ticks
           n == [m EXCEPT !.jiffies = now]
<1>0. m \in Kernel /\ DOMAIN m = Fields /\ CoreInv(m, c, {}) /\ OwnersOK(m)
  BY KernelShape
<1>1. advance_within(m, ticks) = expire_waiting_tasks(n, now) /\ now \in Tick
  BY DEF advance_within
<1> HIDE DEF now
<1>2. n \in Kernel
  BY <1>0, <1>1 DEF Kernel
<1>3. Only(m, n, {"jiffies", "p_wait", "pov_wait", "left"}) /\ n.p_wait = m.p_wait
  BY <1>0 DEF Only, Fields
<1>4. Range(n.p_wait) \subseteq OnTimeList(m)
  BY <1>3 DEF OnTimeList
<1> HIDE DEF n
<1>5. ServiceOK(expire_waiting_tasks(n, now), c)
  BY <1>1, <1>2, <1>3, <1>4, ExpireService
<1>6. LET r == advance_within(m, ticks) IN CoreInv(r, c, {}) /\ OwnersOK(r) /\ TimeKept(m, r)
  BY <1>0, AdvanceWithinOK
<1> QED BY <1>1, <1>5, <1>6 DEF KernelOK

\* The same of the advance up to the wrap of the counter ...
LEMMA AdvanceToWrapService ==
  ASSUME NEW m, NEW c, KernelOK(m, c), ServiceOK(m, c)
  PROVE  ServiceOK(advance_to_wrap(m), c) /\ KernelOK(advance_to_wrap(m), c) /\ advance_to_wrap(m).jiffies = 0
<1> DEFINE a == expire_waiting_tasks([m EXCEPT !.jiffies = MaxTick], MaxTick)
           b == IF m.jiffies < MaxTick THEN a ELSE m
           n == [b EXCEPT !.jiffies = 0, !.p_wait = b.pov_wait, !.pov_wait = b.p_wait]
           ticks == MaxTick - m.jiffies
<1>0. m \in Kernel /\ 0 \in Tick /\ CoreInv(m, c, {}) /\ OwnersOK(m)
  BY KernelShape, Ticks
<1>1. advance_to_wrap(m) = expire_waiting_tasks(n, 0)
  BY DEF advance_to_wrap
<1>2. ticks \in Nat /\ m.jiffies + ticks = MaxTick /\ MaxTick \in Tick
  BY <1>0, KernelTypes, Ticks
<1>3. ServiceOK(a, c) /\ KernelOK(a, c)
  <2>1. a = advance_within(m, ticks)
    BY <1>2 DEF advance_within
  <2> HIDE DEF a, ticks
  <2> QED BY <1>2, <2>1, AdvanceWithinService
<1> HIDE DEF a
<1>4. ServiceOK(b, c) /\ KernelOK(b, c)
  BY <1>3
<1>5. b \in Kernel /\ DOMAIN b = Fields
  BY <1>4, KernelShape
<1> HIDE DEF b
<1>6. n \in Kernel
  BY <1>0, <1>5 DEF Kernel
<1>7. Only(b, n, {"jiffies", "p_wait", "pov_wait", "left"}) /\ n.p_wait = b.pov_wait
  BY <1>5 DEF Only, Fields
<1>8. Range(n.p_wait) \subseteq OnTimeList(b)
  BY <1>7 DEF OnTimeList
<1> HIDE DEF n
<1>9. ServiceOK(expire_waiting_tasks(n, 0), c)
  BY <1>0, <1>4, <1>6, <1>7, <1>8, ExpireService
<1>10. LET r == advance_to_wrap(m) IN CoreInv(r, c, {}) /\ OwnersOK(r) /\ TimeKept(m, r) /\ r.jiffies = 0
  BY <1>0, AdvanceToWrapOK
<1> QED BY <1>1, <1>9, <1>10 DEF KernelOK

\* ... and of any advance of the clock.
LEMMA AdvanceService ==
  ASSUME NEW m, NEW c, KernelOK(m, c), ServiceOK(m, c), NEW ticks \in Tick
  PROVE  ServiceOK(advance_jiffies(m, ticks), c) /\ KernelOK(advance_jiffies(m, ticks), c)
<1> DEFINE to_wrap == MaxTick - m.jiffies + 1
           n == advance_to_wrap(m)
           r == advance_jiffies(m, ticks)
<1>0. /\ m \in Kernel /\ m.jiffies \in Nat /\ m.jiffies <= MaxTick /\ ticks \in Nat
      /\ ticks <= MaxTick /\ MaxTick \in Nat
  BY KernelShape, KernelTypes, Ticks
<1>1. ServiceOK(n, c) /\ KernelOK(n, c) /\ n.jiffies = 0
  BY AdvanceToWrapService
<1> HIDE DEF n
<1>2. CASE ticks = 0
  <2>1. r = m
    BY <1>0, <1>2 DEF advance_jiffies
  <2> QED BY <2>1
<1>3. CASE ticks > 0 /\ ticks < to_wrap
  <2>1. r = advance_within(m, ticks) /\ m.jiffies + ticks \in Tick
    BY <1>0, <1>3, Ticks DEF advance_jiffies
  <2> QED BY <1>0, <2>1, AdvanceWithinService
<1>4. CASE ticks = to_wrap
  <2>1. r = n
    BY <1>0, <1>4 DEF advance_jiffies, n
  <2> QED BY <1>1, <2>1
<1>5. CASE ticks > to_wrap
  <2> DEFINE rest == ticks - to_wrap
  <2>1. r = advance_within(n, rest) /\ rest \in Nat /\ n.jiffies + rest \in Tick
    BY <1>0, <1>1, <1>5, Ticks DEF advance_jiffies, n
  <2> HIDE DEF rest
  <2> QED BY <1>1, <2>1, AdvanceWithinService
<1> QED BY <1>0, <1>2, <1>3, <1>4, <1>5

\* A store that concerns no wait, whoever makes it.
LEMMA SameService ==
  ASSUME NEW m, NEW c, Shape(m), CallsOK(c), ServiceOK(m, c), NEW r, Shape(r), NEW F, Only(m, r, F),
         F \cap (Kept \cup {"state", "obj", "evbits", "live"}) = {}
  PROVE  ServiceOK(r, c)
<1>1. Wakes(m, r, {})
  BY WakesNobody
<1> QED BY <1>1, WakesService

\* The tick.
LEMMA SysTickService ==
  ASSUME KernelOK(k, call), ServiceOK(k, call), SysTick
  PROVE  ServiceOK(k', call')
<1> DEFINE l == [t \in Task |-> IF t \in OnTimeList(k) /\ k.left[t] > 0 THEN k.left[t] - 1 ELSE k.left[t]]
           m == [k EXCEPT !.left = l]
           n == systimer_announce(m)
           b == [n EXCEPT !.pendsv = TRUE]
<1>0. k \in Kernel /\ CoreInv(k, call, {}) /\ OwnersOK(k) /\ Shape(k) /\ CallsOK(call) /\ DOMAIN k = Fields
  BY KernelShape
<1>1. k' = b /\ call' = call
  BY DEF SysTick, pass, port_yield
<1>2. l \in [Task -> Tick]
  BY <1>0, KernelTypes, Ticks
<1> HIDE DEF l
<1>3. /\ m \in Kernel /\ SameLinks(k, m) /\ SameControl(k, m)
      /\ m.owner = k.owner /\ m.count = k.count /\ m.owned = k.owned /\ m.obj = k.obj
      /\ m.prio = k.prio /\ m.pendsv = k.pendsv /\ m.wait_aborted = k.wait_aborted
  BY <1>0, <1>2 DEF Kernel, SameLinks, SameControl
<1>4. Shape(m) /\ Only(k, m, {"left"})
  BY <1>0 DEF Shape, Only, Fields
<1> HIDE DEF m
<1>5. KernelOK(m, call)
  <2>1. CoreInv(m, call, {})
    BY <1>0, <1>3, AlterOK
  <2>2. OwnersOK(m)
    BY <1>0, <1>3 DEF OwnersOK, SameLinks, SameControl
  <2> QED BY <2>1, <2>2 DEF KernelOK
<1>6. ServiceOK(m, call)
  BY <1>0, <1>4, SameService DEF Kept
<1>7. ServiceOK(n, call) /\ Shape(n)
  <2>1. CASE m.sched_lock # 0
    <3> DEFINE s == [m EXCEPT !.skipped = m.skipped + 1]
    <3>1. n = s
      BY <2>1 DEF systimer_announce
    <3>2. Shape(s) /\ Only(m, s, {"skipped"})
      BY <1>4 DEF Shape, Only, Fields
    <3> HIDE DEF s, n
    <3>3. ServiceOK(s, call)
      BY <1>0, <1>4, <1>6, <3>2, SameService DEF Kept
    <3> QED BY <3>1, <3>2, <3>3
  <2>2. CASE ~(m.sched_lock # 0)
    <3>1. n = advance_jiffies(m, 1) /\ 1 \in Tick
      BY <2>2, Ticks DEF systimer_announce
    <3> HIDE DEF n
    <3>2. ServiceOK(n, call) /\ KernelOK(n, call)
      BY <1>5, <1>6, <3>1, AdvanceService
    <3> QED BY <3>2, KernelShape
  <2> QED BY <2>1, <2>2
<1> HIDE DEF n
<1>8. Shape(b) /\ Only(n, b, {"pendsv"})
  BY <1>7 DEF Shape, Only, Fields
<1> HIDE DEF b
<1>9. ServiceOK(b, call)
  BY <1>0, <1>7, <1>8, SameService DEF Kept
<1> QED BY <1>1, <1>9

\* The ticks that were put off by a scheduler lock.
LEMMA UnlockFlushService ==
  ASSUME KernelOK(k, call), KernelOK(k', call'), ServiceOK(k, call), NEW t \in Task, UnlockFlush(t)
  PROVE  ServiceOK(k', call')
<1> DEFINE a == advance_jiffies(k, k.skipped)
           m == [a EXCEPT !.skipped = 0]
           r == [m EXCEPT !.pendsv = m.pendsv \/ m.yield_pending, !.yield_pending = FALSE]
<1>0. t = k.currp /\ k.state[t] \in Up /\ CoreInv(k, call, {}) /\ OwnersOK(k) /\ k \in Kernel
      /\ call \in [Task -> Call] /\ CallsOK(call)
  BY ExecUp, KernelShape DEF UnlockFlush
<1>1. k' = r /\ call' = [call EXCEPT ![t] = NoCall]
  BY DEF UnlockFlush, unlock_flush
<1>2. k.skipped \in Tick
  BY <1>0, KernelTypes
<1>3. ServiceOK(a, call) /\ KernelOK(a, call)
  BY <1>2, AdvanceService
<1>4. LET q == advance_jiffies(k, k.skipped) IN CoreInv(q, call, {}) /\ OwnersOK(q) /\ TimeKept(k, q)
  BY <1>0, <1>2, AdvanceOK
<1>5. Shape(a) /\ a \in Kernel /\ a.state[t] \in Up
  BY <1>0, <1>3, <1>4, KernelShape DEF TimeKept
<1> HIDE DEF a
<1>6. Shape(r) /\ Only(a, r, {"skipped", "pendsv", "yield_pending"})
  BY <1>5 DEF Shape, Only, Fields
<1> HIDE DEF r
<1>7. call'[t].op # "exit" /\ \A u \in Task \ {t} : call'[u] = call[u]
  BY <1>0, <1>1 DEF NoCall
<1>8. QuietStep(a, call, k', call', t, {"skipped", "pendsv", "yield_pending"})
  BY <1>1, <1>3, <1>5, <1>6, <1>7 DEF QuietStep, Kept
<1> QED BY <1>8, QuietService

\* Tick, context switch and yield keep the promises.
LEMMA MachineService ==
  ASSUME KernelOK(k, call), KernelOK(k', call'), ServiceOK(k, call), Machine
  PROVE  ServiceOK(k', call')
BY SysTickService, PendSVService, YieldService DEF Machine

\* isix_wait.
LEMMA WaitService ==
  ASSUME KernelOK(k, call), KernelOK(k', call'), ServiceOK(k, call), NEW t \in Task, NEW timeout \in Timeouts,
         Wait(t, timeout)
  PROVE  ServiceOK(k', call')
<1>1. Running(t) /\ k' = set_sleep_timeout(k, "SLEEPING", timeout)
  BY DEF Wait, MayBlock
<1>2. call[t].op = "none" /\ t = k.currp /\ k.state[t] \in Up
  BY <1>1, RunningFree
<1>3. Shape(k) /\ call \in [Task -> Call] /\ k.currp \in Task
  BY KernelShape
<1>4. Touches(k, k', {t}) /\ k'.state[t] = "SLEEPING"
  <2> DEFINE st == "SLEEPING"
  <2>1. st \in State
    BY DEF State
  <2> HIDE DEF st
  <2>2. Touches(k, set_sleep_timeout(k, st, timeout), {t}) /\ set_sleep_timeout(k, st, timeout).state[t] = st
    BY <1>2, <1>3, <2>1, SleepTouches
  <2> QED BY <1>1, <2>2 DEF st
<1>5. call'[t].op # "exit" /\ \A u \in Task \ {t} : call'[u] = call[u]
  BY <1>3 DEF Wait, NoCall
<1>6. {t} = {} \cup {t}
  OBVIOUS
<1>7. StepOf(k, call, k', call', t, {})
  BY <1>2, <1>4, <1>5, <1>6 DEF StepOf
<1> QED BY <1>7, StepService

\* isix_yield, and locking and unlocking the scheduler.
LEMMA ShareService ==
  ASSUME KernelOK(k, call), KernelOK(k', call'), ServiceOK(k, call), NEW t \in Task,
         YieldCall(t) \/ LockScheduler(t) \/ UnlockScheduler(t)
  PROVE  ServiceOK(k', call')
<1>1. Running(t)
  BY DEF YieldCall, LockScheduler, UnlockScheduler
<1>2. call[t].op = "none" /\ t = k.currp /\ k.state[t] \in Up
  BY <1>1, RunningFree
<1>3. DOMAIN k = Fields /\ call \in [Task -> Call]
  BY KernelShape
<1>4. Only(k, k', {"pendsv", "sched_lock"})
  BY <1>3 DEF YieldCall, LockScheduler, UnlockScheduler, port_yield, Only, Fields
<1>5. call'[t].op # "exit" /\ \A u \in Task \ {t} : call'[u] = call[u]
  <2> DEFINE e == [NoCall EXCEPT !.op = "lock", !.pc = "enter"]
  <2>1. call' = call \/ call' = [call EXCEPT ![t] = e] \/ call' = [call EXCEPT ![t] = call[t]]
    BY DEF YieldCall, LockScheduler, UnlockScheduler
  <2>2. e.op # "exit"
    BY DEF NoCall
  <2> HIDE DEF e
  <2> QED BY <1>2, <1>3, <2>1, <2>2
<1>6. QuietStep(k, call, k', call', t, {"pendsv", "sched_lock"})
  BY <1>2, <1>4, <1>5 DEF QuietStep, Kept
<1> QED BY <1>6, QuietService

\* The services of the scheduler keep the promises.
LEMMA SchedOpsService ==
  ASSUME KernelOK(k, call), KernelOK(k', call'), ServiceOK(k, call), SchedOps
  PROVE  ServiceOK(k', call')
BY WaitService, ShareService, UnlockFlushService DEF SchedOps, SleepOps, ShareOps

-----------------------------------------------------------------------------
(***************************************************************************)
(* Event groups.                                                           *)
(***************************************************************************)

\* What event_set does: the tasks S, whose condition the bits cur meet, are
\* woken, and some of the bits are cleared.
SetEffect(m, r, e, cur, S) ==
  /\ Shape(r) /\ Only(m, r, Linkage \cup {"bitset"}) /\ r.live = m.live
  /\ r.wait_aborted = m.wait_aborted /\ r.value = m.value /\ r.refcnt = m.refcnt
  /\ S \subseteq Task
  /\ \A t \in Task \ S : r.state[t] = m.state[t] /\ r.obj[t] = m.obj[t] /\ r.evbits[t] = m.evbits[t]
  /\ \A t \in S : r.state[t] = "READY"
  /\ r.bitset[e] \subseteq cur /\ \A f \in Evts \ {e} : r.bitset[f] = m.bitset[f]

\* Those on the wait list of e whose condition the bits cur meet.
MetBy(m, e, cur) == {t \in Range(m.wait_list[e]) : check_cond(cur, m.evbits[t])}

\* isix_event_set wakes exactly the waiters whose condition the bits now meet.
LEMMA EventSetEffect ==
  ASSUME NEW m, NEW c, KernelOK(m, c), NEW e \in Evts, NEW bits \in SUBSET Bits
  PROVE  SetEffect(m, event_set(m, e, bits), e, m.bitset[e] \cup bits, MetBy(m, e, m.bitset[e] \cup bits))
<1> DEFINE cur == m.bitset[e] \cup bits
           S   == MetBy(m, e, cur)
           K   == {t \in Task : check_cond(cur, m.evbits[t])}
           ws  == Keep(m.wait_list[e], K)
           clr == UNION {m.evbits[t].bits : t \in {u \in Range(ws) : m.evbits[u].clear}}
           n   == unlink(m, Range(ws))
           w   == wakeup(n, ws, EOK)
           b   == w.pendsv \/ \E t \in Range(ws) : prio_gt(m.prio[t], m.prio[m.currp])
           ev  == [t \in Task |-> IF t \in Range(ws) THEN [NoBits EXCEPT !.bits = cur] ELSE w.evbits[t]]
           B   == [w.bitset EXCEPT ![e] = cur \ clr]
           r   == [w EXCEPT !.evbits = ev, !.bitset = B, !.pendsv = b]
<1>0. m \in Kernel /\ Shape(m) /\ m.wait_list \in [Obj -> Seq(Task)] /\ e \in Obj
      /\ m.bitset \in [Evts -> SUBSET Bits]
  BY KernelShape, KernelTypes, SyncObjects
<1>1. event_set(m, e, bits) = r
  BY DEF event_set
<1>2. ws \in Seq(Task) /\ Range(ws) = S /\ S \subseteq Task
  <2>1. m.wait_list[e] \in Seq(Task)
    BY <1>0
  <2>2. Range(m.wait_list[e]) \subseteq Task
    BY <2>1, RangeType
  <2> HIDE DEF K
  <2>3. ws \in Seq(Task) /\ Range(ws) = Range(m.wait_list[e]) \cap K
    BY <2>1, KeepProperties
  <2> QED BY <2>2, <2>3 DEF K, MetBy
<1> HIDE DEF ws, S, cur
<1>3. Shape(n) /\ Only(m, n, {"wait_list"})
  BY <1>0, UnlinkFields
<1> HIDE DEF n
<1>4. /\ Shape(w) /\ Only(n, w, {"p_wait", "pov_wait", "deadline", "left", "obj", "evbits", "bug", "state", "ready"})
      /\ w.state = [t \in Task |-> IF t \in Range(ws) THEN "READY" ELSE n.state[t]]
      /\ w.obj = [t \in Task |-> IF t \in Range(ws) THEN EOK ELSE n.obj[t]]
      /\ w.evbits = [t \in Task |-> IF t \in Range(ws) THEN NoBits ELSE n.evbits[t]]
  BY <1>3, WakeupFields
<1> HIDE DEF w, clr, b
<1>5. ev = [t \in Task |-> IF t \in S THEN [NoBits EXCEPT !.bits = cur] ELSE w.evbits[t]] /\ DOMAIN ev = Task
  BY <1>2
<1>6. w.bitset = m.bitset /\ n.state = m.state /\ n.obj = m.obj /\ n.evbits = m.evbits
  BY <1>3, <1>4 DEF Only, Fields
<1>7. B[e] \subseteq cur /\ \A f \in Evts \ {e} : B[f] = m.bitset[f]
  BY <1>0, <1>6
<1> HIDE DEF ev, B
<1>8. /\ Shape(r) /\ Only(w, r, {"evbits", "bitset", "pendsv"}) /\ r.evbits = ev /\ r.bitset = B
  BY <1>4, <1>5 DEF Shape, Only, Fields
<1> HIDE DEF r
<1>9. /\ r.live = m.live /\ r.wait_aborted = m.wait_aborted /\ r.value = m.value /\ r.refcnt = m.refcnt
      /\ r.state = w.state /\ r.obj = w.obj
  BY <1>3, <1>4, <1>8 DEF Only, Fields
<1>10. Only(m, r, Linkage \cup {"bitset"})
  BY <1>3, <1>4, <1>8 DEF Only, Linkage, Kept
<1>11. \A t \in Task \ S : r.state[t] = m.state[t] /\ r.obj[t] = m.obj[t] /\ r.evbits[t] = m.evbits[t]
  BY <1>2, <1>4, <1>5, <1>6, <1>8, <1>9
<1>12. \A t \in S : r.state[t] = "READY"
  BY <1>2, <1>4, <1>9
<1> QED BY <1>1, <1>2, <1>7, <1>8, <1>9, <1>10, <1>11, <1>12 DEF S, cur, SetEffect

\* The call of the thread t moves on, outside of a wait for an exit.
LEMMA MoveOn ==
  ASSUME NEW m, NEW c, KernelOK(m, c), ServiceOK(m, c), NEW r, NEW d, KernelOK(r, d), NEW t \in Task,
         m.state[t] \in Up, d[t].op # "exit", \A u \in Task \ {t} : d[u] = c[u]
  PROVE  ServiceOK(m, d) /\ CallsOK(d) /\ BlockedOK(m, d, {})
<1> DEFINE e == d[t]
<1>1. m \in Kernel /\ c \in [Task -> Call] /\ d \in [Task -> Call] /\ CallsOK(d)
  BY KernelShape
<1>2. BlockedOK(m, c, {})
  BY CoreParts DEF KernelOK
<1>3. d = [c EXCEPT ![t] = e] /\ e \in Call /\ e.op # "exit" /\ m.state[t] # "WTEVT"
  BY <1>1 DEF Up
<1>4. BlockedOK(m, d, {})
  BY <1>2 DEF BlockedOK, Blocked, Up, Waiting
<1> HIDE DEF e
<1>5. ServiceOK(m, d)
  BY <1>1, <1>3, CallService
<1> QED BY <1>1, <1>4, <1>5

\* The counters and who waits for them are as they were.
LEMMA SemsSame ==
  ASSUME NEW m, SemsOK(m), NEW r, r.value = m.value, Sems \cap r.live = Sems \cap m.live,
         \A t \in Task : /\ r.state[t] = "WTSEM" <=> m.state[t] = "WTSEM"
                         /\ m.state[t] = "WTSEM" => r.obj[t] = m.obj[t]
  PROVE  SemsOK(r)
<1>1. \A s : TokenWaiters(r, s) = TokenWaiters(m, s)
  BY DEF TokenWaiters
<1> QED BY <1>1 DEF SemsOK

\* Who is on the wait list of an event group.
LEMMA EventWaiter ==
  ASSUME NEW m, NEW c, KernelOK(m, c), NEW e \in Evts, NEW t \in Task
  PROVE  t \in Range(m.wait_list[e]) <=> m.state[t] = "WTEVT" /\ c[t].o = e
<1>1. WaitPlaced(m, c, {}) /\ BlockedOK(m, c, {}) /\ CallsOK(c) /\ m \in Kernel
  BY CoreParts DEF KernelOK
<1>2. e \in Obj /\ e \notin Sems /\ e \notin Mtxs /\ e \notin Cvs /\ e \notin Task
  BY SyncObjects, MutexObjects
<1>3. t \in Range(m.wait_list[e]) <=> m.state[t] \in Waiting /\ Aw(m, c, t) = e
  BY <1>1, <1>2 DEF WaitPlaced
<1>4. m.state[t] \in Waiting => Blocked(m.state[t], c[t], m.obj[t], m.wait_aborted[t])
  BY <1>1 DEF BlockedOK
<1>5. m.state[t] = "WTEXIT" => c[t].o \in Task
  BY <1>1, <1>4 DEF Blocked, CallsOK, CallKind, Waiting, Task
<1> QED BY <1>2, <1>3, <1>4, <1>5 DEF Blocked, Waiting, Aw

\* So nobody is left waiting for bits that are set.
LEMMA EventSetService ==
  ASSUME NEW m, NEW c, KernelOK(m, c), ServiceOK(m, c), NEW e \in Evts, NEW bits \in SUBSET Bits
  PROVE  ServiceOK(event_set(m, e, bits), c)
<1> DEFINE r   == event_set(m, e, bits)
           cur == m.bitset[e] \cup bits
           S   == MetBy(m, e, cur)
<1>0. SetEffect(m, r, e, cur, S)
  BY EventSetEffect
<1>1. /\ r.live = m.live
      /\ r.wait_aborted = m.wait_aborted /\ r.value = m.value /\ r.refcnt = m.refcnt
      /\ S \subseteq Task
      /\ \A t \in Task \ S : r.state[t] = m.state[t] /\ r.obj[t] = m.obj[t] /\ r.evbits[t] = m.evbits[t]
      /\ \A t \in S : r.state[t] = "READY"
      /\ r.bitset[e] \subseteq cur /\ \A f \in Evts \ {e} : r.bitset[f] = m.bitset[f]
  <2> HIDE DEF r, cur, S
  <2> QED BY <1>0 DEF SetEffect
<1>2. \A t \in S : m.state[t] = "WTEVT"
  BY <1>1, EventWaiter DEF MetBy
<1>3. CallsOK(c) /\ BlockedOK(m, c, {})
  BY CoreParts DEF KernelOK
<1>4. \A t \in Task \ S : m.state[t] = "WTEVT" /\ c[t].o = e => ~check_cond(cur, m.evbits[t])
  BY EventWaiter DEF MetBy
<1> HIDE DEF r, S, cur
<1>5. SemsOK(r)
  <2>1. \A t \in Task : /\ r.state[t] = "WTSEM" <=> m.state[t] = "WTSEM"
                        /\ m.state[t] = "WTSEM" => r.obj[t] = m.obj[t]
    BY <1>1, <1>2
  <2> QED BY <1>1, <2>1, SemsSame DEF ServiceOK
<1>6. EventsOK(r, c)
  <2> SUFFICES ASSUME NEW t \in Task, r.state[t] = "WTEVT"
               PROVE  ~check_cond(r.bitset[c[t].o], r.evbits[t])
    BY DEF EventsOK
  <2>1. t \notin S /\ m.state[t] = "WTEVT" /\ r.evbits[t] = m.evbits[t]
    BY <1>1
  <2>2. c[t].o \in Evts
    BY <1>3, <2>1 DEF BlockedOK, Blocked, CallsOK, CallKind
  <2>3. CASE c[t].o = e
    <3>1. ~check_cond(cur, m.evbits[t]) /\ r.bitset[c[t].o] \subseteq cur
      BY <1>1, <1>4, <2>1, <2>3
    <3> QED BY <2>1, <3>1 DEF check_cond
  <2>4. CASE c[t].o # e
    <3>1. r.bitset[c[t].o] = m.bitset[c[t].o]
      BY <1>1, <2>2, <2>4
    <3> QED BY <2>1, <3>1 DEF ServiceOK, EventsOK
  <2> QED BY <2>3, <2>4
<1>7. ExitsOK(r, c)
  <2> SUFFICES ASSUME NEW t \in Task, Returned(r, c, t)
               PROVE  r.state[c[t].o] \in Gone
    BY DEF ExitsOK
  <2>1. t \notin S
    BY <1>2, <1>3 DEF Returned, BlockedOK, Blocked
  <2>2. Returned(m, c, t)
    BY <1>1, <2>1 DEF Returned
  <2>3. m.state[c[t].o] \in Gone
    BY <2>2 DEF ServiceOK, ExitsOK
  <2>4. c[t].o \in Task
    BY <1>3 DEF Returned, CallsOK, CallKind, Task
  <2>5. c[t].o \notin S
    BY <1>2, <2>3 DEF Gone
  <2> QED BY <1>1, <2>3, <2>4, <2>5
<1>8. RefsOK(r, c)
  BY <1>1 DEF ServiceOK, RefsOK
<1> QED BY <1>5, <1>6, <1>7, <1>8 DEF ServiceOK, r

\* Clearing bits meets no condition.
LEMMA EventClearService ==
  ASSUME NEW m, NEW c, KernelOK(m, c), ServiceOK(m, c), NEW e \in Evts, NEW bits
  PROVE  ServiceOK(event_clear(m, e, bits), c)
<1> DEFINE r == event_clear(m, e, bits)
<1>1. /\ r.live = m.live /\ r.wait_aborted = m.wait_aborted /\ r.value = m.value /\ r.refcnt = m.refcnt
      /\ r.state = m.state /\ r.obj = m.obj /\ r.evbits = m.evbits
      /\ r.bitset = [m.bitset EXCEPT ![e] = m.bitset[e] \ bits]
  BY KernelShape DEF event_clear, Fields
<1>2. CallsOK(c) /\ BlockedOK(m, c, {}) /\ m.bitset \in [Evts -> SUBSET Bits]
  BY CoreParts, KernelTypes DEF KernelOK
<1> HIDE DEF r
<1>3. \A f \in Evts : r.bitset[f] \subseteq m.bitset[f]
  BY <1>1, <1>2
<1>4. RestKept(m, r, c, {})
  BY <1>1, <1>3 DEF RestKept, SameTasks
<1>5. Rest(r, c)
  BY <1>2, <1>4, RestService DEF ServiceOK, Rest
<1>6. SemsOK(r)
  BY <1>1, SemsSame DEF ServiceOK
<1> QED BY <1>5, <1>6 DEF ServiceOK, Rest, r

\* A thread blocks only when what it waits for is not there.
LEMMA EventBlockService ==
  ASSUME NEW m, NEW c, KernelOK(m, c), ServiceOK(m, c), NEW r, NEW d, KernelOK(r, d), NEW t \in Task,
         t = m.currp, m.state[t] \in Up, NEW e \in Evts, NEW w, NEW tout, r = event_block(m, e, w, tout),
         ~check_cond(m.bitset[e], w),
         d[t].op # "exit", d[t].o = e, \A u \in Task \ {t} : d[u] = c[u]
  PROVE  ServiceOK(r, d)
<1> DEFINE a == [m EXCEPT !.wait_aborted = [@ EXCEPT ![t] = FALSE]]
           b == set_sleep_timeout(a, "WTEVT", tout)
           q == [b EXCEPT !.wait_list[e] = Append(@, t), !.evbits = [@ EXCEPT ![t] = w]]
<1>0. Shape(m) /\ DOMAIN m = Fields
  BY KernelShape
<1>1. r = q
  BY DEF event_block
<1>2. Shape(a) /\ Only(m, a, {"wait_aborted"}) /\ a.wait_aborted = [m.wait_aborted EXCEPT ![t] = FALSE]
      /\ a.currp = t
  BY <1>0 DEF Shape, Only, Fields
<1> HIDE DEF a
<1>3. Shape(b) /\ Only(a, b, {"ready", "state", "deadline", "left", "p_wait", "pov_wait"})
      /\ b.state = [a.state EXCEPT ![t] = "WTEVT"]
  <2> DEFINE st == "WTEVT"
  <2>1. st \in State /\ a.currp \in Task
    BY <1>2 DEF State
  <2> HIDE DEF st
  <2>2. LET z == set_sleep_timeout(a, st, tout) IN
        /\ Shape(z) /\ Only(a, z, {"ready", "state", "deadline", "left", "p_wait", "pov_wait"})
        /\ z.state = [a.state EXCEPT ![a.currp] = st]
    BY <1>2, <2>1, SleepFields
  <2> QED BY <1>2, <2>2 DEF st
<1> HIDE DEF b
<1>4. Only(b, q, {"wait_list", "evbits"}) /\ q.evbits = [b.evbits EXCEPT ![t] = w]
  BY <1>3 DEF Shape, Only, Fields
<1>5. /\ r.value = m.value /\ r.bitset = m.bitset /\ r.refcnt = m.refcnt /\ r.live = m.live /\ r.obj = m.obj
      /\ r.wait_aborted = [m.wait_aborted EXCEPT ![t] = FALSE]
      /\ r.state = [m.state EXCEPT ![t] = "WTEVT"] /\ r.evbits = [m.evbits EXCEPT ![t] = w]
  <2>1. /\ a.value = m.value /\ a.bitset = m.bitset /\ a.refcnt = m.refcnt /\ a.live = m.live /\ a.obj = m.obj
        /\ a.state = m.state /\ a.evbits = m.evbits
    BY <1>2 DEF Only, Fields
  <2>2. /\ b.value = a.value /\ b.bitset = a.bitset /\ b.refcnt = a.refcnt /\ b.live = a.live /\ b.obj = a.obj
        /\ b.wait_aborted = a.wait_aborted /\ b.evbits = a.evbits
    BY <1>3 DEF Only, Fields
  <2>3. /\ q.value = b.value /\ q.bitset = b.bitset /\ q.refcnt = b.refcnt /\ q.live = b.live /\ q.obj = b.obj
        /\ q.wait_aborted = b.wait_aborted /\ q.state = b.state
    BY <1>4 DEF Only, Fields
  <2> QED BY <1>1, <1>2, <1>3, <1>4, <2>1, <2>2, <2>3
<1> HIDE DEF q
<1>6. /\ r.state[t] = "WTEVT" /\ r.evbits[t] = w
      /\ \A u \in Task \ {t} : /\ r.state[u] = m.state[u] /\ r.evbits[u] = m.evbits[u]
                               /\ r.wait_aborted[u] = m.wait_aborted[u]
  BY <1>0, <1>5 DEF Shape
<1>7. ServiceOK(m, d) /\ CallsOK(d)
  BY MoveOn
<1>8. SemsOK(r)
  <2>1. \A u \in Task : /\ r.state[u] = "WTSEM" <=> m.state[u] = "WTSEM"
                        /\ m.state[u] = "WTSEM" => r.obj[u] = m.obj[u]
    BY <1>5, <1>6 DEF Up
  <2>2. SemsOK(m) /\ r.value = m.value /\ Sems \cap r.live = Sems \cap m.live
    BY <1>5 DEF ServiceOK
  <2> QED BY <2>1, <2>2, SemsSame
<1>9. EventsOK(r, d)
  BY <1>5, <1>6, <1>7 DEF EventsOK, ServiceOK
<1>10. ExitsOK(r, d)
  <2> SUFFICES ASSUME NEW u \in Task, Returned(r, d, u)
               PROVE  r.state[d[u].o] \in Gone
    BY DEF ExitsOK
  <2>1. u # t /\ Returned(m, d, u)
    BY <1>6 DEF Returned
  <2>2. m.state[d[u].o] \in Gone /\ d[u].o \in Task
    BY <1>7, <2>1 DEF ServiceOK, ExitsOK, Returned, CallsOK, CallKind, Task
  <2>3. d[u].o # t
    BY <2>2 DEF Up, Gone
  <2> QED BY <1>6, <2>2, <2>3
<1>11. RefsOK(r, d)
  BY <1>5, <1>7 DEF ServiceOK, RefsOK
<1> QED BY <1>8, <1>9, <1>10, <1>11 DEF ServiceOK

\* Bits that are polled, set and cleared by threads and interrupt handlers.
LEMMA EventDataService ==
  ASSUME KernelOK(k, call), KernelOK(k', call'), ServiceOK(k, call), NEW e \in Evts,
         \/ \E t \in Task, w \in EvWaits : EventPoll(t, e, w)
         \/ \E t \in Task, bits \in SetBits : EventSet(t, e, bits)
         \/ \E bits \in SetBits : EventSetIsr(e, bits) \/ EventClear(e, bits)
  PROVE  ServiceOK(k', call')
<1>1. call' = call
  BY DEF EventPoll, EventSet, EventSetIsr, EventClear
<1>2. \/ k' = k
      \/ \E bits : k' = event_clear(k, e, bits)
      \/ \E bits \in SUBSET Bits : k' = event_set(k, e, bits)
  BY EventAssumption DEF EventPoll, EventSet, EventSetIsr, EventClear
<1> QED BY <1>1, <1>2, EventSetService, EventClearService

\* isix_event_wait and isix_event_sync begin.
LEMMA EventBeginService ==
  ASSUME KernelOK(k, call), KernelOK(k', call'), ServiceOK(k, call), NEW t \in Task, NEW e \in Evts,
         NEW timeout \in Timeouts,
         \/ \E w \in EvWaits : EventWait(t, e, w, timeout)
         \/ \E bits \in SetBits : EventSync(t, e, bits, SyncBits, timeout)
  PROVE  ServiceOK(k', call')
<1>1. Running(t) /\ k' = k
  BY DEF EventWait, EventSync, MayBlock
<1>2. k.state[t] \in Up /\ call \in [Task -> Call]
  BY <1>1, RunningFree, KernelShape
<1>3. call'[t].op # "exit" /\ \A u \in Task \ {t} : call'[u] = call[u]
  BY <1>2 DEF EventWait, EventSync, NoCall
<1> QED BY <1>1, <1>2, <1>3, LeaveService

\* The critical section of isix_event_wait.
LEMMA EventWaitEnterService ==
  ASSUME KernelOK(k, call), KernelOK(k', call'), ServiceOK(k, call), NEW t \in Task, EventWaitEnter(t)
  PROVE  ServiceOK(k', call')
<1> DEFINE e == call[t].o
           w == call[t].w
           n == event_clear(k, e, w.bits)
<1>1. /\ t = k.currp /\ k.state[t] \in Up /\ CoreInv(k, call, {}) /\ OwnersOK(k)
      /\ call \in [Task -> Call] /\ call[t] \in Call /\ e \in Evts /\ call[t].op = "evt"
  <2>1. Exec(t) /\ call[t].pc = "enter" /\ call[t].op = "evt" /\ call[t].op \in Blocking
    BY DEF EventWaitEnter, Blocking
  <2> QED BY <2>1, EnterUp DEF CallKind
<1>2. /\ \A u \in Task \ {t} : call'[u] = call[u]
      /\ call'[t].op # "exit"
      /\ call'[t].op # "none" => call'[t].o = e
  BY <1>1 DEF EventWaitEnter, NoCall, Call
<1>3. \/ k' = leave(k, t) \/ k' = leave(n, t)
      \/ /\ ~check_cond(k.bitset[e], w) /\ k' = event_block(k, e, w, TimeLeft(t))
         /\ call'[t].op # "none"
  BY <1>1 DEF EventWaitEnter, Call
<1> HIDE DEF e, w
<1>4. CASE k' = leave(k, t)
  BY <1>1, <1>2, <1>4, LeaveService
<1>5. CASE k' = leave(n, t)
  <2>1. CoreInv(n, call, {}) /\ OwnersOK(n) /\ Signalled(k, n)
    BY <1>1, EventClearOK
  <2>2. ServiceOK(n, call)
    BY <1>1, EventClearService
  <2> HIDE DEF n
  <2>3. KernelOK(n, call) /\ n.state[t] \in Up
    BY <1>1, <2>1 DEF Signalled, KernelOK
  <2> QED BY <1>2, <1>5, <2>2, <2>3, LeaveService
<1>6. CASE /\ ~check_cond(k.bitset[e], w) /\ k' = event_block(k, e, w, TimeLeft(t))
           /\ call'[t].op # "none"
  <2>1. call'[t].o = e
    BY <1>2, <1>6
  <2> QED BY <1>1, <1>2, <1>6, <2>1, EventBlockService
<1> QED BY <1>3, <1>4, <1>5, <1>6

\* Back from a wait or a rendezvous.
LEMMA EventReturnService ==
  ASSUME KernelOK(k, call), KernelOK(k', call'), ServiceOK(k, call), NEW t \in Task,
         EventWaitReturn(t) \/ EventSyncReturn(t)
  PROVE  ServiceOK(k', call')
<1>1. Exec(t) /\ call[t].pc = "after" /\ (k' = k \/ k' = leave(k, t))
  BY DEF EventWaitReturn, EventSyncReturn
<1>2. call \in [Task -> Call]
  BY KernelShape
<1>3. call'[t].op # "exit" /\ \A u \in Task \ {t} : call'[u] = call[u]
  <2>1. call[t].op \in {"evt", "sync"} /\ call[t] \in Call
    BY <1>2 DEF EventWaitReturn, EventSyncReturn
  <2> DEFINE a == [call[t] EXCEPT !.pc = "enter"]
             b == [call[t] EXCEPT !.op = "evt", !.pc = "enter", !.set = {}, !.tmo = TimeLeft(t),
                                  !.start = IF call[t].tmo = Infinite THEN 0 ELSE k.jiffies]
  <2>2. call' = [call EXCEPT ![t] = NoCall] \/ call' = [call EXCEPT ![t] = a] \/ call' = [call EXCEPT ![t] = b]
    BY DEF EventWaitReturn, EventSyncReturn
  <2>3. NoCall.op # "exit" /\ a.op # "exit" /\ b.op # "exit"
    BY <2>1 DEF NoCall, Call
  <2> HIDE DEF a, b
  <2> QED BY <1>2, <2>2, <2>3
<1> QED BY <1>1, <1>3, ReturnService

\* The critical section of isix_event_sync: the bits it waits for were not all
\* there, and those that its wake-ups cleared are not there any more.
LEMMA EventSyncEnterService ==
  ASSUME KernelOK(k, call), KernelOK(k', call'), ServiceOK(k, call), NEW t \in Task, EventSyncEnter(t)
  PROVE  ServiceOK(k', call')
<1> DEFINE e == call[t].o
           w == call[t].w
           cur == k.bitset[e] \cup call[t].set
           n == event_set(k, e, call[t].set)
           q == event_clear(n, e, w.bits)
<1>1. /\ t = k.currp /\ k.state[t] \in Up /\ CoreInv(k, call, {}) /\ OwnersOK(k)
      /\ call \in [Task -> Call] /\ call[t] \in Call /\ e \in Evts /\ call[t].op = "sync" /\ w.all
  <2>1. Exec(t) /\ call[t].pc = "enter" /\ call[t].op = "sync" /\ call[t].op \in Blocking
    BY DEF EventSyncEnter, Blocking
  <2> QED BY <2>1, EnterUp DEF CallKind
<1>2. /\ \A u \in Task \ {t} : call'[u] = call[u]
      /\ call'[t].op # "exit"
      /\ call'[t].op # "none" => call'[t].o = e
  BY <1>1 DEF EventSyncEnter, NoCall, Call
<1>3. \/ k' = n \/ k' = q
      \/ /\ ~(w.bits \subseteq cur) /\ k' = event_block(n, e, w, call[t].tmo)
         /\ call'[t].op # "none"
  BY <1>1 DEF EventSyncEnter, Call
<1>4. call[t].set \in SUBSET Bits
  BY <1>1 DEF Call
<1>5. CoreInv(n, call, {}) /\ OwnersOK(n) /\ Signalled(k, n) /\ ServiceOK(n, call)
  BY <1>1, <1>4, EventSetOK, EventSetService
<1>6. n.bitset[e] \subseteq cur
  <2>1. SetEffect(k, n, e, cur, MetBy(k, e, cur))
    BY <1>1, <1>4, EventSetEffect
  <2> QED BY <2>1 DEF SetEffect
<1> HIDE DEF n, cur
<1>7. KernelOK(n, call) /\ n.state[t] \in Up /\ n.currp = t
  BY <1>1, <1>5 DEF Signalled, KernelOK
<1> HIDE DEF e, w
<1>8. CASE k' = n
  BY <1>2, <1>5, <1>7, <1>8, LeaveService
<1>9. CASE k' = q
  <2>1. CoreInv(q, call, {}) /\ OwnersOK(q) /\ Signalled(n, q)
    BY <1>1, <1>5, EventClearOK
  <2>2. ServiceOK(q, call)
    BY <1>1, <1>5, <1>7, EventClearService
  <2> HIDE DEF q
  <2>3. KernelOK(q, call) /\ q.state[t] \in Up
    BY <1>7, <2>1 DEF Signalled, KernelOK
  <2> QED BY <1>2, <1>9, <2>2, <2>3, LeaveService
<1>10. CASE /\ ~(w.bits \subseteq cur) /\ k' = event_block(n, e, w, call[t].tmo)
            /\ call'[t].op # "none"
  <2>1. call'[t].o = e /\ ~check_cond(n.bitset[e], w)
    BY <1>1, <1>2, <1>6, <1>10 DEF check_cond
  <2> QED BY <1>1, <1>2, <1>5, <1>7, <1>10, <2>1, EventBlockService
<1> QED BY <1>3, <1>8, <1>9, <1>10

\* Everyone leaves a group that is destroyed.
LEMMA EventDestroyService ==
  ASSUME KernelOK(k, call), KernelOK(k', call'), ServiceOK(k, call), NEW t \in Task, NEW e \in Evts,
         EventDestroy(t, e)
  PROVE  ServiceOK(k', call')
<1> DEFINE ws == k.wait_list[e]
           n  == unlink(k, Range(ws))
           w  == wakeup(n, ws, EDESTROY)
<1>1. call' = call /\ k' = event_destroy(k, e)
  BY DEF EventDestroy
<1>2. Shape(k) /\ CallsOK(call) /\ ws \in Seq(Task) /\ e \notin Sems
  BY KernelShape, SyncObjects
<1>3. \A u \in Range(ws) : u \in Task /\ k.state[u] = "WTEVT"
  BY <1>2, RangeType, EventWaiter
<1>4. Wakes(k, n, {}) /\ Shape(n)
  <2>1. Wakes(k, n, {})
    BY <1>2, FunctionsWake
  <2> QED BY <2>1 DEF Wakes
<1> DEFINE z == k.pendsv \/ \E u \in Range(ws) : prio_gt(k.prio[u], k.prio[k.currp])
           z2 == w.pendsv \/ \E u \in Range(ws) : prio_gt(k.prio[u], k.prio[k.currp])
<1>5. k' = [w EXCEPT !.live = @ \ {e}, !.pendsv = z2]
  BY <1>1 DEF event_destroy
<1> HIDE DEF n, z2
<1>6. Wakes(n, w, Range(ws)) /\ Shape(w)
  <2>1. Wakes(n, w, Range(ws))
    <3> HIDE DEF ws
    <3> QED BY <1>4, FunctionsWake
  <2> QED BY <2>1 DEF Wakes
<1> HIDE DEF w, ws
<1>7. Shape(k') /\ Only(w, k', {"live", "pendsv"}) /\ Sems \cap k'.live = Sems \cap w.live
  BY <1>2, <1>5, <1>6 DEF Shape, Only, Fields
<1>8. Wakes(w, k', {})
  BY <1>6, <1>7, WakesNobody DEF Kept
<1>9. Wakes(k, w, Range(ws))
  <2>1. Wakes(k, w, {} \cup Range(ws))
    BY <1>4, <1>6, WakesTrans
  <2> QED BY <2>1
<1>10. Wakes(k, k', Range(ws))
  <2>1. Wakes(k, k', Range(ws) \cup {})
    BY <1>8, <1>9, WakesTrans
  <2> QED BY <2>1
<1>11. \A u \in Range(ws) : u \in Task /\ k.state[u] \notin {"WTSEM", "WTEXIT"} \cup Gone
  BY <1>3 DEF Gone
<1> QED BY <1>1, <1>2, <1>10, <1>11, WakesService

\* A new group has no bits, and nobody waits for it.
LEMMA EventCreateService ==
  ASSUME KernelOK(k, call), KernelOK(k', call'), ServiceOK(k, call), NEW t \in Task, NEW e \in Evts,
         EventCreate(t, e)
  PROVE  ServiceOK(k', call')
<1>1. /\ call' = call /\ CallsOK(call) /\ BlockedOK(k, call, {}) /\ k.bitset \in [Evts -> SUBSET Bits]
      /\ e \notin Sems /\ DOMAIN k = Fields
  BY CoreParts, KernelTypes, KernelShape, SyncObjects DEF KernelOK, EventCreate
<1>2. /\ k'.wait_aborted = k.wait_aborted /\ k'.value = k.value /\ k'.refcnt = k.refcnt
      /\ k'.state = k.state /\ k'.obj = k.obj /\ k'.evbits = k.evbits
      /\ k'.bitset = [k.bitset EXCEPT ![e] = {}] /\ k'.live = k.live \cup {e}
  BY <1>1 DEF EventCreate, Fields
<1>3. \A f \in Evts : k'.bitset[f] \subseteq k.bitset[f]
  BY <1>1, <1>2
<1>4. RestKept(k, k', call, {})
  BY <1>2, <1>3 DEF RestKept, SameTasks
<1>5. Rest(k', call)
  BY <1>1, <1>4, RestService DEF ServiceOK, Rest
<1>6. SemsOK(k')
  <2>1. SemsOK(k) /\ Sems \cap k'.live = Sems \cap k.live
    BY <1>1, <1>2 DEF ServiceOK
  <2> QED BY <1>2, <2>1, SemsSame
<1> QED BY <1>1, <1>5, <1>6 DEF ServiceOK, Rest

\* The services of event groups keep the promises.
LEMMA EventOpsService ==
  ASSUME KernelOK(k, call), KernelOK(k', call'), ServiceOK(k, call), EventOps
  PROVE  ServiceOK(k', call')
BY EventDataService, EventBeginService, EventWaitEnterService, EventReturnService, EventSyncEnterService,
   EventDestroyService, EventCreateService DEF EventOps

\* The thread t raises the bit of a notifier.
LEMMA NotifyService ==
  ASSUME KernelOK(k, call), KernelOK(k', call'), ServiceOK(k, call), NEW t \in Task, Notify(t)
  PROVE  ServiceOK(k', call')
<1> DEFINE e == call[t].o
           n == event_set(k, e, call[t].set)
<1>1. /\ k.state[t] \in Up /\ CoreInv(k, call, {}) /\ OwnersOK(k)
      /\ call \in [Task -> Call] /\ call[t] \in Call /\ k' = n
  BY ExecUp DEF Notify
<1>2. e \in Evts /\ call[t].set \in SUBSET Bits
  BY <1>1, CoreParts DEF CallsOK, CallKind, Call, Notify
<1>3. CoreInv(n, call, {}) /\ OwnersOK(n) /\ Signalled(k, n) /\ ServiceOK(n, call)
  BY <1>1, <1>2, EventSetOK, EventSetService
<1>4. call'[t].op # "exit" /\ \A u \in Task \ {t} : call'[u] = call[u]
  BY <1>1 DEF Notify, NoCall
<1> HIDE DEF n
<1>5. KernelOK(n, call) /\ n.state[t] \in Up
  BY <1>1, <1>3 DEF Signalled, KernelOK
<1> QED BY <1>1, <1>3, <1>4, <1>5, LeaveService

\* Connecting a notifier to a bit.
LEMMA ConnectService ==
  ASSUME KernelOK(k, call), KernelOK(k', call'), ServiceOK(k, call), NEW t \in Task,
         \/ EventStoreBit(t)
         \/ \E n \in Notifier, e \in Evts : EventDisconnect(t, n, e) \/ \E bit \in Bits : EventConnect(t, n, e, bit)
  PROVE  ServiceOK(k', call')
<1>1. DOMAIN k = Fields /\ call \in [Task -> Call]
  BY KernelShape
<1>2. k.state[t] \in Up
  BY RunningFree, ExecUp DEF EventStoreBit, EventDisconnect, EventConnect
<1>3. Only(k, k', {"evt", "bitno"})
  BY <1>1 DEF EventStoreBit, EventDisconnect, EventConnect, Only, Fields
<1>4. call'[t].op # "exit" /\ \A u \in Task \ {t} : call'[u] = call[u]
  <2>1. PICK d : call' = [call EXCEPT ![t] = d] /\ d.op # "exit"
    <3> DEFINE D(n) == [NoCall EXCEPT !.op = "disconnect", !.pc = "enter", !.o = n]
               C(n, b) == [NoCall EXCEPT !.op = "connect", !.pc = "enter", !.o = n, !.set = {b}]
    <3>1. NoCall.op # "exit" /\ \A n : D(n).op # "exit" /\ \A b : C(n, b).op # "exit"
      BY DEF NoCall
    <3>2. \/ call' = [call EXCEPT ![t] = NoCall] \/ \E n : call' = [call EXCEPT ![t] = D(n)]
          \/ \E n, b : call' = [call EXCEPT ![t] = C(n, b)]
      BY DEF EventStoreBit, EventDisconnect, EventConnect
    <3> HIDE DEF C, D
    <3> QED BY <3>1, <3>2
  <2> QED BY <1>1, <2>1
<1>5. QuietStep(k, call, k', call', t, {"evt", "bitno"})
  BY <1>2, <1>3, <1>4 DEF QuietStep, Kept
<1> QED BY <1>5, QuietService

\* So do the notifications of connected queues and semaphores.
LEMMA ConnectOpsService ==
  ASSUME KernelOK(k, call), KernelOK(k', call'), ServiceOK(k, call), ConnectOps
  PROVE  ServiceOK(k', call')
BY ConnectService, NotifyService DEF ConnectOps

-----------------------------------------------------------------------------
(***************************************************************************)
(* Semaphores.                                                             *)
(***************************************************************************)

\* Who is on the wait list of a semaphore.
LEMMA SemWaiters ==
  ASSUME NEW m, NEW c, KernelOK(m, c), NEW s \in Sems
  PROVE  /\ Range(m.wait_list[s]) = TokenWaiters(m, s) /\ m.wait_list[s] \in Seq(Task)
         /\ TokenWaiters(m, s) = {} <=> m.wait_list[s] = <<>>
         /\ m.wait_list[s] # <<>> => Head(m.wait_list[s]) \in TokenWaiters(m, s)
<1>1. WaitPlaced(m, c, {}) /\ BlockedOK(m, c, {}) /\ CallsOK(c) /\ m \in Kernel
  BY CoreParts DEF KernelOK
<1>2. s \in Obj /\ s \notin Evts /\ s \notin Mtxs /\ s \notin Cvs /\ s \notin Task
  BY SyncObjects, MutexObjects
<1>3. m.wait_list[s] \in Seq(Task)
  BY <1>2, KernelShape
<1>4. \A t \in Task : t \in Range(m.wait_list[s]) <=> m.state[t] = "WTSEM" /\ m.obj[t] = s
  <2> TAKE t \in Task
  <2>1. t \in Range(m.wait_list[s]) <=> m.state[t] \in Waiting /\ Aw(m, c, t) = s
    BY <1>1, <1>2 DEF WaitPlaced
  <2>2. m.state[t] \in Waiting => Blocked(m.state[t], c[t], m.obj[t], m.wait_aborted[t])
    BY <1>1 DEF BlockedOK
  <2>3. /\ m.state[t] = "WTEXIT" => c[t].o \in Task
        /\ m.state[t] = "WTEVT" => c[t].o \in Evts
    BY <1>1, <2>2 DEF Blocked, CallsOK, CallKind, Waiting, Task
  <2> QED BY <1>2, <2>1, <2>2, <2>3 DEF Blocked, Waiting, Aw
<1>5. Range(m.wait_list[s]) = TokenWaiters(m, s)
  BY <1>3, <1>4, RangeType DEF TokenWaiters
<1> QED BY <1>3, <1>5, EmptyRange

\* A counter is changed, and still says how many wait for a token.
LEMMA CounterService ==
  ASSUME NEW m, NEW c, KernelOK(m, c), ServiceOK(m, c), NEW s \in Sems, NEW v \in Int,
         Cardinality(TokenWaiters(m, s)) = (IF v < 0 THEN -v ELSE 0), NEW r,
         r = [m EXCEPT !.value = [m.value EXCEPT ![s] = v]]
  PROVE  ServiceOK(r, c) /\ KernelOK(r, c) /\ r.state = m.state
<1>0. m.value \in [Sems -> Int] /\ DOMAIN m = Fields /\ CallsOK(c) /\ BlockedOK(m, c, {})
      /\ CoreInv(m, c, {}) /\ OwnersOK(m)
  BY CoreParts, KernelTypes, KernelShape DEF KernelOK
<1>1. KernelOK(r, c)
  BY <1>0, CounterOK DEF KernelOK
<1>2. /\ r.wait_aborted = m.wait_aborted /\ r.bitset = m.bitset /\ r.refcnt = m.refcnt
      /\ r.state = m.state /\ r.obj = m.obj /\ r.evbits = m.evbits /\ r.live = m.live
      /\ r.value = [m.value EXCEPT ![s] = v]
  BY <1>0 DEF Fields
<1>3. RestKept(m, r, c, {})
  BY <1>2 DEF RestKept, SameTasks
<1>4. Rest(r, c)
  BY <1>0, <1>3, RestService DEF ServiceOK, Rest
<1>5. SemsOK(r)
  <2>1. \A u : TokenWaiters(r, u) = TokenWaiters(m, u)
    BY <1>2 DEF TokenWaiters
  <2> SUFFICES ASSUME NEW u \in Sems \cap m.live
               PROVE  Cardinality(TokenWaiters(r, u)) = IF r.value[u] < 0 THEN -r.value[u] ELSE 0
    BY <1>2 DEF SemsOK
  <2>2. CASE u = s
    BY <1>0, <1>2, <2>1, <2>2
  <2>3. CASE u # s
    BY <1>0, <1>2, <2>1, <2>3 DEF ServiceOK, SemsOK
  <2> QED BY <2>2, <2>3
<1> QED BY <1>1, <1>2, <1>4, <1>5 DEF ServiceOK, Rest

\* All waiters of s are woken, and s ends or counts nobody.
Emptied(m, r, s) ==
  LET S == TokenWaiters(m, s) IN
  /\ r.refcnt = m.refcnt /\ r.bitset = m.bitset /\ r.wait_aborted = m.wait_aborted
  /\ SameTasks(m, r, S) /\ \A t \in S : r.state[t] \in Up
  /\ \A u \in Sems \ {s} : r.value[u] = m.value[u] /\ (u \in r.live <=> u \in m.live)
  /\ s \in r.live => r.value[s] \in Nat

\* A semaphore that lost all of its waiters at once.
LEMMA EmptiedService ==
  ASSUME NEW m, NEW c, KernelOK(m, c), ServiceOK(m, c), NEW s \in Sems, NEW r, Emptied(m, r, s)
  PROVE  ServiceOK(r, c)
<1> DEFINE S == TokenWaiters(m, s)
<1>0. CallsOK(c) /\ BlockedOK(m, c, {})
  BY CoreParts DEF KernelOK
<1>1. \A t \in S : /\ t \in Task /\ m.state[t] = "WTSEM" /\ m.obj[t] = s /\ c[t].op = "sem"
                   /\ r.state[t] \in Up
  BY <1>0 DEF TokenWaiters, BlockedOK, Blocked, Emptied
<1>2. RestKept(m, r, c, S)
  <2>1. SameTasks(m, r, S) /\ r.refcnt = m.refcnt /\ r.bitset = m.bitset /\ r.wait_aborted = m.wait_aborted
    BY DEF Emptied
  <2> HIDE DEF S
  <2> QED BY <1>1, <2>1 DEF RestKept, Up, Gone, Returned
<1>3. Rest(r, c)
  <2> HIDE DEF S
  <2> QED BY <1>0, <1>2, RestService DEF ServiceOK, Rest
<1>4. SemsOK(r)
  <2> SUFFICES ASSUME NEW u \in Sems \cap r.live
               PROVE  Cardinality(TokenWaiters(r, u)) = IF r.value[u] < 0 THEN -r.value[u] ELSE 0
    BY DEF SemsOK
  <2>1. \A t \in Task \ S : /\ r.state[t] = "WTSEM" <=> m.state[t] = "WTSEM"
                            /\ r.obj[t] = m.obj[t]
    BY DEF Emptied, SameTasks, Up
  <2>2. CASE u = s
    <3>1. TokenWaiters(r, s) = {}
      BY <1>1, <2>1 DEF TokenWaiters, Up
    <3> QED BY <2>2, <3>1, FS_EmptySet DEF Emptied
  <2>3. CASE u # s
    <3>1. TokenWaiters(r, u) = TokenWaiters(m, u)
      BY <1>1, <2>1, <2>3 DEF TokenWaiters, Up
    <3>2. u \in m.live /\ r.value[u] = m.value[u]
      BY <2>3 DEF Emptied
    <3> QED BY <3>1, <3>2 DEF ServiceOK, SemsOK
  <2> QED BY <2>2, <2>3
<1> QED BY <1>3, <1>4 DEF ServiceOK, Rest

\* What sem_wakeup_all does to a memory that agrees with m but for counters.
LEMMA WakeupAllService ==
  ASSUME NEW m, NEW c, KernelOK(m, c), ServiceOK(m, c), NEW s \in Sems, NEW p, Shape(p),
         Only(m, p, {"value"}), \A u \in Sems \ {s} : p.value[u] = m.value[u], NEW msg
  PROVE  LET n == sem_wakeup_all(p, s, msg) IN
         /\ Shape(n) /\ n.live = m.live /\ n.value = p.value
         /\ p.value[s] \in Nat => Emptied(m, n, s)
         /\ \A r : (Only(n, r, {"live", "evt", "bitno"}) /\ r.live = m.live \ {s}) => Emptied(m, r, s)
<1> DEFINE ws == p.wait_list[s]
           n  == sem_wakeup_all(p, s, msg)
<1>1. /\ p.wait_list = m.wait_list /\ p.state = m.state /\ p.obj = m.obj /\ p.evbits = m.evbits
      /\ p.live = m.live /\ p.refcnt = m.refcnt /\ p.bitset = m.bitset /\ p.wait_aborted = m.wait_aborted
  BY DEF Only, Fields
<1>2. ws \in Seq(Task) /\ Range(ws) = TokenWaiters(m, s)
  BY <1>1, SemWaiters
<1>3. Wakes(p, n, Range(ws))
  <2>1. n = IF ws = <<>> THEN p ELSE do_reschedule(wakeup(unlink(p, Range(ws)), ws, msg), Head(ws))
    BY DEF sem_wakeup_all
  <2> HIDE DEF n, ws
  <2> QED BY <1>2, <2>1, BroadcastWakes
<1> HIDE DEF n, ws
<1> DEFINE S == TokenWaiters(m, s)
<1>4. Wakes(p, n, S)
  BY <1>2, <1>3
<1> HIDE DEF S
<1>5. /\ n.refcnt = m.refcnt /\ n.bitset = m.bitset /\ n.wait_aborted = m.wait_aborted /\ n.value = p.value
      /\ SameTasks(m, n, S) /\ (\A t \in S : n.state[t] \in Up) /\ Shape(n)
      /\ Sems \cap n.live = Sems \cap m.live
  <2>1. Touches(p, n, S) /\ n.wait_aborted = p.wait_aborted /\ Shape(n)
    BY <1>4, WakesTouches
  <2>2. \A t \in S : n.state[t] \in Up
    BY <1>4 DEF Wakes, S, TokenWaiters
  <2>3. SameTasks(p, n, S)
    BY <2>1 DEF Touches
  <2>4. SameTasks(m, n, S)
    BY <1>1, <2>3 DEF SameTasks
  <2> QED BY <1>1, <2>1, <2>2, <2>4 DEF Touches
<1>6. n.live = m.live
  <2>1. n.live = p.live
    <3>1. n = IF ws = <<>> THEN p ELSE do_reschedule(wakeup(unlink(p, Range(ws)), ws, msg), Head(ws))
      BY DEF sem_wakeup_all, n, ws
    <3> DEFINE a == unlink(p, Range(ws))
               b == wakeup(a, ws, msg)
    <3>2. Shape(a) /\ a.live = p.live
      BY UnlinkFields DEF Only, Fields
    <3> HIDE DEF a
    <3>3. Shape(b) /\ b.live = a.live
      <4>1. /\ Shape(b) /\ Only(a, b, {"p_wait", "pov_wait", "deadline", "left", "obj", "evbits", "bug", "state", "ready"})
            /\ b.state = [t \in Task |-> IF t \in Range(ws) THEN "READY" ELSE a.state[t]]
            /\ b.obj = [t \in Task |-> IF t \in Range(ws) THEN msg ELSE a.obj[t]]
            /\ b.evbits = [t \in Task |-> IF t \in Range(ws) THEN NoBits ELSE a.evbits[t]]
        BY <3>2, WakeupFields
      <4> HIDE DEF b
      <4> QED BY <4>1 DEF Only, Fields
    <3> HIDE DEF b
    <3>4. do_reschedule(b, Head(ws)).live = b.live
      BY <3>3, RescheduleFields DEF Only, Fields
    <3> QED BY <3>1, <3>2, <3>3, <3>4 DEF a, b
  <2> QED BY <1>1, <2>1
<1>7. p.value[s] \in Nat => Emptied(m, n, s)
  BY <1>5, <1>6 DEF Emptied, S
<1>8. ASSUME NEW r, Only(n, r, {"live", "evt", "bitno"}), r.live = m.live \ {s}
      PROVE  Emptied(m, r, s)
  <2>1. /\ r.refcnt = n.refcnt /\ r.bitset = n.bitset /\ r.wait_aborted = n.wait_aborted /\ r.value = n.value
        /\ r.state = n.state /\ r.obj = n.obj /\ r.evbits = n.evbits
    BY <1>8 DEF Only, Fields
  <2> QED BY <1>5, <1>8, <2>1 DEF Emptied, S, SameTasks
<1> QED BY <1>5, <1>6, <1>7, <1>8 DEF n

\* A signal hands its token to the first waiter, whose request it answers, or
\* stores it.
LEMMA SemSignalFunService ==
  ASSUME NEW m, NEW c, KernelOK(m, c), ServiceOK(m, c), NEW s \in Sems, s \in m.live
  PROVE  ServiceOK(sem_signal(m, s), c)
<1> DEFINE ws == m.wait_list[s]
           h  == Head(ws)
           v  == sem_inc(m.value[s], SemLimit[s], 1)
           m1 == sem_fast_signal(m, s)
           a  == unlink(m1, {h})
           q  == [a EXCEPT !.grant = @ \cup {h}]
           w  == wakeup(q, <<h>>, EOK)
           r  == do_reschedule(w, h)
<1>0. /\ m.value \in [Sems -> Int] /\ DOMAIN m = Fields /\ CallsOK(c) /\ BlockedOK(m, c, {})
      /\ CoreInv(m, c, {}) /\ OwnersOK(m) /\ Shape(m) /\ SemsOK(m) /\ Rest(m, c)
  BY CoreParts, KernelTypes, KernelShape DEF KernelOK, ServiceOK, Rest
<1>1. v \in Int /\ m1 = [m EXCEPT !.value = [m.value EXCEPT ![s] = v]] /\ m1.value[s] = v
  <2>1. v \in Int /\ m1 = [m EXCEPT !.value = [m.value EXCEPT ![s] = v]]
    BY <1>0, FastSignalOK
  <2> QED BY <1>0, <2>1 DEF Fields
<1>2. /\ TokenWaiters(m, s) = {} <=> ws = <<>>
      /\ ws # <<>> => h \in TokenWaiters(m, s)
  BY SemWaiters
<1>3. Cardinality(TokenWaiters(m, s)) = (IF m.value[s] < 0 THEN -m.value[s] ELSE 0) /\ m.value[s] \in Int
      /\ SemLimit[s] \in Nat
  BY <1>0, SemAssumption DEF SemsOK
<1>4. CASE ws = <<>> \/ v > 0
  <2>1. sem_signal(m, s) = m1
    BY <1>1, <1>4 DEF sem_signal
  <2>2. m.value[s] >= 0
    <3>1. ws = <<>> => Cardinality(TokenWaiters(m, s)) = 0
      BY <1>2, FS_EmptySet
    <3> QED BY <1>3, <1>4, <3>1 DEF sem_inc
  <2>3. v >= 0 /\ Cardinality(TokenWaiters(m, s)) = (IF v < 0 THEN -v ELSE 0)
    BY <1>3, <2>2 DEF sem_inc
  <2> HIDE DEF v, m1
  <2> QED BY <1>1, <2>1, <2>3, CounterService
<1>5. CASE ~(ws = <<>> \/ v > 0)
  <2>1. sem_signal(m, s) = r
    BY <1>1, <1>5 DEF sem_signal
  <2>2. h \in Task /\ m.state[h] = "WTSEM" /\ m.obj[h] = s
    BY <1>2, <1>5 DEF TokenWaiters
  <2> HIDE DEF h, ws, v
  <2>3. Shape(m1) /\ Only(m, m1, {"value"}) /\ m1.value = [m.value EXCEPT ![s] = v]
    BY <1>0, <1>1 DEF Shape, Only, Fields
  <2> HIDE DEF m1
  <2>4. Shape(a) /\ Only(m1, a, {"wait_list"})
    BY <2>3, UnlinkFields
  <2> HIDE DEF a
  <2>5. Shape(q) /\ Only(a, q, {"grant"})
    BY <2>4 DEF Shape, Only, Fields
  <2> HIDE DEF q
  <2>6. Range(<<h>>) = {h}
    BY OneElement
  <2> DEFINE ts == <<h>>
  <2>7. w = wakeup(q, ts, EOK) /\ Range(ts) = {h}
    BY <2>6
  <2> HIDE DEF ts, w
  <2>8. /\ Shape(w) /\ Only(q, w, {"p_wait", "pov_wait", "deadline", "left", "obj", "evbits", "bug", "state", "ready"})
        /\ w.state = [t \in Task |-> IF t \in Range(ts) THEN "READY" ELSE q.state[t]]
        /\ w.obj = [t \in Task |-> IF t \in Range(ts) THEN EOK ELSE q.obj[t]]
        /\ w.evbits = [t \in Task |-> IF t \in Range(ts) THEN NoBits ELSE q.evbits[t]]
    <3> DEFINE x == wakeup(q, ts, EOK)
    <3>1. /\ Shape(x) /\ Only(q, x, {"p_wait", "pov_wait", "deadline", "left", "obj", "evbits", "bug", "state", "ready"})
          /\ x.state = [t \in Task |-> IF t \in Range(ts) THEN "READY" ELSE q.state[t]]
          /\ x.obj = [t \in Task |-> IF t \in Range(ts) THEN EOK ELSE q.obj[t]]
          /\ x.evbits = [t \in Task |-> IF t \in Range(ts) THEN NoBits ELSE q.evbits[t]]
      BY <2>5, WakeupFields
    <3> HIDE DEF x
    <3>2. w = x
      BY <2>7 DEF x
    <3> QED BY <3>1, <3>2
  <2>9. Only(w, r, {"pendsv"})
    BY <2>8, RescheduleFields
  <2> HIDE DEF r
  <2>10. /\ q.state = m.state /\ q.obj = m.obj /\ q.evbits = m.evbits /\ q.live = m.live /\ q.refcnt = m.refcnt
         /\ q.bitset = m.bitset /\ q.wait_aborted = m.wait_aborted /\ q.value = m1.value
    BY <2>3, <2>4, <2>5 DEF Only, Fields
  <2>11. /\ r.state = w.state /\ r.obj = w.obj /\ r.evbits = w.evbits /\ r.live = m.live /\ r.refcnt = m.refcnt
         /\ r.bitset = m.bitset /\ r.wait_aborted = m.wait_aborted /\ r.value = m1.value
    BY <2>8, <2>9, <2>10 DEF Only, Fields
  <2>12. /\ r.state[h] = "READY"
         /\ \A t \in Task \ {h} : r.state[t] = m.state[t] /\ r.obj[t] = m.obj[t] /\ r.evbits[t] = m.evbits[t]
    BY <2>2, <2>7, <2>8, <2>10, <2>11
  <2> DEFINE S == {h}
  <2>13. RestKept(m, r, c, S)
    <3>1. c[h].op = "sem"
      BY <1>0, <2>2 DEF BlockedOK, Blocked
    <3> QED BY <2>2, <2>11, <2>12, <3>1 DEF RestKept, SameTasks, Gone, Returned
  <2>14. \A u \in Sems : r.value[u] = sem_inc(m.value[u], SemLimit[u], Cardinality(Requests(m, S, u)))
    <3> TAKE u \in Sems
    <3>1. CASE u = s
      <4>1. Requests(m, S, u) = S
        BY <2>2, <3>1 DEF Requests
      <4>2. Cardinality(S) = 1
        BY FS_Singleton
      <4> QED BY <1>0, <2>3, <2>11, <3>1, <4>1, <4>2 DEF v
    <3>2. CASE u # s
      <4>1. Cardinality(Requests(m, S, u)) = 0
        BY <2>2, <3>2, NoRequests
      <4>2. r.value[u] = m.value[u] /\ m.value[u] \in Int
        BY <1>0, <2>3, <2>11, <3>2
      <4> QED BY <4>1, <4>2 DEF sem_inc
    <3> QED BY <3>1, <3>2
  <2>15. /\ \A t \in Task \ S : /\ r.state[t] = "WTSEM" <=> m.state[t] = "WTSEM"
                                /\ m.state[t] = "WTSEM" => r.obj[t] = m.obj[t]
         /\ \A t \in S : r.state[t] # "WTSEM"
         /\ Sems \cap r.live = Sems \cap m.live /\ S \in SUBSET Task
    BY <2>2, <2>11, <2>12
  <2> HIDE DEF S
  <2>16. SemsOK(r)
    BY <1>0, <2>14, <2>15, TokensBack
  <2>17. Rest(r, c)
    BY <1>0, <2>13, RestService
  <2> QED BY <2>1, <2>16, <2>17 DEF ServiceOK, Rest
<1> QED BY <1>4, <1>5

\* One more thread waits for a token of s, whose counter was taken down.
LEMMA SemBlockService ==
  ASSUME NEW m, NEW c, KernelOK(m, c), ServiceOK(m, c), NEW r, NEW d, KernelOK(r, d), NEW t \in Task,
         t = m.currp, m.state[t] \in Up, NEW s \in Sems, s \in m.live, m.value[s] - 1 < 0, NEW tout,
         NEW n, n = [m EXCEPT !.value = [m.value EXCEPT ![s] = m.value[s] - 1]], r = sem_block(n, s, tout),
         d[t].op # "exit", \A u \in Task \ {t} : d[u] = c[u]
  PROVE  ServiceOK(r, d)
<1> DEFINE a == [n EXCEPT !.obj = [@ EXCEPT ![t] = s], !.wait_aborted = [@ EXCEPT ![t] = FALSE],
                          !.grant = @ \ {t}]
           b == set_sleep_timeout(a, "WTSEM", tout)
<1>0. Shape(m) /\ DOMAIN m = Fields /\ m.value \in [Sems -> Int] /\ SemsOK(m)
  BY KernelShape, KernelTypes DEF ServiceOK
<1>1. Shape(n) /\ Only(m, n, {"value"}) /\ n.value = [m.value EXCEPT ![s] = m.value[s] - 1]
  BY <1>0 DEF Shape, Only, Fields
<1>2. n.currp = t
  BY <1>1 DEF Only, Fields
<1>3. r = add_to_prio_queue(b, s, t)
  BY <1>2 DEF sem_block
<1>4. /\ Shape(a) /\ Only(n, a, {"obj", "wait_aborted", "grant"}) /\ a.currp = t
      /\ a.obj = [n.obj EXCEPT ![t] = s] /\ a.wait_aborted = [n.wait_aborted EXCEPT ![t] = FALSE]
  BY <1>1, <1>2 DEF Shape, Only, Fields
<1> HIDE DEF a
<1>5. Shape(b) /\ Only(a, b, {"ready", "state", "deadline", "left", "p_wait", "pov_wait"})
      /\ b.state = [a.state EXCEPT ![t] = "WTSEM"]
  <2> DEFINE st == "WTSEM"
  <2>1. st \in State /\ a.currp \in Task
    BY <1>4 DEF State
  <2> HIDE DEF st
  <2>2. LET z == set_sleep_timeout(a, st, tout) IN
        /\ Shape(z) /\ Only(a, z, {"ready", "state", "deadline", "left", "p_wait", "pov_wait"})
        /\ z.state = [a.state EXCEPT ![a.currp] = st]
    BY <1>4, <2>1, SleepFields
  <2> QED BY <1>4, <2>2 DEF st
<1> HIDE DEF b
<1>6. Only(b, r, {"wait_list"})
  BY <1>3, <1>5, QueueFields
<1>7. /\ r.value = n.value /\ r.bitset = m.bitset /\ r.refcnt = m.refcnt /\ r.live = m.live /\ r.evbits = m.evbits
      /\ r.wait_aborted = [m.wait_aborted EXCEPT ![t] = FALSE]
      /\ r.state = [m.state EXCEPT ![t] = "WTSEM"] /\ r.obj = [m.obj EXCEPT ![t] = s]
  <2>1. /\ a.value = n.value /\ a.bitset = m.bitset /\ a.refcnt = m.refcnt /\ a.live = m.live /\ n.obj = m.obj
        /\ a.state = m.state /\ a.evbits = m.evbits /\ n.wait_aborted = m.wait_aborted
    BY <1>1, <1>4 DEF Only, Fields
  <2>2. /\ b.value = a.value /\ b.bitset = a.bitset /\ b.refcnt = a.refcnt /\ b.live = a.live /\ b.obj = a.obj
        /\ b.wait_aborted = a.wait_aborted /\ b.evbits = a.evbits
    BY <1>5 DEF Only, Fields
  <2>3. /\ r.value = b.value /\ r.bitset = b.bitset /\ r.refcnt = b.refcnt /\ r.live = b.live /\ r.obj = b.obj
        /\ r.wait_aborted = b.wait_aborted /\ r.state = b.state /\ r.evbits = b.evbits
    BY <1>6 DEF Only, Fields
  <2> QED BY <1>4, <1>5, <2>1, <2>2, <2>3
<1>8. /\ r.state[t] = "WTSEM" /\ r.obj[t] = s
      /\ \A u \in Task \ {t} : /\ r.state[u] = m.state[u] /\ r.obj[u] = m.obj[u]
                               /\ r.wait_aborted[u] = m.wait_aborted[u]
  BY <1>0, <1>7 DEF Shape
<1>9. ServiceOK(m, d) /\ CallsOK(d) /\ BlockedOK(m, d, {})
  BY MoveOn
<1>10. Rest(r, d)
  <2> DEFINE S == {t}
  <2>1. RestKept(m, r, d, S)
    BY <1>7, <1>8 DEF RestKept, SameTasks, Up, Gone, Returned
  <2>2. Rest(m, d)
    BY <1>9 DEF ServiceOK, Rest
  <2> HIDE DEF S
  <2> QED BY <1>9, <2>1, <2>2, RestService
<1>11. SemsOK(r)
  <2> SUFFICES ASSUME NEW u \in Sems \cap m.live
               PROVE  Cardinality(TokenWaiters(r, u)) = IF r.value[u] < 0 THEN -r.value[u] ELSE 0
    BY <1>7 DEF SemsOK
  <2>0. Cardinality(TokenWaiters(m, u)) = (IF m.value[u] < 0 THEN -m.value[u] ELSE 0) /\ m.value[u] \in Int
    BY <1>0 DEF SemsOK
  <2>1. CASE u = s
    <3> DEFINE T == TokenWaiters(m, s)
    <3>1. TokenWaiters(r, s) = T \cup {t} /\ t \notin T /\ T \subseteq Task
      BY <1>8 DEF TokenWaiters, Up
    <3>2. IsFiniteSet(T)
      BY <3>1, FiniteTasks, FS_Subset
    <3>3. Cardinality(T \cup {t}) = Cardinality(T) + 1
      <4> HIDE DEF T
      <4> QED BY <3>1, <3>2, FS_AddElement
    <3>4. r.value[s] = m.value[s] - 1
      BY <1>0, <1>1, <1>7
    <3>5. m.value[s] \in Int /\ m.value[s] - 1 < 0
          /\ Cardinality(T) = (IF m.value[s] < 0 THEN -m.value[s] ELSE 0)
      BY <2>0, <2>1
    <3>6. Cardinality(TokenWaiters(r, u)) = Cardinality(T) + 1 /\ r.value[u] = m.value[s] - 1
      BY <2>1, <3>1, <3>3, <3>4
    <3> HIDE DEF T
    <3> QED BY <3>5, <3>6
  <2>2. CASE u # s
    <3>1. TokenWaiters(r, u) = TokenWaiters(m, u)
      BY <1>8, <2>2 DEF TokenWaiters, Up
    <3>2. r.value[u] = m.value[u]
      BY <1>0, <1>1, <1>7, <2>2
    <3> QED BY <2>0, <3>1, <3>2
  <2> QED BY <2>1, <2>2
<1> QED BY <1>10, <1>11 DEF ServiceOK, Rest

\* The critical section of isix_sem_wait.
LEMMA SemWaitEnterService ==
  ASSUME KernelOK(k, call), KernelOK(k', call'), ServiceOK(k, call), NEW t \in Task, SemWaitEnter(t)
  PROVE  ServiceOK(k', call')
<1> DEFINE s == call[t].o
           x == k.value[s]
           n == [k EXCEPT !.value = [k.value EXCEPT ![s] = x - 1]]
           y == sem_inc(x - 1, SemLimit[s], 1)
           q == [k EXCEPT !.value = [k.value EXCEPT ![s] = y]]
           tout == IF call[t].tmo = Infinite THEN Infinite
                   ELSE call[t].tmo - ((k.jiffies - call[t].start) % (MaxTick + 1))
<1>1. /\ t = k.currp /\ k.state[t] \in Up /\ CoreInv(k, call, {}) /\ OwnersOK(k)
      /\ call \in [Task -> Call] /\ call[t] \in Call /\ s \in Sems /\ call[t].op = "sem" /\ s \in k.live
  <2>1. Exec(t) /\ call[t].pc = "enter" /\ call[t].op = "sem" /\ call[t].op \in Blocking
    BY DEF SemWaitEnter, Blocking
  <2> QED BY <2>1, EnterUp, SyncObjects DEF CallKind
<1>2. /\ k.value \in [Sems -> Int] /\ x \in Int /\ SemLimit[s] \in Nat /\ DOMAIN k = Fields
      /\ Cardinality(TokenWaiters(k, s)) = IF x < 0 THEN -x ELSE 0
  BY <1>1, KernelTypes, KernelShape, SemAssumption DEF ServiceOK, SemsOK
<1>3. call'[t].op # "exit" /\ \A u \in Task \ {t} : call'[u] = call[u]
  BY <1>1 DEF SemWaitEnter, NoCall, Call
<1>4. n.value[s] = x - 1 /\ sem_fast_signal(n, s) = q
  <2>1. DOMAIN n = Fields /\ n.value = [k.value EXCEPT ![s] = x - 1]
    BY <1>2 DEF Fields
  <2>2. sem_fast_signal(n, s) = [n EXCEPT !.value = [n.value EXCEPT ![s] = sem_inc(n.value[s], SemLimit[s], 1)]]
    BY DEF sem_fast_signal
  <2>3. n.value[s] = x - 1
    BY <1>1, <1>2, <2>1
  <2>4. [n.value EXCEPT ![s] = y] = [k.value EXCEPT ![s] = y]
    BY <1>1, <1>2, <2>1
  <2>5. sem_fast_signal(n, s) = [n EXCEPT !.value = [k.value EXCEPT ![s] = y]]
    BY <2>2, <2>3, <2>4
  <2> DEFINE V == [k.value EXCEPT ![s] = y]
             W == [k.value EXCEPT ![s] = x - 1]
  <2>6. [[k EXCEPT !.value = W] EXCEPT !.value = V] = [k EXCEPT !.value = V]
    <3> HIDE DEF V, W
    <3> QED BY <1>2 DEF Fields
  <2> QED BY <2>3, <2>5, <2>6
<1>5. \/ x - 1 >= 0 /\ k' = n
      \/ x - 1 < 0 /\ k' = q
      \/ x - 1 < 0 /\ k' = sem_block(n, s, tout)
  BY <1>4 DEF SemWaitEnter
<1> HIDE DEF s, x, tout
<1>6. CASE x - 1 >= 0 /\ k' = n
  <2>1. x - 1 \in Int /\ Cardinality(TokenWaiters(k, s)) = IF x - 1 < 0 THEN -(x - 1) ELSE 0
    BY <1>2, <1>6
  <2>2. ServiceOK(n, call) /\ KernelOK(n, call) /\ n.state = k.state
    BY <1>1, <2>1, CounterService
  <2> HIDE DEF n
  <2> QED BY <1>1, <1>3, <1>6, <2>2, LeaveService
<1>7. CASE x - 1 < 0 /\ k' = q
  <2>1. y \in Int /\ y = x
    BY <1>2, <1>7 DEF sem_inc
  <2>2. Cardinality(TokenWaiters(k, s)) = IF y < 0 THEN -y ELSE 0
    BY <1>2, <2>1
  <2> HIDE DEF y
  <2>3. ServiceOK(q, call) /\ KernelOK(q, call) /\ q.state = k.state
    BY <1>1, <2>1, <2>2, CounterService
  <2> HIDE DEF q
  <2> QED BY <1>1, <1>3, <1>7, <2>3, LeaveService
<1>8. CASE x - 1 < 0 /\ k' = sem_block(n, s, tout)
  <2>1. k.value[s] - 1 < 0 /\ n = [k EXCEPT !.value = [k.value EXCEPT ![s] = k.value[s] - 1]]
    BY <1>8 DEF x
  <2> HIDE DEF n
  <2> QED BY <1>1, <1>3, <1>8, <2>1, SemBlockService
<1> QED BY <1>5, <1>6, <1>7, <1>8

\* A token is taken without blocking.
LEMMA SemTryWaitService ==
  ASSUME KernelOK(k, call), KernelOK(k', call'), ServiceOK(k, call), NEW s \in Sems, SemTryWait(s)
  PROVE  ServiceOK(k', call')
<1> DEFINE x == k.value[s]
           v == sem_trydec(x)
<1>1. k' = [k EXCEPT !.value = [k.value EXCEPT ![s] = v]] /\ call' = call /\ s \in k.live
  BY DEF SemTryWait
<1>2. x \in Int /\ Cardinality(TokenWaiters(k, s)) = IF x < 0 THEN -x ELSE 0
  BY <1>1, KernelTypes, KernelShape DEF ServiceOK, SemsOK
<1>3. v \in Int /\ Cardinality(TokenWaiters(k, s)) = IF v < 0 THEN -v ELSE 0
  <2> HIDE DEF x
  <2> QED BY <1>2 DEF sem_trydec
<1> HIDE DEF v
<1> QED BY <1>1, <1>3, CounterService

\* isix_sem_wait begins.
LEMMA SemWaitService ==
  ASSUME KernelOK(k, call), KernelOK(k', call'), ServiceOK(k, call), NEW t \in Task, NEW s \in Sems,
         NEW timeout \in Timeouts, SemWait(t, s, timeout)
  PROVE  ServiceOK(k', call')
<1>1. Running(t) /\ k' = k
  BY DEF SemWait, MayBlock
<1>2. k.state[t] \in Up /\ call \in [Task -> Call]
  BY <1>1, RunningFree, KernelShape
<1>3. call'[t].op # "exit" /\ \A u \in Task \ {t} : call'[u] = call[u]
  BY <1>2 DEF SemWait, NoCall
<1> QED BY <1>1, <1>2, <1>3, LeaveService

\* Back from the wait for a token.
LEMMA SemWaitReturnService ==
  ASSUME KernelOK(k, call), KernelOK(k', call'), ServiceOK(k, call), NEW t \in Task, SemWaitReturn(t)
  PROVE  ServiceOK(k', call')
<1>1. Exec(t) /\ call[t].pc = "after" /\ (k' = k \/ k' = leave(k, t))
  BY DEF SemWaitReturn
<1>2. call \in [Task -> Call]
  BY KernelShape
<1>3. call'[t].op # "exit" /\ \A u \in Task \ {t} : call'[u] = call[u]
  BY <1>2 DEF SemWaitReturn, NoCall, Call
<1> QED BY <1>1, <1>3, ReturnService

\* A signal by a thread, which is about to raise the bit of the semaphore, and
\* by an interrupt handler, which raises it at once.
LEMMA SemSignalService ==
  ASSUME KernelOK(k, call), KernelOK(k', call'), ServiceOK(k, call), NEW s \in Sems,
         SemSignalIsr(s) \/ \E t \in Task : SemSignal(t, s)
  PROVE  ServiceOK(k', call')
<1> DEFINE n == sem_signal(k, s)
<1>0. s \in k.live /\ CoreInv(k, call, {}) /\ OwnersOK(k) /\ call \in [Task -> Call]
  BY KernelShape DEF SemSignal, SemSignalIsr
<1>1. CoreInv(n, call, {}) /\ OwnersOK(n) /\ Signalled(k, n)
  BY <1>0, SemSignalFunOK
<1>2. ServiceOK(n, call)
  BY <1>0, SemSignalFunService
<1>3. KernelOK(n, call)
  BY <1>1 DEF KernelOK
<1>4. CASE SemSignalIsr(s)
  <2>1. call' = call /\ (k' = n \/ (Notifies(s) /\ k' = event_set(n, k.evt[s], {k.bitno[s]})))
    BY <1>4 DEF SemSignalIsr
  <2>2. Notifies(s) => k.evt[s] \in Evts /\ {k.bitno[s]} \in SUBSET Bits
    BY NotifiesWhat
  <2> HIDE DEF n
  <2>3. CASE k' = n
    BY <1>2, <2>1, <2>3
  <2>4. CASE Notifies(s) /\ k' = event_set(n, k.evt[s], {k.bitno[s]})
    <3> DEFINE e == k.evt[s]
               B == {k.bitno[s]}
    <3>1. e \in Evts /\ B \in SUBSET Bits /\ k' = event_set(n, e, B)
      BY <2>2, <2>4
    <3> HIDE DEF e, B
    <3> QED BY <1>2, <1>3, <2>1, <3>1, EventSetService
  <2> QED BY <2>1, <2>3, <2>4
<1>5. ASSUME NEW t \in Task, SemSignal(t, s)
      PROVE  ServiceOK(k', call')
  <2>1. k' = n /\ Running(t)
    BY <1>5 DEF SemSignal
  <2>2. call[t].op = "none" /\ k.state[t] \in Up
    BY <2>1, RunningFree
  <2>3. call'[t].op # "exit" /\ \A u \in Task \ {t} : call'[u] = call[u]
    <3> DEFINE d == Raise(t, k.evt[s], k.bitno[s])
    <3>1. call' = call \/ call' = [call EXCEPT ![t] = d]
      BY <1>5 DEF SemSignal
    <3>2. d.op # "exit"
      BY DEF Raise, NoCall
    <3> HIDE DEF d
    <3> QED BY <1>0, <2>2, <3>1, <3>2
  <2>4. n.state[t] \in Up
    BY <1>1, <2>2 DEF Signalled
  <2> HIDE DEF n
  <2> QED BY <1>2, <1>3, <2>1, <2>3, <2>4, LeaveService
<1> QED BY <1>4, <1>5

\* Everyone leaves a semaphore that is reset ...
LEMMA SemResetService ==
  ASSUME KernelOK(k, call), KernelOK(k', call'), ServiceOK(k, call), NEW s \in Sems, NEW u \in ResetValues,
         SemReset(s, u)
  PROVE  ServiceOK(k', call')
<1> DEFINE v == sem_write_val(u, SemLimit[s])
           p == [k EXCEPT !.value = [k.value EXCEPT ![s] = v]]
<1>0. Shape(k) /\ k.value \in [Sems -> Int]
  BY KernelShape, KernelTypes
<1>1. k' = sem_wakeup_all(p, s, ERESET) /\ call' = call
  BY DEF SemReset
<1>2. v \in Nat
  <2>1. u \in Int /\ SemLimit[s] \in Nat
    BY ResetAssumption, SemAssumption
  <2> QED BY <2>1 DEF sem_write_val
<1> HIDE DEF v
<1>3. Shape(p) /\ Only(k, p, {"value"}) /\ p.value = [k.value EXCEPT ![s] = v]
  BY <1>0 DEF Shape, Only, Fields
<1> HIDE DEF p
<1>4. p.value[s] \in Nat /\ \A z \in Sems \ {s} : p.value[z] = k.value[z]
  BY <1>0, <1>2, <1>3
<1> DEFINE n == sem_wakeup_all(p, s, ERESET)
<1>5. /\ Shape(n) /\ n.live = k.live /\ n.value = p.value
      /\ p.value[s] \in Nat => Emptied(k, n, s)
      /\ \A r : (Only(n, r, {"live", "evt", "bitno"}) /\ r.live = k.live \ {s}) => Emptied(k, r, s)
  BY <1>3, <1>4, WakeupAllService
<1> HIDE DEF n
<1>6. Emptied(k, n, s)
  BY <1>4, <1>5
<1>7. k' = n
  BY <1>1 DEF n
<1> QED BY <1>1, <1>6, <1>7, EmptiedService

\* ... or destroyed ...
LEMMA SemDestroyFunService ==
  ASSUME NEW m, NEW c, KernelOK(m, c), ServiceOK(m, c), NEW s \in Sems
  PROVE  ServiceOK(sem_destroy(m, s), c)
<1>0. Shape(m) /\ m.value \in [Sems -> Int] /\ DOMAIN m = Fields
  BY KernelShape, KernelTypes
<1> DEFINE n == sem_wakeup_all(m, s, EDESTROY)
           r == sem_destroy(m, s)
<1>1. r = [n EXCEPT !.live = @ \ {s}, !.evt = [@ EXCEPT ![s] = Null], !.bitno = [@ EXCEPT ![s] = 0]]
  BY DEF sem_destroy
<1> HIDE DEF r
<1>2. Only(m, m, {"value"}) /\ \A z \in Sems \ {s} : m.value[z] = m.value[z]
  BY DEF Only
<1>3. /\ Shape(n) /\ n.live = m.live /\ n.value = m.value
      /\ m.value[s] \in Nat => Emptied(m, n, s)
      /\ \A x : (Only(n, x, {"live", "evt", "bitno"}) /\ x.live = m.live \ {s}) => Emptied(m, x, s)
  BY <1>0, <1>2, WakeupAllService
<1> HIDE DEF n
<1>4. Only(n, r, {"live", "evt", "bitno"}) /\ r.live = m.live \ {s}
  BY <1>1, <1>3 DEF Shape, Only, Fields
<1>5. Emptied(m, r, s)
  BY <1>3, <1>4
<1>6. ServiceOK(r, c)
  BY <1>5, EmptiedService
<1> QED BY <1>6 DEF r

\* ... and a new one has no waiters.
LEMMA SemCreateFunService ==
  ASSUME NEW m, NEW c, KernelOK(m, c), ServiceOK(m, c), NEW s \in Sems, s \notin m.live
  PROVE  ServiceOK(sem_create(m, s), c)
<1>0. Shape(m) /\ m.value \in [Sems -> Int] /\ DOMAIN m = Fields
  BY KernelShape, KernelTypes
<1> DEFINE r == sem_create(m, s)
<1>1. /\ r.state = m.state /\ r.obj = m.obj /\ r.evbits = m.evbits /\ r.refcnt = m.refcnt
      /\ r.bitset = m.bitset /\ r.wait_aborted = m.wait_aborted
      /\ r.value = [m.value EXCEPT ![s] = SemInit[s]] /\ r.live = m.live \cup {s}
  BY <1>0 DEF sem_create, Fields
<1>2. TokenWaiters(m, s) = {}
  <2>1. AliveOK(m, c) /\ s \in Object
    BY CoreParts, SyncObjects DEF KernelOK
  <2>2. m.wait_list[s] = <<>>
    BY <2>1 DEF AliveOK
  <2> QED BY <2>2, SemWaiters
<1>3. SemInit[s] \in Nat
  BY SemAssumption
<1> HIDE DEF r
<1>4. Emptied(m, r, s)
  BY <1>0, <1>1, <1>2, <1>3 DEF Emptied, SameTasks
<1>5. ServiceOK(r, c)
  BY <1>4, EmptiedService
<1> QED BY <1>5 DEF r

\* The life of a semaphore.
LEMMA SemLifeService ==
  ASSUME KernelOK(k, call), ServiceOK(k, call), NEW t \in Task, NEW s \in Sems,
         SemDestroy(t, s) \/ SemCreate(t, s)
  PROVE  ServiceOK(k', call')
<1>1. CASE SemDestroy(t, s)
  BY <1>1, SemDestroyFunService DEF SemDestroy
<1>2. CASE SemCreate(t, s)
  BY <1>2, SemCreateFunService DEF SemCreate
<1> QED BY <1>1, <1>2

\* The services of semaphores keep the promises.
LEMMA SemOpsService ==
  ASSUME KernelOK(k, call), KernelOK(k', call'), ServiceOK(k, call), SemOps
  PROVE  ServiceOK(k', call')
BY SemTryWaitService, SemWaitService, SemWaitEnterService, SemWaitReturnService, SemSignalService,
   SemResetService, SemLifeService DEF SemOps

-----------------------------------------------------------------------------
(***************************************************************************)
(* The life of a task.                                                     *)
(***************************************************************************)

\* The request of t for a token, if it has one, is given back.
GivenBack(m, v, t) ==
  \A s \in Sems : v[s] = sem_inc(m.value[s], SemLimit[s], Cardinality(Requests(m, {t}, s)))

\* t leaves its list; a request for a token is given back.
Leaves(m, r, t) ==
  /\ Shape(r) /\ r.refcnt = m.refcnt /\ r.bitset = m.bitset /\ Sems \cap r.live = Sems \cap m.live
  /\ SameTasks(m, r, {t})
  /\ \A u \in Task \ {t} : r.wait_aborted[u] = m.wait_aborted[u]
  /\ GivenBack(m, r.value, t)

\* A counter that t does not wait for is as it was.
LEMMA OtherCounter ==
  ASSUME NEW m, m.value \in [Sems -> Int], NEW t \in Task, NEW s \in Sems, ~(m.state[t] = "WTSEM" /\ m.obj[t] = s)
  PROVE  sem_inc(m.value[s], SemLimit[s], Cardinality(Requests(m, {t}, s))) = m.value[s]
<1> DEFINE S == {t}
<1>1. Cardinality(Requests(m, S, s)) = 0
  BY NoRequests
<1>2. m.value[s] \in Int
  OBVIOUS
<1> HIDE DEF S
<1>3. sem_inc(m.value[s], SemLimit[s], Cardinality(Requests(m, S, s))) = m.value[s]
  BY <1>1, <1>2 DEF sem_inc
<1> QED BY <1>3 DEF S

\* A task that waits for no token has none to give back.
LEMMA NoRequestOf ==
  ASSUME NEW m, m.value \in [Sems -> Int], NEW t \in Task, m.state[t] # "WTSEM"
  PROVE  GivenBack(m, m.value, t)
BY OtherCounter DEF GivenBack

\* One that does gives back exactly one.
LEMMA RequestOf ==
  ASSUME NEW m, m.value \in [Sems -> Int], NEW t \in Task, m.state[t] = "WTSEM", NEW o \in Sems, o = m.obj[t]
  PROVE  GivenBack(m, [m.value EXCEPT ![o] = sem_inc(m.value[o], SemLimit[o], 1)], t)
<1> DEFINE v == [m.value EXCEPT ![o] = sem_inc(m.value[o], SemLimit[o], 1)]
<1>1. Cardinality(Requests(m, {t}, o)) = 1
  <2> DEFINE S == {t}
  <2>1. Requests(m, S, o) = S
    BY DEF Requests
  <2>2. Cardinality(S) = 1
    BY FS_Singleton
  <2> HIDE DEF S
  <2>3. Cardinality(Requests(m, S, o)) = 1
    BY <2>1, <2>2
  <2> QED BY <2>3 DEF S
<1>2. v[o] = sem_inc(m.value[o], SemLimit[o], 1) /\ \A s \in Sems \ {o} : v[s] = m.value[s]
  OBVIOUS
<1> HIDE DEF v
<1>3. GivenBack(m, v, t)
  <2> SUFFICES ASSUME NEW s \in Sems
               PROVE  v[s] = sem_inc(m.value[s], SemLimit[s], Cardinality(Requests(m, {t}, s)))
    BY DEF GivenBack
  <2>1. CASE s = o
    BY <1>1, <1>2, <2>1
  <2>2. CASE s # o
    BY <1>2, <2>2, OtherCounter
  <2> QED BY <2>1, <2>2
<1> QED BY <1>3 DEF v

\* The fields a detached task may be in.
LEMMA DetachLeaves ==
  ASSUME NEW m, Shape(m), m.value \in [Sems -> Int], m.owner \in [Mtxs -> Task \cup {Null}], NEW t \in Task,
         m.state[t] = "WTSEM" => m.obj[t] \in Sems, m.state[t] = "WTMTX" => m.obj[t] \in Mtxs
  PROVE  LET r == Detach(m, t) IN
         Leaves(m, r, t) /\ r.wait_aborted = m.wait_aborted
<1> DEFINE r  == Detach(m, t)
           X  == {t}
           m1 == time_unlink(m, X)
           ul == unlink(m1, X)
<1>1. Shape(m1) /\ Only(m, m1, {"p_wait", "pov_wait", "deadline", "left"})
  BY TimeUnlinkFields
<1>2. r = CASE m.state[t] \in {"READY", "RUNNING"} -> delete_from_ready_list(m1, t)
            [] m.state[t] = "WTSEM" -> unlink(sem_fast_signal(m1, m.obj[t]), X)
            [] m.state[t] = "WTMTX" -> mutex_waiter_removed(ul, m.obj[t])
            [] m.state[t] \in {"WTEVT", "WTCOND", "WTEXIT"} -> ul
            [] OTHER -> m1
  BY DEF Detach
<1> SUFFICES Leaves(m, r, t) /\ r.wait_aborted = m.wait_aborted
  OBVIOUS
<1> HIDE DEF r, m1, X
<1>3. Shape(ul) /\ Only(m1, ul, {"wait_list"})
  BY <1>1, UnlinkFields
<1>4. ASSUME Shape(r), Only(m1, r, {"ready", "wait_list"}), m.state[t] # "WTSEM"
      PROVE  Leaves(m, r, t) /\ r.wait_aborted = m.wait_aborted
  <2>1. /\ r.value = m.value /\ r.refcnt = m.refcnt /\ r.bitset = m.bitset /\ r.live = m.live
        /\ r.state = m.state /\ r.obj = m.obj /\ r.evbits = m.evbits /\ r.wait_aborted = m.wait_aborted
    BY <1>1, <1>4 DEF Only, Fields
  <2>2. GivenBack(m, r.value, t)
    BY <1>4, <2>1, NoRequestOf
  <2> QED BY <1>4, <2>1, <2>2 DEF Leaves, SameTasks
<1>5. CASE m.state[t] \in {"READY", "RUNNING"}
  <2>1. r = delete_from_ready_list(m1, t)
    BY <1>2, <1>5
  <2>2. Shape(r) /\ Only(m1, r, {"ready", "wait_list"})
    BY <1>1, <2>1 DEF Shape, Only, Fields, delete_from_ready_list
  <2> QED BY <1>4, <1>5, <2>2
<1>6. CASE m.state[t] \notin {"READY", "RUNNING", "WTSEM", "WTMTX"}
  <2>1. r = ul \/ r = m1
    BY <1>2, <1>6
  <2>2. Shape(r) /\ Only(m1, r, {"ready", "wait_list"})
    BY <1>1, <1>3, <2>1 DEF Only
  <2> QED BY <1>4, <1>6, <2>2
<1>7. CASE m.state[t] = "WTSEM"
  <2> DEFINE o == m.obj[t]
             v == [m.value EXCEPT ![o] = sem_inc(m.value[o], SemLimit[o], 1)]
             f == sem_fast_signal(m1, o)
  <2>1. r = unlink(f, X) /\ o \in Sems
    BY <1>2, <1>7
  <2>2. Shape(f) /\ Only(m1, f, {"value"}) /\ f.value = v
    <3>1. m1.value = m.value
      BY <1>1 DEF Only, Fields
    <3> HIDE DEF o
    <3> QED BY <1>1, <3>1 DEF sem_fast_signal, Shape, Only, Fields
  <2> HIDE DEF f, v
  <2>3. Shape(r) /\ Only(f, r, {"wait_list"})
    BY <2>1, <2>2, UnlinkFields
  <2>4. /\ r.value = v /\ r.refcnt = m.refcnt /\ r.bitset = m.bitset /\ r.live = m.live
        /\ r.state = m.state /\ r.obj = m.obj /\ r.evbits = m.evbits /\ r.wait_aborted = m.wait_aborted
    BY <1>1, <2>2, <2>3 DEF Only, Fields
  <2>5. GivenBack(m, r.value, t)
    <3>1. m.state[t] = "WTSEM" /\ o \in Sems /\ o = m.obj[t]
      BY <1>7, <2>1
    <3> HIDE DEF o
    <3>2. GivenBack(m, v, t)
      BY <3>1, RequestOf DEF v
    <3> QED BY <2>4, <3>2
  <2> QED BY <2>3, <2>4, <2>5 DEF Leaves, SameTasks
<1>8. CASE m.state[t] = "WTMTX"
  <2> DEFINE x == m.obj[t]
  <2>1. r = mutex_waiter_removed(ul, x) /\ x \in Mtxs
    BY <1>2, <1>8
  <2>2. ul.owner = m.owner
    BY <1>1, <1>3 DEF Only, Fields
  <2> HIDE DEF ul, x
  <2>3. r = ul \/ (ul.owner[x] \in Task /\ r = inherit(ul, ul.owner[x]))
    BY <2>1, <2>2 DEF mutex_waiter_removed
  <2>4. /\ Shape(r) /\ Only(ul, r, {"prio", "ready", "state", "bug", "wait_list"}) /\ SameTasks(ul, r, {})
    <3>1. CASE r = ul
      BY <1>3, <3>1 DEF Only, SameTasks
    <3>2. CASE ul.owner[x] \in Task /\ r = inherit(ul, ul.owner[x])
      BY <1>3, <3>2, InheritFields
    <3> QED BY <2>3, <3>1, <3>2
  <2>5. /\ ul.value = m.value /\ ul.refcnt = m.refcnt /\ ul.bitset = m.bitset /\ ul.live = m.live
        /\ ul.state = m.state /\ ul.obj = m.obj /\ ul.evbits = m.evbits /\ ul.wait_aborted = m.wait_aborted
    BY <1>1, <1>3 DEF Only, Fields
  <2>6. r.value = ul.value /\ r.refcnt = ul.refcnt /\ r.bitset = ul.bitset /\ r.live = ul.live /\ r.wait_aborted = ul.wait_aborted
    BY <2>4 DEF Only, Fields
  <2>7. GivenBack(m, r.value, t)
    BY <1>8, <2>5, <2>6, NoRequestOf
  <2>8. SameTasks(m, r, {t})
    BY <2>4, <2>5 DEF SameTasks
  <2> QED BY <2>4, <2>5, <2>6, <2>7, <2>8 DEF Leaves
<1> QED BY <1>5, <1>6, <1>7, <1>8

\* ... and is suspended or dead.
LEMMA KillLeaves ==
  ASSUME NEW m, Shape(m), m.value \in [Sems -> Int], m.owner \in [Mtxs -> Task \cup {Null}], NEW t \in Task,
         m.state[t] = "WTSEM" => m.obj[t] \in Sems, m.state[t] = "WTMTX" => m.obj[t] \in Mtxs,
         NEW suspend \in BOOLEAN
  PROVE  LET r == kill_or_suspend(m, t, suspend) IN
         /\ Leaves(m, r, t)
         /\ r.state[t] = IF suspend THEN "SUSPEND" ELSE "ZOMBIE"
         /\ r.wait_aborted[t] = IF m.state[t] \in Waiting \ {"WTCOND"} THEN suspend ELSE m.wait_aborted[t]
<1> DEFINE a == Detach(m, t)
           b == IF m.state[t] \in Waiting \ {"WTCOND"}
                THEN [a EXCEPT !.wait_aborted = [@ EXCEPT ![t] = suspend]] ELSE a
           r == IF suspend THEN [b EXCEPT !.state = [@ EXCEPT ![t] = "SUSPEND"]]
                ELSE [b EXCEPT !.state = [@ EXCEPT ![t] = "ZOMBIE"], !.zombie = Append(@, t)]
           st == IF suspend THEN "SUSPEND" ELSE "ZOMBIE"
<1>1. kill_or_suspend(m, t, suspend) = r
  BY DEF kill_or_suspend, Detach
<1>2. Leaves(m, a, t) /\ a.wait_aborted = m.wait_aborted
  BY DetachLeaves
<1> HIDE DEF a
<1>3. Shape(a)
  BY <1>2 DEF Leaves
<1>4. /\ Shape(b) /\ Only(a, b, {"wait_aborted"})
      /\ b.wait_aborted[t] = IF m.state[t] \in Waiting \ {"WTCOND"} THEN suspend ELSE m.wait_aborted[t]
      /\ \A u \in Task \ {t} : b.wait_aborted[u] = m.wait_aborted[u]
  BY <1>2, <1>3 DEF Shape, Only, Fields
<1> HIDE DEF b
<1>5. st \in State
  BY DEF State
<1>6. Only(b, r, {"state", "zombie"}) /\ r.state = [b.state EXCEPT ![t] = st] /\ DOMAIN r = Fields
  BY <1>4 DEF Shape, Only, Fields
<1> HIDE DEF r, st
<1>7. /\ r.value = a.value /\ r.refcnt = a.refcnt /\ r.bitset = a.bitset /\ r.live = a.live
      /\ b.state = a.state /\ r.obj = a.obj /\ r.evbits = a.evbits /\ r.wait_aborted = b.wait_aborted
  BY <1>4, <1>6 DEF Only, Fields
<1>8. Shape(r)
  BY <1>3, <1>4, <1>5, <1>6, <1>7 DEF Shape
<1>9. r.state[t] = st /\ \A u \in Task \ {t} : r.state[u] = a.state[u]
  BY <1>3, <1>6, <1>7 DEF Shape
<1>10. Leaves(m, r, t)
  <2>1. SameTasks(m, r, {t})
    BY <1>2, <1>7, <1>9 DEF Leaves, SameTasks
  <2> QED BY <1>2, <1>4, <1>7, <1>8, <2>1 DEF Leaves
<1> QED BY <1>1, <1>4, <1>7, <1>9, <1>10 DEF st

\* The counters after t has left its list and waits for no token.
LEMMA LeavesSems ==
  ASSUME NEW m, SemsOK(m), m.value \in [Sems -> Int], NEW t \in Task, NEW r, Leaves(m, r, t), r.state[t] # "WTSEM"
  PROVE  SemsOK(r)
<1> DEFINE S == {t}
<1>1. \A s \in Sems : r.value[s] = sem_inc(m.value[s], SemLimit[s], Cardinality(Requests(m, S, s)))
  BY DEF Leaves, GivenBack
<1>2. /\ \A u \in Task \ S : /\ r.state[u] = "WTSEM" <=> m.state[u] = "WTSEM"
                             /\ m.state[u] = "WTSEM" => r.obj[u] = m.obj[u]
      /\ \A u \in S : r.state[u] # "WTSEM"
      /\ Sems \cap r.live = Sems \cap m.live /\ S \in SUBSET Task
  BY DEF Leaves, SameTasks, Up
<1> HIDE DEF S
<1> QED BY <1>1, <1>2, TokensBack

\* What a kill or a suspend dereferences.
LEMMA KillTypes ==
  ASSUME NEW m, NEW c, KernelOK(m, c), NEW t \in Task
  PROVE  /\ Shape(m) /\ m.value \in [Sems -> Int] /\ m.owner \in [Mtxs -> Task \cup {Null}]
         /\ m.state[t] = "WTSEM" => m.obj[t] \in Sems
         /\ m.state[t] = "WTMTX" => m.obj[t] \in Mtxs
<1>1. Blocked(m.state[t], c[t], m.obj[t], m.wait_aborted[t])
  BY CoreParts DEF KernelOK, BlockedOK
<1> QED BY <1>1, KernelShape, KernelTypes DEF Blocked

\* A suspended task gives its token back, and will take up its wait again.
LEMMA TaskSuspendService ==
  ASSUME KernelOK(k, call), KernelOK(k', call'), ServiceOK(k, call), NEW t \in Task, NEW u \in Tasks,
         TaskSuspend(t, u)
  PROVE  ServiceOK(k', call')
<1> DEFINE r == kill_or_suspend(k, u, TRUE)
           b == TRUE
<1>0. u \in Task /\ CallsOK(call) /\ BlockedOK(k, call, {}) /\ call \in [Task -> Call] /\ k.state[u] \notin Gone
  BY CoreParts, KernelShape DEF KernelOK, Task, TaskSuspend, Handle, Dead, Gone
<1>1. /\ Shape(k) /\ k.value \in [Sems -> Int] /\ k.owner \in [Mtxs -> Task \cup {Null}]
      /\ k.state[u] = "WTSEM" => k.obj[u] \in Sems
      /\ k.state[u] = "WTMTX" => k.obj[u] \in Mtxs
  BY <1>0, KillTypes
<1>2. /\ Leaves(k, r, u) /\ r.state[u] = "SUSPEND"
      /\ r.wait_aborted[u] = IF k.state[u] \in Waiting \ {"WTCOND"} THEN TRUE ELSE k.wait_aborted[u]
  <2>0. b \in BOOLEAN
    OBVIOUS
  <2>1. b = TRUE
    OBVIOUS
  <2> HIDE DEF b
  <2> DEFINE q == kill_or_suspend(k, u, b)
  <2>2. /\ Leaves(k, q, u)
        /\ q.state[u] = IF b THEN "SUSPEND" ELSE "ZOMBIE"
        /\ q.wait_aborted[u] = IF k.state[u] \in Waiting \ {"WTCOND"} THEN b ELSE k.wait_aborted[u]
    BY <1>0, <1>1, <2>0, KillLeaves
  <2>3. q = r
    BY <2>1
  <2> HIDE DEF q, r
  <2> QED BY <2>1, <2>2, <2>3
<1>3. k' = r
  BY DEF TaskSuspend
<1> HIDE DEF r
<1>4. SemsOK(r)
  BY <1>0, <1>1, <1>2, LeavesSems DEF ServiceOK
<1>5. Rest(r, call)
  <2> DEFINE S == {u}
  <2>1. RestKept(k, r, call, S)
    BY <1>0, <1>2 DEF RestKept, Leaves, Returned, Waiting
  <2> HIDE DEF S
  <2> QED BY <1>0, <2>1, RestService DEF ServiceOK, Rest
<1>6. ServiceOK(k', call) /\ k' \in Kernel
  BY <1>3, <1>4, <1>5, KernelShape DEF ServiceOK, Rest
<1> DEFINE d == [NoCall EXCEPT !.op = "suspend", !.pc = "yield"]
<1>7. call' = call \/ (call' = [call EXCEPT ![u] = d] /\ d.op # "exit" /\ d \in Call)
  <2>1. call' = call \/ (call' = [call EXCEPT ![u] = d])
    BY DEF TaskSuspend
  <2>2. d.op # "exit"
    BY DEF NoCall
  <2>3. call' \in [Task -> Call]
    BY KernelShape
  <2> HIDE DEF d
  <2> QED BY <1>0, <2>1, <2>2, <2>3
<1> HIDE DEF d
<1>8. k'.state[u] # "WTEVT"
  BY <1>2, <1>3
<1> QED BY <1>0, <1>6, <1>7, <1>8, CallService

\* The end of u: those that wait for it are woken, and it waits for nothing.
Killed(m, r, c, u) ==
  LET X == {v \in Task : m.state[v] = "WTEXIT" /\ c[v].o = u} IN
  /\ r.refcnt = m.refcnt /\ r.bitset = m.bitset /\ SemsOK(r)
  /\ SameTasks(m, r, X \cup {u})
  /\ \A v \in Task \ {u} : r.wait_aborted[v] = m.wait_aborted[v]
  /\ \A v \in X \ {u} : r.state[v] \in Up
  /\ r.state[u] \in Gone

\* The end of a task keeps the promises.
LEMMA KilledService ==
  ASSUME NEW m, NEW c, KernelOK(m, c), ServiceOK(m, c), NEW u \in Task, NEW r, NEW d, KernelOK(r, d),
         Killed(m, r, c, u), d[u].op # "exit", \A v \in Task \ {u} : d[v] = c[v]
  PROVE  ServiceOK(r, d)
<1> DEFINE X == {v \in Task : m.state[v] = "WTEXIT" /\ c[v].o = u}
<1>0. /\ CallsOK(c) /\ CallsOK(d) /\ SemsOK(r) /\ r.state[u] \in Gone /\ r.refcnt = m.refcnt /\ r.bitset = m.bitset
      /\ SameTasks(m, r, X \cup {u}) /\ (\A v \in X \ {u} : r.state[v] \in Up)
      /\ \A v \in Task \ {u} : r.wait_aborted[v] = m.wait_aborted[v]
  BY KernelShape DEF Killed
<1>1. \A v \in Task : r.state[v] = "WTEVT" => v # u /\ m.state[v] = "WTEVT" /\ r.evbits[v] = m.evbits[v]
  BY <1>0 DEF SameTasks, Up, Gone
<1>2. EventsOK(r, d)
  BY <1>0, <1>1 DEF EventsOK, ServiceOK
<1>3. ExitsOK(r, d)
  <2> SUFFICES ASSUME NEW v \in Task, Returned(r, d, v)
               PROVE  r.state[d[v].o] \in Gone
    BY DEF ExitsOK
  <2>1. v # u /\ d[v] = c[v] /\ c[v].o \in Task
    BY <1>0 DEF Returned, CallsOK, CallKind, Task
  <2>2. CASE v \in X
    BY <1>0, <2>1, <2>2
  <2>3. CASE v \notin X
    <3>1. Returned(m, c, v) \/ c[v].o = u
      BY <1>0, <2>1, <2>3 DEF Returned, SameTasks, Up
    <3>2. CASE c[v].o = u
      BY <1>0, <2>1, <3>2
    <3>3. CASE c[v].o # u
      <4>1. m.state[c[v].o] \in Gone
        BY <3>1, <3>3 DEF ServiceOK, ExitsOK
      <4>2. c[v].o \notin X
        BY <4>1 DEF Gone
      <4> QED BY <1>0, <2>1, <3>3, <4>1, <4>2 DEF SameTasks, Up, Gone
    <3> QED BY <3>2, <3>3
  <2> QED BY <2>2, <2>3
<1>4. RefsOK(r, d)
  <2> SUFFICES ASSUME NEW v \in Tasks
               PROVE  Cardinality(InWaitFor(d, v)) <= r.refcnt[v]
    BY DEF RefsOK
  <2>1. InWaitFor(d, v) \subseteq InWaitFor(c, v) /\ InWaitFor(c, v) \subseteq Task
    BY DEF InWaitFor
  <2>2. IsFiniteSet(InWaitFor(c, v))
    BY <2>1, FiniteTasks, FS_Subset
  <2>3. /\ Cardinality(InWaitFor(d, v)) <= Cardinality(InWaitFor(c, v))
        /\ Cardinality(InWaitFor(d, v)) \in Nat /\ Cardinality(InWaitFor(c, v)) \in Nat
    BY <2>1, <2>2, FS_Subset, FS_CardinalityType
  <2>4. m.refcnt[v] \in Nat
    BY KernelTypes, KernelShape DEF Task
  <2>5. Cardinality(InWaitFor(c, v)) <= m.refcnt[v]
    BY DEF ServiceOK, RefsOK
  <2> QED BY <1>0, <2>3, <2>4, <2>5
<1> QED BY <1>0, <1>2, <1>3, <1>4 DEF ServiceOK

\* Who waits for the end of u.
LEMMA ExitWaiter ==
  ASSUME NEW m, NEW c, KernelOK(m, c), NEW u \in Task, NEW t \in Task
  PROVE  t \in Range(m.wait_list[u]) <=> m.state[t] = "WTEXIT" /\ c[t].o = u
<1>1. WaitPlaced(m, c, {}) /\ BlockedOK(m, c, {}) /\ CallsOK(c) /\ m \in Kernel
  BY CoreParts DEF KernelOK
<1>2. u \in Obj /\ u \notin Sems /\ u \notin Mtxs /\ u \notin Cvs /\ u \notin Evts
  BY SyncObjects, MutexObjects
<1>3. t \in Range(m.wait_list[u]) <=> m.state[t] \in Waiting /\ Aw(m, c, t) = u
  BY <1>1, <1>2 DEF WaitPlaced
<1>4. m.state[t] \in Waiting => Blocked(m.state[t], c[t], m.obj[t], m.wait_aborted[t])
  BY <1>1 DEF BlockedOK
<1>5. m.state[t] = "WTEVT" => c[t].o \in Evts
  BY <1>1, <1>4 DEF Blocked, CallsOK, CallKind, Waiting
<1> QED BY <1>2, <1>3, <1>4, <1>5 DEF Blocked, Waiting, Aw

\* isix_task_kill: the mutexes of u are handed over, the waits for its end are
\* over, and its own wait gives back what it asked for.
LEMMA TaskKillService ==
  ASSUME KernelOK(k, call), KernelOK(k', call'), ServiceOK(k, call), NEW t \in Task, NEW u \in Tasks,
         TaskKill(t, u)
  PROVE  ServiceOK(k', call')
<1> DEFINE m1  == mutex_unlock_all_in_task(k, u)
           ws  == m1.wait_list[u]
           msg == IF u = k.currp THEN EOK ELSE EDESTROY
           n   == unlink(m1, Range(ws))
           m2  == wakeup(n, ws, msg)
           m3  == kill_or_suspend(m2, u, FALSE)
           m4  == leave(m3, u)
           b   == m4.pendsv \/ (u # k.currp /\ \E w \in Range(k.wait_list[u]) : prio_gt(m4.prio[w], m4.prio[k.currp]))
           r   == [m4 EXCEPT !.pendsv = b]
           d   == IF u = t THEN [NoCall EXCEPT !.op = "kill", !.pc = "yield"] ELSE NoCall
           X   == {v \in Task : m1.state[v] = "WTEXIT" /\ call[v].o = u}
<1>0. CoreInv(k, call, {}) /\ OwnersOK(k) /\ Shape(k) /\ CallsOK(call) /\ call \in [Task -> Call] /\ t = k.currp
  BY KernelShape, RunningUp DEF TaskKill
<1>1. u \in Task /\ u # Idle /\ u \in Obj
  BY TaskAssumption DEF Task, Obj
<1>2. k' = r /\ call' = [call EXCEPT ![u] = d]
  BY <1>0 DEF TaskKill, task_kill, wake_exit_waiters
<1>3. KernelOK(m1, call)
  <2>1. /\ CoreInv(m1, call, {}) /\ OwnersOK(m1) /\ Signalled(k, m1)
        /\ m1.owned[u] = <<>>
        /\ \A v \in Task : k.state[v] \notin Gone => m1.state[v] \notin Gone
    BY <1>0, <1>1, UnlockAllOK
  <2> HIDE DEF m1
  <2> QED BY <2>1 DEF KernelOK
<1>4. ServiceOK(m1, call)
  <2> DEFINE hs == Heirs(k, Contended(k, u))
  <2>1. hs \in Seq(Task) /\ \A v \in Range(hs) : v \in Task /\ k.state[v] = "WTMTX"
    BY <1>0, <1>1, HeirsOK
  <2>2. Wakes(k, m1, Range(hs))
    BY <1>0, <1>1, <2>1, UnlockAllWakes
  <2> HIDE DEF hs, m1
  <2>3. \A v \in Range(hs) : v \in Task /\ k.state[v] \notin {"WTSEM", "WTEXIT"} \cup Gone
    BY <2>1 DEF Gone
  <2> QED BY <1>0, <2>2, <2>3, WakesService
<1> HIDE DEF m1
<1>5. /\ Shape(m1) /\ ws \in Seq(Task) /\ Range(ws) = X /\ m1.value \in [Sems -> Int]
      /\ m1.owner \in [Mtxs -> Task \cup {Null}]
  <2>1. Shape(m1) /\ ws \in Seq(Task) /\ m1.value \in [Sems -> Int] /\ m1.owner \in [Mtxs -> Task \cup {Null}]
    BY <1>1, <1>3, KernelShape, KernelTypes
  <2>2. Range(ws) = X
    BY <1>1, <1>3, <2>1, RangeType, ExitWaiter
  <2> QED BY <2>1, <2>2
<1> HIDE DEF ws, msg
<1>6. Shape(n) /\ Only(m1, n, {"wait_list"})
  BY <1>5, UnlinkFields
<1> HIDE DEF n
<1>7. /\ Shape(m2) /\ Only(n, m2, {"p_wait", "pov_wait", "deadline", "left", "obj", "evbits", "bug", "state", "ready"})
      /\ m2.state = [v \in Task |-> IF v \in Range(ws) THEN "READY" ELSE n.state[v]]
      /\ m2.obj = [v \in Task |-> IF v \in Range(ws) THEN msg ELSE n.obj[v]]
      /\ m2.evbits = [v \in Task |-> IF v \in Range(ws) THEN NoBits ELSE n.evbits[v]]
  BY <1>6, WakeupFields
<1> HIDE DEF m2
<1>8. /\ m2.value = m1.value /\ m2.owner = m1.owner /\ m2.live = m1.live /\ m2.refcnt = m1.refcnt
      /\ m2.bitset = m1.bitset /\ m2.wait_aborted = m1.wait_aborted
      /\ n.state = m1.state /\ n.obj = m1.obj /\ n.evbits = m1.evbits
  BY <1>6, <1>7 DEF Only, Fields
<1>9. /\ \A v \in X : m2.state[v] = "READY"
      /\ \A v \in Task \ X : m2.state[v] = m1.state[v] /\ m2.obj[v] = m1.obj[v] /\ m2.evbits[v] = m1.evbits[v]
  <2>1. X \subseteq Task
    OBVIOUS
  <2> HIDE DEF X
  <2> QED BY <1>5, <1>7, <1>8, <2>1
<1>10. SemsOK(m2)
  <2>1. \A v \in Task : /\ m2.state[v] = "WTSEM" <=> m1.state[v] = "WTSEM"
                        /\ m1.state[v] = "WTSEM" => m2.obj[v] = m1.obj[v]
    BY <1>9
  <2>2. SemsOK(m1) /\ m2.value = m1.value /\ Sems \cap m2.live = Sems \cap m1.live
    BY <1>4, <1>8 DEF ServiceOK
  <2> QED BY <2>1, <2>2, SemsSame
<1>11. /\ m2.value \in [Sems -> Int] /\ m2.owner \in [Mtxs -> Task \cup {Null}]
       /\ m2.state[u] = "WTSEM" => m2.obj[u] \in Sems
       /\ m2.state[u] = "WTMTX" => m2.obj[u] \in Mtxs
  <2>1. /\ m1.state[u] = "WTSEM" => m1.obj[u] \in Sems
        /\ m1.state[u] = "WTMTX" => m1.obj[u] \in Mtxs
    BY <1>1, <1>3, KillTypes
  <2> QED BY <1>1, <1>5, <1>8, <1>9, <2>1
<1>12. Leaves(m2, m3, u) /\ m3.state[u] = "ZOMBIE"
  <2> DEFINE f == FALSE
             q == kill_or_suspend(m2, u, f)
  <2>0. f \in BOOLEAN
    OBVIOUS
  <2>1. f = FALSE
    OBVIOUS
  <2> HIDE DEF f
  <2>2. /\ Leaves(m2, q, u)
        /\ q.state[u] = IF f THEN "SUSPEND" ELSE "ZOMBIE"
        /\ q.wait_aborted[u] = IF m2.state[u] \in Waiting \ {"WTCOND"} THEN f ELSE m2.wait_aborted[u]
    BY <1>1, <1>7, <1>11, <2>0, KillLeaves
  <2>3. q = m3
    BY <2>1
  <2> HIDE DEF q, m3
  <2> QED BY <2>1, <2>2, <2>3
<1> HIDE DEF m3
<1>13. SemsOK(m3) /\ Shape(m3)
  BY <1>1, <1>10, <1>11, <1>12, LeavesSems DEF Leaves
<1>14. Touches(m3, m4, {u}) /\ m4.state = m3.state /\ Shape(m4)
  <2>1. LET z == leave(m3, u) IN Touches(m3, z, {u}) /\ z.state = m3.state /\ ~z.wait_aborted[u] /\ Shape(z)
    BY <1>1, <1>13, LeaveTouches
  <2> QED BY <2>1
<1> HIDE DEF m4, b
<1>15. Only(m4, r, {"pendsv"})
  BY <1>14 DEF Shape, Only, Fields
<1> HIDE DEF r
<1>16. /\ r.state = m3.state /\ r.value = m3.value /\ r.refcnt = m3.refcnt /\ r.bitset = m3.bitset
       /\ Sems \cap r.live = Sems \cap m3.live /\ r.obj = m4.obj /\ r.evbits = m4.evbits /\ r.wait_aborted = m4.wait_aborted
  <2>1. /\ r.state = m4.state /\ r.value = m4.value /\ r.refcnt = m4.refcnt /\ r.bitset = m4.bitset
        /\ r.live = m4.live /\ r.obj = m4.obj /\ r.evbits = m4.evbits /\ r.wait_aborted = m4.wait_aborted
    BY <1>15 DEF Only, Fields
  <2> QED BY <1>14, <2>1 DEF Touches
<1>17. \A v \in Task \ {u} : /\ r.obj[v] = m3.obj[v] /\ r.evbits[v] = m3.evbits[v]
                             /\ r.wait_aborted[v] = m3.wait_aborted[v]
  BY <1>14, <1>16 DEF Touches, SameTasks
<1>18. SemsOK(r)
  <2>1. \A v \in Task : /\ r.state[v] = "WTSEM" <=> m3.state[v] = "WTSEM"
                        /\ m3.state[v] = "WTSEM" => r.obj[v] = m3.obj[v]
    BY <1>12, <1>16, <1>17
  <2> QED BY <1>13, <1>16, <2>1, SemsSame
<1>19. Killed(m1, r, call, u)
  <2>1. r.refcnt = m1.refcnt /\ r.bitset = m1.bitset
    BY <1>8, <1>12, <1>16 DEF Leaves
  <2>2. SameTasks(m1, r, X \cup {u})
    <3> HIDE DEF X
    <3> QED BY <1>9, <1>12, <1>16, <1>17 DEF SameTasks, Leaves
  <2>3. \A v \in Task \ {u} : r.wait_aborted[v] = m1.wait_aborted[v]
    BY <1>8, <1>12, <1>17 DEF Leaves
  <2>4. \A v \in X \ {u} : r.state[v] \in Up
    BY <1>9, <1>12, <1>16 DEF Leaves, SameTasks, Up
  <2>5. r.state[u] \in Gone
    BY <1>12, <1>16 DEF Gone
  <2> QED BY <1>18, <2>1, <2>2, <2>3, <2>4, <2>5 DEF Killed
<1>20. call'[u].op # "exit" /\ \A v \in Task \ {u} : call'[v] = call[v]
  <2>1. d.op # "exit"
    BY DEF NoCall
  <2> HIDE DEF d
  <2> QED BY <1>0, <1>1, <1>2, <2>1
<1> HIDE DEF d, X
<1> QED BY <1>1, <1>2, <1>3, <1>4, <1>19, <1>20, KilledService

\* A change of priority and a resume wake at most a suspended task.
LEMMA TaskChangePrioService ==
  ASSUME KernelOK(k, call), KernelOK(k', call'), ServiceOK(k, call), NEW t \in Task, NEW u \in Tasks, NEW p,
         TaskChangePrio(t, u, p)
  PROVE  ServiceOK(k', call')
<1> DEFINE m == [k EXCEPT !.real_prio = [@ EXCEPT ![u] = p]]
           n == reallocate_priority(m, u, p)
<1>0. Shape(k) /\ DOMAIN k = Fields /\ CallsOK(call) /\ u \in Task
  BY KernelShape DEF Task
<1>1. call' = call /\ (k' = m \/ k' = port_yield(n))
  BY DEF TaskChangePrio
<1>2. Shape(m) /\ Only(k, m, {"real_prio"})
  BY <1>0 DEF Shape, Only, Fields
<1> HIDE DEF m
<1>3. Wakes(k, m, {})
  BY <1>0, <1>2, WakesNobody DEF Kept
<1>4. Wakes(m, n, {}) /\ Shape(n)
  <2>1. Wakes(m, n, {})
    BY <1>0, <1>2, FunctionsWake
  <2> QED BY <2>1 DEF Wakes
<1> HIDE DEF n
<1> DEFINE y == port_yield(n)
<1>5. Shape(y) /\ Only(n, y, {"pendsv"})
  BY <1>4 DEF port_yield, Shape, Only, Fields
<1> HIDE DEF y
<1>6. Wakes(n, y, {})
  BY <1>4, <1>5, WakesNobody DEF Kept
<1>7. Wakes(k, y, {})
  <2>1. Wakes(k, n, {} \cup {})
    BY <1>3, <1>4, WakesTrans
  <2>2. Wakes(k, n, {})
    BY <2>1
  <2>3. Wakes(k, y, {} \cup {})
    BY <1>6, <2>2, WakesTrans
  <2> QED BY <2>3
<1>8. Wakes(k, k', {})
  BY <1>1, <1>3, <1>7 DEF y
<1> QED BY <1>0, <1>1, <1>8, WakesService

\* isix_task_resume.
LEMMA TaskResumeService ==
  ASSUME KernelOK(k, call), KernelOK(k', call'), ServiceOK(k, call), NEW t \in Task, NEW u \in Tasks,
         TaskResume(t, u)
  PROVE  ServiceOK(k', call')
<1> DEFINE ts == <<u>>
           X  == {u}
           w  == wakeup(k, ts, EOK)
<1>0. Shape(k) /\ CallsOK(call) /\ u \in Task
  BY KernelShape DEF Task
<1>1. call' = call /\ k.state[u] = "SUSPEND" /\ k' = do_reschedule(w, u)
  BY DEF TaskResume, task_resume
<1>2. Range(ts) = X
  BY OneElement
<1> HIDE DEF ts
<1>3. Wakes(k, w, X) /\ Shape(w)
  <2>1. Wakes(k, w, Range(ts))
    BY <1>0, FunctionsWake
  <2> QED BY <1>2, <2>1 DEF Wakes
<1> HIDE DEF w
<1>4. Wakes(w, do_reschedule(w, u), {})
  BY <1>0, <1>3, FunctionsWake
<1>5. \A v \in X : v \in Task /\ k.state[v] \notin {"WTSEM", "WTEXIT"} \cup Gone
  BY <1>0, <1>1 DEF Gone
<1> HIDE DEF X
<1>6. Wakes(k, k', X)
  <2>1. Wakes(k, k', X \cup {})
    BY <1>1, <1>3, <1>4, WakesTrans
  <2> QED BY <2>1
<1> QED BY <1>0, <1>1, <1>5, <1>6, WakesService

\* A dead task is moved on, and its control block freed: it stays gone.
LEMMA BuriedService ==
  ASSUME NEW m, NEW c, KernelOK(m, c), ServiceOK(m, c), NEW u \in Task, m.state[u] \in Gone,
         NEW r, Touches(m, r, {u}), r.state[u] \in Gone, r.wait_aborted = m.wait_aborted
  PROVE  ServiceOK(r, c)
<1> DEFINE S == {u}
<1>1. /\ \A t \in S : /\ m.state[t] # "WTSEM" /\ r.state[t] \notin {"WTSEM", "WTEVT"}
                      /\ m.state[t] \in Gone => r.state[t] \in Gone
                      /\ Returned(r, c, t) => Returned(m, c, t)
      /\ Touches(m, r, S) /\ CallsOK(c)
  BY KernelShape DEF Gone, Returned
<1> HIDE DEF S
<1> QED BY <1>1, TouchService

\* The idle task takes a zombie off the list.
LEMMA CleanupService ==
  ASSUME KernelOK(k, call), KernelOK(k', call'), ServiceOK(k, call), Cleanup
  PROVE  ServiceOK(k', call')
<1> DEFINE u == Head(k.zombie)
           d == [NoCall EXCEPT !.op = "cleanup", !.pc = "enter", !.o = u]
<1>0. Shape(k) /\ DOMAIN k = Fields /\ call \in [Task -> Call] /\ LifeOK(k, call) /\ k.zombie \in Seq(Task) /\ k.zombie # <<>>
  BY KernelShape, KernelTypes, CoreParts DEF KernelOK, Cleanup
<1>1. u \in Task /\ k.state[u] = "ZOMBIE"
  <2>1. u \in Range(k.zombie) /\ Range(k.zombie) \subseteq Task
    BY <1>0, EmptyRange, RangeType
  <2> QED BY <1>0, <2>1 DEF LifeOK
<1>2. k' = [k EXCEPT !.zombie = Tail(@), !.state = [@ EXCEPT ![u] = "EXITED"]]
  BY DEF Cleanup
<1>3. call' = call \/ call' = [call EXCEPT ![Idle] = d]
  BY DEF Cleanup
<1> HIDE DEF u
<1>4. /\ k'.value = k.value /\ k'.bitset = k.bitset /\ k'.refcnt = k.refcnt /\ k'.live = k.live
      /\ k'.obj = k.obj /\ k'.evbits = k.evbits /\ k'.wait_aborted = k.wait_aborted
      /\ k'.state = [k.state EXCEPT ![u] = "EXITED"]
  BY <1>0, <1>2 DEF Fields
<1>5. k'.state[u] = "EXITED" /\ Touches(k, k', {u})
  BY <1>0, <1>1, <1>4 DEF Touches, SameTasks, Shape
<1>6. ServiceOK(k', call)
  BY <1>1, <1>4, <1>5, BuriedService DEF Gone
<1>7. d.op # "exit"
  BY DEF NoCall
<1> HIDE DEF d
<1>8. k'.state[Idle] # "WTEVT" /\ Idle \in Task /\ k' \in Kernel /\ call' \in [Task -> Call]
  <2>1. CurrentOK(k', call', {}) /\ k' \in Kernel /\ call' \in [Task -> Call]
    BY CoreParts DEF KernelOK
  <2> QED BY <2>1 DEF CurrentOK, Up, Task
<1>9. call' = call \/ (call' = [call EXCEPT ![Idle] = d] /\ d \in Call)
  BY <1>0, <1>3, <1>8
<1> QED BY <1>0, <1>6, <1>7, <1>8, <1>9, CallService

\* The control block is freed.
LEMMA FreeTcbService ==
  ASSUME KernelOK(k, call), KernelOK(k', call'), ServiceOK(k, call), NEW t \in Task, FreeTcb(t)
  PROVE  ServiceOK(k', call')
<1> DEFINE u == call[t].o
           c == [call EXCEPT ![t] = NoCall]
<1>0. /\ Shape(k) /\ DOMAIN k = Fields /\ call \in [Task -> Call] /\ LifeOK(k, call) /\ CallsOK(call)
      /\ k.state[t] \in Up /\ NoCall \in Call /\ NoCall.op # "exit"
  <2>1. Exec(t) /\ call[t].pc = "enter"
    BY DEF FreeTcb
  <2> QED BY <2>1, ExecUp, KernelShape, CoreParts, NoCallFits DEF KernelOK, NoCall
<1>1. u \in Task /\ k.state[u] = "EXITED"
  BY <1>0 DEF FreeTcb, CallsOK, CallKind, LifeOK, Freeing, Task
<1>2. /\ k' = [k EXCEPT !.bug   = @ \/ k.state[u] = "NONE",
                        !.state = [@ EXCEPT ![u] = "NONE"],
                        !.prio  = [@ EXCEPT ![u] = BasePrio[u]],
                        !.real_prio = [@ EXCEPT ![u] = BasePrio[u]]]
      /\ call' = [c EXCEPT ![u] = NoCall]
  BY <1>0, <1>1 DEF FreeTcb
<1> HIDE DEF u
<1>4. /\ k'.value = k.value /\ k'.bitset = k.bitset /\ k'.refcnt = k.refcnt /\ k'.live = k.live
      /\ k'.obj = k.obj /\ k'.evbits = k.evbits /\ k'.wait_aborted = k.wait_aborted
      /\ k'.state = [k.state EXCEPT ![u] = "NONE"]
  BY <1>0, <1>2 DEF Fields
<1>5. k'.state[u] = "NONE" /\ Touches(k, k', {u}) /\ k'.state[t] # "WTEVT"
  BY <1>0, <1>1, <1>4 DEF Touches, SameTasks, Shape, Up
<1>6. ServiceOK(k', call) /\ k' \in Kernel
  <2>1. ServiceOK(k', call)
    BY <1>1, <1>4, <1>5, BuriedService DEF Gone
  <2> QED BY <2>1, KernelShape
<1> DEFINE N == NoCall
<1> HIDE DEF N
<1>7. N \in Call /\ N.op # "exit" /\ c = [call EXCEPT ![t] = N] /\ call' = [c EXCEPT ![u] = N]
  BY <1>0, <1>2 DEF N
<1>8. c \in [Task -> Call]
  BY <1>0, <1>7
<1> HIDE DEF c
<1>9. ServiceOK(k', c)
  BY <1>0, <1>5, <1>6, <1>7, CallService
<1>10. k'.state[u] # "WTEVT"
  BY <1>5
<1> QED BY <1>1, <1>6, <1>7, <1>8, <1>9, <1>10, CallService

\* The references held by those inside isix_task_wait_for can be counted.
LEMMA HeldReferences ==
  ASSUME NEW c, NEW u
  PROVE  IsFiniteSet(InWaitFor(c, u)) /\ Cardinality(InWaitFor(c, u)) \in Nat
<1>1. InWaitFor(c, u) \subseteq Task
  BY DEF InWaitFor
<1> QED BY <1>1, FiniteTasks, FS_Subset, FS_CardinalityType

\* A reference is taken, or one is given back that no wait needs.
LEMMA ReferenceService ==
  ASSUME NEW m, NEW c, KernelOK(m, c), ServiceOK(m, c), NEW u \in Tasks, NEW n \in Nat,
         Cardinality(InWaitFor(c, u)) <= n, NEW r, r = [m EXCEPT !.refcnt = [m.refcnt EXCEPT ![u] = n]]
  PROVE  ServiceOK(r, c) /\ r.state = m.state
<1> DEFINE f == [m.refcnt EXCEPT ![u] = n]
<1>0. DOMAIN m = Fields /\ m.refcnt \in [Task -> Nat] /\ u \in Task
  BY KernelShape, KernelTypes DEF Task
<1>1. f[u] = n /\ \A v \in Task \ {u} : f[v] = m.refcnt[v]
  BY <1>0
<1>2. r = [m EXCEPT !.refcnt = f]
  OBVIOUS
<1> HIDE DEF f
<1>3. /\ r.value = m.value /\ r.live = m.live /\ r.bitset = m.bitset /\ r.state = m.state /\ r.obj = m.obj
      /\ r.evbits = m.evbits /\ r.wait_aborted = m.wait_aborted /\ r.refcnt = f
  BY <1>0, <1>2 DEF Fields
<1>4. SemsOK(r)
  BY <1>3, SemsSame DEF ServiceOK
<1>5. EventsOK(r, c) /\ ExitsOK(r, c)
  BY <1>3 DEF ServiceOK, EventsOK, ExitsOK, Returned
<1>6. RefsOK(r, c)
  BY <1>1, <1>3 DEF ServiceOK, RefsOK, Task
<1> QED BY <1>3, <1>4, <1>5, <1>6 DEF ServiceOK

\* isix_task_ref.
LEMMA TaskRefService ==
  ASSUME KernelOK(k, call), KernelOK(k', call'), ServiceOK(k, call), NEW t \in Task, NEW u \in Tasks,
         TaskRef(t, u)
  PROVE  ServiceOK(k', call')
<1> DEFINE n == k.refcnt[u] + 1
<1>0. k \in Kernel /\ k.refcnt[u] \in Nat /\ call' = call
  BY KernelShape, KernelTypes DEF TaskRef, Task
<1>1. k' = [k EXCEPT !.refcnt = [k.refcnt EXCEPT ![u] = n]]
  BY <1>0 DEF TaskRef, Kernel
<1>2. n \in Nat /\ Cardinality(InWaitFor(call, u)) <= n
  <2>1. Cardinality(InWaitFor(call, u)) <= k.refcnt[u] /\ Cardinality(InWaitFor(call, u)) \in Nat
    BY HeldReferences DEF ServiceOK, RefsOK
  <2> QED BY <1>0, <2>1
<1> HIDE DEF n
<1> QED BY <1>0, <1>1, <1>2, ReferenceService

\* isix_task_unref: the caller gives back a reference of its own, not one that
\* a wait for the exit needs.
LEMMA TaskUnrefService ==
  ASSUME KernelOK(k, call), KernelOK(k', call'), ServiceOK(k, call), NEW t \in Task, NEW u \in Tasks,
         TaskUnref(t, u)
  PROVE  ServiceOK(k', call')
<1> DEFINE n == k.refcnt[u] - 1
           d == [NoCall EXCEPT !.op = "unref", !.pc = "enter", !.o = u]
<1>0. k \in Kernel /\ k.refcnt[u] \in Nat /\ call \in [Task -> Call] /\ call' \in [Task -> Call] /\ k' \in Kernel
  <2>1. k' \in Kernel /\ call' \in [Task -> Call] /\ k \in Kernel /\ call \in [Task -> Call]
    BY KernelShape
  <2>2. k.refcnt[u] \in Nat
    BY <2>1, KernelTypes DEF Task
  <2> QED BY <2>1, <2>2
<1>1. k' = [k EXCEPT !.refcnt = [k.refcnt EXCEPT ![u] = n]]
  BY <1>0 DEF TaskUnref, Kernel
<1>2. n \in Nat /\ Cardinality(InWaitFor(call, u)) <= n
  <2>1. k.refcnt[u] > Cardinality(InWaitFor(call, u)) /\ Cardinality(InWaitFor(call, u)) \in Nat
    BY HeldReferences DEF TaskUnref, ExitWaiters, InWaitFor
  <2> QED BY <1>0, <2>1
<1> HIDE DEF n
<1>3. ServiceOK(k', call) /\ k'.state = k.state
  BY <1>1, <1>2, ReferenceService
<1>4. k'.state[t] # "WTEVT"
  <2>1. k.state[t] \in Up
    BY RunningFree DEF TaskUnref
  <2> QED BY <1>3, <2>1 DEF Up
<1>5. call' = call \/ call' = [call EXCEPT ![t] = d]
  BY DEF TaskUnref
<1>6. d.op # "exit"
  BY DEF NoCall
<1> HIDE DEF d
<1>7. call' = call \/ (call' = [call EXCEPT ![t] = d] /\ d \in Call)
  BY <1>0, <1>5
<1> QED BY <1>0, <1>3, <1>4, <1>6, <1>7, CallService

\* A step that changes the one task x, and the references, so that whoever was
\* told of the end of x is not fooled.
Settles(m, c, r, d, x) ==
  /\ r.value = m.value /\ r.bitset = m.bitset /\ Sems \cap r.live = Sems \cap m.live
  /\ SameTasks(m, r, {x}) /\ (\A v \in Task \ {x} : r.wait_aborted[v] = m.wait_aborted[v] /\ d[v] = c[v])
  /\ m.state[x] # "WTSEM" /\ r.state[x] \notin {"WTSEM", "WTEVT"}
  /\ ~Returned(r, d, x) /\ (\A v \in Task \ {x} : Returned(m, c, v) => c[v].o # x)
  /\ RefsOK(r, d)

\* Such a step keeps the promises.
LEMMA SettleService ==
  ASSUME NEW m, NEW c, CallsOK(c), ServiceOK(m, c), NEW x \in Task, NEW r, NEW d, Settles(m, c, r, d, x)
  PROVE  ServiceOK(r, d)
<1>1. SemsOK(r)
  <2>1. \A v \in Task : /\ r.state[v] = "WTSEM" <=> m.state[v] = "WTSEM"
                        /\ m.state[v] = "WTSEM" => r.obj[v] = m.obj[v]
    BY DEF Settles, SameTasks, Up
  <2>2. r.value = m.value /\ Sems \cap r.live = Sems \cap m.live /\ SemsOK(m)
    BY DEF Settles, ServiceOK
  <2> QED BY <2>1, <2>2, SemsSame
<1>2. EventsOK(r, d)
  BY DEF Settles, SameTasks, Up, EventsOK, ServiceOK
<1>3. ExitsOK(r, d)
  <2> SUFFICES ASSUME NEW v \in Task, Returned(r, d, v)
               PROVE  r.state[d[v].o] \in Gone
    BY DEF ExitsOK
  <2>1. v # x /\ d[v] = c[v] /\ Returned(m, c, v)
    BY DEF Settles, SameTasks, Up, Returned
  <2>2. m.state[c[v].o] \in Gone /\ c[v].o \in Task /\ c[v].o # x
    BY <2>1 DEF Settles, ServiceOK, ExitsOK, Returned, CallsOK, CallKind, Task
  <2> QED BY <2>1, <2>2 DEF Settles, SameTasks, Up, Gone
<1> QED BY <1>1, <1>2, <1>3 DEF ServiceOK, Settles

\* isix_task_wait_for: the wait uses the reference its caller holds, and a wait
\* taken up again the one it has.
LEMMA TaskWaitForService ==
  ASSUME KernelOK(k, call), KernelOK(k', call'), ServiceOK(k, call), NEW t \in Task, NEW u \in Tasks,
         TaskWaitFor(t, u)
  PROVE  ServiceOK(k', call')
<1> DEFINE w  == [k.wait_aborted EXCEPT ![t] = FALSE]
           n  == [k EXCEPT !.wait_aborted = w]
           st == "WTEXIT"
           s  == set_sleep(n, st)
           r  == [s EXCEPT !.wait_list[u] = Append(@, t)]
           d  == [NoCall EXCEPT !.op = "exit", !.pc = "yield", !.o = u]
<1>0. t = k.currp /\ k.state[t] \in Up /\ Shape(k) /\ DOMAIN k = Fields /\ CallsOK(call) /\ call \in [Task -> Call] /\ u \in Task
  <2>1. CASE MayBlock(t)
    BY <2>1, RunningUp, KernelShape DEF MayBlock, Task
  <2>2. CASE Exec(t) /\ call[t].op = "exit" /\ call[t].pc = "enter"
    <3>1. call[t].op \in Blocking
      BY <2>2 DEF Blocking
    <3>2. t = k.currp /\ k.state[t] \in Up
      BY <2>2, <3>1, EnterUp
    <3> QED BY <3>2, KernelShape DEF Task
  <2> QED BY <2>1, <2>2 DEF TaskWaitFor
<1>1. \/ call' = [call EXCEPT ![t] = NoCall] /\ k' = leave(k, t)
      \/ k' = r /\ call' = [call EXCEPT ![t] = d]
  BY DEF TaskWaitFor
<1>2. CASE call' = [call EXCEPT ![t] = NoCall] /\ k' = leave(k, t)
  <2>1. NoCall.op # "exit"
    BY DEF NoCall
  <2>2. call'[t].op # "exit" /\ \A v \in Task \ {t} : call'[v] = call[v]
    <3> DEFINE e == NoCall
    <3> HIDE DEF e
    <3>1. call' = [call EXCEPT ![t] = e] /\ e.op # "exit"
      BY <1>2, <2>1 DEF e
    <3> QED BY <1>0, <3>1
  <2> HIDE DEF w, n, st, s, r, d
  <2>3. k' = leave(k, t) \/ k' = k
    BY <1>2
  <2> QED BY <1>0, <2>2, <2>3, LeaveService
<1>3. CASE k' = r /\ call' = [call EXCEPT ![t] = d]
  <2>1. d.op = "exit" /\ d.o = u
    BY NoCallFits DEF Call
  <2> HIDE DEF d
  <2>2. call'[t] = d /\ \A v \in Task \ {t} : call'[v] = call[v]
    BY <1>0, <1>3
  <2>3. w[t] = FALSE /\ (\A v \in Task \ {t} : w[v] = k.wait_aborted[v]) /\ DOMAIN w = Task
    BY <1>0 DEF Shape
  <2> HIDE DEF w
  <2>4. Shape(n) /\ Only(k, n, {"wait_aborted"}) /\ n.wait_aborted = w /\ n.currp = k.currp
    BY <1>0, <2>3 DEF Shape, Only, Fields
  <2> HIDE DEF n
  <2>5. st \in State /\ st \notin {"WTSEM", "WTEVT"}
    BY DEF State
  <2>5a. st = "WTEXIT"
    OBVIOUS
  <2> HIDE DEF st
  <2>6. Touches(n, s, {t}) /\ Shape(s) /\ s.state[t] = st /\ s.wait_aborted = n.wait_aborted
        /\ s.obj = n.obj /\ s.evbits = n.evbits
    BY <1>0, <2>4, <2>5, SleepTouches
  <2> HIDE DEF s
  <2>7. Only(s, r, {"wait_list"})
    BY <2>6 DEF Shape, Only, Fields
  <2> HIDE DEF r
  <2>8. /\ r.value = k.value /\ r.bitset = k.bitset /\ Sems \cap r.live = Sems \cap k.live /\ r.refcnt = k.refcnt
        /\ SameTasks(k, r, {t}) /\ r.wait_aborted = w /\ r.state[t] = st
    <3>1. /\ n.value = k.value /\ n.bitset = k.bitset /\ n.live = k.live /\ n.refcnt = k.refcnt
          /\ n.state = k.state /\ n.obj = k.obj /\ n.evbits = k.evbits
      BY <2>4 DEF Only, Fields
    <3>2. /\ r.value = s.value /\ r.bitset = s.bitset /\ r.live = s.live /\ r.refcnt = s.refcnt
          /\ r.state = s.state /\ r.obj = s.obj /\ r.evbits = s.evbits /\ r.wait_aborted = s.wait_aborted
      BY <2>7 DEF Only, Fields
    <3> QED BY <2>4, <2>6, <3>1, <3>2 DEF Touches, SameTasks
  <2>9. ~Returned(r, call', t) /\ \A v \in Task \ {t} : Returned(k, call, v) => call[v].o # t
    <3>1. ~Returned(r, call', t)
      BY <2>5a, <2>8 DEF Returned
    <3>2. \A v \in Task : Returned(k, call, v) => k.state[call[v].o] \in Gone
      BY DEF ServiceOK, ExitsOK
    <3> QED BY <1>0, <3>1, <3>2 DEF Up, Gone
  <2>10. RefsOK(r, call')
    <3> SUFFICES ASSUME NEW v \in Tasks
                 PROVE  Cardinality(InWaitFor(call', v)) <= k.refcnt[v]
      BY <2>8 DEF RefsOK
    <3>1. Cardinality(InWaitFor(call, v)) <= k.refcnt[v] /\ k.refcnt[v] \in Nat
      BY KernelShape, KernelTypes DEF ServiceOK, RefsOK, Task
    <3>2. IsFiniteSet(InWaitFor(call, v)) /\ Cardinality(InWaitFor(call, v)) \in Nat
          /\ Cardinality(InWaitFor(call', v)) \in Nat
      BY HeldReferences
    <3>3. CASE v = u /\ call[t].op # "exit"
      <4>1. InWaitFor(call', v) = InWaitFor(call, v) \cup {t} /\ t \notin InWaitFor(call, v)
        BY <2>1, <2>2, <3>3 DEF InWaitFor
      <4>2. Cardinality(InWaitFor(call', v)) = Cardinality(InWaitFor(call, v)) + 1
        BY <3>2, <4>1, FS_AddElement
      <4>3. k.refcnt[u] > Cardinality(InWaitFor(call, u))
        BY <3>3 DEF TaskWaitFor, ExitWaiters, InWaitFor
      <4> QED BY <3>1, <3>2, <3>3, <4>2, <4>3
    <3>4. CASE ~(v = u /\ call[t].op # "exit")
      <4>0. call[t].op = "exit" => call[t].o = u
        <5>1. MayBlock(t) => call[t].op = "none"
          BY RunningFree DEF MayBlock
        <5> QED BY <5>1 DEF TaskWaitFor
      <4>1. InWaitFor(call', v) \subseteq InWaitFor(call, v)
        BY <2>1, <2>2, <3>4, <4>0 DEF InWaitFor
      <4>2. Cardinality(InWaitFor(call', v)) <= Cardinality(InWaitFor(call, v))
        BY <3>2, <4>1, FS_Subset
      <4> QED BY <3>1, <3>2, <4>2
    <3> QED BY <3>3, <3>4
  <2>11. Settles(k, call, r, call', t)
    BY <1>0, <2>2, <2>3, <2>5, <2>8, <2>9, <2>10 DEF Settles, Up
  <2> QED BY <1>0, <1>3, <2>11, SettleService
<1> HIDE DEF r, d
<1> QED BY <1>1, <1>2, <1>3

\* The wait is over, or cut short by a suspend and taken up again.
LEMMA TaskWaitForReturnService ==
  ASSUME KernelOK(k, call), KernelOK(k', call'), ServiceOK(k, call), NEW t \in Task, TaskWaitForReturn(t)
  PROVE  ServiceOK(k', call')
<1>0. Exec(t) /\ call[t].op = "exit" /\ call[t].pc = "after" /\ k.state[t] \in Up /\ k \in Kernel
      /\ call \in [Task -> Call] /\ call[t] \in Call /\ call' \in [Task -> Call]
  BY ExecUp, KernelShape DEF TaskWaitForReturn
<1>1. CASE call' = [call EXCEPT ![t].pc = "enter"] /\ k' = k
  <2> DEFINE e == [call[t] EXCEPT !.pc = "enter"]
  <2>1. call' = [call EXCEPT ![t] = e] /\ e.op = call[t].op /\ e.o = call[t].o /\ e.pc = "enter"
    BY <1>0, <1>1 DEF Call
  <2> HIDE DEF e
  <2>2. e \in Call
    BY <1>0, <2>1
  <2>3. k.state[t] = "WTEVT" => e.o = call[t].o
    BY <2>1
  <2>4. e.op = "exit" => /\ call[t].op = "exit" /\ e.o = call[t].o
                         /\ e.pc \in {"yield", "after"} => call[t].pc \in {"yield", "after"}
    BY <1>0, <2>1
  <2>5. ServiceOK(k, [call EXCEPT ![t] = e])
    BY <1>0, <2>2, <2>3, <2>4, CallService
  <2> QED BY <1>1, <2>1, <2>5
<1>2. CASE call' = [call EXCEPT ![t] = NoCall] /\ k' = leave(k, t)
  <2>1. NoCall.op # "exit"
    BY DEF NoCall
  <2>2. call'[t].op # "exit" /\ \A v \in Task \ {t} : call'[v] = call[v]
    <3> DEFINE e == NoCall
    <3> HIDE DEF e
    <3>1. call' = [call EXCEPT ![t] = e] /\ e.op # "exit"
      BY <1>2, <2>1 DEF e
    <3> QED BY <1>0, <3>1
  <2> QED BY <1>0, <1>2, <2>2, ReturnService
<1> QED BY <1>1, <1>2 DEF TaskWaitForReturn

\* isix_task_create: nobody was told of the end of a task whose control block
\* is free, since nobody holds a reference to it.
LEMMA TaskCreateService ==
  ASSUME KernelOK(k, call), KernelOK(k', call'), ServiceOK(k, call), NEW t \in Task, NEW u \in Tasks,
         NEW suspended \in BOOLEAN, NEW ref \in 0 .. 1, TaskCreate(t, u, suspended, ref)
  PROVE  ServiceOK(k', call')
<1> DEFINE p  == [k.prio EXCEPT ![u] = BasePrio[u]]
           q  == [k.real_prio EXCEPT ![u] = BasePrio[u]]
           f  == [k.refcnt EXCEPT ![u] = ref]
           o  == [k.owned EXCEPT ![u] = <<>>]
           l  == [k.wait_list EXCEPT ![u] = <<>>]
           m  == [k EXCEPT !.prio = p, !.real_prio = q, !.refcnt = f, !.owned = o, !.wait_list = l]
           g  == [m.state EXCEPT ![u] = "SUSPEND"]
           s  == [m EXCEPT !.state = g]
           ts == <<u>>
           w  == wakeup(m, ts, EOK)
           r  == do_reschedule(w, u)
<1>0. /\ Shape(k) /\ DOMAIN k = Fields /\ CallsOK(call) /\ call \in [Task -> Call] /\ u \in Task
      /\ k.refcnt \in [Task -> Nat] /\ k.state[u] = "NONE" /\ k.refcnt[u] = 0
  <2>1. /\ Shape(k) /\ DOMAIN k = Fields /\ CallsOK(call) /\ call \in [Task -> Call] /\ u \in Task
        /\ k.refcnt \in [Task -> Nat]
    BY KernelShape, KernelTypes DEF Task
  <2>2. LifeOK(k, call)
    BY CoreParts DEF KernelOK
  <2> QED BY <2>1, <2>2 DEF TaskCreate, LifeOK
<1>1. call' = [call EXCEPT ![u] = NoCall] /\ (k' = s \/ k' = r)
  BY DEF TaskCreate
<1>2. f[u] \in Nat /\ \A v \in Task \ {u} : f[v] = k.refcnt[v]
  BY <1>0
<1> HIDE DEF p, q, f, o, l
<1>3. Shape(m) /\ Only(k, m, {"prio", "real_prio", "refcnt", "owned", "wait_list"}) /\ m.refcnt = f
  BY <1>0 DEF Shape, Only, Fields
<1> HIDE DEF m
<1>4. /\ m.value = k.value /\ m.bitset = k.bitset /\ m.live = k.live /\ m.state = k.state
      /\ m.obj = k.obj /\ m.evbits = k.evbits /\ m.wait_aborted = k.wait_aborted
  BY <1>3 DEF Only, Fields
<1>5. g[u] = "SUSPEND" /\ \A v \in Task \ {u} : g[v] = k.state[v]
  BY <1>0, <1>4 DEF Shape
<1> HIDE DEF g
<1>6. /\ s.value = m.value /\ s.bitset = m.bitset /\ s.live = m.live /\ s.state = g /\ s.refcnt = m.refcnt
      /\ s.obj = m.obj /\ s.evbits = m.evbits /\ s.wait_aborted = m.wait_aborted
  BY <1>3 DEF Shape, Fields
<1> HIDE DEF s
<1>7. Wakes(m, r, {u})
  <2>1. Range(ts) = {u}
    BY <1>0, OneElement
  <2> HIDE DEF ts
  <2>2. Wakes(m, w, Range(ts))
    BY <1>0, <1>3, FunctionsWake
  <2>3. Shape(w)
    BY <2>2 DEF Wakes
  <2> HIDE DEF w
  <2>4. Wakes(w, r, {})
    BY <1>0, <2>3, FunctionsWake
  <2> HIDE DEF r
  <2>5. Wakes(m, r, Range(ts) \cup {})
    BY <2>2, <2>4, WakesTrans
  <2>6. Range(ts) \cup {} = {u}
    BY <2>1
  <2> QED BY <2>5, <2>6
<1> HIDE DEF w, r, ts
<1>8. /\ k'.value = k.value /\ k'.bitset = k.bitset /\ Sems \cap k'.live = Sems \cap k.live /\ k'.refcnt = f
      /\ k'.wait_aborted = k.wait_aborted /\ SameTasks(k, k', {u}) /\ k'.state[u] \in Up \cup {"SUSPEND"}
  <2>1. CASE k' = s
    <3>1. SameTasks(k, s, {u})
      BY <1>4, <1>5, <1>6 DEF SameTasks
    <3> QED BY <1>3, <1>4, <1>5, <1>6, <2>1, <3>1
  <2>2. CASE k' = r
    <3>1. /\ r.value = m.value /\ r.bitset = m.bitset /\ r.refcnt = m.refcnt /\ r.wait_aborted = m.wait_aborted
          /\ Sems \cap r.live = Sems \cap m.live
      BY <1>7 DEF Wakes, Only, Fields, Linkage, Kept
    <3>2. SameTasks(k, r, {u}) /\ r.state[u] \in Up
      BY <1>0, <1>4, <1>7 DEF Wakes, SameTasks
    <3> QED BY <1>3, <1>4, <2>2, <3>1, <3>2
  <2> QED BY <1>1, <2>1, <2>2
<1>9. InWaitFor(call, u) = {}
  <2>1. Cardinality(InWaitFor(call, u)) <= 0 /\ Cardinality(InWaitFor(call, u)) \in Nat /\ IsFiniteSet(InWaitFor(call, u))
    BY <1>0, HeldReferences DEF ServiceOK, RefsOK
  <2>2. Cardinality(InWaitFor(call, u)) = 0
    BY <2>1
  <2> QED BY <2>1, <2>2, FS_EmptySet
<1>10. call'[u].op # "exit" /\ \A v \in Task \ {u} : call'[v] = call[v]
  <2> DEFINE e == NoCall
  <2>1. e.op # "exit"
    BY DEF NoCall
  <2>2. call' = [call EXCEPT ![u] = e]
    BY <1>1
  <2> HIDE DEF e
  <2> QED BY <1>0, <2>1, <2>2
<1>11. RefsOK(k', call')
  <2> SUFFICES ASSUME NEW v \in Tasks
               PROVE  Cardinality(InWaitFor(call', v)) <= f[v]
    BY <1>8 DEF RefsOK
  <2>0. v \in Task
    BY DEF Task
  <2>1. InWaitFor(call', v) \subseteq InWaitFor(call, v)
    BY <1>10 DEF InWaitFor
  <2>2. IsFiniteSet(InWaitFor(call, v)) /\ Cardinality(InWaitFor(call, v)) \in Nat
        /\ Cardinality(InWaitFor(call', v)) \in Nat
    BY HeldReferences
  <2>3. Cardinality(InWaitFor(call', v)) <= Cardinality(InWaitFor(call, v))
    BY <2>1, <2>2, FS_Subset
  <2>4. CASE v = u
    <3>1. Cardinality(InWaitFor(call, v)) = 0
      BY <1>9, <2>4, FS_EmptySet
    <3> QED BY <1>2, <2>2, <2>3, <2>4, <3>1
  <2>5. CASE v # u
    <3>1. Cardinality(InWaitFor(call, v)) <= k.refcnt[v] /\ k.refcnt[v] \in Nat /\ f[v] = k.refcnt[v]
      BY <1>0, <1>2, <2>0, <2>5 DEF ServiceOK, RefsOK
    <3> QED BY <2>2, <2>3, <3>1
  <2> QED BY <2>4, <2>5
<1>12. ~Returned(k', call', u) /\ \A v \in Task \ {u} : Returned(k, call, v) => call[v].o # u
  BY <1>9, <1>10 DEF Returned, InWaitFor
<1>13. Settles(k, call, k', call', u)
  BY <1>0, <1>8, <1>10, <1>11, <1>12 DEF Settles, Up
<1> QED BY <1>0, <1>13, SettleService

\* The services of tasks keep what the services promise.
LEMMA TaskOpsService ==
  ASSUME KernelOK(k, call), KernelOK(k', call'), ServiceOK(k, call), TaskOps
  PROVE  ServiceOK(k', call')
<1>1. ASSUME NEW t \in Task, NEW u \in Tasks,
             \/ \E suspended \in BOOLEAN, ref \in 0 .. 1 : TaskCreate(t, u, suspended, ref)
             \/ \E p \in NewPrios : TaskChangePrio(t, u, p)
             \/ TaskSuspend(t, u) \/ TaskResume(t, u) \/ TaskKill(t, u)
             \/ TaskRef(t, u) \/ TaskUnref(t, u) \/ TaskWaitFor(t, u)
      PROVE  ServiceOK(k', call')
  BY <1>1, TaskCreateService, TaskChangePrioService, TaskSuspendService, TaskResumeService, TaskKillService,
     TaskRefService, TaskUnrefService, TaskWaitForService
<1>2. ASSUME NEW t \in Task, TaskWaitForReturn(t) \/ FreeTcb(t)
      PROVE  ServiceOK(k', call')
  BY <1>2, TaskWaitForReturnService, FreeTcbService
<1> QED BY <1>1, <1>2, CleanupService DEF TaskOps

-----------------------------------------------------------------------------
(***************************************************************************)
(* The theorems.                                                           *)
(***************************************************************************)

\* At the start nobody waits, and no counter is negative.
LEMMA InitService ==
  ASSUME Init
  PROVE  ServiceOK(k, call)
<1>1. /\ k = InitKernel /\ call = [t \in Task |-> NoCall]
      /\ \A t \in Task : call[t] = NoCall
  BY DEF Init
<1>2. \A t \in Task : k.state[t] \in {"RUNNING", "READY", "NONE"}
  <2>1. \A t \in Task : k.state[t] = CASE t = InitCurrp -> "RUNNING"
                                       [] t # InitCurrp /\ t \in Range(Boot) \cup {Idle} -> "READY"
                                       [] OTHER -> "NONE"
    BY <1>1 DEF InitKernel
  <2> QED BY <2>1
<1>3. k.value = SemInit /\ (\A s \in Sems : SemInit[s] \in Nat) /\ \A u \in Task : k.refcnt[u] = 0
  BY <1>1, SemAssumption DEF InitKernel
<1>4. \A t \in Task : call[t].op # "exit"
  BY <1>1 DEF NoCall
<1>5. SemsOK(k)
  <2>1. \A s : TokenWaiters(k, s) = {}
    BY <1>2 DEF TokenWaiters
  <2> QED BY <1>3, <2>1, FS_EmptySet DEF SemsOK
<1>6. EventsOK(k, call) /\ ExitsOK(k, call)
  BY <1>2, <1>4 DEF EventsOK, ExitsOK, Returned
<1>7. RefsOK(k, call)
  <2>1. \A u : InWaitFor(call, u) = {}
    BY <1>4 DEF InWaitFor
  <2> QED BY <1>3, <2>1, FS_EmptySet DEF RefsOK, Task
<1> QED BY <1>5, <1>6, <1>7 DEF ServiceOK

\* Every step of the composed kernel keeps what the services promise.
LEMMA NextService ==
  ASSUME KernelOK(k, call), KernelOK(k', call'), ServiceOK(k, call), [Next]_vars
  PROVE  ServiceOK(k', call')
<1>1. CASE Next
  BY <1>1, MachineService, SchedOpsService, SemOpsService, EventOpsService, ConnectOpsService, MtxOpsService,
     CondOpsService, TaskOpsService DEF Next
<1>2. CASE UNCHANGED vars
  BY <1>2 DEF vars
<1> QED BY <1>1, <1>2

(***************************************************************************)
(* What the services promise holds in every reachable state, with the      *)
(* invariant of the kernel memory it rests on.                             *)
(***************************************************************************)
THEOREM ServiceInvariant == Spec => [](KernelOK(k, call) /\ ServiceOK(k, call))
<1>1. Init => KernelOK(k, call) /\ ServiceOK(k, call)
  BY InitOK, InitService
<1>2. KernelOK(k, call) /\ ServiceOK(k, call) /\ [Next]_vars => (KernelOK(k, call) /\ ServiceOK(k, call))'
  <2> SUFFICES ASSUME KernelOK(k, call), ServiceOK(k, call), [Next]_vars
               PROVE  KernelOK(k', call') /\ ServiceOK(k', call')
    OBVIOUS
  <2>1. KernelOK(k', call')
    BY NextOK
  <2> QED BY <2>1, NextService
<1> QED BY <1>1, <1>2, PTL DEF Spec

\* A list without repetition is as long as it has members.
LEMMA DistinctLength ==
  ASSUME NEW E, NEW s \in Seq(E), Distinct(s)
  PROVE  Len(s) = Cardinality(Range(s))
<1> DEFINE D == 1 .. Len(s)
<1>1. Len(s) \in Nat /\ DOMAIN s = D /\ IsFiniteSet(D) /\ Cardinality(D) = Len(s)
  <2>1. Len(s) \in Nat /\ DOMAIN s = D
    OBVIOUS
  <2>2. IsFiniteSet(D) /\ Cardinality(D) = IF 1 > Len(s) THEN 0 ELSE Len(s) - 1 + 1
    BY <2>1, FS_Interval
  <2> HIDE DEF D
  <2> QED BY <2>1, <2>2
<1> HIDE DEF D
<1>2. s \in [D -> Range(s)] /\ \A x \in Range(s) : \E i \in D : s[i] = x
  BY <1>1 DEF Range
<1>3. s \in Surjection(D, Range(s)) /\ s \in Injection(D, Range(s))
  BY <1>1, <1>2 DEF Surjection, Injection, IsInjective, Distinct
<1> QED BY <1>1, <1>3, FS_Surjection

(***************************************************************************)
(* A negative counter of a semaphore is the number of the tasks on its     *)
(* wait list: timeouts, kills and suspends inside the wait give the        *)
(* request back exactly once, and no reset or destruction loses one.       *)
(***************************************************************************)
THEOREM IsixSemCounts == Spec => []SemCountsWaiters
<1>1. KernelOK(k, call) /\ ServiceOK(k, call) => SemCountsWaiters
  <2> SUFFICES ASSUME KernelOK(k, call), ServiceOK(k, call), NEW s \in Sems \cap k.live
               PROVE  Len(k.wait_list[s]) = IF k.value[s] < 0 THEN -k.value[s] ELSE 0
    BY DEF SemCountsWaiters
  <2>1. Range(k.wait_list[s]) = TokenWaiters(k, s) /\ k.wait_list[s] \in Seq(Task)
    BY SemWaiters
  <2>2. Distinct(k.wait_list[s])
    <3>1. WaitPlaced(k, call, {}) /\ s \in Obj
      BY CoreParts, SyncObjects DEF KernelOK
    <3> QED BY <3>1 DEF WaitPlaced
  <2>3. Len(k.wait_list[s]) = Cardinality(TokenWaiters(k, s))
    BY <2>1, <2>2, DistinctLength
  <2> QED BY <2>3 DEF ServiceOK, SemsOK
<1> QED BY <1>1, ServiceInvariant, PTL

(***************************************************************************)
(* No task stays on the wait list of an event group whose bits meet its    *)
(* condition: the check and the sleep of the waiter, and the store and the *)
(* wake-up of the setter, cannot miss each other, on any path that sets    *)
(* bits (set, rendezvous, a notification of a connected queue or           *)
(* semaphore).                                                             *)
(***************************************************************************)
THEOREM IsixNoMissedEvent == Spec => []NoMissedEvent
<1>1. KernelOK(k, call) /\ ServiceOK(k, call) => NoMissedEvent
  <2> SUFFICES ASSUME KernelOK(k, call), ServiceOK(k, call), NEW e \in Evts, NEW t \in Range(k.wait_list[e])
               PROVE  ~check_cond(k.bitset[e], k.evbits[t])
    BY DEF NoMissedEvent
  <2>1. t \in Task
    <3>1. k.wait_list[e] \in Seq(Task)
      BY KernelShape, SyncObjects
    <3> QED BY <3>1, RangeType
  <2>2. k.state[t] = "WTEVT" /\ call[t].o = e
    BY <2>1, EventWaiter
  <2> QED BY <2>1, <2>2 DEF ServiceOK, EventsOK
<1> QED BY <1>1, ServiceInvariant, PTL

(***************************************************************************)
(* isix_task_wait_for returns to its caller only when the task waited for  *)
(* has ended: a suspend and a resume in between do not end the wait, and   *)
(* the control block cannot have been given to a new task meanwhile.       *)
(***************************************************************************)
THEOREM IsixExitWaits == Spec => []ExitWaitEndsAtExit
<1>1. KernelOK(k, call) /\ ServiceOK(k, call) => ExitWaitEndsAtExit
  <2> SUFFICES ASSUME ServiceOK(k, call), NEW t \in Task, call[t].op = "exit", call[t].pc = "after",
                      Linked(t), ~k.wait_aborted[t]
               PROVE  k.state[call[t].o] \in Dead \cup {"NONE"}
    BY DEF ExitWaitEndsAtExit
  <2>1. Returned(k, call, t)
    BY DEF Returned, Linked
  <2> QED BY <2>1 DEF ServiceOK, ExitsOK, Gone, Dead
<1> QED BY <1>1, ServiceInvariant, PTL
=============================================================================
