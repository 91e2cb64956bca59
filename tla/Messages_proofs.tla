--------------------------- MODULE Messages_proofs ---------------------------
(***************************************************************************)
(* What a waiter is told: the message a wait for a token or for events     *)
(* ends with, in the union of the control block, is the truth when the     *)
(* waiter reads it, however late that is.  And whom the kernel serves      *)
(* first: the lists of waiters stay sorted by priority whatever changes    *)
(* one, and a lent priority goes back with the last waiter.  Last, what a  *)
(* lock and a wait for a condition may rely on.                            *)
(***************************************************************************)
EXTENDS Services_proofs

\* The task t past the critical section that blocked it: while it waits it has
\* no token and its union holds its condition; afterwards ISIX_EOK says that it
\* has a token, or bits that meet its condition.
TokenTold(m, e, t) ==
  IF m.state[t] = "WTSEM" THEN t \notin m.grant
  ELSE m.wait_aborted[t] \/ (m.obj[t] = EOK <=> t \in m.grant)

BitsTold(m, e, t) ==
  IF m.state[t] = "WTEVT" THEN m.evbits[t] = e.w
  ELSE m.wait_aborted[t] \/ (m.obj[t] = EOK => check_cond(m.evbits[t].bits, e.w))

Told(m, e, t) ==
  e.pc \in {"yield", "after"} => /\ e.op = "sem" => TokenTold(m, e, t)
                                 /\ e.op \in {"evt", "sync"} => BitsTold(m, e, t)

ToldOK(m, c) == \A t \in Task : Told(m, c[t], t)

\* What Told speaks of is as it was.
SameMsg(m, r, t) ==
  /\ r.state[t] = "WTSEM" <=> m.state[t] = "WTSEM"
  /\ r.state[t] = "WTEVT" <=> m.state[t] = "WTEVT"
  /\ r.obj[t] = m.obj[t] /\ r.evbits[t] = m.evbits[t] /\ r.wait_aborted[t] = m.wait_aborted[t]
  /\ t \in r.grant <=> t \in m.grant

\* It stays true for a task that nothing happens to, ...
LEMMA ToldFrame ==
  ASSUME NEW m, NEW r, NEW t, SameMsg(m, r, t), NEW e, Told(m, e, t)
  PROVE  Told(r, e, t)
BY DEF Told, TokenTold, BitsTold, SameMsg

\* ... and holds for a task that is in no wait for a token or for events.
LEMMA ToldOther ==
  ASSUME NEW m, NEW t, NEW e, e.op \notin {"sem", "evt", "sync"} \/ e.pc \notin {"yield", "after"}
  PROVE  Told(m, e, t)
BY DEF Told

\* A store into other fields leaves every message alone.
LEMMA SameMsgOnly ==
  ASSUME NEW m, NEW r, NEW F, Only(m, r, F),
         F \cap {"state", "obj", "evbits", "wait_aborted", "grant"} = {}
  PROVE  \A t \in Task : SameMsg(m, r, t)
<1>1. /\ r.state = m.state /\ r.obj = m.obj /\ r.evbits = m.evbits /\ r.wait_aborted = m.wait_aborted
      /\ r.grant = m.grant
  BY DEF Only, Fields
<1> QED BY <1>1 DEF SameMsg

\* The messages of two steps in a row.
LEMMA SameMsgTrans ==
  ASSUME NEW m, NEW n, NEW r, NEW t, SameMsg(m, n, t), SameMsg(n, r, t)
  PROVE  SameMsg(m, r, t)
BY DEF SameMsg

\* The lists that are kept in the order of priority, and that they are.
Prioritised == Sems \cup Mtxs \cup Cvs

Ordered(m) == \A o \in Prioritised : SortedBy(m.wait_list[o], m.prio)

\* A priority that is not the task's own is lent by who waits for its mutex.
Lent(m, t) ==
  m.state[t] \notin Gone /\ m.prio[t] # m.real_prio[t]
    => \E x \in Mtxs : m.owner[x] = t /\ m.wait_list[x] # <<>>

UrgencyOK(m) == Ordered(m) /\ \A t \in Task : Lent(m, t)

\* Priorities and the order of the lists stay, and so does the owner of a
\* mutex somebody waits for; nobody comes to life.
Thins(m, r) ==
  /\ r.prio = m.prio /\ r.real_prio = m.real_prio
  /\ \A o \in Prioritised : SortedBy(m.wait_list[o], m.prio) => SortedBy(r.wait_list[o], m.prio)
  /\ \A x \in Mtxs : m.wait_list[x] # <<>> => r.wait_list[x] # <<>> /\ r.owner[x] = m.owner[x]
  /\ \A t \in Task : r.state[t] \notin Gone => m.state[t] \notin Gone

\* Then every list stays in order, and every lent priority justified.
LEMMA ThinsUrgency ==
  ASSUME NEW m, NEW r, Thins(m, r), UrgencyOK(m)
  PROVE  UrgencyOK(r)
BY DEF Thins, UrgencyOK, Ordered, Lent

\* Two such steps in a row, ...
LEMMA ThinsTrans ==
  ASSUME NEW m, NEW n, NEW r, Thins(m, n), Thins(n, r)
  PROVE  Thins(m, r)
BY DEF Thins

\* ... and none at all.
LEMMA ThinsNone ==
  ASSUME NEW m PROVE Thins(m, m)
BY DEF Thins

\* So does a store into other fields.
LEMMA ThinsOnly ==
  ASSUME NEW m, NEW r, NEW F, Only(m, r, F), F \cap {"prio", "real_prio", "owner", "wait_list"} = {},
         \A t \in Task : r.state[t] \notin Gone => m.state[t] \notin Gone
  PROVE  Thins(m, r)
<1>1. r.prio = m.prio /\ r.real_prio = m.real_prio /\ r.owner = m.owner /\ r.wait_list = m.wait_list
  BY DEF Only, Fields
<1> QED BY <1>1 DEF Thins

\* The lists of priorities are lists of tasks.
LEMMA PrioritisedLists ==
  ASSUME NEW m \in Kernel
  PROVE  /\ Prioritised \subseteq Obj /\ Mtxs \subseteq Prioritised
         /\ \A o \in Obj : m.wait_list[o] \in Seq(Task)
BY KernelTypes DEF Prioritised, Obj, Object

\* The members of S, none of whom waits for a mutex, leave their lists.
LEMMA ThinsUnlink ==
  ASSUME NEW m, NEW c, KernelOK(m, c), NEW S, \A t \in S \cap Task : m.state[t] # "WTMTX",
         NEW r, r.wait_list = unlink(m, S).wait_list,
         r.prio = m.prio, r.real_prio = m.real_prio, r.owner = m.owner,
         \A t \in Task : r.state[t] \notin Gone => m.state[t] \notin Gone
  PROVE  Thins(m, r)
<1>0. m \in Kernel /\ CoreInv(m, c, {}) /\ DOMAIN m = Fields
  BY KernelShape
<1>1. /\ Prioritised \subseteq Obj /\ Mtxs \subseteq Prioritised
      /\ \A o \in Obj : m.wait_list[o] \in Seq(Task)
  BY <1>0, PrioritisedLists
<1>2. \A o \in Obj : r.wait_list[o] = Without(m.wait_list[o], S)
  BY <1>0 DEF unlink, Fields
<1>3. ASSUME NEW o \in Prioritised, SortedBy(m.wait_list[o], m.prio)
      PROVE  SortedBy(r.wait_list[o], m.prio)
  BY <1>1, <1>2, <1>3, WithoutProperties
<1>4. ASSUME NEW x \in Mtxs, m.wait_list[x] # <<>>
      PROVE  r.wait_list[x] # <<>>
  <2>1. m.wait_list[x] \in Seq(Task) /\ Head(m.wait_list[x]) \in Range(m.wait_list[x])
    BY <1>1, <1>4, EmptyRange
  <2>2. Head(m.wait_list[x]) \notin S
    BY <1>0, <2>1, MutexWaiter
  <2>3. Head(m.wait_list[x]) \in Range(r.wait_list[x]) /\ r.wait_list[x] \in Seq(Task)
    BY <1>1, <1>2, <2>1, <2>2, WithoutList
  <2> QED BY <2>3, EmptyRange
<1> QED BY <1>3, <1>4 DEF Thins

\* Time passes: who waited with a timeout may be ready and be told so.  Those
\* who give up their request for a token leave the tokens as they were.
Timing == {"bug", "ready", "state", "obj", "evbits", "value", "wait_list", "p_wait", "pov_wait",
           "deadline", "left", "jiffies"}

Passes(m, r) ==
  /\ Only(m, r, Timing) /\ Thins(m, r)
  /\ SemsOK(m) => SemsOK(r) /\ SameTokens(m, r)
  /\ \A t \in Task :
       \/ SameMsg(m, r, t) /\ (r.state[t] = m.state[t] \/ (m.state[t] = "SLEEPING" /\ r.state[t] = "READY"))
       \/ /\ m.state[t] \in {"WTSEM", "WTEVT", "WTCOND"} /\ r.state[t] = "READY"
          /\ r.obj[t] = ETIMEOUT /\ (t \in r.grant <=> t \in m.grant)

\* Time passes twice.
LEMMA PassesTrans ==
  ASSUME NEW m, NEW n, NEW r, Passes(m, n), Passes(n, r)
  PROVE  Passes(m, r)
<1>1. Only(m, r, Timing)
  BY DEF Passes, Only
<1>2. n.live = m.live
  BY DEF Passes, Only, Timing, Fields
<1>3. SemsOK(m) => SemsOK(r) /\ SameTokens(m, r)
  BY <1>2 DEF Passes, SameTokens
<1>4. Thins(m, r)
  BY ThinsTrans DEF Passes
<1> QED BY <1>1, <1>3, <1>4 DEF Passes, SameMsg

\* No time passes.
LEMMA PassesNone ==
  ASSUME NEW m PROVE Passes(m, m)
BY ThinsNone DEF Passes, Only, SameMsg, SameTokens

\* It keeps every promise.
LEMMA PassesTold ==
  ASSUME NEW m, NEW c, KernelOK(m, c), ToldOK(m, c), NEW r, Passes(m, r)
  PROVE  ToldOK(r, c)
<1> SUFFICES ASSUME NEW t \in Task PROVE Told(r, c[t], t)
  BY DEF ToldOK
<1>1. Told(m, c[t], t) /\ Blocked(m.state[t], c[t], m.obj[t], m.wait_aborted[t])
  BY KernelShape, CoreParts DEF ToldOK, BlockedOK
<1>2. CASE SameMsg(m, r, t)
  BY <1>1, <1>2, ToldFrame
<1>3. CASE /\ m.state[t] \in {"WTSEM", "WTEVT", "WTCOND"} /\ r.state[t] = "READY"
           /\ r.obj[t] = ETIMEOUT /\ (t \in r.grant <=> t \in m.grant)
  <2>1. ETIMEOUT # EOK
    BY DEF ETIMEOUT, EOK
  <2> QED BY <1>1, <1>3, <2>1 DEF Told, TokenTold, BitsTold, Blocked, Waiting
<1> QED BY <1>2, <1>3 DEF Passes

\* What expire_waiting_tasks does: the tasks of S, all of which waited with a
\* timeout, become ready; who waited for an object is told.
LEMMA ExpireEffect ==
  ASSUME NEW m, NEW c, KernelOK(m, c),
         NEW n \in Kernel, Only(m, n, {"jiffies", "p_wait", "pov_wait", "left"}),
         Range(n.p_wait) \subseteq OnTimeList(m), NEW now \in Tick
  PROVE  LET r == expire_waiting_tasks(n, now)
             S == Range(expired(n, now))
         IN  /\ S \subseteq Task /\ \A t \in S : m.state[t] \in Timed
             /\ Shape(r)
             /\ Only(n, r, {"bug", "ready", "state", "obj", "evbits", "value", "wait_list", "p_wait",
                            "pov_wait", "deadline", "left"})
             /\ r.state = [t \in Task |-> IF t \in S THEN "READY" ELSE m.state[t]]
             /\ \A t \in Task : r.obj[t] = IF t \in S /\ m.state[t] # "SLEEPING" THEN ETIMEOUT ELSE m.obj[t]
             /\ \A t \in Task : r.evbits[t] = IF t \in S /\ m.state[t] # "SLEEPING" THEN NoBits ELSE m.evbits[t]
             /\ \A s \in Sems : r.value[s] = sem_inc(m.value[s], SemLimit[s], Cardinality(Requests(m, S, s)))
<1> DEFINE ts == expired(n, now)
           S  == Range(ts)
           W  == {t \in S : n.state[t] \in {"WTSEM", "WTEVT", "WTCOND"}}
           u  == unlink(n, W)
           v  == time_unlink(u, S)
           N(s) == Cardinality({t \in W : n.state[t] = "WTSEM" /\ n.obj[t] = s})
           vl == [s \in Sems |-> sem_inc(v.value[s], SemLimit[s], N(s))]
           ev == [t \in Task |-> IF t \in W THEN NoBits ELSE v.evbits[t]]
           ob == [t \in Task |-> IF t \in W THEN ETIMEOUT ELSE v.obj[t]]
           x  == [v EXCEPT !.value = vl, !.evbits = ev, !.obj = ob]
           r  == add_ready_list(x, ts)
<1>0. m \in Kernel /\ TimeOK(m) /\ Shape(n)
  BY CoreParts, ShapeOfKernel DEF KernelOK
<1>1. expire_waiting_tasks(n, now) = r
  BY DEF expire_waiting_tasks
<1>2. /\ n.state = m.state /\ n.obj = m.obj /\ n.evbits = m.evbits /\ n.value = m.value
  BY DEF Only, Fields
<1>3. S \subseteq Task /\ \A t \in S : m.state[t] \in Timed
  <2>1. ts \in Seq(Task) /\ S \subseteq Range(n.p_wait)
    BY Expired
  <2> QED BY <1>0, <2>1, RangeType DEF TimeOK
<1>4. \A s \in Sems : {t \in W : n.state[t] = "WTSEM" /\ n.obj[t] = s} = Requests(m, S, s)
  BY <1>2 DEF Requests
<1>14. \A t \in Task : t \in W <=> t \in S /\ m.state[t] # "SLEEPING"
  BY <1>2, <1>3 DEF Timed
<1> SUFFICES /\ S \subseteq Task /\ \A t \in S : m.state[t] \in Timed
             /\ Shape(r)
             /\ Only(n, r, {"bug", "ready", "state", "obj", "evbits", "value", "wait_list", "p_wait",
                            "pov_wait", "deadline", "left"})
             /\ r.state = [t \in Task |-> IF t \in S THEN "READY" ELSE m.state[t]]
             /\ \A t \in Task : r.obj[t] = IF t \in S /\ m.state[t] # "SLEEPING" THEN ETIMEOUT ELSE m.obj[t]
             /\ \A t \in Task : r.evbits[t] = IF t \in S /\ m.state[t] # "SLEEPING" THEN NoBits ELSE m.evbits[t]
             /\ \A s \in Sems : r.value[s] = sem_inc(m.value[s], SemLimit[s], Cardinality(Requests(m, S, s)))
  BY <1>1
<1> HIDE DEF S, W
<1>5. Shape(u) /\ Only(n, u, {"wait_list"})
  BY <1>0, UnlinkFields
<1> HIDE DEF u
<1>6. Shape(v) /\ Only(u, v, {"p_wait", "pov_wait", "deadline", "left"})
  BY <1>5, TimeUnlinkFields
<1> HIDE DEF v
<1>7. /\ v.state = m.state /\ v.obj = m.obj /\ v.evbits = m.evbits /\ v.value = m.value
  BY <1>2, <1>5, <1>6 DEF Only, Fields
<1> HIDE DEF vl, ev, ob
<1>8. /\ Shape(x) /\ Only(v, x, {"value", "evbits", "obj"})
      /\ x.value = vl /\ x.evbits = ev /\ x.obj = ob /\ x.state = v.state
  <2>1. DOMAIN ev = Task /\ DOMAIN ob = Task
    BY DEF ev, ob
  <2> QED BY <1>6, <2>1 DEF Shape, Only, Fields
<1> HIDE DEF x
<1>9. /\ Shape(r) /\ Only(x, r, {"bug", "state", "ready"})
      /\ r.state = [t \in Task |-> IF t \in S THEN "READY" ELSE x.state[t]]
  BY <1>8, AddReadyFields DEF S
<1> HIDE DEF r
<1>10. r.value = vl /\ r.evbits = ev /\ r.obj = ob
  BY <1>8, <1>9 DEF Only, Fields
<1>11. Only(n, r, {"bug", "ready", "state", "obj", "evbits", "value", "wait_list", "p_wait",
                   "pov_wait", "deadline", "left"})
  BY <1>5, <1>6, <1>8, <1>9 DEF Only
<1>12. r.state = [t \in Task |-> IF t \in S THEN "READY" ELSE m.state[t]]
  BY <1>7, <1>8, <1>9
<1>13. /\ \A t \in Task : r.obj[t] = IF t \in S /\ m.state[t] # "SLEEPING" THEN ETIMEOUT ELSE m.obj[t]
       /\ \A t \in Task : r.evbits[t] = IF t \in S /\ m.state[t] # "SLEEPING" THEN NoBits ELSE m.evbits[t]
  BY <1>7, <1>10, <1>14 DEF ev, ob
<1>15. \A s \in Sems : r.value[s] = sem_inc(m.value[s], SemLimit[s], Cardinality(Requests(m, S, s)))
  BY <1>4, <1>7, <1>10 DEF vl
<1> QED BY <1>3, <1>9, <1>11, <1>12, <1>13, <1>15

\* The expiry of timeouts is time passing.
LEMMA ExpirePasses ==
  ASSUME NEW m, NEW c, KernelOK(m, c),
         NEW n \in Kernel, Only(m, n, {"jiffies", "p_wait", "pov_wait", "left"}),
         Range(n.p_wait) \subseteq OnTimeList(m), NEW now \in Tick
  PROVE  Passes(m, expire_waiting_tasks(n, now))
<1> DEFINE r == expire_waiting_tasks(n, now)
           S == Range(expired(n, now))
<1>1. /\ S \subseteq Task /\ \A t \in S : m.state[t] \in Timed
      /\ Only(n, r, {"bug", "ready", "state", "obj", "evbits", "value", "wait_list", "p_wait",
                     "pov_wait", "deadline", "left"})
      /\ r.state = [t \in Task |-> IF t \in S THEN "READY" ELSE m.state[t]]
      /\ \A t \in Task : r.obj[t] = IF t \in S /\ m.state[t] # "SLEEPING" THEN ETIMEOUT ELSE m.obj[t]
      /\ \A t \in Task : r.evbits[t] = IF t \in S /\ m.state[t] # "SLEEPING" THEN NoBits ELSE m.evbits[t]
      /\ \A s \in Sems : r.value[s] = sem_inc(m.value[s], SemLimit[s], Cardinality(Requests(m, S, s)))
  BY ExpireEffect
<1>0. DOMAIN m = Fields /\ DOMAIN n = Fields
  BY KernelShape DEF Kernel, Fields
<1> HIDE DEF r, S
<1>2. r.grant = m.grant /\ r.wait_aborted = m.wait_aborted
  BY <1>1 DEF Only, Fields
<1>3. Only(m, r, Timing)
  BY <1>1 DEF Only, Timing
<1>4. SemsOK(m) => SemsOK(r) /\ SameTokens(m, r)
  <2>1. Sems \cap r.live = Sems \cap m.live
    BY <1>3 DEF Only, Timing, Fields
  <2>2. m.value \in [Sems -> Int] /\ S \in SUBSET Task
    BY <1>1, KernelTypes, KernelShape
  <2>3. /\ \A t \in Task \ S : /\ r.state[t] = "WTSEM" <=> m.state[t] = "WTSEM"
                               /\ m.state[t] = "WTSEM" => r.obj[t] = m.obj[t]
        /\ \A t \in S : r.state[t] # "WTSEM"
    BY <1>1
  <2> QED BY <1>1, <2>1, <2>2, <2>3, TokensBack
<1>5. \A t \in Task :
       \/ SameMsg(m, r, t) /\ (r.state[t] = m.state[t] \/ (m.state[t] = "SLEEPING" /\ r.state[t] = "READY"))
       \/ /\ m.state[t] \in {"WTSEM", "WTEVT", "WTCOND"} /\ r.state[t] = "READY"
          /\ r.obj[t] = ETIMEOUT /\ (t \in r.grant <=> t \in m.grant)
  BY <1>1, <1>2 DEF SameMsg, Timed
<1>6. Thins(m, r)
  <2> DEFINE W == {t \in S : n.state[t] \in {"WTSEM", "WTEVT", "WTCOND"}}
  <2>1. n.wait_list = m.wait_list /\ n.state = m.state
    BY DEF Only, Fields
  <2>2. r.wait_list = unlink(n, W).wait_list
    <3> DEFINE u == unlink(n, W)
               v == time_unlink(u, S)
               x(a, b, d) == [v EXCEPT !.value = a, !.evbits = b, !.obj = d]
    <3>1. \E a, b, d : r = add_ready_list(x(a, b, d), expired(n, now))
      BY DEF expire_waiting_tasks, r, S
    <3>2. Shape(n)
      BY ShapeOfKernel
    <3> HIDE DEF W
    <3>3. Shape(u) /\ Only(n, u, {"wait_list"})
      BY <3>2, UnlinkFields
    <3> HIDE DEF u
    <3>4. Shape(v) /\ Only(u, v, {"p_wait", "pov_wait", "deadline", "left"})
      BY <3>3, TimeUnlinkFields
    <3>5. v.wait_list = u.wait_list /\ DOMAIN v = Fields
      BY <3>4 DEF Only, Fields, Shape
    <3> HIDE DEF v
    <3>6. ASSUME NEW a, NEW b, NEW d
          PROVE  add_ready_list(x(a, b, d), expired(n, now)).wait_list = v.wait_list
      BY <3>5 DEF add_ready_list, Fields
    <3> HIDE DEF x
    <3> QED BY <3>1, <3>5, <3>6 DEF u
  <2>3. unlink(n, W).wait_list = unlink(m, W).wait_list
    BY <1>0, <2>1 DEF unlink, Fields
  <2>4. \A t \in W \cap Task : m.state[t] # "WTMTX"
    BY <2>1
  <2>5. \A t \in Task : r.state[t] \notin Gone => m.state[t] \notin Gone
    BY <1>1 DEF Timed, Gone
  <2>6. r.prio = m.prio /\ r.real_prio = m.real_prio /\ r.owner = m.owner
    BY <1>3 DEF Only, Timing, Fields
  <2> QED BY <2>2, <2>3, <2>4, <2>5, <2>6, ThinsUnlink
<1> QED BY <1>3, <1>4, <1>5, <1>6 DEF Passes, r

\* So is each part of a replay of ticks, ...
LEMMA AdvanceWithinPasses ==
  ASSUME NEW m, NEW c, KernelOK(m, c), NEW ticks \in Nat, m.jiffies + ticks \in Tick
  PROVE  Passes(m, advance_within(m, ticks)) /\ KernelOK(advance_within(m, ticks), c)
<1> DEFINE now == m.jiffies + ticks
           n == [m EXCEPT !.jiffies = now]
<1>0. m \in Kernel /\ DOMAIN m = Fields /\ CoreInv(m, c, {}) /\ OwnersOK(m)
  BY KernelShape
<1>1. advance_within(m, ticks) = expire_waiting_tasks(n, now) /\ now \in Tick
  BY DEF advance_within
<1> HIDE DEF now
<1>2. n \in Kernel
  BY <1>0, <1>1 DEF Kernel
<1>3. Only(m, n, {"jiffies", "p_wait", "pov_wait", "left"}) /\ n.p_wait = m.p_wait
  BY <1>0 DEF Only, Fields
<1>4. Range(n.p_wait) \subseteq OnTimeList(m)
  BY <1>3 DEF OnTimeList
<1> HIDE DEF n
<1>5. Passes(m, expire_waiting_tasks(n, now))
  BY <1>1, <1>2, <1>3, <1>4, ExpirePasses
<1>6. LET r == advance_within(m, ticks) IN CoreInv(r, c, {}) /\ OwnersOK(r) /\ TimeKept(m, r)
  BY <1>0, AdvanceWithinOK
<1> QED BY <1>1, <1>5, <1>6 DEF KernelOK

\* ... up to the wrap ...
LEMMA AdvanceToWrapPasses ==
  ASSUME NEW m, NEW c, KernelOK(m, c)
  PROVE  /\ Passes(m, advance_to_wrap(m)) /\ KernelOK(advance_to_wrap(m), c)
         /\ advance_to_wrap(m).jiffies = 0
<1> DEFINE a == expire_waiting_tasks([m EXCEPT !.jiffies = MaxTick], MaxTick)
           b == IF m.jiffies < MaxTick THEN a ELSE m
           n == [b EXCEPT !.jiffies = 0, !.p_wait = b.pov_wait, !.pov_wait = b.p_wait]
           ticks == MaxTick - m.jiffies
<1>0. m \in Kernel /\ 0 \in Tick /\ CoreInv(m, c, {}) /\ OwnersOK(m)
  BY KernelShape, Ticks
<1>1. advance_to_wrap(m) = expire_waiting_tasks(n, 0)
  BY DEF advance_to_wrap
<1>2. ticks \in Nat /\ m.jiffies + ticks = MaxTick /\ MaxTick \in Tick
  BY <1>0, KernelTypes, Ticks
<1>3. Passes(m, a) /\ KernelOK(a, c)
  <2>1. a = advance_within(m, ticks)
    BY <1>2 DEF advance_within
  <2> HIDE DEF a, ticks
  <2> QED BY <1>2, <2>1, AdvanceWithinPasses
<1> HIDE DEF a
<1>4. Passes(m, b) /\ KernelOK(b, c)
  <2>1. Passes(m, m)
    BY PassesNone
  <2> QED BY <1>3, <2>1
<1>5. b \in Kernel /\ DOMAIN b = Fields
  BY <1>4, KernelShape
<1> HIDE DEF b
<1>6. n \in Kernel
  BY <1>0, <1>5 DEF Kernel
<1>7. Only(b, n, {"jiffies", "p_wait", "pov_wait", "left"}) /\ n.p_wait = b.pov_wait
  BY <1>5 DEF Only, Fields
<1>8. Range(n.p_wait) \subseteq OnTimeList(b)
  BY <1>7 DEF OnTimeList
<1> HIDE DEF n
<1>9. Passes(b, expire_waiting_tasks(n, 0))
  BY <1>0, <1>4, <1>6, <1>7, <1>8, ExpirePasses
<1>10. LET r == advance_to_wrap(m) IN CoreInv(r, c, {}) /\ OwnersOK(r) /\ TimeKept(m, r) /\ r.jiffies = 0
  BY <1>0, AdvanceToWrapOK
<1>11. Passes(m, advance_to_wrap(m))
  BY <1>1, <1>4, <1>9, PassesTrans
<1> QED BY <1>10, <1>11 DEF KernelOK

\* ... and past it.
LEMMA AdvancePasses ==
  ASSUME NEW m, NEW c, KernelOK(m, c), NEW ticks \in Tick
  PROVE  Passes(m, advance_jiffies(m, ticks)) /\ KernelOK(advance_jiffies(m, ticks), c)
<1> DEFINE to_wrap == MaxTick - m.jiffies + 1
           n == advance_to_wrap(m)
           r == advance_jiffies(m, ticks)
<1>0. /\ m \in Kernel /\ m.jiffies \in Nat /\ m.jiffies <= MaxTick /\ ticks \in Nat
      /\ ticks <= MaxTick /\ MaxTick \in Nat
  BY KernelShape, KernelTypes, Ticks
<1>1. Passes(m, n) /\ KernelOK(n, c) /\ n.jiffies = 0
  BY AdvanceToWrapPasses
<1> HIDE DEF n
<1>2. CASE ticks = 0
  <2>1. r = m
    BY <1>0, <1>2 DEF advance_jiffies
  <2> QED BY <2>1, PassesNone
<1>3. CASE ticks > 0 /\ ticks < to_wrap
  <2>1. r = advance_within(m, ticks) /\ m.jiffies + ticks \in Tick
    BY <1>0, <1>3, Ticks DEF advance_jiffies
  <2> QED BY <1>0, <2>1, AdvanceWithinPasses
<1>4. CASE ticks = to_wrap
  <2>1. r = n
    BY <1>0, <1>4 DEF advance_jiffies, n
  <2> QED BY <1>1, <2>1
<1>5. CASE ticks > to_wrap
  <2> DEFINE rest == ticks - to_wrap
  <2>1. r = advance_within(n, rest) /\ rest \in Nat /\ n.jiffies + rest \in Tick
    BY <1>0, <1>1, <1>5, Ticks DEF advance_jiffies, n
  <2> HIDE DEF rest, r
  <2>2. Passes(n, r) /\ KernelOK(r, c)
    BY <1>1, <2>1, AdvanceWithinPasses
  <2> QED BY <1>1, <2>2, PassesTrans DEF r
<1> QED BY <1>0, <1>2, <1>3, <1>4, <1>5

\* A step keeps the promises when it does to the tasks of S what it says.
LEMMA ToldStep ==
  ASSUME NEW m, NEW c, ToldOK(m, c), NEW r, NEW d, NEW S,
         \A t \in Task \ S : SameMsg(m, r, t) /\ d[t] = c[t],
         \A t \in Task \cap S : Told(r, d[t], t)
  PROVE  ToldOK(r, d)
<1> SUFFICES ASSUME NEW t \in Task PROVE Told(r, d[t], t)
  BY DEF ToldOK
<1>1. CASE t \in S
  BY <1>1
<1>2. CASE t \notin S
  <2>1. SameMsg(m, r, t) /\ d[t] = c[t] /\ Told(m, c[t], t)
    BY <1>2 DEF ToldOK
  <2> QED BY <2>1, ToldFrame
<1> QED BY <1>1, <1>2

\* A step that nobody is told of keeps them.
LEMMA ToldSame ==
  ASSUME NEW m, NEW c, ToldOK(m, c), NEW r, \A t \in Task : SameMsg(m, r, t)
  PROVE  ToldOK(r, c)
BY ToldFrame DEF ToldOK

\* The switch moves tasks between READY and RUNNING.
LEMMA PendSVEffect ==
  ASSUME KernelOK(k, call), KernelOK(k', call'), PendSV
  PROVE  /\ Shape(k') /\ Only(k, k', {"bug", "ready", "state", "currp", "pendsv", "yield_pending"})
         /\ SameTasks(k, k', {}) /\ k'.pendsv = FALSE
         /\ k.sched_lock # 0 => k'.currp = k.currp
<1> DEFINE m1 == rotate(k)
           p  == top_prio(m1)
           t  == Head(m1.ready[p])
           n  == [m1 EXCEPT !.bug   = @ \/ m1.state[t] # "READY" \/ m1.prio[t] # p,
                            !.currp = t,
                            !.state = [@ EXCEPT ![t] = "RUNNING"]]
<1>0. DOMAIN k = Fields /\ Shape(k) /\ k.currp \in Task /\ ~k'.bug
  BY KernelShape, CoreParts DEF PendSV, KernelOK
<1>1. CASE k.sched_lock # 0
  <2>1. k' = [[k EXCEPT !.yield_pending = TRUE] EXCEPT !.pendsv = FALSE]
    BY <1>1 DEF PendSV, schedule
  <2>2. Shape(k') /\ Only(k, k', {"yield_pending", "pendsv"}) /\ k'.pendsv = FALSE
    BY <1>0, <2>1 DEF Shape, Only, Fields
  <2>3. /\ Only(k, k', {"bug", "ready", "state", "currp", "pendsv", "yield_pending"})
        /\ k'.currp = k.currp /\ k'.state = k.state /\ k'.obj = k.obj /\ k'.evbits = k.evbits
    BY <2>2 DEF Only, Fields
  <2> QED BY <2>2, <2>3 DEF SameTasks
<1>2. CASE k.sched_lock = 0
  <2>1. k' = [n EXCEPT !.pendsv = FALSE]
    BY <1>2 DEF PendSV, schedule
  <2>2. Shape(m1) /\ Only(k, m1, {"bug", "ready", "state"}) /\ SameTasks(k, m1, {})
    <3>1. CASE k.state[k.currp] # "RUNNING"
      <4>1. m1 = k
        BY <3>1 DEF rotate
      <4> QED BY <1>0, <4>1 DEF Only, SameTasks
    <3>2. CASE k.state[k.currp] = "RUNNING"
      <4>1. /\ Shape(m1) /\ Only(k, m1, {"bug", "ready", "state"})
            /\ m1.state = [k.state EXCEPT ![k.currp] = "READY"]
        BY <1>0, <3>2 DEF rotate, Shape, Only, Fields, State
      <4> HIDE DEF m1
      <4>2. m1.obj = k.obj /\ m1.evbits = k.evbits
        BY <4>1 DEF Only, Fields
      <4> QED BY <1>0, <3>2, <4>1, <4>2 DEF SameTasks, Up, Shape
    <3> QED BY <3>1, <3>2
  <2> HIDE DEF m1
  <2>3. m1.state[t] = "READY"
    <3> HIDE DEF t
    <3>1. DOMAIN m1 = Fields
      BY <2>2 DEF Shape
    <3>2. DOMAIN n = Fields /\ n.bug = (m1.bug \/ m1.state[t] # "READY" \/ m1.prio[t] # p)
      BY <3>1 DEF Fields
    <3> HIDE DEF n
    <3>3. k'.bug = n.bug
      BY <2>1, <3>2 DEF Fields
    <3> QED BY <1>0, <3>2, <3>3
  <2> HIDE DEF t, p
  <2>4. /\ Shape(k') /\ Only(m1, k', {"bug", "currp", "state", "pendsv"}) /\ k'.pendsv = FALSE
        /\ k'.state = [m1.state EXCEPT ![t] = "RUNNING"]
    <3>1. /\ Shape(n) /\ Only(m1, n, {"bug", "currp", "state"})
          /\ n.state = [m1.state EXCEPT ![t] = "RUNNING"]
      BY <2>2 DEF Shape, Only, Fields, State
    <3> HIDE DEF n
    <3>2. Shape(k') /\ Only(n, k', {"pendsv"}) /\ k'.state = n.state /\ k'.pendsv = FALSE
      BY <2>1, <3>1 DEF Shape, Only, Fields
    <3> QED BY <3>1, <3>2 DEF Only
  <2>5. k'.obj = m1.obj /\ k'.evbits = m1.evbits
    BY <2>4 DEF Only, Fields
  <2>6. SameTasks(m1, k', {})
    BY <2>2, <2>3, <2>4, <2>5 DEF SameTasks, Up, Shape
  <2>7. SameTasks(k, k', {})
    BY <2>2, <2>6 DEF SameTasks
  <2>8. Only(k, k', {"bug", "ready", "state", "currp", "pendsv", "yield_pending"})
    BY <2>2, <2>4 DEF Only
  <2> QED BY <1>2, <2>4, <2>7, <2>8
<1> QED BY <1>1, <1>2

\* Moving between READY and RUNNING leaves the messages alone.
LEMMA SameMsgTasks ==
  ASSUME NEW m, NEW r, NEW F, Only(m, r, F), F \cap {"wait_aborted", "grant"} = {}, NEW S, SameTasks(m, r, S)
  PROVE  \A t \in Task \ S : SameMsg(m, r, t)
<1>1. r.wait_aborted = m.wait_aborted /\ r.grant = m.grant
  BY DEF Only, Fields
<1> QED BY <1>1 DEF SameMsg, SameTasks, Up

\* The switch keeps the promises.
LEMMA PendSVTold ==
  ASSUME KernelOK(k, call), KernelOK(k', call'), ToldOK(k, call), PendSV
  PROVE  ToldOK(k', call')
<1>1. /\ Only(k, k', {"bug", "ready", "state", "currp", "pendsv", "yield_pending"})
      /\ SameTasks(k, k', {}) /\ call' = call
  BY PendSVEffect DEF PendSV
<1>2. \A t \in Task \ {} : SameMsg(k, k', t)
  BY <1>1, SameMsgTasks
<1> QED BY <1>1, <1>2, ToldStep

\* A tick lets time pass, at once or when the scheduler is unlocked.
LEMMA SysTickPasses ==
  ASSUME KernelOK(k, call), SysTick
  PROVE  /\ \E n, r : /\ KernelOK(n, call) /\ Only(k, n, {"left"}) /\ Passes(n, r) /\ KernelOK(r, call)
                      /\ Only(r, k', {"pendsv", "skipped"})
         /\ call' = call /\ Shape(k') /\ k'.pendsv = TRUE
         /\ k.sched_lock # 0 => Only(k, k', {"left", "pendsv", "skipped"})
<1> DEFINE l == [t \in Task |-> IF t \in OnTimeList(k) /\ k.left[t] > 0 THEN k.left[t] - 1 ELSE k.left[t]]
           m == [k EXCEPT !.left = l]
           n == systimer_announce(m)
           b == [n EXCEPT !.pendsv = TRUE]
<1>0. k \in Kernel /\ CoreInv(k, call, {}) /\ OwnersOK(k) /\ Shape(k) /\ CallsOK(call) /\ DOMAIN k = Fields
  BY KernelShape
<1>1. k' = b /\ call' = call
  BY DEF SysTick, pass, port_yield
<1>2. l \in [Task -> Tick]
  BY <1>0, KernelTypes, Ticks
<1> HIDE DEF l
<1>3. /\ m \in Kernel /\ SameLinks(k, m) /\ SameControl(k, m)
      /\ m.owner = k.owner /\ m.count = k.count /\ m.owned = k.owned /\ m.obj = k.obj
      /\ m.prio = k.prio /\ m.pendsv = k.pendsv /\ m.wait_aborted = k.wait_aborted
  BY <1>0, <1>2 DEF Kernel, SameLinks, SameControl
<1>4. Shape(m) /\ Only(k, m, {"left"})
  BY <1>0 DEF Shape, Only, Fields
<1> HIDE DEF m
<1>5. KernelOK(m, call)
  <2>1. CoreInv(m, call, {})
    BY <1>0, <1>3, AlterOK
  <2>2. OwnersOK(m)
    BY <1>0, <1>3 DEF OwnersOK, SameLinks, SameControl
  <2> QED BY <2>1, <2>2 DEF KernelOK
<1>7. CASE m.sched_lock # 0
  <2> DEFINE s == [m EXCEPT !.skipped = m.skipped + 1]
  <2>1. n = s
    BY <1>7 DEF systimer_announce
  <2>2. Shape(s) /\ Only(m, s, {"skipped"})
    BY <1>4 DEF Shape, Only, Fields
  <2> HIDE DEF s, n
  <2>3. Shape(b) /\ Only(n, b, {"pendsv"}) /\ b.pendsv = TRUE
    BY <2>1, <2>2 DEF Shape, Only, Fields
  <2>4. Only(m, b, {"pendsv", "skipped"})
    BY <2>1, <2>2, <2>3 DEF Only
  <2>5. Passes(m, m)
    BY PassesNone
  <2> HIDE DEF b
  <2>6. Only(k, k', {"left", "pendsv", "skipped"})
    BY <1>1, <1>4, <2>4 DEF Only
  <2> QED BY <1>1, <1>4, <1>5, <2>3, <2>4, <2>5, <2>6
<1>8. CASE ~(m.sched_lock # 0)
  <2>1. n = advance_jiffies(m, 1) /\ 1 \in Tick
    BY <1>8, Ticks DEF systimer_announce
  <2> HIDE DEF n
  <2>2. Passes(m, n) /\ KernelOK(n, call)
    BY <1>5, <2>1, AdvancePasses
  <2>3. Shape(n)
    BY <2>2, KernelShape
  <2>4. Shape(b) /\ Only(n, b, {"pendsv", "skipped"}) /\ b.pendsv = TRUE
    BY <2>3 DEF Shape, Only, Fields
  <2> HIDE DEF b
  <2>5. ~(k.sched_lock # 0)
    BY <1>4, <1>8 DEF Only, Fields
  <2> QED BY <1>1, <1>4, <1>5, <2>2, <2>4, <2>5
<1> QED BY <1>7, <1>8

\* A tick keeps the promises.
LEMMA SysTickTold ==
  ASSUME KernelOK(k, call), ToldOK(k, call), SysTick
  PROVE  ToldOK(k', call')
<1>1. PICK n, r : /\ KernelOK(n, call) /\ Only(k, n, {"left"}) /\ Passes(n, r) /\ KernelOK(r, call)
                  /\ Only(r, k', {"pendsv", "skipped"})
  BY SysTickPasses
<1>2. /\ \A t \in Task : SameMsg(k, n, t)
      /\ \A t \in Task : SameMsg(r, k', t)
  BY <1>1, SameMsgOnly
<1>3. ToldOK(n, call)
  BY <1>2, ToldSame
<1>4. ToldOK(r, call)
  BY <1>1, <1>3, PassesTold
<1>5. call' = call
  BY SysTickPasses
<1> QED BY <1>2, <1>4, <1>5, ToldSame

\* A yield only moves on.
LEMMA YieldTold ==
  ASSUME KernelOK(k, call), ToldOK(k, call), NEW t \in Task, Yield(t)
  PROVE  ToldOK(k', call')
<1> DEFINE e == IF call[t].op \in {"sleep", "suspend"} THEN NoCall ELSE [call[t] EXCEPT !.pc = "after"]
<1>1. call \in [Task -> Call] /\ DOMAIN k = Fields /\ Shape(k)
  BY KernelShape
<1>2. /\ call' = [call EXCEPT ![t] = e] /\ k' = [k EXCEPT !.pendsv = TRUE] /\ call[t].pc = "yield"
      /\ call[t] \in Call
  BY <1>1 DEF Yield, port_yield
<1>3. Only(k, k', {"pendsv"})
  BY <1>1, <1>2 DEF Only, Fields
<1>4. \A u \in Task : SameMsg(k, k', u)
  BY <1>3, SameMsgOnly
<1>5. Told(k, call[t], t) => Told(k, e, t)
  <2>1. CASE call[t].op \in {"sleep", "suspend"}
    <3>1. e.op \notin {"sem", "evt", "sync"}
      BY <2>1 DEF NoCall
    <3> QED BY <3>1, ToldOther
  <2>2. CASE call[t].op \notin {"sleep", "suspend"}
    <3>1. e.op = call[t].op /\ e.w = call[t].w
      BY <1>2, <2>2 DEF Call
    <3> QED BY <1>2, <3>1 DEF Told, TokenTold, BitsTold
  <2> QED BY <2>1, <2>2
<1> HIDE DEF e
<1>6. Told(k', e, t)
  BY <1>4, <1>5, ToldFrame DEF ToldOK
<1>7. /\ \A u \in Task \ {t} : SameMsg(k, k', u) /\ call'[u] = call[u]
      /\ \A u \in Task \cap {t} : Told(k', call'[u], u)
  BY <1>1, <1>2, <1>4, <1>6
<1> QED BY <1>7, ToldStep

\* The hardware and the yields keep the promises.
LEMMA MachineTold ==
  ASSUME KernelOK(k, call), KernelOK(k', call'), ToldOK(k, call), Machine
  PROVE  ToldOK(k', call')
BY PendSVTold, SysTickTold, YieldTold DEF Machine

-----------------------------------------------------------------------------
\* The fields a wake-up changes.
Waking == {"p_wait", "pov_wait", "deadline", "left", "obj", "evbits", "bug", "state", "ready", "wait_list",
           "pendsv"}

\* The tasks of S, and nobody else, leave the state they were in: they are
\* ready and find the message msg.
WakesWith(m, r, S, msg) ==
  /\ \A t \in Task \cap S : r.state[t] = "READY" /\ r.obj[t] = msg
  /\ \A t \in Task \ S : r.state[t] = m.state[t] /\ r.obj[t] = m.obj[t] /\ r.evbits[t] = m.evbits[t]

\* Waking those on a list, with one message.
LEMMA BroadcastEffect ==
  ASSUME NEW m, Shape(m), NEW ws \in Seq(Task), NEW msg
  PROVE  LET r == IF ws = <<>> THEN m ELSE do_reschedule(wakeup(unlink(m, Range(ws)), ws, msg), Head(ws))
         IN  Shape(r) /\ Only(m, r, Waking) /\ WakesWith(m, r, Range(ws), msg)
<1> DEFINE u == unlink(m, Range(ws))
           w == wakeup(u, ws, msg)
           p == do_reschedule(w, Head(ws))
           r == IF ws = <<>> THEN m ELSE p
<1> SUFFICES Shape(r) /\ Only(m, r, Waking) /\ WakesWith(m, r, Range(ws), msg)
  OBVIOUS
<1>1. CASE ws = <<>>
  <2>1. r = m /\ Range(ws) = {}
    BY <1>1 DEF Range
  <2> HIDE DEF r
  <2> QED BY <2>1 DEF Only, WakesWith
<1>2. CASE ws # <<>>
  <2>1. r = p /\ Head(ws) \in Task
    BY <1>2
  <2>2. Shape(u) /\ Only(m, u, {"wait_list"})
    BY UnlinkFields
  <2> HIDE DEF u
  <2>3. /\ Shape(w) /\ Only(u, w, {"p_wait", "pov_wait", "deadline", "left", "obj", "evbits", "bug", "state", "ready"})
        /\ w.state = [t \in Task |-> IF t \in Range(ws) THEN "READY" ELSE u.state[t]]
        /\ w.obj = [t \in Task |-> IF t \in Range(ws) THEN msg ELSE u.obj[t]]
        /\ w.evbits = [t \in Task |-> IF t \in Range(ws) THEN NoBits ELSE u.evbits[t]]
    BY <2>2, WakeupFields
  <2> HIDE DEF w
  <2>4. Shape(p) /\ Only(w, p, {"pendsv"})
    BY <2>3, RescheduleFields
  <2> HIDE DEF p
  <2>5. /\ u.state = m.state /\ u.obj = m.obj /\ u.evbits = m.evbits
        /\ p.state = w.state /\ p.obj = w.obj /\ p.evbits = w.evbits
    BY <2>2, <2>4 DEF Only, Fields
  <2>6. Only(m, p, Waking)
    BY <2>2, <2>3, <2>4 DEF Only, Waking
  <2>7. WakesWith(m, p, Range(ws), msg)
    BY <2>3, <2>5 DEF WakesWith
  <2> QED BY <2>1, <2>4, <2>6, <2>7
<1> QED BY <1>1, <1>2

\* Who waits for a token, or for events, and is woken with another message than
\* ISIX_EOK is told the truth; so is who waits for something else.
LEMMA WakesTold ==
  ASSUME NEW m, NEW c, KernelOK(m, c), ToldOK(m, c), NEW r, NEW F, Only(m, r, F),
         F \cap {"wait_aborted", "grant"} = {}, NEW S, NEW msg, WakesWith(m, r, S, msg),
         \A t \in Task \cap S : m.state[t] \in Waiting,
         msg # EOK \/ \A t \in Task \cap S : m.state[t] \notin {"WTSEM", "WTEVT"}
  PROVE  ToldOK(r, c)
<1>1. r.wait_aborted = m.wait_aborted /\ r.grant = m.grant
  BY DEF Only, Fields
<1>2. \A t \in Task \ S : SameMsg(m, r, t) /\ c[t] = c[t]
  BY <1>1 DEF WakesWith, SameMsg
<1>3. ASSUME NEW t \in Task \cap S PROVE Told(r, c[t], t)
  <2>1. Told(m, c[t], t) /\ Blocked(m.state[t], c[t], m.obj[t], m.wait_aborted[t])
    BY KernelShape, CoreParts DEF ToldOK, BlockedOK
  <2>2. r.state[t] = "READY" /\ r.obj[t] = msg /\ m.state[t] \in Waiting
    BY DEF WakesWith
  <2>3. CASE msg # EOK
    BY <1>1, <2>1, <2>2, <2>3 DEF Told, TokenTold, BitsTold, Blocked, Waiting
  <2>4. CASE m.state[t] \notin {"WTSEM", "WTEVT"}
    <3>1. c[t].op \notin {"sem", "evt", "sync"}
      BY <2>1, <2>2, <2>4 DEF Blocked, Waiting
    <3> QED BY <3>1, ToldOther
  <2> QED BY <2>3, <2>4
<1> QED BY <1>2, <1>3, ToldStep

\* The tasks of S are woken with the bits cur.
SetWakes(m, r, cur, S) ==
  /\ Shape(r) /\ Only(m, r, Waking \cup {"bitset"}) /\ WakesWith(m, r, S, EOK)
  /\ S \subseteq Task /\ \A t \in S : r.evbits[t].bits = cur

\* What isix_event_set does.
LEMMA EventSetWakes ==
  ASSUME NEW m, NEW c, KernelOK(m, c), NEW e \in Evts, NEW bits \in SUBSET Bits
  PROVE  SetWakes(m, event_set(m, e, bits), m.bitset[e] \cup bits, MetBy(m, e, m.bitset[e] \cup bits))
<1> DEFINE cur == m.bitset[e] \cup bits
           S   == MetBy(m, e, cur)
           K   == {t \in Task : check_cond(cur, m.evbits[t])}
           ws  == Keep(m.wait_list[e], K)
           clr == UNION {m.evbits[t].bits : t \in {u \in Range(ws) : m.evbits[u].clear}}
           n   == unlink(m, Range(ws))
           w   == wakeup(n, ws, EOK)
           b   == w.pendsv \/ \E t \in Range(ws) : prio_gt(m.prio[t], m.prio[m.currp])
           v   == [NoBits EXCEPT !.bits = cur]
           ev  == [t \in Task |-> IF t \in Range(ws) THEN v ELSE w.evbits[t]]
           B   == [w.bitset EXCEPT ![e] = cur \ clr]
           r   == [w EXCEPT !.evbits = ev, !.bitset = B, !.pendsv = b]
<1>0. m \in Kernel /\ Shape(m) /\ m.wait_list \in [Obj -> Seq(Task)] /\ e \in Obj
      /\ m.bitset \in [Evts -> SUBSET Bits]
  BY KernelShape, KernelTypes, SyncObjects
<1>1. event_set(m, e, bits) = r
  BY DEF event_set
<1>2. ws \in Seq(Task) /\ Range(ws) = S /\ S \subseteq Task
  <2>1. m.wait_list[e] \in Seq(Task)
    BY <1>0
  <2>2. Range(m.wait_list[e]) \subseteq Task
    BY <2>1, RangeType
  <2> HIDE DEF K
  <2>3. ws \in Seq(Task) /\ Range(ws) = Range(m.wait_list[e]) \cap K
    BY <2>1, KeepProperties
  <2> QED BY <2>2, <2>3 DEF K, MetBy
<1>13. v.bits = cur
  BY DEF NoBits
<1> SUFFICES SetWakes(m, r, cur, S)
  BY <1>1
<1> HIDE DEF ws, S, cur, v
<1>3. Shape(n) /\ Only(m, n, {"wait_list"})
  BY <1>0, UnlinkFields
<1> HIDE DEF n
<1>4. /\ Shape(w) /\ Only(n, w, {"p_wait", "pov_wait", "deadline", "left", "obj", "evbits", "bug", "state", "ready"})
      /\ w.state = [t \in Task |-> IF t \in Range(ws) THEN "READY" ELSE n.state[t]]
      /\ w.obj = [t \in Task |-> IF t \in Range(ws) THEN EOK ELSE n.obj[t]]
      /\ w.evbits = [t \in Task |-> IF t \in Range(ws) THEN NoBits ELSE n.evbits[t]]
  BY <1>3, WakeupFields
<1> HIDE DEF w, clr, b
<1>5. ev = [t \in Task |-> IF t \in S THEN v ELSE w.evbits[t]] /\ DOMAIN ev = Task
  BY <1>2
<1>6. w.bitset = m.bitset /\ n.state = m.state /\ n.obj = m.obj /\ n.evbits = m.evbits
  BY <1>3, <1>4 DEF Only, Fields
<1> HIDE DEF ev, B
<1>8. /\ Shape(r) /\ Only(w, r, {"evbits", "bitset", "pendsv"}) /\ r.evbits = ev
  BY <1>4, <1>5 DEF Shape, Only, Fields
<1> HIDE DEF r
<1>9. r.state = w.state /\ r.obj = w.obj
  BY <1>8 DEF Only, Fields
<1>10. Only(m, r, Waking \cup {"bitset"})
  BY <1>3, <1>4, <1>8 DEF Only, Waking
<1>11. \A t \in Task \ S : r.state[t] = m.state[t] /\ r.obj[t] = m.obj[t] /\ r.evbits[t] = m.evbits[t]
  BY <1>2, <1>4, <1>5, <1>6, <1>8, <1>9
<1>12. \A t \in S : r.state[t] = "READY" /\ r.obj[t] = EOK /\ r.evbits[t].bits = cur
  BY <1>2, <1>4, <1>5, <1>8, <1>9, <1>13
<1> QED BY <1>2, <1>8, <1>10, <1>11, <1>12 DEF WakesWith, SetWakes

\* ... which tells the truth to those it wakes.
LEMMA EventSetTold ==
  ASSUME NEW m, NEW c, KernelOK(m, c), ToldOK(m, c), NEW e \in Evts, NEW bits \in SUBSET Bits
  PROVE  ToldOK(event_set(m, e, bits), c)
<1> DEFINE r   == event_set(m, e, bits)
           cur == m.bitset[e] \cup bits
           S   == MetBy(m, e, cur)
<1>1. /\ Shape(r) /\ Only(m, r, Waking \cup {"bitset"}) /\ WakesWith(m, r, S, EOK)
      /\ S \subseteq Task /\ \A t \in S : r.evbits[t].bits = cur
  <2>1. SetWakes(m, r, cur, S)
    BY EventSetWakes
  <2> QED BY <2>1 DEF SetWakes
<1>2. \A t \in S : t \in Range(m.wait_list[e]) /\ check_cond(cur, m.evbits[t])
  BY DEF MetBy
<1> HIDE DEF r, cur, S
<1>3. r.wait_aborted = m.wait_aborted /\ r.grant = m.grant
  BY <1>1 DEF Only, Fields, Waking
<1>4. \A t \in Task \ S : SameMsg(m, r, t) /\ c[t] = c[t]
  BY <1>1, <1>3 DEF WakesWith, SameMsg
<1>5. ASSUME NEW t \in Task \cap S PROVE Told(r, c[t], t)
  <2>1. m.state[t] = "WTEVT" /\ check_cond(cur, m.evbits[t]) /\ r.state[t] = "READY" /\ r.evbits[t].bits = cur
    BY <1>1, <1>2, EventWaiter DEF WakesWith
  <2>2. Told(m, c[t], t) /\ Blocked(m.state[t], c[t], m.obj[t], m.wait_aborted[t])
    BY KernelShape, CoreParts DEF ToldOK, BlockedOK
  <2>3. c[t].op \in {"evt", "sync"} /\ m.evbits[t] = c[t].w
    BY <2>1, <2>2 DEF Told, BitsTold, Blocked, Waiting
  <2> QED BY <2>1, <2>3 DEF Told, BitsTold
<1> QED BY <1>4, <1>5, ToldStep DEF r

\* One task alone is concerned: it moves on to a call that Told holds of.
LEMMA ToldOwn ==
  ASSUME NEW m, NEW c, ToldOK(m, c), NEW r, NEW d, NEW t \in Task,
         \A u \in Task \ {t} : SameMsg(m, r, u) /\ d[u] = c[u], Told(r, d[t], t)
  PROVE  ToldOK(r, d)
<1> SUFFICES ASSUME NEW u \in Task PROVE Told(r, d[u], u)
  BY DEF ToldOK
<1>1. CASE u = t
  BY <1>1
<1>2. CASE u # t
  <2>1. Told(m, c[u], u) /\ SameMsg(m, r, u) /\ d[u] = c[u]
    BY <1>2 DEF ToldOK
  <2> QED BY <2>1, ToldFrame
<1> QED BY <1>1, <1>2

\* A thread begins or ends a call, and no message changes but its own.
LEMMA ToldMove ==
  ASSUME NEW m, NEW c, ToldOK(m, c), NEW r, NEW d, NEW t \in Task,
         \A u \in Task \ {t} : SameMsg(m, r, u) /\ d[u] = c[u],
         d[t].op \notin {"sem", "evt", "sync"} \/ d[t].pc \notin {"yield", "after"}
  PROVE  ToldOK(r, d)
<1>1. Told(r, d[t], t)
  BY ToldOther
<1> QED BY <1>1, ToldOwn

\* The end of a call resets the flag of an aborted wait of its own task only.
LEMMA LeaveMsg ==
  ASSUME NEW m, Shape(m), NEW t \in Task
  PROVE  \A u \in Task \ {t} : SameMsg(m, leave(m, t), u)
<1>1. /\ leave(m, t).state = m.state /\ leave(m, t).obj = [m.obj EXCEPT ![t] = EOK]
      /\ leave(m, t).evbits = [m.evbits EXCEPT ![t] = NoBits]
      /\ leave(m, t).wait_aborted = [m.wait_aborted EXCEPT ![t] = FALSE]
      /\ leave(m, t).grant = m.grant \ {t}
  BY DEF leave, Shape, Fields
<1> DEFINE r == leave(m, t)
<1>2. /\ r.state = m.state /\ r.obj = [m.obj EXCEPT ![t] = EOK]
      /\ r.evbits = [m.evbits EXCEPT ![t] = NoBits]
      /\ r.wait_aborted = [m.wait_aborted EXCEPT ![t] = FALSE]
      /\ r.grant = m.grant \ {t}
  BY <1>1
<1> HIDE DEF r
<1>3. \A u \in Task \ {t} : SameMsg(m, r, u)
  BY <1>2 DEF SameMsg, Shape
<1> QED BY <1>3 DEF r

\* A thread leaves a call, or goes back to the start of it.
LEMMA LeaveTold ==
  ASSUME NEW m, NEW c, KernelOK(m, c), ToldOK(m, c), NEW r, NEW d, NEW t \in Task,
         r = leave(m, t) \/ r = m, d[t].pc \in {"run", "enter"}, \A u \in Task \ {t} : d[u] = c[u]
  PROVE  ToldOK(r, d)
<1>1. \A u \in Task \ {t} : SameMsg(m, r, u) /\ d[u] = c[u]
  <2>1. Shape(m) /\ \A u \in Task : SameMsg(m, m, u)
    BY KernelShape DEF SameMsg
  <2> QED BY <2>1, LeaveMsg
<1> QED BY <1>1, ToldMove

-----------------------------------------------------------------------------
\* A store into the bits of a group.
LEMMA EventClearTold ==
  ASSUME NEW m, NEW c, KernelOK(m, c), ToldOK(m, c), NEW e, NEW bits
  PROVE  ToldOK(event_clear(m, e, bits), c) /\ Shape(event_clear(m, e, bits))
<1> DEFINE r == event_clear(m, e, bits)
<1>0. Shape(m)
  BY KernelShape
<1>1. Only(m, r, {"bitset"}) /\ Shape(r)
  BY <1>0 DEF event_clear, Shape, Only, Fields
<1> HIDE DEF r
<1>2. \A t \in Task : SameMsg(m, r, t)
  BY <1>1, SameMsgOnly
<1> QED BY <1>1, <1>2, ToldSame DEF r

\* A thread that blocks for events stores its condition in its union.
LEMMA EventBlockTold ==
  ASSUME NEW m, NEW c, KernelOK(m, c), ToldOK(m, c), NEW r, NEW d, NEW t \in Task,
         t = m.currp, NEW e, NEW w, NEW tout, r = event_block(m, e, w, tout),
         d[t].op \in {"evt", "sync"}, d[t].w = w, \A u \in Task \ {t} : d[u] = c[u]
  PROVE  ToldOK(r, d)
<1> DEFINE a == [m EXCEPT !.wait_aborted = [@ EXCEPT ![t] = FALSE]]
           b == set_sleep_timeout(a, "WTEVT", tout)
<1>0. Shape(m)
  BY KernelShape
<1>1. r = [b EXCEPT !.wait_list[e] = Append(@, t), !.evbits = [@ EXCEPT ![t] = w]]
  BY DEF event_block
<1>2. /\ Shape(a) /\ Only(m, a, {"wait_aborted"}) /\ a.currp = t
      /\ \A u \in Task \ {t} : a.wait_aborted[u] = m.wait_aborted[u]
  BY <1>0 DEF Shape, Only, Fields
<1> HIDE DEF a
<1>3. Shape(b) /\ Only(a, b, {"ready", "state", "deadline", "left", "p_wait", "pov_wait"})
      /\ b.state = [a.state EXCEPT ![t] = "WTEVT"]
  <2> DEFINE st == "WTEVT"
  <2>1. st \in State /\ a.currp \in Task
    BY <1>2 DEF State
  <2> HIDE DEF st
  <2>2. LET z == set_sleep_timeout(a, st, tout) IN
        /\ Shape(z) /\ Only(a, z, {"ready", "state", "deadline", "left", "p_wait", "pov_wait"})
        /\ z.state = [a.state EXCEPT ![a.currp] = st]
    BY <1>2, <2>1, SleepFields
  <2> QED BY <1>2, <2>2 DEF st
<1> HIDE DEF b
<1>4. /\ r.state = b.state /\ r.obj = b.obj /\ r.wait_aborted = b.wait_aborted /\ r.grant = b.grant
      /\ r.evbits = [b.evbits EXCEPT ![t] = w]
  BY <1>1, <1>3 DEF Shape, Fields
<1>5. /\ b.obj = m.obj /\ b.wait_aborted = a.wait_aborted /\ b.grant = m.grant /\ b.evbits = m.evbits
      /\ a.state = m.state
  BY <1>2, <1>3 DEF Only, Fields
<1>6. \A u \in Task \ {t} : SameMsg(m, r, u) /\ d[u] = c[u]
  BY <1>0, <1>2, <1>3, <1>4, <1>5 DEF SameMsg, Shape
<1>7. r.state[t] = "WTEVT" /\ r.evbits[t] = w
  BY <1>0, <1>3, <1>4, <1>5 DEF Shape
<1>8. Told(r, d[t], t)
  BY <1>7 DEF Told, BitsTold
<1> QED BY <1>6, <1>8, ToldOwn

\* A thread that blocks for a token has none.
LEMMA SemBlockTold ==
  ASSUME NEW m, NEW c, ToldOK(m, c), Shape(m), NEW n, Shape(n), Only(m, n, {"value"}), NEW r, NEW d, NEW t \in Task,
         t = n.currp, NEW s, NEW tout, r = sem_block(n, s, tout),
         d[t].op = "sem", \A u \in Task \ {t} : d[u] = c[u]
  PROVE  ToldOK(r, d)
<1> DEFINE a == [n EXCEPT !.obj = [@ EXCEPT ![t] = s], !.wait_aborted = [@ EXCEPT ![t] = FALSE],
                          !.grant = @ \ {t}]
           b == set_sleep_timeout(a, "WTSEM", tout)
<1>3. r = add_to_prio_queue(b, s, t)
  BY DEF sem_block
<1>4. /\ Shape(a) /\ Only(n, a, {"obj", "wait_aborted", "grant"}) /\ a.currp = t
      /\ a.grant = n.grant \ {t}
      /\ \A u \in Task \ {t} : a.obj[u] = n.obj[u] /\ a.wait_aborted[u] = n.wait_aborted[u]
  BY DEF Shape, Only, Fields
<1> HIDE DEF a
<1>5. Shape(b) /\ Only(a, b, {"ready", "state", "deadline", "left", "p_wait", "pov_wait"})
      /\ b.state = [a.state EXCEPT ![t] = "WTSEM"]
  <2> DEFINE st == "WTSEM"
  <2>1. st \in State /\ a.currp \in Task
    BY <1>4 DEF State
  <2> HIDE DEF st
  <2>2. LET z == set_sleep_timeout(a, st, tout) IN
        /\ Shape(z) /\ Only(a, z, {"ready", "state", "deadline", "left", "p_wait", "pov_wait"})
        /\ z.state = [a.state EXCEPT ![a.currp] = st]
    BY <1>4, <2>1, SleepFields
  <2> QED BY <1>4, <2>2 DEF st
<1> HIDE DEF b
<1>6. Only(b, r, {"wait_list"})
  BY <1>3, <1>5, QueueFields
<1>7. /\ r.state = b.state /\ r.obj = a.obj /\ r.wait_aborted = a.wait_aborted /\ r.grant = a.grant
      /\ r.evbits = m.evbits /\ a.state = m.state /\ n.obj = m.obj /\ n.wait_aborted = m.wait_aborted
      /\ n.grant = m.grant
  BY <1>4, <1>5, <1>6 DEF Only, Fields
<1>8. \A u \in Task \ {t} : SameMsg(m, r, u) /\ d[u] = c[u]
  BY <1>4, <1>5, <1>7 DEF SameMsg, Shape
<1>9. r.state[t] = "WTSEM" /\ t \notin r.grant
  BY <1>4, <1>5, <1>7 DEF Shape
<1>10. Told(r, d[t], t)
  BY <1>9 DEF Told, TokenTold
<1> QED BY <1>8, <1>10, ToldOwn

\* A signal hands its token to the first waiter, and tells it so.
LEMMA SemSignalTold ==
  ASSUME NEW m, NEW c, KernelOK(m, c), ToldOK(m, c), NEW s \in Sems
  PROVE  ToldOK(sem_signal(m, s), c)
<1> DEFINE ws == m.wait_list[s]
           h  == Head(ws)
           m1 == sem_fast_signal(m, s)
           a  == unlink(m1, {h})
           q  == [a EXCEPT !.grant = @ \cup {h}]
           w  == wakeup(q, <<h>>, EOK)
           r  == do_reschedule(w, h)
<1>0. Shape(m) /\ BlockedOK(m, c, {})
  BY CoreParts, KernelShape DEF KernelOK
<1>1. Shape(m1) /\ Only(m, m1, {"value"})
  BY <1>0 DEF sem_fast_signal, Shape, Only, Fields
<1>2. ws # <<>> => h \in TokenWaiters(m, s)
  BY SemWaiters
<1>3. sem_signal(m, s) = m1 \/ (ws # <<>> /\ sem_signal(m, s) = r)
  BY DEF sem_signal
<1>4. CASE sem_signal(m, s) = m1
  <2> HIDE DEF m1
  <2>1. \A t \in Task : SameMsg(m, m1, t)
    BY <1>1, SameMsgOnly
  <2> QED BY <1>4, <2>1, ToldSame
<1>5. CASE ws # <<>> /\ sem_signal(m, s) = r
  <2>2. h \in Task /\ m.state[h] = "WTSEM"
    BY <1>2, <1>5 DEF TokenWaiters
  <2> HIDE DEF h, ws, m1
  <2>4. Shape(a) /\ Only(m1, a, {"wait_list"})
    BY <1>1, UnlinkFields
  <2> HIDE DEF a
  <2>5. Shape(q) /\ Only(a, q, {"grant"}) /\ q.grant = a.grant \cup {h}
    BY <2>4 DEF Shape, Only, Fields
  <2> HIDE DEF q
  <2> DEFINE ts == <<h>>
  <2>7. w = wakeup(q, ts, EOK) /\ Range(ts) = {h}
    BY OneElement
  <2> HIDE DEF ts, w
  <2>8. /\ Shape(w) /\ Only(q, w, {"p_wait", "pov_wait", "deadline", "left", "obj", "evbits", "bug", "state", "ready"})
        /\ w.state = [t \in Task |-> IF t \in Range(ts) THEN "READY" ELSE q.state[t]]
        /\ w.obj = [t \in Task |-> IF t \in Range(ts) THEN EOK ELSE q.obj[t]]
        /\ w.evbits = [t \in Task |-> IF t \in Range(ts) THEN NoBits ELSE q.evbits[t]]
    <3> DEFINE x == wakeup(q, ts, EOK)
    <3>1. /\ Shape(x) /\ Only(q, x, {"p_wait", "pov_wait", "deadline", "left", "obj", "evbits", "bug", "state", "ready"})
          /\ x.state = [t \in Task |-> IF t \in Range(ts) THEN "READY" ELSE q.state[t]]
          /\ x.obj = [t \in Task |-> IF t \in Range(ts) THEN EOK ELSE q.obj[t]]
          /\ x.evbits = [t \in Task |-> IF t \in Range(ts) THEN NoBits ELSE q.evbits[t]]
      BY <2>5, WakeupFields
    <3> HIDE DEF x
    <3>2. w = x
      BY <2>7 DEF x
    <3> QED BY <3>1, <3>2
  <2>9. Only(w, r, {"pendsv"})
    BY <2>8, RescheduleFields
  <2> HIDE DEF r
  <2>10. /\ q.state = m.state /\ q.obj = m.obj /\ q.evbits = m.evbits
         /\ q.wait_aborted = m.wait_aborted /\ q.grant = m.grant \cup {h}
    BY <1>1, <2>4, <2>5 DEF Only, Fields
  <2>11. /\ r.state = w.state /\ r.obj = w.obj /\ r.evbits = w.evbits
         /\ r.wait_aborted = m.wait_aborted /\ r.grant = m.grant \cup {h}
    BY <2>8, <2>9, <2>10 DEF Only, Fields
  <2>12. /\ r.state[h] = "READY" /\ r.obj[h] = EOK
         /\ \A t \in Task \ {h} : r.state[t] = m.state[t] /\ r.obj[t] = m.obj[t] /\ r.evbits[t] = m.evbits[t]
    BY <2>2, <2>7, <2>8, <2>10, <2>11
  <2>13. \A t \in Task \ {h} : SameMsg(m, r, t) /\ c[t] = c[t]
    BY <2>11, <2>12 DEF SameMsg
  <2>14. c[h].op = "sem"
    BY <1>0, <2>2 DEF BlockedOK, Blocked
  <2>15. Told(r, c[h], h)
    BY <2>11, <2>12, <2>14 DEF Told, TokenTold
  <2>16. ToldOK(r, c)
    BY <2>2, <2>13, <2>15, ToldOwn
  <2> QED BY <1>5, <2>16
<1> QED BY <1>3, <1>4, <1>5

\* Everyone leaves a semaphore with an error.
LEMMA WakeupAllTold ==
  ASSUME NEW m, NEW c, KernelOK(m, c), ToldOK(m, c), NEW s \in Sems, NEW p, Shape(p), Only(m, p, {"value"}),
         NEW msg, msg # EOK
  PROVE  ToldOK(sem_wakeup_all(p, s, msg), c) /\ Shape(sem_wakeup_all(p, s, msg))
<1> DEFINE ws == p.wait_list[s]
           n  == sem_wakeup_all(p, s, msg)
<1>1. /\ p.wait_list = m.wait_list /\ p.state = m.state /\ p.obj = m.obj /\ p.evbits = m.evbits
  BY DEF Only, Fields
<1>2. ws \in Seq(Task) /\ Range(ws) = TokenWaiters(m, s)
  BY <1>1, SemWaiters
<1>3. Shape(n) /\ Only(p, n, Waking) /\ WakesWith(p, n, Range(ws), msg)
  <2>1. n = IF ws = <<>> THEN p ELSE do_reschedule(wakeup(unlink(p, Range(ws)), ws, msg), Head(ws))
    BY DEF sem_wakeup_all
  <2> HIDE DEF n, ws
  <2> QED BY <1>2, <2>1, BroadcastEffect
<1> HIDE DEF n, ws
<1> DEFINE S == Range(ws)
           F == Waking \cup {"value"}
<1>4. Only(m, n, F) /\ F \cap {"wait_aborted", "grant"} = {}
  BY <1>3 DEF Only, Waking
<1>5. WakesWith(m, n, S, msg)
  BY <1>1, <1>3 DEF WakesWith
<1>6. \A t \in Task \cap S : m.state[t] \in Waiting
  BY <1>2 DEF TokenWaiters, Waiting
<1> HIDE DEF S, F
<1>7. ToldOK(n, c)
  BY <1>4, <1>5, <1>6, WakesTold
<1> QED BY <1>3, <1>7 DEF n

-----------------------------------------------------------------------------
\* The services of the scheduler tell nobody anything, but for the ticks an
\* unlock replays.
LEMMA WaitTold ==
  ASSUME KernelOK(k, call), ToldOK(k, call), NEW t \in Task, NEW timeout, Wait(t, timeout)
  PROVE  ToldOK(k', call')
<1>1. Running(t) /\ k' = set_sleep_timeout(k, "SLEEPING", timeout)
  BY DEF Wait, MayBlock
<1>2. t = k.currp /\ k.state[t] \in Up /\ Shape(k) /\ call \in [Task -> Call]
  BY <1>1, RunningFree, KernelShape
<1>3. Only(k, k', {"ready", "state", "deadline", "left", "p_wait", "pov_wait"})
      /\ k'.state = [k.state EXCEPT ![t] = "SLEEPING"]
  <2> DEFINE st == "SLEEPING"
  <2>1. st \in State /\ k.currp \in Task
    BY <1>2 DEF State
  <2> HIDE DEF st
  <2>2. LET z == set_sleep_timeout(k, st, timeout) IN
        /\ Shape(z) /\ Only(k, z, {"ready", "state", "deadline", "left", "p_wait", "pov_wait"})
        /\ z.state = [k.state EXCEPT ![k.currp] = st]
    BY <1>2, <2>1, SleepFields
  <2> QED BY <1>1, <1>2, <2>2 DEF st
<1>4. k'.obj = k.obj /\ k'.evbits = k.evbits /\ k'.wait_aborted = k.wait_aborted /\ k'.grant = k.grant
  BY <1>3 DEF Only, Fields
<1>5. call'[t].op = "sleep" /\ \A u \in Task \ {t} : call'[u] = call[u]
  BY <1>2 DEF Wait, NoCall
<1>6. \A u \in Task \ {t} : SameMsg(k, k', u) /\ call'[u] = call[u]
  BY <1>2, <1>3, <1>4, <1>5 DEF SameMsg, Shape
<1> QED BY <1>5, <1>6, ToldMove

\* isix_yield, and locking and unlocking the scheduler.
LEMMA ShareTold ==
  ASSUME KernelOK(k, call), ToldOK(k, call), NEW t \in Task,
         YieldCall(t) \/ LockScheduler(t) \/ UnlockScheduler(t)
  PROVE  ToldOK(k', call')
<1>1. Running(t)
  BY DEF YieldCall, LockScheduler, UnlockScheduler
<1>2. call[t].op = "none"
  BY <1>1, RunningFree
<1>3. DOMAIN k = Fields /\ call \in [Task -> Call]
  BY KernelShape
<1>4. Only(k, k', {"pendsv", "sched_lock"})
  BY <1>3 DEF YieldCall, LockScheduler, UnlockScheduler, port_yield, Only, Fields
<1>5. call'[t].op \in {"none", "lock"} /\ \A u \in Task \ {t} : call'[u] = call[u]
  <2> DEFINE e == [NoCall EXCEPT !.op = "lock", !.pc = "enter"]
  <2>1. call' = call \/ call' = [call EXCEPT ![t] = e] \/ call' = [call EXCEPT ![t] = call[t]]
    BY DEF YieldCall, LockScheduler, UnlockScheduler
  <2>2. e.op = "lock"
    BY DEF NoCall
  <2> HIDE DEF e
  <2> QED BY <1>2, <1>3, <2>1, <2>2
<1>6. \A u \in Task : SameMsg(k, k', u)
  BY <1>4, SameMsgOnly
<1>7. \A u \in Task \ {t} : SameMsg(k, k', u) /\ call'[u] = call[u]
  BY <1>5, <1>6
<1>8. call'[t].op \notin {"sem", "evt", "sync"}
  BY <1>5
<1> QED BY <1>7, <1>8, ToldMove

\* The ticks that were skipped under the lock pass all at once.
LEMMA UnlockFlushTold ==
  ASSUME KernelOK(k, call), ToldOK(k, call), NEW t \in Task, UnlockFlush(t)
  PROVE  ToldOK(k', call')
<1> DEFINE a == advance_jiffies(k, k.skipped)
           m == [a EXCEPT !.skipped = 0]
           r == [m EXCEPT !.pendsv = m.pendsv \/ m.yield_pending, !.yield_pending = FALSE]
<1>0. k \in Kernel /\ call \in [Task -> Call]
  BY KernelShape
<1>1. k' = r /\ call' = [call EXCEPT ![t] = NoCall]
  BY DEF UnlockFlush, unlock_flush
<1>2. k.skipped \in Tick
  BY <1>0, KernelTypes
<1>3. Passes(k, a) /\ KernelOK(a, call)
  BY <1>2, AdvancePasses
<1> HIDE DEF a
<1>4. ToldOK(a, call) /\ Shape(a)
  BY <1>3, PassesTold, KernelShape
<1>5. Only(a, r, {"skipped", "pendsv", "yield_pending"})
  BY <1>4 DEF Shape, Only, Fields
<1> HIDE DEF r
<1>6. \A u \in Task : SameMsg(a, r, u)
  BY <1>5, SameMsgOnly
<1>7. NoCall.op \notin {"sem", "evt", "sync"}
  BY DEF NoCall
<1>8. /\ call'[t].op \notin {"sem", "evt", "sync"}
      /\ \A u \in Task \ {t} : SameMsg(a, k', u) /\ call'[u] = call[u]
  BY <1>0, <1>1, <1>6, <1>7
<1> QED BY <1>4, <1>8, ToldMove

\* The services of the scheduler.
LEMMA SchedOpsTold ==
  ASSUME KernelOK(k, call), ToldOK(k, call), SchedOps
  PROVE  ToldOK(k', call')
BY WaitTold, ShareTold, UnlockFlushTold DEF SchedOps, SleepOps, ShareOps

-----------------------------------------------------------------------------
\* Bits are polled, set and cleared.
LEMMA EventDataTold ==
  ASSUME KernelOK(k, call), ToldOK(k, call), NEW e \in Evts,
         \/ \E t \in Task, w \in EvWaits : EventPoll(t, e, w)
         \/ \E t \in Task, bits \in SetBits : EventSet(t, e, bits)
         \/ \E bits \in SetBits : EventSetIsr(e, bits) \/ EventClear(e, bits)
  PROVE  ToldOK(k', call')
<1>1. call' = call
  BY DEF EventPoll, EventSet, EventSetIsr, EventClear
<1>2. \/ k' = k
      \/ \E bits : k' = event_clear(k, e, bits)
      \/ \E bits \in SUBSET Bits : k' = event_set(k, e, bits)
  BY EventAssumption DEF EventPoll, EventSet, EventSetIsr, EventClear
<1> QED BY <1>1, <1>2, EventSetTold, EventClearTold

\* isix_sem_wait, isix_event_wait and isix_event_sync begin.
LEMMA BeginTold ==
  ASSUME KernelOK(k, call), ToldOK(k, call), NEW t \in Task, NEW o, NEW timeout,
         \/ SemWait(t, o, timeout)
         \/ \E w \in EvWaits : EventWait(t, o, w, timeout)
         \/ \E bits \in SetBits : EventSync(t, o, bits, SyncBits, timeout)
  PROVE  ToldOK(k', call')
<1>1. k' = k
  BY DEF SemWait, EventWait, EventSync
<1>2. call \in [Task -> Call]
  BY KernelShape
<1>3. call'[t].pc = "enter" /\ \A u \in Task \ {t} : call'[u] = call[u]
  BY <1>2 DEF SemWait, EventWait, EventSync, NoCall
<1>4. call'[t].pc \in {"run", "enter"}
  BY <1>3
<1> QED BY <1>1, <1>3, <1>4, LeaveTold

\* The critical section of isix_event_wait.
LEMMA EventWaitEnterTold ==
  ASSUME KernelOK(k, call), ToldOK(k, call), NEW t \in Task, EventWaitEnter(t)
  PROVE  ToldOK(k', call')
<1> DEFINE e == call[t].o
           w == call[t].w
           n == event_clear(k, e, w.bits)
<1>1. /\ t = k.currp /\ k.state[t] \in Up /\ CoreInv(k, call, {}) /\ OwnersOK(k)
      /\ call \in [Task -> Call] /\ call[t] \in Call /\ e \in Evts /\ call[t].op = "evt"
  <2>1. Exec(t) /\ call[t].pc = "enter" /\ call[t].op = "evt" /\ call[t].op \in Blocking
    BY DEF EventWaitEnter, Blocking
  <2> QED BY <2>1, EnterUp DEF CallKind
<1>2. \A u \in Task \ {t} : call'[u] = call[u]
  BY <1>1 DEF EventWaitEnter
<1>3. \/ (k' = leave(k, t) \/ k' = leave(n, t)) /\ call'[t] = NoCall
      \/ k' = event_block(k, e, w, TimeLeft(t)) /\ call'[t].op = "evt" /\ call'[t].w = w
  BY <1>1 DEF EventWaitEnter, Call
<1>4. NoCall.pc \in {"run", "enter"}
  BY DEF NoCall
<1> HIDE DEF e, w
<1>5. CASE (k' = leave(k, t) \/ k' = leave(n, t)) /\ call'[t] = NoCall
  <2>1. CoreInv(n, call, {}) /\ OwnersOK(n) /\ Signalled(k, n)
    BY <1>1, EventClearOK
  <2>2. ToldOK(n, call)
    BY EventClearTold
  <2> HIDE DEF n
  <2>3. KernelOK(n, call)
    BY <2>1 DEF KernelOK
  <2>4. call'[t].pc \in {"run", "enter"}
    BY <1>4, <1>5
  <2>5. CASE k' = leave(k, t)
    BY <1>2, <2>4, <2>5, LeaveTold
  <2>6. CASE k' = leave(n, t)
    BY <1>2, <2>2, <2>3, <2>4, <2>6, LeaveTold
  <2> QED BY <1>5, <2>5, <2>6
<1>6. CASE k' = event_block(k, e, w, TimeLeft(t)) /\ call'[t].op = "evt" /\ call'[t].w = w
  <2>1. call'[t].op \in {"evt", "sync"}
    BY <1>6
  <2> QED BY <1>1, <1>2, <1>6, <2>1, EventBlockTold
<1> QED BY <1>3, <1>5, <1>6

\* Back from a wait or a rendezvous.
LEMMA ReturnTold ==
  ASSUME KernelOK(k, call), ToldOK(k, call), NEW t \in Task,
         SemWaitReturn(t) \/ EventWaitReturn(t) \/ EventSyncReturn(t)
  PROVE  ToldOK(k', call')
<1>1. k' = k \/ k' = leave(k, t)
  BY DEF SemWaitReturn, EventWaitReturn, EventSyncReturn
<1>2. call \in [Task -> Call]
  BY KernelShape
<1>3. call'[t].pc \in {"run", "enter"} /\ \A u \in Task \ {t} : call'[u] = call[u]
  <2>1. call[t] \in Call
    BY <1>2
  <2> DEFINE a == [call[t] EXCEPT !.pc = "enter"]
             b == [call[t] EXCEPT !.op = "evt", !.pc = "enter", !.set = {}, !.tmo = TimeLeft(t),
                                  !.start = IF call[t].tmo = Infinite THEN 0 ELSE k.jiffies]
  <2>2. call' = [call EXCEPT ![t] = NoCall] \/ call' = [call EXCEPT ![t] = a] \/ call' = [call EXCEPT ![t] = b]
    BY DEF SemWaitReturn, EventWaitReturn, EventSyncReturn
  <2>3. NoCall.pc = "run" /\ a.pc = "enter" /\ b.pc = "enter"
    BY <2>1 DEF NoCall, Call
  <2> HIDE DEF a, b
  <2> QED BY <1>2, <2>2, <2>3
<1> QED BY <1>1, <1>3, LeaveTold

\* The critical section of isix_event_sync.
LEMMA EventSyncEnterTold ==
  ASSUME KernelOK(k, call), ToldOK(k, call), NEW t \in Task, EventSyncEnter(t)
  PROVE  ToldOK(k', call')
<1> DEFINE e == call[t].o
           w == call[t].w
           n == event_set(k, e, call[t].set)
           q == event_clear(n, e, w.bits)
<1>1. /\ t = k.currp /\ k.state[t] \in Up /\ CoreInv(k, call, {}) /\ OwnersOK(k)
      /\ call \in [Task -> Call] /\ call[t] \in Call /\ e \in Evts /\ call[t].op = "sync"
  <2>1. Exec(t) /\ call[t].pc = "enter" /\ call[t].op = "sync" /\ call[t].op \in Blocking
    BY DEF EventSyncEnter, Blocking
  <2> QED BY <2>1, EnterUp DEF CallKind
<1>2. \A u \in Task \ {t} : call'[u] = call[u]
  BY <1>1 DEF EventSyncEnter
<1>3. \/ (k' = n \/ k' = q) /\ call'[t] = NoCall
      \/ k' = event_block(n, e, w, call[t].tmo) /\ call'[t].op = "sync" /\ call'[t].w = w
  BY <1>1 DEF EventSyncEnter, Call
<1>4. call[t].set \in SUBSET Bits
  BY <1>1 DEF Call
<1>5. CoreInv(n, call, {}) /\ OwnersOK(n) /\ Signalled(k, n) /\ ToldOK(n, call)
  BY <1>1, <1>4, EventSetOK, EventSetTold
<1>6. NoCall.pc \in {"run", "enter"}
  BY DEF NoCall
<1> HIDE DEF n
<1>7. KernelOK(n, call) /\ n.currp = t
  BY <1>1, <1>5 DEF Signalled, KernelOK
<1> HIDE DEF e, w
<1>8. CASE (k' = n \/ k' = q) /\ call'[t] = NoCall
  <2>1. CoreInv(q, call, {}) /\ OwnersOK(q) /\ Signalled(n, q)
    BY <1>1, <1>5, EventClearOK
  <2>2. ToldOK(q, call)
    BY <1>5, <1>7, EventClearTold
  <2> HIDE DEF q
  <2>3. KernelOK(q, call)
    BY <2>1 DEF KernelOK
  <2>4. call'[t].pc \in {"run", "enter"}
    BY <1>6, <1>8
  <2>5. CASE k' = n
    BY <1>2, <1>5, <1>7, <2>4, <2>5, LeaveTold
  <2>6. CASE k' = q
    BY <1>2, <2>2, <2>3, <2>4, <2>6, LeaveTold
  <2> QED BY <1>8, <2>5, <2>6
<1>9. CASE k' = event_block(n, e, w, call[t].tmo) /\ call'[t].op = "sync" /\ call'[t].w = w
  <2>1. call'[t].op \in {"evt", "sync"}
    BY <1>9
  <2> QED BY <1>2, <1>5, <1>7, <1>9, <2>1, EventBlockTold
<1> QED BY <1>3, <1>8, <1>9

\* Everyone leaves a group that is destroyed with an error.
LEMMA EventDestroyTold ==
  ASSUME KernelOK(k, call), ToldOK(k, call), NEW t \in Task, NEW e \in Evts, EventDestroy(t, e)
  PROVE  ToldOK(k', call')
<1> DEFINE ws == k.wait_list[e]
           n  == unlink(k, Range(ws))
           w  == wakeup(n, ws, EDESTROY)
           z  == w.pendsv \/ \E u \in Range(ws) : prio_gt(k.prio[u], k.prio[k.currp])
           S  == Range(ws)
<1>1. call' = call /\ k' = [w EXCEPT !.live = @ \ {e}, !.pendsv = z]
  BY DEF EventDestroy, event_destroy
<1>2. Shape(k) /\ ws \in Seq(Task)
  BY KernelShape, SyncObjects
<1>3. \A u \in Task \cap S : k.state[u] \in Waiting
  BY EventWaiter DEF Waiting
<1> HIDE DEF z, ws
<1>4. Shape(n) /\ Only(k, n, {"wait_list"})
  BY <1>2, UnlinkFields
<1> HIDE DEF n
<1>5. /\ Shape(w) /\ Only(n, w, {"p_wait", "pov_wait", "deadline", "left", "obj", "evbits", "bug", "state", "ready"})
      /\ w.state = [u \in Task |-> IF u \in Range(ws) THEN "READY" ELSE n.state[u]]
      /\ w.obj = [u \in Task |-> IF u \in Range(ws) THEN EDESTROY ELSE n.obj[u]]
      /\ w.evbits = [u \in Task |-> IF u \in Range(ws) THEN NoBits ELSE n.evbits[u]]
  BY <1>4, WakeupFields
<1> HIDE DEF w
<1>6. Only(w, k', {"live", "pendsv"}) /\ k'.state = w.state /\ k'.obj = w.obj /\ k'.evbits = w.evbits
  BY <1>1, <1>5 DEF Shape, Only, Fields
<1>7. n.state = k.state /\ n.obj = k.obj /\ n.evbits = k.evbits
  BY <1>4 DEF Only, Fields
<1> DEFINE F == Waking \cup {"live"}
<1>8. Only(k, k', F) /\ F \cap {"wait_aborted", "grant"} = {}
  BY <1>4, <1>5, <1>6 DEF Only, Waking
<1>9. WakesWith(k, k', S, EDESTROY)
  BY <1>5, <1>6, <1>7 DEF WakesWith
<1>10. EDESTROY # EOK
  BY DEF EDESTROY, EOK
<1> HIDE DEF S, F
<1>11. ToldOK(k', call)
  BY <1>3, <1>8, <1>9, <1>10, WakesTold
<1> QED BY <1>1, <1>11

\* New objects, and the connections of notifiers.
LEMMA EventCreateTold ==
  ASSUME KernelOK(k, call), ToldOK(k, call), NEW t \in Task,
         \/ \E e \in Evts : EventCreate(t, e)
         \/ \E s \in Sems : SemCreate(t, s)
  PROVE  ToldOK(k', call')
<1>1. DOMAIN k = Fields
  BY KernelShape
<1>2. Only(k, k', {"live", "bitset", "wait_list", "value"}) /\ call' = call
  BY <1>1 DEF EventCreate, SemCreate, sem_create, Only, Fields
<1>3. \A u \in Task : SameMsg(k, k', u)
  BY <1>2, SameMsgOnly
<1> QED BY <1>2, <1>3, ToldSame

\* The services of event groups.
LEMMA EventOpsTold ==
  ASSUME KernelOK(k, call), ToldOK(k, call), EventOps
  PROVE  ToldOK(k', call')
BY EventDataTold, BeginTold, EventWaitEnterTold, ReturnTold, EventSyncEnterTold, EventDestroyTold,
   EventCreateTold DEF EventOps

\* A notification raises its bit.
LEMMA NotifyTold ==
  ASSUME KernelOK(k, call), ToldOK(k, call), NEW t \in Task, Notify(t)
  PROVE  ToldOK(k', call')
<1> DEFINE e == call[t].o
           n == event_set(k, e, call[t].set)
<1>1. /\ CoreInv(k, call, {}) /\ OwnersOK(k)
      /\ call \in [Task -> Call] /\ call[t] \in Call /\ k' = n
  BY ExecUp DEF Notify
<1>2. e \in Evts /\ call[t].set \in SUBSET Bits
  BY <1>1, CoreParts DEF CallsOK, CallKind, Call, Notify
<1>3. CoreInv(n, call, {}) /\ OwnersOK(n) /\ ToldOK(n, call)
  BY <1>1, <1>2, EventSetOK, EventSetTold
<1>4. call'[t].pc \in {"run", "enter"} /\ \A u \in Task \ {t} : call'[u] = call[u]
  BY <1>1 DEF Notify, NoCall
<1> HIDE DEF n
<1>5. KernelOK(n, call)
  BY <1>3 DEF KernelOK
<1> QED BY <1>1, <1>3, <1>4, <1>5, LeaveTold

\* Connecting a notifier to a bit.
LEMMA ConnectTold ==
  ASSUME KernelOK(k, call), ToldOK(k, call), NEW t \in Task,
         \/ EventStoreBit(t)
         \/ \E n \in Notifier, e \in Evts : EventDisconnect(t, n, e) \/ \E bit \in Bits : EventConnect(t, n, e, bit)
  PROVE  ToldOK(k', call')
<1>1. DOMAIN k = Fields /\ call \in [Task -> Call]
  BY KernelShape
<1>2. Only(k, k', {"evt", "bitno"})
  BY <1>1 DEF EventStoreBit, EventDisconnect, EventConnect, Only, Fields
<1>3. call'[t].op \notin {"sem", "evt", "sync"} /\ \A u \in Task \ {t} : call'[u] = call[u]
  <2>1. PICK d : call' = [call EXCEPT ![t] = d] /\ d.op \notin {"sem", "evt", "sync"}
    <3> DEFINE D(n) == [NoCall EXCEPT !.op = "disconnect", !.pc = "enter", !.o = n]
               C(n, b) == [NoCall EXCEPT !.op = "connect", !.pc = "enter", !.o = n, !.set = {b}]
    <3>1. /\ NoCall.op = "none"
          /\ \A n : D(n).op = "disconnect" /\ \A b : C(n, b).op = "connect"
      BY DEF NoCall
    <3>2. \/ call' = [call EXCEPT ![t] = NoCall] \/ \E n : call' = [call EXCEPT ![t] = D(n)]
          \/ \E n, b : call' = [call EXCEPT ![t] = C(n, b)]
      BY DEF EventStoreBit, EventDisconnect, EventConnect
    <3> HIDE DEF C, D
    <3> QED BY <3>1, <3>2
  <2> QED BY <1>1, <2>1
<1>4. \A u \in Task : SameMsg(k, k', u)
  BY <1>2, SameMsgOnly
<1>5. \A u \in Task \ {t} : SameMsg(k, k', u) /\ call'[u] = call[u]
  BY <1>3, <1>4
<1> QED BY <1>3, <1>5, ToldMove

\* Notifications and connections.
LEMMA ConnectOpsTold ==
  ASSUME KernelOK(k, call), ToldOK(k, call), ConnectOps
  PROVE  ToldOK(k', call')
BY NotifyTold, ConnectTold DEF ConnectOps

-----------------------------------------------------------------------------
\* A counter changes.
LEMMA CounterTold ==
  ASSUME NEW m, NEW c, KernelOK(m, c), ToldOK(m, c), NEW v, NEW r, r = [m EXCEPT !.value = v]
  PROVE  ToldOK(r, c) /\ Shape(r) /\ Only(m, r, {"value"})
<1>1. Shape(m)
  BY KernelShape
<1>2. Shape(r) /\ Only(m, r, {"value"})
  BY <1>1 DEF Shape, Only, Fields
<1>3. \A t \in Task : SameMsg(m, r, t)
  BY <1>2, SameMsgOnly
<1> QED BY <1>2, <1>3, ToldSame

\* The critical section of isix_sem_wait.
LEMMA SemWaitEnterTold ==
  ASSUME KernelOK(k, call), ToldOK(k, call), NEW t \in Task, SemWaitEnter(t)
  PROVE  ToldOK(k', call')
<1> DEFINE s == call[t].o
           n == [k EXCEPT !.value = [k.value EXCEPT ![s] = k.value[s] - 1]]
           q == sem_fast_signal(n, s)
           tout == IF call[t].tmo = Infinite THEN Infinite
                   ELSE call[t].tmo - ((k.jiffies - call[t].start) % (MaxTick + 1))
<1>1. /\ t = k.currp /\ call \in [Task -> Call] /\ call[t] \in Call /\ call[t].op = "sem" /\ Shape(k)
  <2>1. Exec(t) /\ call[t].op = "sem"
    BY DEF SemWaitEnter
  <2> QED BY <2>1, KernelShape DEF Exec
<1>2. \A u \in Task \ {t} : call'[u] = call[u]
  BY <1>1 DEF SemWaitEnter
<1>3. \/ k' = n /\ call'[t] = NoCall
      \/ k' = q /\ call'[t] = NoCall
      \/ k' = sem_block(n, s, tout) /\ call'[t].op = "sem"
  BY <1>1 DEF SemWaitEnter, Call
<1>4. NoCall.op \notin {"sem", "evt", "sync"}
  BY DEF NoCall
<1>5. Shape(n) /\ Only(k, n, {"value"}) /\ n.currp = t
  BY <1>1 DEF Shape, Only, Fields
<1> HIDE DEF n, s, tout
<1>6. Only(n, q, {"value"})
  BY <1>5 DEF sem_fast_signal, Shape, Only, Fields
<1> HIDE DEF q
<1>7. Only(k, q, {"value"})
  BY <1>5, <1>6 DEF Only
<1>8. CASE k' = sem_block(n, s, tout) /\ call'[t].op = "sem"
  BY <1>1, <1>2, <1>5, <1>8, SemBlockTold
<1>9. CASE (k' = n \/ k' = q) /\ call'[t] = NoCall
  <2>1. \A u \in Task : SameMsg(k, k', u)
    BY <1>5, <1>7, <1>9, SameMsgOnly
  <2>2. \A u \in Task \ {t} : SameMsg(k, k', u) /\ call'[u] = call[u]
    BY <1>2, <2>1
  <2>3. call'[t].op \notin {"sem", "evt", "sync"}
    BY <1>4, <1>9
  <2> QED BY <2>2, <2>3, ToldMove
<1> QED BY <1>3, <1>8, <1>9

\* A signal by a thread and by an interrupt handler.
LEMMA SemSignalOpTold ==
  ASSUME KernelOK(k, call), ToldOK(k, call), NEW s \in Sems,
         SemSignalIsr(s) \/ \E t \in Task : SemSignal(t, s)
  PROVE  ToldOK(k', call')
<1> DEFINE n == sem_signal(k, s)
<1>0. s \in k.live /\ CoreInv(k, call, {}) /\ OwnersOK(k) /\ call \in [Task -> Call]
  BY KernelShape DEF SemSignal, SemSignalIsr
<1>1. CoreInv(n, call, {}) /\ OwnersOK(n)
  BY <1>0, SemSignalFunOK
<1>2. ToldOK(n, call)
  BY SemSignalTold
<1>3. KernelOK(n, call)
  BY <1>1 DEF KernelOK
<1>4. CASE SemSignalIsr(s)
  <2>1. call' = call /\ (k' = n \/ (Notifies(s) /\ k' = event_set(n, k.evt[s], {k.bitno[s]})))
    BY <1>4 DEF SemSignalIsr
  <2>2. Notifies(s) => k.evt[s] \in Evts /\ {k.bitno[s]} \in SUBSET Bits
    BY NotifiesWhat
  <2> HIDE DEF n
  <2>3. CASE k' = n
    BY <1>2, <2>1, <2>3
  <2>4. CASE Notifies(s) /\ k' = event_set(n, k.evt[s], {k.bitno[s]})
    <3> DEFINE e == k.evt[s]
               B == {k.bitno[s]}
    <3>1. e \in Evts /\ B \in SUBSET Bits /\ k' = event_set(n, e, B)
      BY <2>2, <2>4
    <3> HIDE DEF e, B
    <3> QED BY <1>2, <1>3, <2>1, <3>1, EventSetTold
  <2> QED BY <2>1, <2>3, <2>4
<1>5. ASSUME NEW t \in Task, SemSignal(t, s)
      PROVE  ToldOK(k', call')
  <2>1. k' = n /\ Running(t)
    BY <1>5 DEF SemSignal
  <2>3. call'[t].pc \in {"run", "enter"} /\ \A u \in Task \ {t} : call'[u] = call[u]
    <3> DEFINE d == Raise(t, k.evt[s], k.bitno[s])
    <3>1. call' = call \/ call' = [call EXCEPT ![t] = d]
      BY <1>5 DEF SemSignal
    <3>2. d.pc = "enter" /\ call[t].pc = "run"
      BY <2>1 DEF Raise, NoCall, Running
    <3> HIDE DEF d
    <3> QED BY <1>0, <3>1, <3>2
  <2> HIDE DEF n
  <2> QED BY <1>2, <1>3, <2>1, <2>3, LeaveTold
<1> QED BY <1>4, <1>5

\* The critical section of isix_sem_destroy.
LEMMA SemDestroyFunTold ==
  ASSUME NEW m, NEW c, KernelOK(m, c), ToldOK(m, c), NEW s \in Sems
  PROVE  ToldOK(sem_destroy(m, s), c)
<1>0. EDESTROY # EOK
  BY DEF EDESTROY, EOK
<1> DEFINE n == sem_wakeup_all(m, s, EDESTROY)
           r == sem_destroy(m, s)
<1>1. r = [n EXCEPT !.live = @ \ {s}, !.evt = [@ EXCEPT ![s] = Null], !.bitno = [@ EXCEPT ![s] = 0]]
  BY DEF sem_destroy
<1> HIDE DEF r
<1>2. Only(m, m, {"value"}) /\ Shape(m)
  BY KernelShape DEF Only
<1>3. ToldOK(n, c) /\ Shape(n)
  BY <1>0, <1>2, WakeupAllTold
<1> HIDE DEF n
<1>4. Only(n, r, {"live", "evt", "bitno"})
  BY <1>1, <1>3 DEF Shape, Only, Fields
<1>5. \A u \in Task : SameMsg(n, r, u)
  BY <1>4, SameMsgOnly
<1>6. ToldOK(r, c)
  BY <1>3, <1>5, ToldSame
<1> QED BY <1>6 DEF r

\* What isix_sem_create_limited stores.
LEMMA SemCreateFunTold ==
  ASSUME NEW m, NEW c, KernelOK(m, c), ToldOK(m, c), NEW s \in Sems
  PROVE  ToldOK(sem_create(m, s), c)
<1>1. DOMAIN m = Fields
  BY KernelShape
<1>2. Only(m, sem_create(m, s), {"live", "value", "wait_list"})
  BY <1>1 DEF sem_create, Only, Fields
<1>3. \A u \in Task : SameMsg(m, sem_create(m, s), u)
  BY <1>2, SameMsgOnly
<1> QED BY <1>3, ToldSame

\* A semaphore is reset or destroyed.
LEMMA SemEmptyTold ==
  ASSUME KernelOK(k, call), ToldOK(k, call), NEW s \in Sems,
         (\E u \in ResetValues : SemReset(s, u)) \/ \E t \in Task : SemDestroy(t, s)
  PROVE  ToldOK(k', call')
<1>0. ERESET # EOK /\ EDESTROY # EOK
  BY DEF ERESET, EDESTROY, EOK
<1>1. ASSUME NEW u \in ResetValues, SemReset(s, u)
      PROVE  ToldOK(k', call')
  <2> DEFINE v == [k.value EXCEPT ![s] = sem_write_val(u, SemLimit[s])]
             p == [k EXCEPT !.value = v]
  <2>1. k' = sem_wakeup_all(p, s, ERESET) /\ call' = call
    BY <1>1 DEF SemReset
  <2> HIDE DEF v
  <2>2. Shape(p) /\ Only(k, p, {"value"})
    BY CounterTold
  <2> HIDE DEF p
  <2> QED BY <1>0, <2>1, <2>2, WakeupAllTold
<1>2. ASSUME NEW t \in Task, SemDestroy(t, s)
      PROVE  ToldOK(k', call')
  BY <1>2, SemDestroyFunTold DEF SemDestroy
<1> QED BY <1>1, <1>2

\* The services of semaphores.
LEMMA SemOpsTold ==
  ASSUME KernelOK(k, call), ToldOK(k, call), SemOps
  PROVE  ToldOK(k', call')
<1>1. \A s : SemTryWait(s) => ToldOK(k', call')
  <2> SUFFICES ASSUME NEW s, SemTryWait(s) PROVE ToldOK(k', call')
    OBVIOUS
  <2> DEFINE v == [k.value EXCEPT ![s] = sem_trydec(@)]
  <2>1. k' = [k EXCEPT !.value = v] /\ call' = call
    BY DEF SemTryWait
  <2> HIDE DEF v
  <2> QED BY <2>1, CounterTold
<1> QED BY <1>1, BeginTold, SemWaitEnterTold, ReturnTold, SemSignalOpTold, SemEmptyTold, EventCreateTold DEF SemOps

-----------------------------------------------------------------------------
\* Threads sleep, wait for tokens and for events, and share the processor, in
\* any mixture: the composed kernel but for mutexes, conditions and the control
\* of other tasks.
TalkNext == Machine \/ SchedOps \/ SemOps \/ EventOps \/ ConnectOps

\* The invariant of the kernel memory and of the messages ...
TalkOK == KernelOK(k, call) /\ ToldOK(k, call)

\* ... which holds at the start ...
LEMMA InitTold ==
  ASSUME Init
  PROVE  TalkOK
<1>1. \A t \in Task : call[t] = NoCall
  BY DEF Init
<1>2. NoCall.op \notin {"sem", "evt", "sync"}
  BY DEF NoCall
<1>3. ToldOK(k, call)
  BY <1>1, <1>2, ToldOther DEF ToldOK
<1> QED BY <1>3, InitOK DEF TalkOK

\* ... and is kept by every step.
LEMMA TalkStep ==
  ASSUME TalkOK, [TalkNext]_vars
  PROVE  TalkOK'
<1>1. KernelOK(k, call) /\ ToldOK(k, call)
  BY DEF TalkOK
<1>2. [Next]_vars
  BY DEF TalkNext, Next
<1>3. KernelOK(k', call')
  BY <1>1, <1>2, NextOK
<1>4. ToldOK(k', call')
  <2>1. CASE TalkNext
    BY <1>1, <1>3, <2>1, MachineTold, SchedOpsTold, SemOpsTold, EventOpsTold, ConnectOpsTold DEF TalkNext
  <2>2. CASE UNCHANGED vars
    BY <1>1, <2>2 DEF vars
  <2> QED BY <2>1, <2>2
<1> QED BY <1>3, <1>4 DEF TalkOK

(***************************************************************************)
(* semaphore.h, isix_sem_wait: "ISIX_EOK if the token was taken".  A wait  *)
(* for a token that is over says ISIX_EOK exactly when a signal handed a   *)
(* token to it: a timeout, a reset, a destruction and a signal that race   *)
(* for the same waiter never mix their messages, whatever ticks pass and   *)
(* however late the waiter gets to run.                                    *)
(***************************************************************************)
THEOREM SemaphoreTellsToken == SemSpec => []SemOkMeansToken
<1>1. Init => TalkOK
  BY InitTold
<1>2. TalkOK /\ [SemNext]_vars => TalkOK'
  <2>1. [SemNext]_vars => [TalkNext]_vars
    BY DEF SemNext, TalkNext, SchedOps
  <2> QED BY <2>1, TalkStep
<1>3. TalkOK => SemOkMeansToken
  BY DEF TalkOK, ToldOK, Told, TokenTold, SemOkMeansToken, Linked
<1> QED BY <1>1, <1>2, <1>3, PTL DEF SemSpec

(***************************************************************************)
(* events.h, isix_event_wait: "Return: Bits which are set".  A wait or a   *)
(* rendezvous that ends without an error was woken with bits that meet its *)
(* condition: the union of its control block, which held the condition,    *)
(* holds the bits of the set that woke it, although the group may have     *)
(* been cleared, set or destroyed by the time the task runs.               *)
(***************************************************************************)
THEOREM EventTellsBits == EvtSpec => []EventOkMeansBits
<1>1. Init => TalkOK
  BY InitTold
<1>2. TalkOK /\ [EvtNext]_vars => TalkOK'
  <2>1. [EvtNext]_vars => [TalkNext]_vars
    BY DEF EvtNext, TalkNext
  <2> QED BY <2>1, TalkStep
<1>3. TalkOK => EventOkMeansBits
  BY DEF TalkOK, ToldOK, Told, BitsTold, EventOkMeansBits, Linked
<1> QED BY <1>1, <1>2, <1>3, PTL DEF EvtSpec

-----------------------------------------------------------------------------
(***************************************************************************)
(* The order of the wait lists and the return of inherited priorities:     *)
(* UrgencyOK is kept by every step of the composed kernel.  Most steps     *)
(* only take tasks off lists or add one in its place (Thins); the mutexes  *)
(* also change priorities, and resort the list the task is on (Reorders).  *)
(***************************************************************************)

\* Nothing that concerns the urgency of a task happens on the lists of
\* priorities.
LEMMA ThinsOther ==
  ASSUME NEW m, NEW r, r.prio = m.prio, r.real_prio = m.real_prio, r.owner = m.owner,
         \A o \in Prioritised : r.wait_list[o] = m.wait_list[o],
         \A t \in Task : r.state[t] \notin Gone => m.state[t] \notin Gone
  PROVE  Thins(m, r)
BY DEF Thins, Prioritised

\* The tasks ts, which are off their lists, are woken.
LEMMA ThinsWake ==
  ASSUME NEW m, NEW c, KernelOK(m, c), NEW ts \in Seq(Task),
         \A t \in Range(ts) : m.state[t] \notin Gone \cup {"WTMTX"},
         NEW n, Shape(n), n.wait_list = unlink(m, Range(ts)).wait_list,
         n.prio = m.prio, n.real_prio = m.real_prio, n.owner = m.owner, n.state = m.state,
         NEW msg, NEW r, Only(wakeup(n, ts, msg), r, {"pendsv", "evbits", "bitset", "live", "evt", "bitno"})
  PROVE  Thins(m, r)
<1> DEFINE w == wakeup(n, ts, msg)
<1>1. /\ Shape(w) /\ Only(n, w, {"p_wait", "pov_wait", "deadline", "left", "obj", "evbits", "bug", "state", "ready"})
      /\ w.state = [t \in Task |-> IF t \in Range(ts) THEN "READY" ELSE n.state[t]]
      /\ w.obj = [t \in Task |-> IF t \in Range(ts) THEN msg ELSE n.obj[t]]
      /\ w.evbits = [t \in Task |-> IF t \in Range(ts) THEN NoBits ELSE n.evbits[t]]
  <2>1. Shape(n)
    OBVIOUS
  <2> QED BY ONLY <2>1, WakeupFields
<1> HIDE DEF w
<1>2. /\ r.state = w.state /\ r.wait_list = n.wait_list /\ r.prio = n.prio /\ r.real_prio = n.real_prio
      /\ r.owner = n.owner
  BY <1>1 DEF Only, Fields, w
<1>3. \A t \in Task : r.state[t] \notin Gone => m.state[t] \notin Gone
  BY <1>1, <1>2
<1> QED BY <1>2, <1>3, ThinsUnlink

\* A task joins a list at its place.
LEMMA ThinsQueue ==
  ASSUME NEW m \in Kernel, NEW o \in Prioritised, NEW t \in Task, NEW r,
         r.wait_list = [m.wait_list EXCEPT ![o] = InsertSorted(@, t, m.prio)],
         r.prio = m.prio, r.real_prio = m.real_prio, r.owner = m.owner,
         \A u \in Task : r.state[u] \notin Gone => m.state[u] \notin Gone
  PROVE  Thins(m, r) /\ r.wait_list[o] # <<>>
<1>1. /\ Prioritised \subseteq Obj /\ Mtxs \subseteq Prioritised
      /\ \A p \in Obj : m.wait_list[p] \in Seq(Task)
      /\ m.wait_list \in [Obj -> Seq(Task)] /\ m.prio \in [Task -> Int]
  BY PrioritisedLists, KernelTypes, Prios
<1> DEFINE s == InsertSorted(m.wait_list[o], t, m.prio)
<1>2. /\ SortedBy(m.wait_list[o], m.prio) => SortedBy(s, m.prio)
      /\ s \in Seq(Task) /\ t \in Range(s)
  BY <1>1, InsertSortedProperties
<1>3. s # <<>>
  BY <1>2, EmptyRange
<1>4. \A p \in Obj : r.wait_list[p] = IF p = o THEN s ELSE m.wait_list[p]
  BY <1>1
<1> HIDE DEF s
<1> QED BY <1>1, <1>2, <1>3, <1>4 DEF Thins

\* A store that concerns no priority, list or owner.
LEMMA StoreUrgent ==
  ASSUME KernelOK(k, call), UrgencyOK(k), NEW F, Only(k, k', F),
         F \cap {"prio", "real_prio", "owner", "wait_list", "state"} = {}
  PROVE  UrgencyOK(k')
<1>1. k'.state = k.state
  BY DEF Only, Fields
<1>2. Thins(k, k')
  BY <1>1, ThinsOnly
<1> QED BY <1>2, ThinsUrgency

\* The tick, the context switch and an interrupt do not touch the order.
LEMMA MachineUrgent ==
  ASSUME KernelOK(k, call), KernelOK(k', call'), UrgencyOK(k), Machine
  PROVE  UrgencyOK(k')
<1>0. DOMAIN k = Fields
  BY KernelShape
<1>1. CASE SysTick
  <2>1. PICK n, r : /\ Only(k, n, {"left"}) /\ Passes(n, r)
                    /\ Only(r, k', {"pendsv", "skipped"})
    BY <1>1, SysTickPasses
  <2>2. n.state = k.state /\ k'.state = r.state
    BY <2>1 DEF Only, Fields
  <2>3. Thins(k, n) /\ Thins(r, k')
    BY <2>1, <2>2, ThinsOnly
  <2>4. Thins(n, r)
    BY <2>1 DEF Passes
  <2> QED BY <2>3, <2>4, ThinsUrgency
<1>2. CASE PendSV
  <2>1. /\ Only(k, k', {"bug", "ready", "state", "currp", "pendsv", "yield_pending"})
        /\ SameTasks(k, k', {})
    BY <1>2, PendSVEffect
  <2>2. \A t \in Task : k'.state[t] \notin Gone => k.state[t] \notin Gone
    BY <2>1 DEF SameTasks, Up, Gone
  <2>3. Thins(k, k')
    BY <2>1, <2>2, ThinsOnly
  <2> QED BY <2>3, ThinsUrgency
<1>3. ASSUME NEW t \in Task, Yield(t) PROVE UrgencyOK(k')
  <2>1. Only(k, k', {"pendsv"})
    BY <1>0, <1>3 DEF Yield, port_yield, Only, Fields
  <2> QED BY <2>1, StoreUrgent
<1> QED BY <1>1, <1>2, <1>3 DEF Machine

\* A sleep, a yield and the lock of the scheduler leave priorities alone.
LEMMA SchedOpsUrgent ==
  ASSUME KernelOK(k, call), UrgencyOK(k), SchedOps
  PROVE  UrgencyOK(k')
<1>0. DOMAIN k = Fields /\ Shape(k) /\ k.currp \in Task
  BY KernelShape
<1>1. ASSUME NEW t \in Task, NEW timeout \in Timeouts, Wait(t, timeout) PROVE UrgencyOK(k')
  <2>1. k.state[k.currp] \in Up
    BY <1>1, RunningUp DEF Wait, MayBlock
  <2>2. /\ Only(k, k', {"ready", "state", "deadline", "left", "p_wait", "pov_wait"})
        /\ k'.state = [k.state EXCEPT ![k.currp] = "SLEEPING"]
    BY <1>0, <1>1, SleepFields DEF Wait, State
  <2>3. \A u \in Task : k'.state[u] \notin Gone => k.state[u] \notin Gone
    BY <1>0, <2>1, <2>2 DEF Up, Gone, Shape
  <2>4. Thins(k, k')
    BY <2>2, <2>3, ThinsOnly
  <2> QED BY <2>4, ThinsUrgency
<1>2. ASSUME NEW t \in Task, YieldCall(t) \/ LockScheduler(t) \/ UnlockScheduler(t) PROVE UrgencyOK(k')
  <2>1. Only(k, k', {"pendsv", "sched_lock"})
    BY <1>0, <1>2 DEF YieldCall, LockScheduler, UnlockScheduler, port_yield, Only, Fields
  <2> QED BY <2>1, StoreUrgent
<1>3. ASSUME NEW t \in Task, UnlockFlush(t) PROVE UrgencyOK(k')
  <2> DEFINE a == advance_jiffies(k, k.skipped)
  <2>1. k.skipped \in Tick
    BY KernelShape, KernelTypes
  <2>2. Passes(k, a) /\ KernelOK(a, call)
    BY <2>1, AdvancePasses
  <2>3. DOMAIN a = Fields
    BY <2>2, KernelShape
  <2>4. Only(a, k', {"skipped", "pendsv", "yield_pending"})
    <3>1. k' = unlock_flush(k)
      BY <1>3 DEF UnlockFlush
    <3> HIDE DEF a
    <3> QED BY <3>1, <2>3 DEF unlock_flush, a, Only, Fields
  <2> HIDE DEF a
  <2>5. k'.state = a.state
    BY <2>4 DEF Only, Fields
  <2>6. Thins(a, k')
    BY <2>4, <2>5, ThinsOnly
  <2>7. Thins(k, a)
    BY <2>2 DEF Passes
  <2> QED BY <2>6, <2>7, ThinsUrgency
<1> QED BY <1>1, <1>2, <1>3 DEF SchedOps, SleepOps, ShareOps

\* The waiters of an object that is no mutex may be woken: they are alive.
LEMMA WaitersAlive ==
  ASSUME NEW m, NEW c, KernelOK(m, c), NEW o \in Obj \ Mtxs, NEW t \in Range(m.wait_list[o])
  PROVE  t \in Task /\ m.state[t] \notin Gone \cup {"WTMTX"}
<1>1. m \in Kernel /\ WaitPlaced(m, c, {}) /\ BlockedOK(m, c, {})
  BY CoreParts DEF KernelOK
<1>2. t \in Task
  BY <1>1, KernelTypes, RangeType
<1>3. m.state[t] \in Waiting /\ Aw(m, c, t) = o
  BY <1>1, <1>2 DEF WaitPlaced
<1>4. Blocked(m.state[t], c[t], m.obj[t], m.wait_aborted[t])
  BY <1>1, <1>2 DEF BlockedOK
<1> QED BY <1>2, <1>3, <1>4 DEF Aw, Blocked, Waiting, Gone

\* The tasks ts of one list are woken.
LEMMA ThinsWakeSome ==
  ASSUME NEW m, NEW c, KernelOK(m, c), NEW o \in Obj \ Mtxs,
         NEW ts \in Seq(Task), Range(ts) \subseteq Range(m.wait_list[o]),
         NEW msg, NEW r, Only(wakeup(unlink(m, Range(ts)), ts, msg), r, {"pendsv", "evbits", "bitset", "live", "evt", "bitno"})
  PROVE  Thins(m, r)
<1> DEFINE n == unlink(m, Range(ts))
<1>1. Shape(n) /\ Only(m, n, {"wait_list"})
  BY KernelShape, UnlinkFields
<1>2. \A t \in Range(ts) : m.state[t] \notin Gone \cup {"WTMTX"}
  BY WaitersAlive
<1>3. /\ n.wait_list = unlink(m, Range(ts)).wait_list
      /\ n.prio = m.prio /\ n.real_prio = m.real_prio /\ n.owner = m.owner /\ n.state = m.state
  <2> HIDE DEF n
  <2> QED BY <1>1 DEF Only, Fields, n
<1> HIDE DEF n
<1>4. Only(wakeup(n, ts, msg), r, {"pendsv", "evbits", "bitset", "live", "evt", "bitno"})
  BY DEF n
<1> QED BY <1>1, <1>2, <1>3, <1>4, ThinsWake

\* event_set wakes waiters for events.
LEMMA EventSetThins ==
  ASSUME NEW m, NEW c, KernelOK(m, c), NEW e \in Evts, NEW bits \in SUBSET Bits
  PROVE  Thins(m, event_set(m, e, bits))
<1> DEFINE cur == m.bitset[e] \cup bits
           ws  == Keep(m.wait_list[e], {t \in Task : check_cond(cur, m.evbits[t])})
           w   == wakeup(unlink(m, Range(ws)), ws, EOK)
<1>0. m \in Kernel /\ Shape(m)
  BY KernelShape
<1>1. e \in Obj \ Mtxs
  BY SyncObjects
<1>2. ws \in Seq(Task) /\ Range(ws) \subseteq Range(m.wait_list[e])
  <2>1. m.wait_list[e] \in Seq(Task)
    BY <1>0, <1>1, KernelTypes
  <2> QED BY <2>1, KeepProperties
<1> HIDE DEF ws, cur
<1>3. DOMAIN w = Fields
  <2>1. Shape(unlink(m, Range(ws)))
    BY <1>0, UnlinkFields
  <2>2. Shape(w)
    BY <2>1, WakeupFields
  <2> QED BY <2>2 DEF Shape
<1>4. \E a, b, d : event_set(m, e, bits) = [w EXCEPT !.evbits = a, !.bitset = b, !.pendsv = d]
  BY DEF event_set, ws, cur
<1> HIDE DEF w
<1>5. Only(w, event_set(m, e, bits), {"pendsv", "evbits", "bitset", "live", "evt", "bitno"})
  BY <1>3, <1>4 DEF Only, Fields
<1> QED BY <1>1, <1>2, <1>5, ThinsWakeSome DEF w

\* A wait for events concerns no list of priorities.
LEMMA EventBlockThins ==
  ASSUME NEW m, NEW c, KernelOK(m, c), m.state[m.currp] \in Up, NEW e \in Evts, NEW w, NEW tout
  PROVE  Thins(m, event_block(m, e, w, tout))
<1> DEFINE t == m.currp
           n == [m EXCEPT !.wait_aborted = [@ EXCEPT ![t] = FALSE]]
           p == set_sleep_timeout(n, "WTEVT", tout)
           r == event_block(m, e, w, tout)
<1>0. m \in Kernel /\ Shape(m) /\ t \in Task /\ DOMAIN m = Fields
  BY KernelShape
<1>1. Shape(n) /\ Only(m, n, {"wait_aborted"}) /\ n.currp = m.currp
  BY <1>0 DEF Shape, Only, Fields
<1> HIDE DEF n
<1>2. /\ Shape(p) /\ Only(n, p, {"ready", "state", "deadline", "left", "p_wait", "pov_wait"})
      /\ p.state = [n.state EXCEPT ![n.currp] = "WTEVT"]
  BY <1>0, <1>1, SleepFields DEF State
<1>3. r = [p EXCEPT !.wait_list[e] = Append(@, t), !.evbits = [@ EXCEPT ![t] = w]]
  BY DEF event_block, n
<1> HIDE DEF p, r
<1>4. /\ r.prio = m.prio /\ r.real_prio = m.real_prio /\ r.owner = m.owner
      /\ r.wait_list = [m.wait_list EXCEPT ![e] = Append(@, t)] /\ r.state = p.state
  BY <1>1, <1>2, <1>3 DEF Only, Fields, Shape
<1>5. \A o \in Prioritised : r.wait_list[o] = m.wait_list[o]
  <2>1. m.wait_list \in [Obj -> Seq(Task)] /\ Prioritised \subseteq Obj
    BY <1>0, KernelTypes, PrioritisedLists
  <2>2. e \notin Prioritised
    BY SyncObjects, MutexObjects DEF Prioritised
  <2> QED BY <1>4, <2>1, <2>2
<1>6. \A u \in Task : r.state[u] \notin Gone => m.state[u] \notin Gone
  BY <1>0, <1>1, <1>2, <1>4 DEF Only, Fields, Shape, Up, Gone
<1> QED BY <1>4, <1>5, <1>6, ThinsOther DEF r

\* A service returns.
LEMMA LeaveThins ==
  ASSUME NEW m, DOMAIN m = Fields, NEW t
  PROVE  Thins(m, leave(m, t))
<1> DEFINE r == leave(m, t)
<1>1. Only(m, r, {"obj", "evbits", "wait_aborted", "grant"}) /\ r.state = m.state
  BY DEF leave, Only, Fields
<1> QED BY <1>1, ThinsOnly

\* isix_event_clear writes only the bits.
LEMMA EventClearThins ==
  ASSUME NEW m, DOMAIN m = Fields, NEW e, NEW bits
  PROVE  Thins(m, event_clear(m, e, bits)) /\ DOMAIN event_clear(m, e, bits) = Fields
<1> DEFINE r == event_clear(m, e, bits)
<1>1. Only(m, r, {"bitset"}) /\ r.state = m.state /\ DOMAIN r = Fields
  BY DEF event_clear, Only, Fields
<1> QED BY <1>1, ThinsOnly

\* Event groups have lists of their own, which no priority orders.
LEMMA EventOpsUrgent ==
  ASSUME KernelOK(k, call), UrgencyOK(k), EventOps
  PROVE  UrgencyOK(k')
<1>0. DOMAIN k = Fields /\ Shape(k) /\ k.currp \in Task /\ CallsOK(call) /\ call \in [Task -> Call] /\ k \in Kernel
  BY KernelShape
<1>e. SetBits \subseteq SUBSET Bits /\ \A t \in Task : call[t].set \in SUBSET Bits
  BY <1>0, EventAssumption DEF Call
<1>1. ASSUME NEW t \in Task, NEW e \in Evts, NEW w \in EvWaits, EventPoll(t, e, w) PROVE UrgencyOK(k')
  <2>1. k' = event_clear(k, e, w.bits) \/ k' = k
    BY <1>1 DEF EventPoll
  <2> QED BY <1>0, <2>1, EventClearThins, ThinsUrgency
<1>2. ASSUME NEW t \in Task, NEW e \in Evts, NEW timeout \in Timeouts,
             \/ \E w \in EvWaits : EventWait(t, e, w, timeout)
             \/ \E bits \in SetBits : EventSync(t, e, bits, SyncBits, timeout)
      PROVE  UrgencyOK(k')
  BY <1>2 DEF EventWait, EventSync
<1>3. ASSUME NEW e \in Evts, NEW bits \in SetBits, EventSetIsr(e, bits) \/ \E t \in Task : EventSet(t, e, bits)
      PROVE  UrgencyOK(k')
  <2>1. k' = event_set(k, e, bits)
    BY <1>3 DEF EventSet, EventSetIsr
  <2> QED BY <1>e, <2>1, EventSetThins, ThinsUrgency
<1>4. ASSUME NEW e \in Evts, NEW bits \in SetBits, EventClear(e, bits) PROVE UrgencyOK(k')
  BY <1>0, <1>4, EventClearThins, ThinsUrgency DEF EventClear
<1>5. ASSUME NEW t \in Task, NEW e \in Evts, EventDestroy(t, e) PROVE UrgencyOK(k')
  <2> DEFINE ws == k.wait_list[e]
             w  == wakeup(unlink(k, Range(ws)), ws, EDESTROY)
  <2>1. e \in Obj \ Mtxs
    BY SyncObjects
  <2>2. ws \in Seq(Task)
    BY <1>0, <2>1, KernelTypes
  <2> HIDE DEF ws
  <2>3. DOMAIN w = Fields
    <3>1. Shape(unlink(k, Range(ws)))
      BY <1>0, UnlinkFields
    <3>2. Shape(w)
      BY <3>1, WakeupFields
    <3> QED BY <3>2 DEF Shape
  <2>4. \E a, b : k' = [w EXCEPT !.live = a, !.pendsv = b]
    BY <1>5 DEF EventDestroy, event_destroy, ws
  <2> HIDE DEF w
  <2>5. Only(w, k', {"pendsv", "evbits", "bitset", "live", "evt", "bitno"})
    BY <2>3, <2>4 DEF Only, Fields
  <2>6. Range(ws) \subseteq Range(k.wait_list[e])
    BY DEF ws
  <2>7. Thins(k, k')
    BY <2>1, <2>2, <2>5, <2>6, ThinsWakeSome DEF w
  <2> QED BY <2>7, ThinsUrgency
<1>6. ASSUME NEW t \in Task, NEW e \in Evts, EventCreate(t, e) PROVE UrgencyOK(k')
  <2>1. k.wait_list[e] = <<>> /\ e \in Obj
    BY <1>6, SyncObjects, CoreParts DEF EventCreate, AliveOK, KernelOK
  <2>2. k.wait_list \in [Obj -> Seq(Task)]
    BY <1>0, KernelTypes
  <2>3. k'.wait_list = [k.wait_list EXCEPT ![e] = <<>>] /\ Only(k, k', {"live", "bitset", "wait_list"})
    BY <1>0, <1>6 DEF EventCreate, Only, Fields
  <2>4. k'.wait_list = k.wait_list
    BY <2>1, <2>2, <2>3
  <2>5. Only(k, k', {"live", "bitset"})
    BY <2>3, <2>4 DEF Only
  <2> QED BY <2>5, StoreUrgent
<1>7. ASSUME NEW t \in Task, EventWaitEnter(t) PROVE UrgencyOK(k')
  <2>1. CASE k' = leave(k, t)
    BY <1>0, <2>1, LeaveThins, ThinsUrgency
  <2>2. CASE k' = leave(event_clear(k, call[t].o, call[t].w.bits), t)
    BY <1>0, <2>2, EventClearThins, LeaveThins, ThinsUrgency
  <2>3. CASE k' = event_block(k, call[t].o, call[t].w, TimeLeft(t))
    <3>1. k.state[k.currp] \in Up /\ call[t].o \in Evts
      BY <1>0, <1>7, EnterUp DEF EventWaitEnter, CallsOK, CallKind, Blocking
    <3> QED BY <2>3, <3>1, EventBlockThins, ThinsUrgency
  <2> QED BY <1>7, <2>1, <2>2, <2>3 DEF EventWaitEnter
<1>8. ASSUME NEW t \in Task, EventWaitReturn(t) \/ EventSyncReturn(t) PROVE UrgencyOK(k')
  <2>1. k' = k \/ k' = leave(k, t)
    BY <1>8 DEF EventWaitReturn, EventSyncReturn
  <2> QED BY <1>0, <2>1, LeaveThins, ThinsUrgency
<1>9. ASSUME NEW t \in Task, EventSyncEnter(t) PROVE UrgencyOK(k')
  <2> DEFINE e == call[t].o
             m == event_set(k, e, call[t].set)
  <2>1. k.state[k.currp] \in Up /\ e \in Evts
    BY <1>0, <1>9, EnterUp DEF EventSyncEnter, CallsOK, CallKind, Blocking
  <2>2. Thins(k, m)
    BY <1>e, <2>1, EventSetThins
  <2>3. KernelOK(m, call) /\ Signalled(k, m)
    BY <1>e, <2>1, EventSetOK DEF KernelOK
  <2>4. \/ k' = event_clear(m, e, call[t].w.bits) \/ k' = m
        \/ k' = event_block(m, e, call[t].w, call[t].tmo)
    BY <1>9 DEF EventSyncEnter
  <2>5. UrgencyOK(m)
    BY <2>2, ThinsUrgency
  <2>6. DOMAIN m = Fields /\ m.state[m.currp] \in Up
    BY <1>0, <2>1, <2>3, KernelShape DEF Signalled
  <2> HIDE DEF m, e
  <2>7. Thins(m, k') \/ k' = m
    BY <2>1, <2>3, <2>4, <2>6, EventClearThins, EventBlockThins
  <2> QED BY <2>5, <2>7, ThinsUrgency
<1> QED BY <1>1, <1>2, <1>3, <1>4, <1>5, <1>6, <1>7, <1>8, <1>9 DEF EventOps

\* Connecting a semaphore or a queue to a bit moves nobody.
LEMMA ConnectOpsUrgent ==
  ASSUME KernelOK(k, call), UrgencyOK(k), ConnectOps
  PROVE  UrgencyOK(k')
<1>0. DOMAIN k = Fields /\ CallsOK(call) /\ call \in [Task -> Call]
  BY KernelShape
<1>1. ASSUME NEW t \in Task, NEW n \in Notifier, NEW e \in Evts,
             EventDisconnect(t, n, e) \/ \E bit \in Bits : EventConnect(t, n, e, bit)
      PROVE  UrgencyOK(k')
  <2>1. Only(k, k', {"evt"})
    BY <1>0, <1>1 DEF EventDisconnect, EventConnect, Only, Fields
  <2> QED BY <2>1, StoreUrgent
<1>2. ASSUME NEW t \in Task, EventStoreBit(t) PROVE UrgencyOK(k')
  <2>1. Only(k, k', {"bitno"})
    BY <1>0, <1>2 DEF EventStoreBit, Only, Fields
  <2> QED BY <2>1, StoreUrgent
<1>3. ASSUME NEW t \in Task, Notify(t) PROVE UrgencyOK(k')
  <2>1. call[t].o \in Evts /\ call[t].set \in SUBSET Bits
    BY <1>0, <1>3 DEF Notify, CallsOK, CallKind, Call
  <2> QED BY <1>3, <2>1, EventSetThins, ThinsUrgency DEF Notify
<1> QED BY <1>1, <1>2, <1>3 DEF ConnectOps

\* Only the pending switch, or the first of the list, differs.
LEMMA WakeAllThins ==
  ASSUME NEW m, NEW c, KernelOK(m, c), NEW o \in Obj \ Mtxs, NEW msg, NEW n, DOMAIN n = Fields,
         n = IF m.wait_list[o] = <<>> THEN m
             ELSE do_reschedule(wakeup(unlink(m, Range(m.wait_list[o])), m.wait_list[o], msg), Head(m.wait_list[o])),
         NEW r, Only(n, r, {"live", "evt", "bitno"})
  PROVE  Thins(m, r)
<1> DEFINE ws == m.wait_list[o]
           w  == wakeup(unlink(m, Range(ws)), ws, msg)
<1>1. ws \in Seq(Task)
  BY KernelShape
<1>2. CASE ws = <<>>
  <2>1. n = m
    BY <1>2
  <2>2. r.state = m.state
    BY <2>1 DEF Only, Fields
  <2> QED BY <2>1, <2>2, ThinsOnly
<1>3. CASE ws # <<>>
  <2>1. n = do_reschedule(w, Head(ws))
    BY <1>3
  <2> HIDE DEF ws
  <2>2. Shape(w)
    <3>1. Shape(unlink(m, Range(ws)))
      BY KernelShape, UnlinkFields
    <3> QED BY <3>1, WakeupFields
  <2> HIDE DEF w
  <2>3. Only(w, n, {"pendsv"})
    BY <2>1, <2>2, RescheduleFields
  <2>4. Only(w, r, {"pendsv", "evbits", "bitset", "live", "evt", "bitno"})
    BY <2>3 DEF Only
  <2>5. Range(ws) \subseteq Range(m.wait_list[o])
    BY DEF ws
  <2> QED BY <1>1, <2>4, <2>5, ThinsWakeSome DEF w
<1> QED BY <1>2, <1>3

\* sem_signal takes the head of a list off it.
LEMMA SemSignalThins ==
  ASSUME NEW m, NEW c, KernelOK(m, c), NEW s \in Sems
  PROVE  Thins(m, sem_signal(m, s))
<1> DEFINE n  == sem_fast_signal(m, s)
           ws == m.wait_list[s]
           h  == Head(ws)
           g  == unlink(n, {h})
           p  == [g EXCEPT !.grant = @ \cup {h}]
           w  == wakeup(p, <<h>>, EOK)
           r  == sem_signal(m, s)
<1>0. m \in Kernel /\ Shape(m) /\ DOMAIN m = Fields /\ s \in Obj \ Mtxs /\ ws \in Seq(Task)
  BY KernelShape, SyncObjects
<1>1. Shape(n) /\ Only(m, n, {"value"}) /\ n.state = m.state /\ n.wait_list = m.wait_list
  BY <1>0 DEF sem_fast_signal, Shape, Only, Fields
<1>2. CASE n.value[s] > 0 \/ ws = <<>>
  <2>1. r = n
    BY <1>2 DEF sem_signal
  <2> QED BY <1>1, <2>1, ThinsOnly
<1>3. CASE ~(n.value[s] > 0 \/ ws = <<>>)
  <2>1. r = do_reschedule(w, h)
    BY <1>3 DEF sem_signal
  <2>2. h \in Range(ws) /\ h \in Task
    BY <1>0, <1>3, EmptyRange
  <2>3. <<h>> \in Seq(Task) /\ Range(<<h>>) = {h}
    BY <2>2, OneElement
  <2> HIDE DEF n
  <2>4. Shape(g) /\ Only(n, g, {"wait_list"})
    BY <1>1, UnlinkFields
  <2>5. g.wait_list = unlink(m, {h}).wait_list
    BY <1>0, <1>1 DEF unlink, Shape, Fields
  <2> HIDE DEF g, h
  <2>6. Shape(p) /\ Only(g, p, {"grant"}) /\ p.wait_list = g.wait_list
    BY <2>4 DEF Shape, Only, Fields
  <2> HIDE DEF p
  <2>7. /\ p.prio = m.prio /\ p.real_prio = m.real_prio /\ p.owner = m.owner /\ p.state = m.state
        /\ p.wait_list = unlink(m, Range(<<h>>)).wait_list
    BY <1>1, <2>3, <2>4, <2>5, <2>6 DEF Only, Fields
  <2>8. Shape(w)
    BY <2>6, WakeupFields
  <2> HIDE DEF w
  <2>9. Only(w, r, {"pendsv"})
    BY <2>1, <2>8, RescheduleFields
  <2>10. Only(w, r, {"pendsv", "evbits", "bitset", "live", "evt", "bitno"})
    BY <2>9 DEF Only
  <2>11. \A t \in Range(<<h>>) : m.state[t] \notin Gone \cup {"WTMTX"}
    BY <1>0, <2>2, <2>3, WaitersAlive
  <2> QED BY <2>3, <2>6, <2>7, <2>10, <2>11, ThinsWake DEF w
<1> QED BY <1>2, <1>3

\* A task that blocks joins a list at its place.
LEMMA SleepThins ==
  ASSUME NEW m \in Kernel, m.state[m.currp] \in Up, NEW n, Shape(n), n.wait_list = m.wait_list,
         n.prio = m.prio, n.real_prio = m.real_prio, n.owner = m.owner, n.state = m.state, n.currp = m.currp,
         NEW newstate \in Waiting, NEW o \in Prioritised, NEW tout, NEW r,
         \/ Only(add_to_prio_queue(set_sleep_timeout(n, newstate, tout), o, m.currp), r, {"obj"})
         \/ Only(add_to_prio_queue(set_sleep(n, newstate), o, m.currp), r, {"obj"})
  PROVE  Thins(m, r) /\ r.wait_list[o] # <<>> /\ r.owner = m.owner
<1>0. m.currp \in Task /\ m.state \in [Task -> State] /\ newstate \in State /\ newstate \notin Gone
  BY KernelTypes DEF Waiting, State, Gone
<1>1. ASSUME NEW q, q = set_sleep_timeout(n, newstate, tout) \/ q = set_sleep(n, newstate),
             Only(add_to_prio_queue(q, o, m.currp), r, {"obj"})
      PROVE  Thins(m, r) /\ r.wait_list[o] # <<>> /\ r.owner = m.owner /\ r.wait_list[o] # <<>> /\ r.owner = m.owner
  <2>1. /\ Shape(q) /\ Only(n, q, {"ready", "state", "deadline", "left", "p_wait", "pov_wait"})
        /\ q.state = [n.state EXCEPT ![n.currp] = newstate]
    <3>1. Shape(n) /\ n.currp \in Task
      BY <1>0
    <3>2. LET a == set_sleep(n, newstate)
              b == set_sleep_timeout(n, newstate, tout)
          IN /\ Shape(a) /\ Only(n, a, {"ready", "state"})
             /\ a.state = [n.state EXCEPT ![n.currp] = newstate]
             /\ Shape(b) /\ Only(n, b, {"ready", "state", "deadline", "left", "p_wait", "pov_wait"})
             /\ b.state = [n.state EXCEPT ![n.currp] = newstate]
      BY <1>0, <3>1, SleepFields
    <3>3. \A a : Only(n, a, {"ready", "state"})
                   => Only(n, a, {"ready", "state", "deadline", "left", "p_wait", "pov_wait"})
      BY DEF Only
    <3> QED BY <1>1, <3>2, <3>3
  <2>2. /\ q.wait_list = m.wait_list /\ q.prio = m.prio /\ q.real_prio = m.real_prio /\ q.owner = m.owner
        /\ DOMAIN q = Fields
    BY <2>1 DEF Only, Fields, Shape
  <2>3. LET p == add_to_prio_queue(q, o, m.currp) IN
        /\ p.wait_list = [m.wait_list EXCEPT ![o] = InsertSorted(@, m.currp, m.prio)]
        /\ p.prio = m.prio /\ p.real_prio = m.real_prio /\ p.owner = m.owner /\ p.state = q.state
    BY <2>2 DEF add_to_prio_queue, Fields
  <2>4. /\ r.wait_list = [m.wait_list EXCEPT ![o] = InsertSorted(@, m.currp, m.prio)]
        /\ r.prio = m.prio /\ r.real_prio = m.real_prio /\ r.owner = m.owner /\ r.state = q.state
    BY <1>1, <2>3 DEF Only, Fields
  <2>5. \A u \in Task : r.state[u] \notin Gone => m.state[u] \notin Gone
    BY <1>0, <2>1, <2>4 DEF Up, Gone
  <2> QED BY <1>0, <2>4, <2>5, ThinsQueue
<1> QED BY <1>1

\* sem_block inserts the caller where its priority belongs.
LEMMA SemBlockThins ==
  ASSUME NEW m, NEW c, KernelOK(m, c), m.state[m.currp] \in Up, NEW s \in Sems, NEW tout,
         NEW n, DOMAIN n = Fields, Only(m, n, {"value"})
  PROVE  Thins(m, sem_block(n, s, tout))
<1> DEFINE p == [n EXCEPT !.obj = [@ EXCEPT ![n.currp] = s],
                          !.wait_aborted = [@ EXCEPT ![n.currp] = FALSE],
                          !.grant = @ \ {n.currp}]
           r == sem_block(n, s, tout)
<1>0. m \in Kernel /\ Shape(m)
  BY KernelShape
<1>1. /\ Shape(p) /\ p.wait_list = m.wait_list /\ p.prio = m.prio /\ p.real_prio = m.real_prio
      /\ p.owner = m.owner /\ p.state = m.state /\ p.currp = m.currp
  BY <1>0 DEF Only, Fields, Shape
<1>2. r = add_to_prio_queue(set_sleep_timeout(p, "WTSEM", tout), s, m.currp)
  <2>1. n.currp = m.currp
    BY DEF Only, Fields
  <2> QED BY <2>1 DEF sem_block
<1> HIDE DEF p, r
<1>3. Only(add_to_prio_queue(set_sleep_timeout(p, "WTSEM", tout), s, m.currp), r, {"obj"})
  BY <1>2 DEF Only
<1>4. s \in Prioritised /\ "WTSEM" \in Waiting
  BY DEF Prioritised, Waiting
<1>5. Thins(m, r)
  BY <1>0, <1>1, <1>3, <1>4, SleepThins
<1> QED BY <1>5 DEF r

\* Every service of semaphores keeps its lists in order.
LEMMA SemOpsUrgent ==
  ASSUME KernelOK(k, call), UrgencyOK(k), SemOps
  PROVE  UrgencyOK(k')
<1>0. DOMAIN k = Fields /\ Shape(k) /\ k.currp \in Task /\ CallsOK(call) /\ call \in [Task -> Call] /\ k \in Kernel
  BY KernelShape
<1>s. \A s \in Sems : s \in Obj \ Mtxs
  BY SyncObjects
<1>1. ASSUME NEW s \in Sems, SemSignalIsr(s) \/ \E t \in Task : SemSignal(t, s) PROVE UrgencyOK(k')
  <2>1. Thins(k, sem_signal(k, s)) /\ KernelOK(sem_signal(k, s), call)
    BY SemSignalThins, SemSignalFunOK DEF KernelOK
  <2>2. CASE k' = sem_signal(k, s)
    BY <2>1, <2>2, ThinsUrgency
  <2>3. CASE Notifies(s) /\ k' = event_set(sem_signal(k, s), k.evt[s], {k.bitno[s]})
    <3>1. k.evt[s] \in Evts /\ {k.bitno[s]} \in SUBSET Bits
      BY <2>3, NotifiesWhat
    <3> QED BY <2>1, <2>3, <3>1, EventSetThins, ThinsUrgency
  <2> QED BY <1>1, <2>2, <2>3 DEF SemSignalIsr, SemSignal
<1>2. ASSUME NEW s \in Sems, SemTryWait(s) PROVE UrgencyOK(k')
  <2>1. Only(k, k', {"value"})
    BY <1>0, <1>2 DEF SemTryWait, Only, Fields
  <2> QED BY <2>1, StoreUrgent
<1>3. ASSUME NEW t \in Task, NEW s \in Sems, NEW timeout \in Timeouts, SemWait(t, s, timeout) PROVE UrgencyOK(k')
  BY <1>3 DEF SemWait
<1>4. ASSUME NEW t \in Task, SemWaitReturn(t) PROVE UrgencyOK(k')
  <2>1. k' = k \/ k' = leave(k, t)
    BY <1>4 DEF SemWaitReturn
  <2> QED BY <1>0, <2>1, LeaveThins, ThinsUrgency
<1>5. ASSUME NEW t \in Task, SemWaitEnter(t) PROVE UrgencyOK(k')
  <2> DEFINE s == call[t].o
             m == [k EXCEPT !.value[s] = @ - 1]
  <2>1. k.state[k.currp] \in Up /\ s \in Sems
    BY <1>0, <1>5, EnterUp DEF SemWaitEnter, CallsOK, CallKind, Blocking
  <2>2. DOMAIN m = Fields /\ Only(k, m, {"value"})
    BY <1>0 DEF Only, Fields
  <2>3. CASE k' = m
    BY <2>2, <2>3, StoreUrgent
  <2>4. CASE k' = sem_fast_signal(m, s)
    <3> HIDE DEF m, s
    <3>1. Only(m, k', {"value"})
      BY <2>2, <2>4 DEF sem_fast_signal, Only, Fields
    <3>2. Only(k, k', {"value"})
      BY <2>2, <3>1 DEF Only
    <3> QED BY <3>2, StoreUrgent
  <2>5. ASSUME NEW tout, k' = sem_block(m, s, tout) PROVE UrgencyOK(k')
    <3> HIDE DEF m, s
    <3> QED BY <2>1, <2>2, <2>5, SemBlockThins, ThinsUrgency
  <2> QED BY <1>5, <2>3, <2>4, <2>5 DEF SemWaitEnter
<1>6. ASSUME NEW s \in Sems, NEW v \in ResetValues, SemReset(s, v) PROVE UrgencyOK(k')
  <2> DEFINE n == [k EXCEPT !.value = [@ EXCEPT ![s] = sem_write_val(v, SemLimit[s])]]
             v1 == sem_write_val(v, SemLimit[s])
  <2>1. v1 \in Int
    BY SemAssumption, ResetAssumption DEF sem_write_val
  <2>2. KernelOK(n, call)
    <3>1. n = [k EXCEPT !.value = [k.value EXCEPT ![s] = v1]]
      OBVIOUS
    <3> HIDE DEF n, v1
    <3> QED BY <2>1, <3>1, CounterOK DEF KernelOK
  <2>3. Only(k, n, {"value"}) /\ n.state = k.state
    BY <1>0 DEF Only, Fields
  <2>4. k' = sem_wakeup_all(n, s, ERESET)
    BY <1>6 DEF SemReset
  <2> HIDE DEF n
  <2>5. Thins(k, n)
    BY <2>3, ThinsOnly
  <2>6. Thins(n, k')
    <3>1. k' = IF n.wait_list[s] = <<>> THEN n
               ELSE do_reschedule(wakeup(unlink(n, Range(n.wait_list[s])), n.wait_list[s], ERESET), Head(n.wait_list[s]))
      BY <2>4 DEF sem_wakeup_all
    <3>2. Only(k', k', {"live", "evt", "bitno"})
      BY DEF Only
    <3>3. DOMAIN k' = Fields
      <4>1. Shape(n) /\ n.wait_list[s] \in Seq(Task)
        BY <1>s, <2>2, KernelShape
      <4>2. Shape(k')
        BY <3>1, <4>1, BroadcastEffect
      <4> QED BY <4>2 DEF Shape
    <3> QED BY <1>s, <2>2, <3>1, <3>2, <3>3, WakeAllThins
  <2> QED BY <2>5, <2>6, ThinsUrgency
<1>7. ASSUME NEW t \in Task, NEW s \in Sems, SemDestroy(t, s) PROVE UrgencyOK(k')
  <2> DEFINE n == sem_wakeup_all(k, s, EDESTROY)
  <2>1. n = IF k.wait_list[s] = <<>> THEN k
            ELSE do_reschedule(wakeup(unlink(k, Range(k.wait_list[s])), k.wait_list[s], EDESTROY), Head(k.wait_list[s]))
    BY DEF sem_wakeup_all
  <2>2. k' = [n EXCEPT !.live = @ \ {s}, !.evt = [@ EXCEPT ![s] = Null], !.bitno = [@ EXCEPT ![s] = 0]]
    BY <1>7 DEF SemDestroy, sem_destroy
  <2> HIDE DEF n
  <2>3. DOMAIN n = Fields
    <3>1. k.wait_list[s] \in Seq(Task)
      BY <1>s, KernelShape
    <3>2. Shape(n)
      BY <1>0, <2>1, <3>1, BroadcastEffect
    <3> QED BY <3>2 DEF Shape
  <2>4. Only(n, k', {"live", "evt", "bitno"})
    BY <2>2, <2>3 DEF Only, Fields
  <2>5. Thins(k, k')
    BY <1>s, <2>1, <2>3, <2>4, WakeAllThins
  <2> QED BY <2>5, ThinsUrgency
<1>8. ASSUME NEW t \in Task, NEW s \in Sems, SemCreate(t, s) PROVE UrgencyOK(k')
  <2>1. k'.wait_list = k.wait_list
    BY <1>8, SemCreateFunOK DEF SemCreate
  <2>2. Only(k, k', {"live", "value", "wait_list"})
    BY <1>0, <1>8 DEF SemCreate, sem_create, Only, Fields
  <2>3. Only(k, k', {"live", "value"})
    BY <2>1, <2>2 DEF Only
  <2> QED BY <2>3, StoreUrgent
<1> QED BY <1>1, <1>2, <1>3, <1>4, <1>5, <1>6, <1>7, <1>8 DEF SemOps

\* Who is on a list of priorities waits, for that object.
QueuedFor(m) ==
  \A o \in Prioritised, t \in Task :
    t \in Range(m.wait_list[o]) => m.state[t] \in {"WTSEM", "WTMTX", "WTCOND"} /\ m.obj[t] = o

\* What the priorities are computed from is well formed.
Fits(m) ==
  /\ Shape(m) /\ m.wait_list \in [Obj -> Seq(Task)]
  /\ m.prio \in [Task -> Prio] /\ m.real_prio \in [Task -> Prio]
  /\ QueuedFor(m)

\* What t owns is on its list of mutexes.
OwnsListed(m, t) == Range(m.owned[t]) \subseteq Mtxs /\ \A x \in Range(m.owned[t]) : m.owner[x] = t

\* Ownership stays, nobody leaves a list empty and nobody comes to life.
Keeps(m, r) ==
  /\ r.real_prio = m.real_prio /\ r.owner = m.owner /\ r.owned = m.owned /\ r.obj = m.obj
  /\ \A x \in Mtxs : m.wait_list[x] # <<>> => r.wait_list[x] # <<>>
  /\ \A u \in Task : r.state[u] \notin Gone => m.state[u] \notin Gone

\* The lists stay in order, and only the tasks of S may be left with a
\* priority nobody lends.
Reorders(m, r, S) ==
  /\ Ordered(m) => Ordered(r)
  /\ \A u \in Task \ S : Lent(m, u) => Lent(r, u)

\* Two such steps in a row, ...
LEMMA ReordersTrans ==
  ASSUME NEW m, NEW n, NEW r, NEW S, Reorders(m, n, S), Reorders(n, r, S)
  PROVE  Reorders(m, r, S)
BY DEF Reorders

\* ... and none at all.
LEMMA ReordersNone ==
  ASSUME NEW m, NEW S PROVE Reorders(m, m, S)
BY DEF Reorders

\* A step that leaves the priorities alone is one.
LEMMA ThinsReorders ==
  ASSUME NEW m, NEW r, NEW S, Thins(m, r)
  PROVE  Reorders(m, r, S)
BY DEF Thins, Reorders, Ordered, Lent

\* Who might be left with a priority nobody lends has been dealt with.
LEMMA ReordersUrgency ==
  ASSUME NEW m, NEW r, NEW S, Reorders(m, r, S), UrgencyOK(m), \A u \in Task \cap S : Lent(r, u)
  PROVE  UrgencyOK(r)
BY DEF Reorders, UrgencyOK

\* The invariant of the kernel says all of that.
LEMMA FitsKernel ==
  ASSUME NEW m, NEW c, KernelOK(m, c)
  PROVE  Fits(m) /\ \A t \in Task : OwnsListed(m, t)
<1>0. m \in Kernel /\ Shape(m) /\ CoreInv(m, c, {}) /\ OwnersOK(m)
  BY KernelShape
<1>1. /\ m.wait_list \in [Obj -> Seq(Task)] /\ m.prio \in [Task -> Prio] /\ m.real_prio \in [Task -> Prio]
      /\ m.owned \in [Task -> Seq(Mtxs)]
  BY <1>0, KernelTypes
<1>2. \A t \in Task : Range(m.owned[t]) \subseteq Mtxs
  BY <1>1, EmptyRange
<1>3. \A t \in Task : \A x \in Range(m.owned[t]) : m.owner[x] = t
  BY <1>0, <1>2 DEF OwnersOK
<1>4. QueuedFor(m)
  <2> SUFFICES ASSUME NEW o \in Prioritised, NEW t \in Task, t \in Range(m.wait_list[o])
               PROVE  m.state[t] \in {"WTSEM", "WTMTX", "WTCOND"} /\ m.obj[t] = o
    BY DEF QueuedFor
  <2>1. o \in Obj /\ o \in Object /\ o \notin Evts /\ o \notin Task
    BY TaskAssumption, PrioritisedLists, <1>0 DEF Prioritised, Object
  <2>2. /\ WaitPlaced(m, c, {}) /\ BlockedOK(m, c, {}) /\ CallsOK(c)
    BY <1>0, CoreParts
  <2>3. m.state[t] \in Waiting /\ Aw(m, c, t) = o /\ Blocked(m.state[t], c[t], m.obj[t], m.wait_aborted[t])
    BY <2>1, <2>2 DEF WaitPlaced, BlockedOK
  <2>4. m.state[t] \in {"WTEXIT", "WTEVT"} => c[t].o \in Evts \cup Task
    BY <2>2, <2>3 DEF Blocked, CallsOK, CallKind, Task
  <2> QED BY <2>1, <2>3, <2>4 DEF Aw, Waiting
<1> QED BY <1>0, <1>1, <1>2, <1>3, <1>4 DEF Fits, OwnsListed

\* A sorted list without t is sorted by the priorities that differ for t only.
LEMMA SortedWithout ==
  ASSUME NEW s \in Seq(Task), NEW t \in Task, NEW f \in [Task -> Prio], NEW np \in Prio, SortedBy(s, f)
  PROVE  LET g == [f EXCEPT ![t] = np]
             w == Without(s, {t})
         IN  /\ w \in Seq(Task) /\ Range(w) = Range(s) \ {t} /\ SortedBy(w, g)
             /\ g \in [Task -> Prio] /\ g \in [Task -> Int]
             /\ t \notin Range(s) => SortedBy(s, g)
<1> DEFINE g == [f EXCEPT ![t] = np]
           w == Without(s, {t})
<1>1. w \in Seq(Task) /\ Range(w) = Range(s) \ {t} /\ SortedBy(w, f)
  BY WithoutProperties
<1>2. g \in [Task -> Prio] /\ g \in [Task -> Int]
  BY Prios
<1>3. Range(w) \subseteq Task /\ Range(s) \subseteq Task
  BY <1>1, EmptyRange
<1> HIDE DEF w
<1>4. \A x \in Range(w) : f[x] = g[x]
  BY <1>1, <1>3
<1>5. SortedBy(w, g)
  <2> HIDE DEF g
  <2> QED BY <1>1, <1>4, SortedSame
<1>6. ASSUME t \notin Range(s) PROVE SortedBy(s, g)
  <2>1. \A x \in Range(s) : f[x] = g[x]
    BY <1>3, <1>6
  <2> HIDE DEF g
  <2> QED BY <2>1, SortedSame
<1> QED BY <1>1, <1>2, <1>5, <1>6 DEF w

\* _isixp_reallocate_priority queues a waiting task at its new place, so that
\* the lists stay in order whatever list it is on.
LEMMA ReallocateReorders ==
  ASSUME NEW m, Fits(m), NEW t \in Task, NEW np \in Prio
  PROVE  LET r == reallocate_priority(m, t, np) IN
         /\ Fits(r) /\ Keeps(m, r) /\ (Ordered(m) => Ordered(r))
         /\ r.prio = [m.prio EXCEPT ![t] = np] /\ r.currp = m.currp
         /\ m.state[t] \in Up => r.wait_list = m.wait_list
<1> DEFINE r == reallocate_priority(m, t, np)
           g == [m.prio EXCEPT ![t] = np]
           n == [m EXCEPT !.prio = g]
<1>0. /\ Shape(m) /\ DOMAIN m = Fields /\ m.wait_list \in [Obj -> Seq(Task)] /\ m.prio \in [Task -> Prio]
      /\ m.state \in [Task -> State] /\ m.real_prio \in [Task -> Prio] /\ QueuedFor(m)
  BY DEF Fits, Shape
<1>1. /\ Shape(r) /\ Only(m, r, {"prio", "ready", "state", "bug", "wait_list"}) /\ SameTasks(m, r, {})
  BY <1>0, ReallocateFields
<1>2. /\ r.real_prio = m.real_prio /\ r.owner = m.owner /\ r.owned = m.owned /\ r.currp = m.currp /\ r.obj = m.obj
  BY <1>1 DEF Only, Fields
<1>3. Prioritised \subseteq Obj /\ Mtxs \subseteq Prioritised
  BY MutexObjects DEF Prioritised, Obj, Object
<1>4. g \in [Task -> Prio] /\ g \in [Task -> Int]
  BY <1>0, Prios
<1>5. Shape(n) /\ Only(m, n, {"prio"}) /\ n.state = m.state /\ n.prio = g /\ n.wait_list = m.wait_list
  BY <1>0 DEF Shape, Only, Fields
<1>6. n = [m EXCEPT !.prio = [@ EXCEPT ![t] = np]]
  OBVIOUS
<1> HIDE DEF g, n
<1>7. /\ r.prio = g
      /\ \/ /\ m.state[t] \in {"WTSEM", "WTMTX", "WTCOND"}
            /\ r.wait_list = [unlink(n, {t}).wait_list EXCEPT ![m.obj[t]] = InsertSorted(@, t, g)]
         \/ m.state[t] \notin {"WTSEM", "WTMTX", "WTCOND"} /\ r.wait_list = m.wait_list
  <2> DEFINE d == [delete_from_ready_list(n, t) EXCEPT !.state = [@ EXCEPT ![t] = "SCHEDULE"]]
             a == add_ready_list(d, <<t>>)
             q == unlink(n, {t})
             b == add_to_prio_queue(q, m.obj[t], t)
  <2>1. r = CASE m.state[t] \in {"READY", "RUNNING"} -> a
              [] m.state[t] \in {"WTSEM", "WTMTX", "WTCOND"} -> b
              [] OTHER -> n
    BY <1>6 DEF reallocate_priority
  <2>2. Shape(d) /\ Only(n, d, {"ready", "state"})
    BY <1>5 DEF Shape, Only, Fields, State, delete_from_ready_list
  <2> HIDE DEF d
  <2>3. Only(d, a, {"bug", "state", "ready"})
    BY <2>2, AddReadyFields
  <2>4. a.prio = g /\ a.wait_list = m.wait_list
    BY <1>5, <2>2, <2>3 DEF Only, Fields
  <2>5. Shape(q) /\ Only(n, q, {"wait_list"})
    BY <1>5, UnlinkFields
  <2>6. q.prio = g /\ DOMAIN q = Fields
    BY <1>5, <2>5 DEF Only, Fields, Shape
  <2> HIDE DEF q
  <2>7. b.prio = g /\ b.wait_list = [q.wait_list EXCEPT ![m.obj[t]] = InsertSorted(@, t, g)]
    BY <2>6 DEF add_to_prio_queue, Fields
  <2> HIDE DEF a, b
  <2> QED BY <1>5, <2>1, <2>4, <2>7 DEF q
<1>8. /\ \A o \in Obj : unlink(n, {t}).wait_list[o] = Without(m.wait_list[o], {t})
      /\ DOMAIN unlink(n, {t}).wait_list = Obj
  BY <1>5 DEF unlink, Shape, Fields
<1> HIDE DEF r
<1>9. ASSUME NEW o \in Obj
      PROVE  /\ r.wait_list[o] \in Seq(Task) /\ Range(m.wait_list[o]) \ {t} \subseteq Range(r.wait_list[o])
             /\ Range(r.wait_list[o]) \subseteq Range(m.wait_list[o]) \cup {t}
             /\ o \in Prioritised =>
                  /\ Range(m.wait_list[o]) \subseteq Range(r.wait_list[o])
                  /\ t \in Range(r.wait_list[o]) => m.state[t] \in {"WTSEM", "WTMTX", "WTCOND"} /\ m.obj[t] = o
                  /\ SortedBy(m.wait_list[o], m.prio) => SortedBy(r.wait_list[o], g)
  <2> DEFINE s == m.wait_list[o]
             w == Without(s, {t})
  <2>1. s \in Seq(Task)
    BY <1>0
  <2>2. /\ w \in Seq(Task) /\ Range(w) = Range(s) \ {t}
        /\ SortedBy(s, m.prio) => SortedBy(w, g)
        /\ SortedBy(s, m.prio) /\ t \notin Range(s) => SortedBy(s, g)
    <3>1. w \in Seq(Task) /\ Range(w) = Range(s) \ {t}
      BY <2>1, WithoutList
    <3> HIDE DEF s
    <3> QED BY <1>0, <2>1, <3>1, SortedWithout DEF g
  <2>3. o \in Prioritised /\ t \in Range(s) => m.state[t] \in {"WTSEM", "WTMTX", "WTCOND"} /\ m.obj[t] = o
    BY <1>0 DEF QueuedFor
  <2>4. CASE /\ m.state[t] \in {"WTSEM", "WTMTX", "WTCOND"}
             /\ r.wait_list = [unlink(n, {t}).wait_list EXCEPT ![m.obj[t]] = InsertSorted(@, t, g)]
    <3>1. r.wait_list[o] = IF o = m.obj[t] THEN InsertSorted(w, t, g) ELSE w
      BY <1>8, <2>4
    <3> HIDE DEF w, s
    <3>2. /\ InsertSorted(w, t, g) \in Seq(Task) /\ Range(InsertSorted(w, t, g)) = Range(w) \cup {t}
          /\ SortedBy(w, g) => SortedBy(InsertSorted(w, t, g), g)
      BY <1>4, <2>2, InsertSortedProperties
    <3>3. CASE o = m.obj[t]
      <4> DEFINE z == InsertSorted(w, t, g)
      <4>1. r.wait_list[o] = z
        BY <3>1, <3>3
      <4> HIDE DEF z
      <4> QED BY <2>2, <2>4, <3>2, <3>3, <4>1 DEF s, z
    <3>4. CASE o # m.obj[t]
      <4>1. r.wait_list[o] = w
        BY <3>1, <3>4
      <4> QED BY <2>2, <2>3, <3>4, <4>1 DEF s
    <3> QED BY <3>3, <3>4
  <2>5. CASE m.state[t] \notin {"WTSEM", "WTMTX", "WTCOND"} /\ r.wait_list = m.wait_list
    BY <2>1, <2>2, <2>3, <2>5
  <2> QED BY <1>7, <2>4, <2>5
<1>10. r.wait_list \in [Obj -> Seq(Task)]
  <2>1. DOMAIN r.wait_list = Obj
    BY <1>0, <1>7, <1>8
  <2>2. r.wait_list = [o \in Obj |-> r.wait_list[o]]
    <3>1. CASE r.wait_list = m.wait_list
      BY <1>0, <3>1
    <3>2. CASE r.wait_list = [unlink(n, {t}).wait_list EXCEPT ![m.obj[t]] = InsertSorted(@, t, g)]
      BY <2>1, <3>2
    <3> QED BY <1>7, <3>1, <3>2
  <2> QED BY <1>9, <2>2
<1>11. \A u \in Task : /\ m.state[u] \in {"WTSEM", "WTMTX", "WTCOND"} => r.state[u] = m.state[u]
                       /\ r.state[u] \notin Gone => m.state[u] \notin Gone
  BY <1>1 DEF SameTasks, Up, Gone
<1>12. QueuedFor(r)
  <2> SUFFICES ASSUME NEW o \in Prioritised, NEW u \in Task, u \in Range(r.wait_list[o])
               PROVE  r.state[u] \in {"WTSEM", "WTMTX", "WTCOND"} /\ r.obj[u] = o
    BY DEF QueuedFor
  <2>1. m.state[u] \in {"WTSEM", "WTMTX", "WTCOND"} /\ m.obj[u] = o
    <3>1. CASE u = t
      BY <1>3, <1>9, <3>1
    <3>2. CASE u # t
      <4>1. u \in Range(m.wait_list[o])
        BY <1>3, <1>9, <3>2
      <4> QED BY <1>0, <4>1 DEF QueuedFor
    <3> QED BY <3>1, <3>2
  <2> QED BY <1>2, <1>11, <2>1
<1>13. Fits(r)
  BY <1>1, <1>2, <1>4, <1>7, <1>10, <1>12 DEF Fits
<1>14. \A x \in Mtxs : m.wait_list[x] # <<>> => r.wait_list[x] # <<>>
  <2> SUFFICES ASSUME NEW x \in Mtxs, m.wait_list[x] # <<>> PROVE r.wait_list[x] # <<>>
    OBVIOUS
  <2>1. m.wait_list[x] \in Seq(Task) /\ r.wait_list[x] \in Seq(Task) /\ Range(m.wait_list[x]) \subseteq Range(r.wait_list[x])
    BY <1>0, <1>3, <1>9
  <2>2. Range(m.wait_list[x]) # {}
    BY <2>1, EmptyRange
  <2>3. Range(r.wait_list[x]) # {}
    BY <2>1, <2>2
  <2> QED BY <2>1, <2>3, EmptyRange
<1>15. Keeps(m, r)
  BY <1>2, <1>11, <1>14 DEF Keeps
<1>16. Ordered(m) => Ordered(r)
  BY <1>3, <1>7, <1>9 DEF Ordered
<1> QED BY <1>2, <1>7, <1>13, <1>15, <1>16 DEF r, g, Up

\* calc_inherited_priority is the task's own priority unless somebody waits
\* for a mutex the task owns.
LEMMA CalcLent ==
  ASSUME NEW m, Fits(m), NEW t \in Task, OwnsListed(m, t)
  PROVE  /\ calc_inherited_priority(m, t) \in Prio
         /\ calc_inherited_priority(m, t) # m.real_prio[t]
              => \E x \in Mtxs : x \in Range(m.owned[t]) /\ m.owner[x] = t /\ m.wait_list[x] # <<>>
<1> DEFINE B == {m.prio[Head(m.wait_list[x])] : x \in {y \in Range(m.owned[t]) : m.wait_list[y] # <<>>}}
           T == {m.real_prio[t]} \cup B
<1>1. calc_inherited_priority(m, t) = Min(T)
  BY DEF calc_inherited_priority
<1>2. m.real_prio[t] \in Prio /\ m.prio \in [Task -> Prio] /\ m.wait_list \in [Obj -> Seq(Task)]
  BY DEF Fits
<1>3. B \subseteq Prio
  <2>1. ASSUME NEW y \in Range(m.owned[t]), m.wait_list[y] # <<>>
        PROVE  m.prio[Head(m.wait_list[y])] \in Prio
    <3>1. m.wait_list[y] \in Seq(Task)
      BY <1>2, MutexObjects DEF OwnsListed
    <3>2. Head(m.wait_list[y]) \in Task
      BY <2>1, <3>1, EmptyRange
    <3> QED BY <1>2, <3>2
  <2> QED BY <2>1
<1>4. B # {} => \E x \in Mtxs : x \in Range(m.owned[t]) /\ m.owner[x] = t /\ m.wait_list[x] # <<>>
  BY DEF OwnsListed
<1> HIDE DEF B
<1>5. T \subseteq Prio /\ T # {}
  BY <1>2, <1>3
<1> HIDE DEF T
<1>6. \E n \in T : \A i \in T : n <= i
  BY <1>5, LeastNat, Prios
<1>7. Min(T) \in T
  BY <1>6 DEF Min
<1> QED BY <1>1, <1>4, <1>5, <1>7 DEF T

\* Who keeps its priority has it lent as before.
LEMMA KeepsLent ==
  ASSUME NEW m, NEW r, Keeps(m, r), NEW u \in Task, r.prio[u] = m.prio[u], Lent(m, u)
  PROVE  Lent(r, u)
BY DEF Keeps, Lent

\* A task that inherits, or returns what it inherited, has what is lent to it.
LEMMA InheritReorders ==
  ASSUME NEW m, Fits(m), NEW t \in Task, OwnsListed(m, t)
  PROVE  LET r == inherit(m, t) IN Fits(r) /\ Keeps(m, r) /\ Reorders(m, r, {t}) /\ Lent(r, t)
<1> DEFINE np == calc_inherited_priority(m, t)
           r  == inherit(m, t)
<1>0. m.prio \in [Task -> Prio]
  BY DEF Fits
<1>1. np \in Prio /\ (np # m.real_prio[t] => \E x \in Mtxs : m.owner[x] = t /\ m.wait_list[x] # <<>>)
  BY CalcLent
<1>2. r = IF np = m.prio[t] THEN m ELSE reallocate_priority(m, t, np)
  BY DEF inherit
<1> HIDE DEF np, r
<1>3. Fits(r) /\ Keeps(m, r) /\ (Ordered(m) => Ordered(r)) /\ r.prio = [m.prio EXCEPT ![t] = np]
  <2>1. CASE r = m /\ np = m.prio[t]
    BY <1>0, <2>1 DEF Keeps
  <2>2. CASE r = reallocate_priority(m, t, np)
    BY <1>1, <2>2, ReallocateReorders
  <2> QED BY <1>2, <2>1, <2>2
<1>4. r.prio[t] = np /\ \A u \in Task \ {t} : r.prio[u] = m.prio[u]
  BY <1>0, <1>3
<1>5. Lent(r, t)
  BY <1>1, <1>3, <1>4 DEF Keeps, Lent
<1>6. \A u \in Task \ {t} : Lent(m, u) => Lent(r, u)
  BY <1>3, <1>4, KeepsLent
<1> QED BY <1>3, <1>5, <1>6 DEF Reorders, r

\* The tasks of S leave their lists and the mutexes of X change hands; at most
\* the tasks of S and D get another priority.
HandsOver(m, r, S, X, D) ==
  /\ r.wait_list = unlink(m, S).wait_list /\ r.real_prio = m.real_prio
  /\ \A u \in Task \ S : r.prio[u] = m.prio[u]
  /\ \A u \in Task \ D : r.prio[u] = m.prio[u]
  /\ \A u \in Task : r.state[u] \notin Gone => m.state[u] \notin Gone
  /\ \A y \in Mtxs \ X : r.owner[y] = m.owner[y] /\ S \cap Range(m.wait_list[y]) = {}
  /\ \A x \in Mtxs \cap X : m.wait_list[x] # <<>> => m.owner[x] \in D

\* Who owns another mutex that somebody waits for still does.
LEMMA HandOver ==
  ASSUME NEW m, Fits(m), NEW S, NEW X, NEW D, NEW r, HandsOver(m, r, S, X, D)
  PROVE  /\ Reorders(m, r, D)
         /\ \A y \in Mtxs \ X : m.wait_list[y] # <<>> => r.wait_list[y] # <<>>
<1> USE DEF HandsOver
<1>0. DOMAIN m = Fields /\ m.wait_list \in [Obj -> Seq(Task)]
  BY DEF Fits, Shape
<1>1. Prioritised \subseteq Obj /\ Mtxs \subseteq Prioritised
  BY MutexObjects DEF Prioritised, Obj, Object
<1>2. \A o \in Obj : r.wait_list[o] = Without(m.wait_list[o], S)
  BY <1>0 DEF unlink, Fields
<1>3. ASSUME NEW o \in Prioritised, SortedBy(m.wait_list[o], m.prio) PROVE SortedBy(r.wait_list[o], r.prio)
  <2>1. m.wait_list[o] \in Seq(Task) /\ r.wait_list[o] = Without(m.wait_list[o], S)
    BY <1>0, <1>1, <1>2
  <2>2. /\ r.wait_list[o] \in Seq(Task) /\ Range(r.wait_list[o]) = Range(m.wait_list[o]) \ S
        /\ SortedBy(r.wait_list[o], m.prio) /\ Range(m.wait_list[o]) \subseteq Task
    BY <1>3, <2>1, WithoutProperties, EmptyRange
  <2>3. \A u \in Range(r.wait_list[o]) : m.prio[u] = r.prio[u]
    BY <2>2
  <2> QED BY <2>2, <2>3, SortedSame
<1>4. ASSUME NEW y \in Mtxs \ X, m.wait_list[y] # <<>> PROVE r.wait_list[y] # <<>>
  <2>1. m.wait_list[y] \in Seq(Task) /\ Head(m.wait_list[y]) \in Range(m.wait_list[y])
    BY <1>0, <1>1, <1>4, EmptyRange
  <2>2. Range(r.wait_list[y]) = Range(m.wait_list[y]) \ S /\ r.wait_list[y] \in Seq(Task)
    BY <1>1, <1>2, <2>1, WithoutList
  <2>3. Head(m.wait_list[y]) \in Range(r.wait_list[y])
    BY <2>1, <2>2
  <2> QED BY <2>2, <2>3, EmptyRange
<1>5. Ordered(m) => Ordered(r)
  BY <1>3 DEF Ordered
<1>6. ASSUME NEW u \in Task \ D, Lent(m, u) PROVE Lent(r, u)
  BY <1>4, <1>6 DEF Lent
<1> QED BY <1>4, <1>5, <1>6 DEF Reorders

\* They are off the lists then.
LEMMA FitsUnlinked ==
  ASSUME NEW m, Fits(m), NEW S, NEW r, Shape(r), r.wait_list = unlink(m, S).wait_list,
         r.prio \in [Task -> Prio], r.real_prio = m.real_prio,
         \A u \in Task \ S : r.state[u] = m.state[u] /\ r.obj[u] = m.obj[u]
  PROVE  Fits(r)
<1>0. DOMAIN m = Fields /\ m.wait_list \in [Obj -> Seq(Task)] /\ m.real_prio \in [Task -> Prio] /\ QueuedFor(m)
  BY DEF Fits, Shape
<1>1. Prioritised \subseteq Obj
  BY MutexObjects DEF Prioritised, Obj, Object
<1>2. r.wait_list = [o \in Obj |-> Without(m.wait_list[o], S)]
  BY <1>0 DEF unlink, Fields
<1>3. \A o \in Obj : /\ Without(m.wait_list[o], S) \in Seq(Task)
                     /\ Range(Without(m.wait_list[o], S)) = Range(m.wait_list[o]) \ S
  BY <1>0, WithoutList
<1>4. r.wait_list \in [Obj -> Seq(Task)]
  BY <1>2, <1>3
<1>5. QueuedFor(r)
  <2> SUFFICES ASSUME NEW o \in Prioritised, NEW t \in Task, t \in Range(r.wait_list[o])
               PROVE  r.state[t] \in {"WTSEM", "WTMTX", "WTCOND"} /\ r.obj[t] = o
    BY DEF QueuedFor
  <2>1. t \in Range(m.wait_list[o]) \ S
    BY <1>1, <1>2, <1>3
  <2> QED BY <1>0, <2>1 DEF QueuedFor
<1> QED BY <1>0, <1>4, <1>5 DEF Fits

\* A store that concerns neither the lists nor what they are sorted by.
LEMMA FitsStore ==
  ASSUME NEW m, Fits(m), NEW r, Shape(r), NEW F, Only(m, r, F),
         F \cap {"prio", "real_prio", "wait_list", "state", "obj"} = {}
  PROVE  Fits(r)
<1>1. /\ r.prio = m.prio /\ r.real_prio = m.real_prio /\ r.wait_list = m.wait_list /\ r.state = m.state
      /\ r.obj = m.obj
  BY DEF Only, Fields
<1> QED BY <1>1 DEF Fits, QueuedFor

\* The last isix_mutex_unlock hands the mutex to its first waiter and leaves
\* its caller the priority that is still lent to it through other mutexes.
LEMMA ReleaseUrgent ==
  ASSUME NEW m, NEW c, KernelOK(m, c), m.currp # Idle, m.state[m.currp] \in Up, UrgencyOK(m),
         NEW x \in Mtxs, m.owner[x] = m.currp
  PROVE  UrgencyOK(mtx_release(m, x))
<1> DEFINE t  == m.currp
           ws == m.wait_list[x]
           w  == Head(ws)
           m1 == [m EXCEPT !.bug = @ \/ x \notin Range(m.owned[t]), !.owned[t] = Without(@, {x})]
           np == calc_inherited_priority(m1, t)
           m2 == reallocate_priority(m1, t, np)
           n  == transfer(m2, x)
           q  == <<w>>
           p  == wakeup(n, q, EOK)
           r  == mtx_release(m, x)
<1>0. /\ m \in Kernel /\ CoreInv(m, c, {}) /\ Shape(m) /\ DOMAIN m = Fields /\ t \in Task /\ OwnersOK(m)
      /\ x \in Obj /\ ws \in Seq(Task) /\ m.owned \in [Task -> Seq(Mtxs)]
      /\ m.owner \in [Mtxs -> Task \cup {Null}]
  BY KernelShape, KernelTypes, MutexObjects
<1>1. Fits(m) /\ \A u \in Task : OwnsListed(m, u)
  BY FitsKernel
<1>2. /\ Shape(m1) /\ Only(m, m1, {"bug", "owned"})
      /\ m1.owned[t] = Without(m.owned[t], {x}) /\ m1.state = m.state /\ m1.wait_list = m.wait_list
      /\ m1.owner = m.owner /\ m1.prio = m.prio /\ m1.real_prio = m.real_prio
  BY <1>0 DEF Shape, Only, Fields
<1>3. \/ ws = <<>> /\ r = [m1 EXCEPT !.count = [@ EXCEPT ![x] = 0], !.owner = [@ EXCEPT ![x] = Null]]
      \/ ws # <<>> /\ r = do_reschedule(p, w)
  BY DEF mtx_release
<1> SUFFICES UrgencyOK(r)
  OBVIOUS
<1> HIDE DEF m1, r
<1>4. Fits(m1)
  BY <1>1, <1>2, FitsStore
<1>5. Range(m1.owned[t]) = Range(m.owned[t]) \ {x}
  <2> HIDE DEF t
  <2>1. m.owned[t] \in Seq(Mtxs)
    BY <1>0
  <2> QED BY <1>2, <2>1, WithoutList
<1>6. OwnsListed(m1, t)
  <2> HIDE DEF t
  <2> QED BY <1>0, <1>1, <1>2, <1>5 DEF OwnsListed
<1>7. CASE ws = <<>> /\ r = [m1 EXCEPT !.count = [@ EXCEPT ![x] = 0], !.owner = [@ EXCEPT ![x] = Null]]
  <2>1. /\ r.prio = m.prio /\ r.real_prio = m.real_prio /\ r.wait_list = m.wait_list /\ r.state = m.state
        /\ r.owner = [m.owner EXCEPT ![x] = Null]
    BY <1>2, <1>7 DEF Shape, Fields
  <2>2. \A y \in Mtxs : m.wait_list[y] # <<>> => r.owner[y] = m.owner[y]
    BY <1>0, <1>7, <2>1
  <2>3. Thins(m, r)
    BY <2>1, <2>2 DEF Thins
  <2> QED BY <2>3, ThinsUrgency
<1>8. CASE ws # <<>> /\ r = do_reschedule(p, w)
  <2>1. w \in Range(ws) /\ w \in Task /\ q \in Seq(Task) /\ Range(q) = {w}
    <3>1. w \in Range(ws) /\ w \in Task
      BY <1>0, <1>8, EmptyRange
    <3> QED BY <3>1, OneElement
  <2>2. m.obj[w] = x /\ m.state[w] = "WTMTX"
    BY <1>0, <2>1, MutexWaiter
  <2>3. np \in Prio /\ (np # m1.real_prio[t]
                          => \E y \in Mtxs : y \in Range(m1.owned[t]) /\ m1.owner[y] = t /\ m1.wait_list[y] # <<>>)
    <3> HIDE DEF t
    <3> QED BY <1>0, <1>4, <1>6, CalcLent
  <2>4. /\ Fits(m2) /\ Keeps(m1, m2) /\ (Ordered(m1) => Ordered(m2))
        /\ m2.prio = [m1.prio EXCEPT ![t] = np] /\ m2.wait_list = m1.wait_list
    <3>1. m1.state[t] \in Up
      BY <1>2
    <3> HIDE DEF np, t
    <3> QED BY <1>0, <1>4, <2>3, <3>1, ReallocateReorders
  <2> HIDE DEF m2, np
  <2>5. m2.prio[t] = np /\ \A u \in Task \ {t} : m2.prio[u] = m.prio[u]
    BY <1>0, <1>1, <1>2, <2>4 DEF Fits
  <2>6. Shape(m2) /\ DOMAIN m2 = Fields /\ m2.owner = m.owner /\ m2.real_prio = m.real_prio
    BY <1>2, <2>4 DEF Fits, Shape, Keeps
  <2>7. /\ Shape(n) /\ n.wait_list = unlink(m2, {w}).wait_list /\ n.prio = m2.prio /\ n.real_prio = m2.real_prio
        /\ n.state = m2.state /\ n.owner = [m2.owner EXCEPT ![x] = w]
    BY <1>2, <2>4, <2>6 DEF transfer, unlink, Shape, Fields
  <2> HIDE DEF n, w
  <2>8. /\ Shape(p) /\ Only(n, p, {"p_wait", "pov_wait", "deadline", "left", "obj", "evbits", "bug", "state", "ready"})
        /\ p.state = [u \in Task |-> IF u \in Range(q) THEN "READY" ELSE n.state[u]]
        /\ p.obj = [u \in Task |-> IF u \in Range(q) THEN EOK ELSE n.obj[u]]
        /\ p.evbits = [u \in Task |-> IF u \in Range(q) THEN NoBits ELSE n.evbits[u]]
    <3> HIDE DEF q
    <3>1. Shape(n)
      BY <2>7
    <3> QED BY ONLY <3>1, WakeupFields
  <2> HIDE DEF p
  <2>9. Only(p, r, {"pendsv"})
    BY <1>8, <2>8, RescheduleFields
  <2>10. /\ r.wait_list = unlink(m2, {w}).wait_list /\ r.prio = m2.prio /\ r.real_prio = m2.real_prio
         /\ r.owner = [m2.owner EXCEPT ![x] = w] /\ r.state = p.state
    BY <2>7, <2>8, <2>9 DEF Only, Fields
  <2>11. \A u \in Task : r.state[u] \notin Gone => m2.state[u] \notin Gone
    <3>1. m2.state[w] \notin Gone
      <4>1. m1.state[w] \notin Gone
        BY <1>2, <2>2 DEF Gone
      <4>2. m.state[w] = "WTMTX" /\ m2.state[w] \in State
        BY <2>1, <2>2, <2>6 DEF Shape
      <4>3. \A u \in Task : SameTasks(m1, m2, {}) => m2.state[w] = m1.state[w]
        BY <1>2, <2>1, <4>2 DEF SameTasks, Up
      <4>4. SameTasks(m1, m2, {})
        BY <1>0, <1>2, ReallocateFields DEF m2
      <4> QED BY <2>1, <4>1, <4>3, <4>4
    <3> QED BY <2>1, <2>7, <2>8, <2>10, <3>1
  <2>12. \A y \in Mtxs \ {x} : r.owner[y] = m2.owner[y] /\ {w} \cap Range(m2.wait_list[y]) = {}
    <3>1. \A y \in Mtxs \ {x} : w \notin Range(m.wait_list[y])
      BY <1>0, <2>2, MutexWaiter
    <3> QED BY <1>0, <1>2, <2>4, <2>6, <2>10, <3>1
  <2>13. /\ Reorders(m2, r, {t})
         /\ \A y \in Mtxs \ {x} : m2.wait_list[y] # <<>> => r.wait_list[y] # <<>>
    <3>1. \A y \in Mtxs \cap {x} : m2.wait_list[y] # <<>> => m2.owner[y] \in {t}
      BY <2>6
    <3>2. /\ \A u \in Task \ {w} : r.prio[u] = m2.prio[u]
          /\ \A u \in Task \ {t} : r.prio[u] = m2.prio[u]
      BY <2>10
    <3>3. HandsOver(m2, r, {w}, {x}, {t})
      BY <2>10, <2>11, <2>12, <3>1, <3>2 DEF HandsOver
    <3> QED BY <2>4, <3>3, HandOver
  <2>14. Reorders(m, m2, {t})
    <3>1. Ordered(m) => Ordered(m2)
      BY <1>2, <2>4 DEF Ordered
    <3>2. \A u \in Task \ {t} : Lent(m, u) => Lent(m2, u)
      BY <1>2, <2>4, <2>5 DEF Lent, Keeps
    <3> QED BY <3>1, <3>2 DEF Reorders
  <2>15. Lent(r, t)
    <3> SUFFICES ASSUME r.prio[t] # r.real_prio[t]
                 PROVE  \E y \in Mtxs : r.owner[y] = t /\ r.wait_list[y] # <<>>
      BY DEF Lent
    <3>1. np # m1.real_prio[t]
      BY <1>2, <2>5, <2>6, <2>10
    <3>2. PICK y \in Mtxs : y \in Range(m1.owned[t]) /\ m1.owner[y] = t /\ m1.wait_list[y] # <<>>
      BY <2>3, <3>1
    <3>3. y # x /\ m2.wait_list[y] # <<>> /\ m2.owner[y] = t
      BY <1>2, <1>5, <2>4, <2>6, <3>2
    <3> QED BY <2>12, <2>13, <3>3
  <2> QED BY <2>13, <2>14, <2>15, ReordersTrans, ReordersUrgency
<1> QED BY <1>3, <1>7, <1>8

\* mutex_unlock: one level of the recursion less, or the release.
LEMMA UnlockUrgent ==
  ASSUME NEW m, NEW c, KernelOK(m, c), m.currp # Idle, m.state[m.currp] \in Up, UrgencyOK(m),
         NEW x \in Mtxs, m.owner[x] = m.currp
  PROVE  UrgencyOK(mutex_unlock(m, x))
<1> DEFINE n == [m EXCEPT !.count[x] = @ - 1]
<1>0. DOMAIN m = Fields
  BY KernelShape
<1>1. Only(m, n, {"count"}) /\ n.state = m.state
  BY <1>0 DEF Only, Fields
<1> HIDE DEF n
<1>2. UrgencyOK(n)
  BY <1>1, ThinsOnly, ThinsUrgency
<1>3. mutex_unlock(m, x) = n \/ mutex_unlock(m, x) = mtx_release(m, x)
  BY DEF mutex_unlock, n
<1>4. UrgencyOK(mtx_release(m, x))
  BY ReleaseUrgent
<1> QED BY <1>2, <1>3, <1>4

\* Who waits for a mutex lends its priority to the owner before it joins the
\* list.
LEMMA MtxBlockUrgent ==
  ASSUME NEW m, NEW c, KernelOK(m, c), m.state[m.currp] \in Up, UrgencyOK(m),
         NEW x \in Mtxs, m.owner[x] \notin {Null, m.currp}
  PROVE  UrgencyOK(mtx_block(m, x))
<1> DEFINE t  == m.currp
           o  == m.owner[x]
           np == m.prio[t]
           m1 == IF prio_gt(m.prio[t], m.prio[o]) THEN reallocate_priority(m, o, np) ELSE m
           n  == [m1 EXCEPT !.wait_aborted = [@ EXCEPT ![t] = FALSE]]
           r  == mtx_block(m, x)
<1>0. /\ m \in Kernel /\ Fits(m) /\ CoreInv(m, c, {}) /\ t \in Task /\ DOMAIN m = Fields
      /\ o \in Task \ {} /\ o # Idle /\ np \in Prio /\ m.prio \in [Task -> Prio]
  <2>1. m.owner \in [Mtxs -> Task \cup {Null}] /\ OwnersOK(m)
    BY KernelShape
  <2>2. o # Idle
    BY DEF OwnersOK, KernelOK
  <2> QED BY <2>1, <2>2, KernelShape, KernelTypes, FitsKernel
<1>1. r = [add_to_prio_queue(set_sleep(n, "WTMTX"), x, t) EXCEPT !.obj = [@ EXCEPT ![t] = x]]
  BY DEF mtx_block
<1> SUFFICES UrgencyOK(r)
  OBVIOUS
<1> HIDE DEF r, o, np
<1>2. /\ m1 \in Kernel /\ m1.currp = t /\ m1.state[t] \in Up /\ Reorders(m, m1, {o}) /\ m1.owner = m.owner
  <2>1. CASE m1 = m
    <3>1. Reorders(m, m, {o})
      BY ReordersNone
    <3> QED BY <1>0, <2>1, <3>1
  <2>2. CASE m1 = reallocate_priority(m, o, np)
    <3> HIDE DEF m1
    <3>1. CoreInv(m1, c, {}) /\ Reordered(m, m1)
      BY <1>0, <2>2, PrioOK
    <3>2. /\ Keeps(m, m1) /\ (Ordered(m) => Ordered(m1))
          /\ m1.prio = [m.prio EXCEPT ![o] = np]
      BY <1>0, <2>2, ReallocateReorders
    <3>3. \A u \in Task \ {o} : m1.prio[u] = m.prio[u]
      BY <1>0, <3>2
    <3>4. \A u \in Task \ {o} : Lent(m, u) => Lent(m1, u)
      BY <3>2, <3>3, KeepsLent
    <3>5. Reorders(m, m1, {o})
      BY <3>2, <3>4 DEF Reorders
    <3>6. m1.currp = t /\ m1.state[t] \in Up /\ m1.owner = m.owner
      BY <1>0, <3>1 DEF Reordered, SameCore, Up
    <3> QED BY <3>1, <3>5, <3>6, CoreParts
  <2> QED BY <2>1, <2>2
<1> HIDE DEF m1
<1>3. /\ Shape(n) /\ n.wait_list = m1.wait_list /\ n.prio = m1.prio /\ n.real_prio = m1.real_prio
      /\ n.owner = m1.owner /\ n.state = m1.state /\ n.currp = m1.currp
  <2>1. Shape(m1)
    BY <1>2, ShapeOfKernel
  <2> QED BY <2>1 DEF Shape, Fields
<1> HIDE DEF n
<1>4. Only(add_to_prio_queue(set_sleep(n, "WTMTX"), x, m1.currp), r, {"obj"})
  <2> DEFINE q == add_to_prio_queue(set_sleep(n, "WTMTX"), x, t)
  <2>1. DOMAIN q = Fields
    <3>1. DOMAIN n = Fields
      BY <1>3 DEF Shape
    <3> QED BY <3>1 DEF add_to_prio_queue, set_sleep, delete_from_ready_list
  <2> HIDE DEF q
  <2>2. r = [q EXCEPT !.obj = [@ EXCEPT ![t] = x]]
    BY <1>1 DEF q
  <2>3. Only(q, r, {"obj"})
    BY <2>1, <2>2 DEF Only, Fields
  <2> QED BY <1>2, <2>3 DEF q
<1>5. Thins(m1, r) /\ r.wait_list[x] # <<>> /\ r.owner = m1.owner
  <2>1. x \in Prioritised /\ "WTMTX" \in Waiting
    BY DEF Prioritised, Waiting
  <2> QED BY <1>2, <1>3, <1>4, <2>1, SleepThins
<1>6. Reorders(m, r, {o})
  BY <1>2, <1>5, ThinsReorders, ReordersTrans
<1>7. r.owner[x] = o
  BY <1>2, <1>5 DEF o
<1>8. Lent(r, o)
  BY <1>5, <1>7 DEF Lent
<1> QED BY <1>6, <1>8, ReordersUrgency

\* _isixp_mutex_unlock_all_in_task: every mutex of u goes to its first waiter,
\* and the current task returns what it inherited.
LEMMA UnlockAllReorders ==
  ASSUME NEW m, NEW c, KernelOK(m, c), NEW u \in Task, u # Idle
  PROVE  LET r == mutex_unlock_all_in_task(m, u) IN
         Reorders(m, r, {u}) /\ (u = m.currp => Lent(r, u))
<1> DEFINE ms == m.owned[u]
           hs == Keep(ms, {x \in Mtxs : m.wait_list[x] # <<>>})
           ws == [i \in 1 .. Len(hs) |-> Head(m.wait_list[hs[i]])]
           S  == Range(ws)
           X  == {x \in Mtxs : m.owner[x] = u}
           n0 == unlink(m, S)
           cn == [x \in Mtxs |-> CASE x \in Range(hs) -> 1
                                   [] x \in Range(ms) \ Range(hs) -> 0
                                   [] OTHER -> n0.count[x]]
           ow == [x \in Mtxs |-> CASE x \in Range(hs) -> Head(m.wait_list[x])
                                   [] x \in Range(ms) \ Range(hs) -> Null
                                   [] OTHER -> n0.owner[x]]
           od == [t \in Task |-> CASE t = u -> <<>>
                                   [] t \in Range(ws) -> InsertFirst(n0.owned[t], m.obj[t])
                                   [] OTHER -> n0.owned[t]]
           n1 == [n0 EXCEPT !.count = cn, !.owner = ow, !.owned = od]
           n2 == wakeup(n1, ws, EOK)
           n3 == IF u = m.currp THEN inherit(n2, u) ELSE n2
           r  == mutex_unlock_all_in_task(m, u)
<1>0. /\ m \in Kernel /\ Fits(m) /\ Shape(m) /\ DOMAIN m = Fields /\ CoreInv(m, c, {}) /\ OwnersOK(m)
      /\ m.prio \in [Task -> Prio] /\ m.wait_list \in [Obj -> Seq(Task)]
  BY KernelShape, KernelTypes, FitsKernel
<1>1. r = IF ws = <<>> THEN n3 ELSE do_reschedule(n3, ws[1])
  BY DEF mutex_unlock_all_in_task
<1>2. /\ ws \in Seq(Task) /\ Distinct(ws)
      /\ \A x \in Mtxs : x \in Range(hs) <=> m.owner[x] = u /\ m.wait_list[x] # <<>>
      /\ \A x \in Range(hs) : Head(m.wait_list[x]) \in Range(ws)
      /\ \A t \in Range(ws) : /\ t \in Task /\ t # u /\ t # Idle /\ m.state[t] = "WTMTX"
                              /\ m.obj[t] \in Range(hs) /\ t = Head(m.wait_list[m.obj[t]])
      /\ \A x \in Range(hs) : m.obj[Head(m.wait_list[x])] = x
      /\ Range(hs) \subseteq Mtxs
  <2>1. hs = Contended(m, u) /\ ws = Heirs(m, hs)
    BY DEF Contended, Heirs
  <2> HIDE DEF hs, ws
  <2> QED BY <1>0, <2>1, HeirsOK
<1>3. \A x \in Mtxs : x \in Range(ms) <=> m.owner[x] = u
  BY <1>0 DEF OwnersOK
<1> SUFFICES Reorders(m, r, {u}) /\ (u = m.currp => Lent(r, u))
  OBVIOUS
<1> HIDE DEF hs, ws, ms, r
<1>4. Shape(n0) /\ Only(m, n0, {"wait_list"})
  BY <1>0, UnlinkFields
<1>5. n0.wait_list = unlink(m, S).wait_list
  OBVIOUS
<1> HIDE DEF n0, S
<1>6. n0.owner = m.owner
  BY <1>4 DEF Only, Fields
<1>7. \A y \in Mtxs \ X : ow[y] = m.owner[y]
  <2> SUFFICES ASSUME NEW y \in Mtxs, m.owner[y] # u PROVE ow[y] = m.owner[y]
    OBVIOUS
  <2>1. y \notin Range(hs) /\ y \notin Range(ms)
    BY <1>2, <1>3
  <2> QED BY <1>6, <2>1
<1>8. od[u] = <<>>
  <2>1. u \notin Range(ws)
    BY <1>2
  <2> QED BY <2>1
<1> HIDE DEF cn, ow, od
<1>9. /\ Shape(n1) /\ Only(n0, n1, {"count", "owner", "owned"}) /\ n1.owner = ow /\ n1.owned = od
      /\ n1.state = n0.state /\ n1.obj = n0.obj
  BY <1>4 DEF Shape, Only, Fields
<1> HIDE DEF n1
<1>10. /\ Shape(n2) /\ Only(n1, n2, {"p_wait", "pov_wait", "deadline", "left", "obj", "evbits", "bug", "state", "ready"})
       /\ n2.state = [t \in Task |-> IF t \in Range(ws) THEN "READY" ELSE n1.state[t]]
       /\ n2.obj = [t \in Task |-> IF t \in Range(ws) THEN EOK ELSE n1.obj[t]]
       /\ n2.evbits = [t \in Task |-> IF t \in Range(ws) THEN NoBits ELSE n1.evbits[t]]
  BY ONLY <1>9, WakeupFields
<1> HIDE DEF n2
<1>11. /\ n2.wait_list = unlink(m, S).wait_list /\ n2.real_prio = m.real_prio /\ n2.prio = m.prio
       /\ n2.owner = ow /\ n2.owned = od /\ n0.state = m.state /\ n0.obj = m.obj
  BY <1>4, <1>5, <1>9, <1>10 DEF Only, Fields
<1>12. /\ \A t \in Task \ S : n2.state[t] = m.state[t] /\ n2.obj[t] = m.obj[t]
       /\ \A t \in Task : n2.state[t] \notin Gone => m.state[t] \notin Gone
  <2>1. \A t \in S : m.state[t] \notin Gone
    BY <1>2 DEF Gone, S
  <2> QED BY <1>9, <1>10, <1>11, <2>1 DEF S
<1>13. Fits(n2)
  BY <1>0, <1>10, <1>11, <1>12, FitsUnlinked
<1>14. HandsOver(m, n2, S, X, {u})
  <2>1. ASSUME NEW y \in Mtxs \ X PROVE n2.owner[y] = m.owner[y] /\ S \cap Range(m.wait_list[y]) = {}
    <3>1. ASSUME NEW t \in S, t \in Range(m.wait_list[y]) PROVE FALSE
      <4>1. m.obj[t] = y
        BY <1>0, <3>1, MutexWaiter
      <4>2. y \in Range(hs)
        BY <1>2, <4>1 DEF S
      <4> QED BY <1>2, <2>1, <4>2
    <3> QED BY <1>7, <1>11, <2>1, <3>1
  <2>2. \A x \in Mtxs \cap X : m.owner[x] \in {u}
    OBVIOUS
  <2> HIDE DEF X
  <2> QED BY <1>11, <1>12, <2>1, <2>2 DEF HandsOver
<1>15. Reorders(m, n2, {u})
  BY <1>0, <1>14, HandOver
<1>16. OwnsListed(n2, u)
  <2>1. n2.owned[u] = <<>> /\ Range(<<>>) = {}
    BY <1>8, <1>11 DEF Range
  <2> QED BY <2>1 DEF OwnsListed
<1>17. Reorders(m, n3, {u}) /\ (u = m.currp => Lent(n3, u)) /\ Shape(n3)
  <2>1. CASE n3 = n2 /\ u # m.currp
    BY <1>10, <1>15, <2>1
  <2>2. CASE n3 = inherit(n2, u)
    <3> HIDE DEF n3
    <3>1. Fits(n3) /\ Reorders(n2, n3, {u}) /\ Lent(n3, u)
      BY <1>13, <1>16, <2>2, InheritReorders
    <3> QED BY <1>15, <3>1, ReordersTrans DEF Fits
  <2> QED BY <2>1, <2>2
<1> HIDE DEF n3
<1>18. Only(n3, r, {"pendsv"})
  <2>1. CASE r = n3
    BY <2>1 DEF Only
  <2>2. CASE r = do_reschedule(n3, ws[1])
    BY <1>17, <2>2, RescheduleFields
  <2> QED BY <1>1, <2>1, <2>2
<1>19. /\ r.prio = n3.prio /\ r.real_prio = n3.real_prio /\ r.owner = n3.owner /\ r.wait_list = n3.wait_list
       /\ r.state = n3.state
  BY <1>18 DEF Only, Fields
<1> QED BY <1>17, <1>19 DEF Reorders, Ordered, Lent

\* isix_mutex_destroy: nobody is left with a priority lent through the mutex.
LEMMA DestroyUrgent ==
  ASSUME NEW m, NEW c, KernelOK(m, c), UrgencyOK(m), NEW x \in Mtxs
  PROVE  UrgencyOK(mutex_destroy(m, x)) /\ Shape(mutex_destroy(m, x))
<1> DEFINE o  == m.owner[x]
           ws == m.wait_list[x]
           S  == Range(ws)
           D  == S \cup {o}
           n0 == unlink(m, S)
           od == [t \in Task |-> Without(n0.owned[t], {x})]
           n1 == [n0 EXCEPT !.owned = od, !.owner = [n0.owner EXCEPT ![x] = Null],
                            !.count = [n0.count EXCEPT ![x] = 0]]
           pr == [t \in Task |-> IF t \in S THEN calc_inherited_priority(n1, t) ELSE n1.prio[t]]
           n2 == [n1 EXCEPT !.prio = pr]
           n3 == wakeup(n2, ws, EDESTROY)
           n4 == IF o = Null THEN n3 ELSE inherit(n3, o)
           r  == mutex_destroy(m, x)
<1>0. /\ m \in Kernel /\ Fits(m) /\ Shape(m) /\ DOMAIN m = Fields /\ CoreInv(m, c, {}) /\ OwnersOK(m)
      /\ m.prio \in [Task -> Prio] /\ m.wait_list \in [Obj -> Seq(Task)] /\ ws \in Seq(Task)
      /\ m.owner \in [Mtxs -> Task \cup {Null}] /\ m.owned \in [Task -> Seq(Mtxs)] /\ x \in Obj
      /\ \A t \in Task : OwnsListed(m, t)
  BY KernelShape, KernelTypes, FitsKernel, MutexObjects
<1>1. r = IF ws = <<>> THEN n4 ELSE do_reschedule(n4, Head(ws))
  BY DEF mutex_destroy
<1>2. S \subseteq Task /\ \A t \in S : m.state[t] = "WTMTX" /\ m.obj[t] = x /\ t # o
  <2>1. S \subseteq Task
    BY <1>0, EmptyRange
  <2>2. o \notin S
    BY <1>0 DEF OwnersOK
  <2> QED BY <1>0, <2>1, <2>2, MutexWaiter
<1> SUFFICES UrgencyOK(r) /\ Shape(r)
  OBVIOUS
<1> HIDE DEF r
<1>3. Shape(n0) /\ Only(m, n0, {"wait_list"})
  BY <1>0, UnlinkFields
<1>4. n0.wait_list = unlink(m, S).wait_list
  OBVIOUS
<1> HIDE DEF n0, S, ws, o
<1>5. /\ n0.owner = m.owner /\ n0.owned = m.owned /\ n0.prio = m.prio /\ n0.real_prio = m.real_prio
      /\ n0.state = m.state /\ n0.obj = m.obj
  BY <1>3 DEF Only, Fields
<1>6. \A t \in Task : Range(od[t]) = Range(m.owned[t]) \ {x}
  <2> SUFFICES ASSUME NEW t \in Task PROVE Range(Without(n0.owned[t], {x})) = Range(m.owned[t]) \ {x}
    OBVIOUS
  <2>1. n0.owned[t] = m.owned[t] /\ m.owned[t] \in Seq(Mtxs)
    BY <1>0, <1>5
  <2> QED BY <2>1, WithoutList
<1> HIDE DEF od
<1>7. /\ Shape(n1) /\ n1.wait_list = unlink(m, S).wait_list /\ n1.prio = m.prio /\ n1.real_prio = m.real_prio
      /\ n1.state = m.state /\ n1.obj = m.obj /\ n1.owned = od /\ n1.owner = [m.owner EXCEPT ![x] = Null]
  BY <1>3, <1>4, <1>5 DEF Shape, Fields
<1> HIDE DEF n1
<1>8. \A t \in Task : OwnsListed(n1, t)
  <2> SUFFICES ASSUME NEW t \in Task PROVE OwnsListed(n1, t)
    OBVIOUS
  <2>1. Range(n1.owned[t]) = Range(m.owned[t]) \ {x}
    BY <1>6, <1>7
  <2>2. Range(m.owned[t]) \subseteq Mtxs /\ \A y \in Range(m.owned[t]) : m.owner[y] = t
    BY <1>0 DEF OwnsListed
  <2>3. ASSUME NEW y \in Range(m.owned[t]) \ {x} PROVE n1.owner[y] = t
    <3>1. y \in Mtxs /\ y # x /\ m.owner[y] = t
      BY <2>2
    <3> QED BY <1>0, <1>7, <3>1
  <2> QED BY <2>1, <2>2, <2>3 DEF OwnsListed
<1>9. Fits(n1)
  BY <1>0, <1>7, FitsUnlinked
<1>10. \A t \in Task : /\ calc_inherited_priority(n1, t) \in Prio
                       /\ calc_inherited_priority(n1, t) # n1.real_prio[t]
                            => \E y \in Mtxs : n1.owner[y] = t /\ n1.wait_list[y] # <<>>
  BY <1>8, <1>9, CalcLent
<1>11. /\ pr \in [Task -> Prio] /\ \A t \in Task \ S : pr[t] = m.prio[t]
       /\ \A t \in S : pr[t] = calc_inherited_priority(n1, t)
  BY <1>0, <1>2, <1>7, <1>10
<1> HIDE DEF pr
<1>12. /\ Shape(n2) /\ Only(n1, n2, {"prio"}) /\ n2.prio = pr /\ n2.state = n1.state /\ n2.obj = n1.obj
  BY <1>7 DEF Shape, Only, Fields
<1> HIDE DEF n2
<1>13. /\ Shape(n3) /\ Only(n2, n3, {"p_wait", "pov_wait", "deadline", "left", "obj", "evbits", "bug", "state", "ready"})
       /\ n3.state = [t \in Task |-> IF t \in Range(ws) THEN "READY" ELSE n2.state[t]]
       /\ n3.obj = [t \in Task |-> IF t \in Range(ws) THEN EDESTROY ELSE n2.obj[t]]
       /\ n3.evbits = [t \in Task |-> IF t \in Range(ws) THEN NoBits ELSE n2.evbits[t]]
  BY ONLY <1>12, WakeupFields
<1> HIDE DEF n3
<1>14. /\ n3.wait_list = unlink(m, S).wait_list /\ n3.real_prio = m.real_prio /\ n3.prio = pr
       /\ n3.owner = n1.owner /\ n3.owned = n1.owned /\ n3.wait_list = n1.wait_list
       /\ n3.real_prio = n1.real_prio
  BY <1>7, <1>12, <1>13 DEF Only, Fields
<1>15. /\ \A t \in Task \ S : n3.state[t] = m.state[t] /\ n3.obj[t] = m.obj[t]
       /\ \A t \in Task : n3.state[t] \notin Gone => m.state[t] \notin Gone
  <2>1. \A t \in S : m.state[t] \notin Gone
    BY <1>2 DEF Gone
  <2> QED BY <1>7, <1>12, <1>13, <2>1 DEF S
<1>16. Fits(n3)
  <2>1. /\ Fits(m) /\ Shape(n3) /\ n3.wait_list = unlink(m, S).wait_list /\ n3.prio \in [Task -> Prio]
        /\ n3.real_prio = m.real_prio
        /\ \A t \in Task \ S : n3.state[t] = m.state[t] /\ n3.obj[t] = m.obj[t]
    BY <1>0, <1>11, <1>13, <1>14, <1>15
  <2> QED BY ONLY <2>1, FitsUnlinked
<1>17. HandsOver(m, n3, S, {x}, D)
  <2>1. ASSUME NEW y \in Mtxs \ {x} PROVE n3.owner[y] = m.owner[y] /\ S \cap Range(m.wait_list[y]) = {}
    <3>1. ASSUME NEW t \in S, t \in Range(m.wait_list[y]) PROVE FALSE
      <4>1. m.obj[t] = y
        BY <1>0, <3>1, MutexWaiter
      <4> QED BY <1>2, <2>1, <4>1
    <3>2. n3.owner[y] = m.owner[y]
      BY <1>0, <1>7, <1>14, <2>1
    <3> QED BY <3>1, <3>2
  <2>2. m.owner[x] \in D /\ S \subseteq D
    BY DEF o
  <2> HIDE DEF D
  <2> QED BY <1>11, <1>14, <1>15, <2>1, <2>2 DEF HandsOver
<1>18. Reorders(m, n3, D)
  BY <1>0, <1>17, HandOver
<1>19. ASSUME NEW t \in S PROVE Lent(n3, t)
  BY <1>2, <1>10, <1>11, <1>14, <1>19 DEF Lent
<1>20. Shape(n4) /\ UrgencyOK(n4)
  <2>1. CASE o = Null /\ n4 = n3
    <3>1. \A t \in Task \cap D : Lent(n3, t)
      BY <1>19, <2>1, MutexObjects
    <3> HIDE DEF D, n4
    <3> QED BY <1>13, <1>18, <2>1, <3>1, ReordersUrgency
  <2>2. CASE o # Null /\ n4 = inherit(n3, o)
    <3> HIDE DEF n4
    <3>1. o \in Task
      BY <1>0, <2>2 DEF o
    <3>2. OwnsListed(n3, o)
      BY <1>8, <1>14, <3>1 DEF OwnsListed
    <3>3. Fits(n4) /\ Reorders(n3, n4, {o}) /\ Lent(n4, o)
      BY <1>16, <2>2, <3>1, <3>2, InheritReorders
    <3>4. Ordered(n4)
      BY <1>18, <3>3 DEF Reorders, UrgencyOK
    <3>5. ASSUME NEW t \in Task PROVE Lent(n4, t)
      <4>1. CASE t = o
        BY <3>3, <4>1
      <4>2. CASE t # o
        <5>1. Lent(n3, t)
          BY <1>18, <1>19, <4>2 DEF Reorders, UrgencyOK
        <5> QED BY <3>3, <4>2, <5>1 DEF Reorders
      <4> QED BY <4>1, <4>2
    <3> QED BY <3>3, <3>4, <3>5 DEF UrgencyOK, Fits
  <2> QED BY <2>1, <2>2
<1> HIDE DEF n4
<1>21. Only(n4, r, {"pendsv"}) /\ Shape(r)
  <2>1. CASE r = n4
    BY <1>20, <2>1 DEF Only
  <2>2. CASE r = do_reschedule(n4, Head(ws))
    BY <1>20, <2>2, RescheduleFields
  <2> QED BY <1>1, <2>1, <2>2
<1>22. r.state = n4.state
  BY <1>21 DEF Only, Fields
<1> QED BY <1>20, <1>21, <1>22, ThinsOnly, ThinsUrgency

\* A free mutex, and one the caller has already, is taken without a word to
\* anybody.
LEMMA TakeThins ==
  ASSUME NEW m, NEW c, KernelOK(m, c), NEW x \in Mtxs, NEW r,
         \/ m.owner[x] = Null /\ r = set_ownership_to_current(m, x)
         \/ r = [m EXCEPT !.count[x] = @ + 1]
  PROVE  Thins(m, r)
<1>0. DOMAIN m = Fields /\ OwnersOK(m) /\ m.owner \in [Mtxs -> Task \cup {Null}]
  BY KernelShape
<1>1. CASE r = [m EXCEPT !.count[x] = @ + 1]
  <2>1. Only(m, r, {"count"}) /\ r.state = m.state
    BY <1>0, <1>1 DEF Only, Fields
  <2> QED BY <2>1, ThinsOnly
<1>2. CASE m.owner[x] = Null /\ r = set_ownership_to_current(m, x)
  <2>1. /\ r.prio = m.prio /\ r.real_prio = m.real_prio /\ r.wait_list = m.wait_list /\ r.state = m.state
        /\ r.owner = [m.owner EXCEPT ![x] = m.currp]
    BY <1>0, <1>2 DEF set_ownership_to_current, Fields
  <2>2. m.wait_list[x] = <<>>
    BY <1>0, <1>2 DEF OwnersOK
  <2>3. \A y \in Mtxs : m.wait_list[y] # <<>> => r.owner[y] = m.owner[y]
    BY <1>0, <2>1, <2>2
  <2> QED BY <2>1, <2>3 DEF Thins
<1> QED BY <1>1, <1>2

\* The operations of the mutexes.
LEMMA MtxOpsUrgent ==
  ASSUME KernelOK(k, call), UrgencyOK(k), MtxOps
  PROVE  UrgencyOK(k')
<1>0. DOMAIN k = Fields /\ Shape(k) /\ k \in Kernel /\ CoreInv(k, call, {}) /\ OwnersOK(k)
  BY KernelShape
<1>1. ASSUME NEW t \in Task, NEW x \in Mtxs, MtxLock(t, x) PROVE UrgencyOK(k')
  <2>1. t = k.currp /\ k.state[t] \in Up
    <3>1. CASE MayBlock(t) /\ x \in k.live
      BY <3>1, RunningUp DEF MayBlock
    <3>2. CASE Exec(t) /\ call[t].op = "mtx" /\ call[t].pc = "enter" /\ call[t].o = x
      BY <3>2, EnterUp DEF Blocking
    <3> QED BY <1>1, <3>1, <3>2 DEF MtxLock
  <2>2. CASE \/ k.owner[x] = Null /\ k' = set_ownership_to_current(k, x)
             \/ k' = [k EXCEPT !.count[x] = @ + 1]
    BY <2>2, TakeThins, ThinsUrgency
  <2>3. CASE k.owner[x] \notin {Null, t} /\ k' = mtx_block(k, x)
    BY <2>1, <2>3, MtxBlockUrgent
  <2> QED BY <1>1, <2>2, <2>3 DEF MtxLock
<1>2. ASSUME NEW t \in Task, NEW x \in Mtxs, MtxTryLock(t, x) PROVE UrgencyOK(k')
  <2>1. \/ k.owner[x] = Null /\ k' = set_ownership_to_current(k, x)
        \/ k' = [k EXCEPT !.count[x] = @ + 1]
    BY <1>2 DEF MtxTryLock
  <2> QED BY <2>1, TakeThins, ThinsUrgency
<1>3. ASSUME NEW t \in Task, NEW x \in Mtxs, MtxUnlock(t, x) PROVE UrgencyOK(k')
  <2>1. t = k.currp /\ k.currp # Idle /\ k.state[k.currp] \in Up /\ k.owner[x] = k.currp
    BY <1>3, RunningUp DEF MtxUnlock
  <2> QED BY <1>3, <2>1, UnlockUrgent DEF MtxUnlock
<1>4. ASSUME NEW t \in Task, NEW x \in Mtxs, MtxDestroy(t, x) PROVE UrgencyOK(k')
  <2> DEFINE n == mutex_destroy(k, x)
  <2>1. UrgencyOK(n) /\ Shape(n)
    BY DestroyUrgent
  <2>2. k' = [n EXCEPT !.live = @ \ {x}]
    BY <1>4 DEF MtxDestroy
  <2> HIDE DEF n
  <2>3. Only(n, k', {"live"}) /\ k'.state = n.state
    BY <2>1, <2>2 DEF Shape, Only, Fields
  <2> QED BY <2>1, <2>3, ThinsOnly, ThinsUrgency
<1>5. ASSUME NEW t \in Task, NEW x \in Mtxs, MtxCreate(t, x) PROVE UrgencyOK(k')
  <2>0. /\ x \notin k.live /\ x \in Obj /\ k.owner \in [Mtxs -> Task \cup {Null}]
        /\ k.wait_list \in [Obj -> Seq(Task)]
    BY <1>5, MutexObjects, KernelShape DEF MtxCreate
  <2>1. k.owner[x] = Null /\ k.wait_list[x] = <<>>
    BY <1>0, <2>0 DEF OwnersOK
  <2>2. /\ Only(k, k', {"live", "owner", "count", "wait_list"})
        /\ k'.owner = [k.owner EXCEPT ![x] = Null] /\ k'.wait_list = [k.wait_list EXCEPT ![x] = <<>>]
    BY <1>0, <1>5 DEF MtxCreate, Only, Fields
  <2>3. k'.owner = k.owner /\ k'.wait_list = k.wait_list
    BY <2>0, <2>1, <2>2
  <2>4. Only(k, k', {"live", "count"})
    BY <2>2, <2>3 DEF Only
  <2> QED BY <2>4, StoreUrgent
<1>6. ASSUME NEW t \in Task, MtxLockReturn(t) PROVE UrgencyOK(k')
  <2>1. k' = k \/ k' = leave(k, t)
    BY <1>6 DEF MtxLockReturn
  <2> QED BY <1>0, <2>1, LeaveThins, ThinsUrgency
<1>7. ASSUME NEW t \in Task, MtxUnlockAll(t) PROVE UrgencyOK(k')
  <2>1. t = k.currp /\ t # Idle /\ k' = mutex_unlock_all_in_task(k, t)
    BY <1>7, RunningUp DEF MtxUnlockAll
  <2>2. Reorders(k, k', {t}) /\ Lent(k', t)
    BY <2>1, UnlockAllReorders
  <2> QED BY <2>2, ReordersUrgency
<1> QED BY <1>1, <1>2, <1>3, <1>4, <1>5, <1>6, <1>7 DEF MtxOps

\* A wait for a condition: the mutex goes, then the caller is queued with the
\* priority it is left with.
LEMMA CondBlockUrgent ==
  ASSUME NEW m, NEW c, KernelOK(m, c), m.currp # Idle, m.state[m.currp] \in Up, UrgencyOK(m),
         m.owned[m.currp] # <<>>, NEW v \in Cvs, NEW timeout
  PROVE  UrgencyOK(cond_block(m, v, timeout))
<1> DEFINE t == m.currp
           x == top_mutex(m)
           n == mutex_unlock(m, x)
           q == add_to_prio_queue(set_sleep_timeout(n, "WTCOND", timeout), v, t)
           r == cond_block(m, v, timeout)
<1>0. m \in Kernel /\ t \in Task /\ CoreInv(m, c, {}) /\ OwnersOK(m)
  BY KernelShape
<1>1. x \in Mtxs /\ m.owner[x] = t
  <2> HIDE DEF t
  <2>1. m.owned[t] \in Seq(Mtxs) /\ m.owned[t] # <<>>
    BY <1>0, KernelTypes DEF t
  <2>2. x \in Range(m.owned[t]) /\ Range(m.owned[t]) \subseteq Mtxs
    BY <2>1, EmptyRange DEF top_mutex, t
  <2> HIDE DEF x
  <2> QED BY <1>0, <2>2 DEF OwnersOK
<1>2. r = [q EXCEPT !.obj = [@ EXCEPT ![t] = v]]
  BY DEF cond_block
<1> SUFFICES UrgencyOK(r)
  OBVIOUS
<1> HIDE DEF x, r
<1>3. UrgencyOK(n)
  BY <1>1, UnlockUrgent
<1>4. CoreInv(n, c, {}) /\ OwnersOK(n) /\ Signalled(m, n)
  BY <1>0, <1>1, UnlockFunOK
<1> HIDE DEF n
<1>5. n.currp = t /\ n.state[t] \in Up /\ n \in Kernel /\ Shape(n)
  BY <1>4, CoreParts, ShapeOfKernel DEF Signalled
<1>6. Only(q, r, {"obj"})
  <2>1. DOMAIN q = Fields
    <3>1. "WTCOND" \in State /\ n.currp \in Task
      BY <1>0, <1>5 DEF State
    <3>2. Shape(set_sleep_timeout(n, "WTCOND", timeout))
      BY <1>5, <3>1, SleepFields
    <3>3. Shape(q)
      BY <3>2, QueueFields
    <3> QED BY <3>3 DEF Shape
  <2> HIDE DEF q
  <2> QED BY <1>2, <2>1 DEF Only, Fields
<1>7. v \in Prioritised /\ "WTCOND" \in Waiting
  BY DEF Prioritised, Waiting
<1>8. Only(add_to_prio_queue(set_sleep_timeout(n, "WTCOND", timeout), v, n.currp), r, {"obj"})
  BY <1>5, <1>6
<1> HIDE DEF q
<1>9. Thins(n, r)
  BY <1>5, <1>7, <1>8, SleepThins
<1> QED BY <1>3, <1>9, ThinsUrgency

\* The operations of the condition variables.
LEMMA CondOpsUrgent ==
  ASSUME KernelOK(k, call), UrgencyOK(k), CondOps
  PROVE  UrgencyOK(k')
<1>0. /\ DOMAIN k = Fields /\ Shape(k) /\ k \in Kernel /\ CoreInv(k, call, {}) /\ OwnersOK(k)
      /\ k.wait_list \in [Obj -> Seq(Task)]
  BY KernelShape
<1>v. \A v \in Cvs : v \in Obj \ Mtxs
  BY TaskAssumption DEF Obj, Object
<1>1. ASSUME NEW t \in Task, NEW v \in Cvs, NEW timeout \in Timeouts, CondWait(t, v, timeout) PROVE UrgencyOK(k')
  <2>1. /\ t = k.currp /\ k.currp # Idle /\ k.state[k.currp] \in Up /\ k.owned[k.currp] # <<>>
        /\ k' = cond_block(k, v, timeout)
    BY <1>1, RunningUp DEF CondWait, MayBlock
  <2> QED BY <2>1, CondBlockUrgent
<1>2. ASSUME NEW v \in Cvs, CondSignal(v) PROVE UrgencyOK(k')
  <2> DEFINE ws == k.wait_list[v]
             t  == Head(ws)
             n  == [unlink(k, {t}) EXCEPT !.bug = @ \/ k.state[t] # "WTCOND"]
             q  == <<t>>
  <2>1. k' = IF ws = <<>> THEN k ELSE do_reschedule(wakeup(n, q, EOK), t)
    BY <1>2 DEF CondSignal, condvar_signal
  <2>2. CASE k' = k
    BY <2>2
  <2>3. CASE ws # <<>> /\ k' = do_reschedule(wakeup(n, q, EOK), t)
    <3>1. ws \in Seq(Task) /\ t \in Range(ws) /\ t \in Task /\ q \in Seq(Task) /\ Range(q) = {t}
      <4>1. ws \in Seq(Task) /\ t \in Range(ws) /\ t \in Task
        BY <1>0, <1>v, <2>3, EmptyRange
      <4> QED BY <4>1, OneElement
    <3>2. k.state[t] \notin Gone \cup {"WTMTX"}
      BY <1>v, <3>1, WaitersAlive
    <3>3. Shape(unlink(k, {t})) /\ Only(k, unlink(k, {t}), {"wait_list"})
      BY <1>0, UnlinkFields
    <3>4. /\ Shape(n) /\ n.wait_list = unlink(k, Range(q)).wait_list
          /\ n.prio = k.prio /\ n.real_prio = k.real_prio /\ n.owner = k.owner /\ n.state = k.state
      BY <3>1, <3>3 DEF Shape, Only, Fields
    <3> HIDE DEF n, t
    <3>5. \A u \in Range(q) : k.state[u] \notin Gone \cup {"WTMTX"}
      BY <3>1, <3>2
    <3> HIDE DEF q
    <3>6. Only(wakeup(n, q, EOK), k', {"pendsv", "evbits", "bitset", "live", "evt", "bitno"})
      <4>1. Shape(wakeup(n, q, EOK))
        <5>1. Shape(n)
          BY <3>4
        <5> QED BY ONLY <5>1, WakeupFields
      <4>2. Only(wakeup(n, q, EOK), k', {"pendsv"})
        BY <2>3, <4>1, RescheduleFields
      <4> QED BY <4>2 DEF Only
    <3>7. Thins(k, k')
      BY <3>1, <3>4, <3>5, <3>6, ThinsWake
    <3> QED BY <3>7, ThinsUrgency
  <2> QED BY <2>1, <2>2, <2>3
<1>3. ASSUME NEW v \in Cvs, NEW msg, NEW n, n = condvar_broadcast_msg(k, v, msg), NEW r, Only(n, r, {"live", "evt", "bitno"})
      PROVE  UrgencyOK(r)
  <2>1. n = IF k.wait_list[v] = <<>> THEN k
            ELSE do_reschedule(wakeup(unlink(k, Range(k.wait_list[v])), k.wait_list[v], msg), Head(k.wait_list[v]))
    BY <1>3 DEF condvar_broadcast_msg
  <2>2. DOMAIN n = Fields
    <3>1. k.wait_list[v] \in Seq(Task)
      BY <1>0, <1>v
    <3>2. Shape(n)
      BY <1>0, <2>1, <3>1, BroadcastEffect
    <3> QED BY <3>2 DEF Shape
  <2>3. Thins(k, r)
    BY <1>3, <1>v, <2>1, <2>2, WakeAllThins
  <2> QED BY <2>3, ThinsUrgency
<1>4. ASSUME NEW v \in Cvs, CondBroadcast(v) PROVE UrgencyOK(k')
  <2>1. k' = condvar_broadcast_msg(k, v, EOK) /\ Only(k', k', {"live", "evt", "bitno"})
    BY <1>4 DEF CondBroadcast, Only
  <2> QED BY <1>3, <2>1
<1>5. ASSUME NEW t \in Task, NEW v \in Cvs, CondDestroy(t, v) PROVE UrgencyOK(k')
  <2> DEFINE n == condvar_broadcast_msg(k, v, EDESTROY)
  <2>1. k' = [n EXCEPT !.live = @ \ {v}]
    BY <1>5 DEF CondDestroy
  <2>2. Shape(n)
    <3>1. k.wait_list[v] \in Seq(Task)
      BY <1>0, <1>v
    <3>2. n = IF k.wait_list[v] = <<>> THEN k
              ELSE do_reschedule(wakeup(unlink(k, Range(k.wait_list[v])), k.wait_list[v], EDESTROY), Head(k.wait_list[v]))
      BY DEF condvar_broadcast_msg
    <3> HIDE DEF n
    <3> QED BY <1>0, <3>1, <3>2, BroadcastEffect
  <2>3. n = condvar_broadcast_msg(k, v, EDESTROY)
    OBVIOUS
  <2> HIDE DEF n
  <2>4. Only(n, k', {"live", "evt", "bitno"})
    BY <2>1, <2>2 DEF Shape, Only, Fields
  <2> QED BY <1>3, <2>3, <2>4
<1>6. ASSUME NEW t \in Task, NEW v \in Cvs, CondCreate(t, v) PROVE UrgencyOK(k')
  <2>0. v \notin k.live /\ v \in Object /\ v \in Obj
    BY <1>6, <1>v, SyncObjects DEF CondCreate
  <2>1. k.wait_list[v] = <<>>
    BY <1>0, <2>0, CoreParts DEF AliveOK
  <2>2. Only(k, k', {"live", "wait_list"}) /\ k'.wait_list = [k.wait_list EXCEPT ![v] = <<>>]
    BY <1>0, <1>6 DEF CondCreate, Only, Fields
  <2>3. k'.wait_list = k.wait_list
    BY <1>0, <2>0, <2>1, <2>2
  <2>4. Only(k, k', {"live"})
    BY <2>2, <2>3 DEF Only
  <2> QED BY <2>4, StoreUrgent
<1>7. ASSUME NEW t \in Task, CondWaitReturn(t) PROVE UrgencyOK(k')
  <2>1. k' = leave(k, t)
    BY <1>7 DEF CondWaitReturn
  <2> QED BY <1>0, <2>1, LeaveThins, ThinsUrgency
<1> QED BY <1>1, <1>2, <1>4, <1>5, <1>6, <1>7 DEF CondOps

-----------------------------------------------------------------------------
\* A task that leaves a list which is no mutex's takes nothing from anybody.
LEMMA LeaveListReorders ==
  ASSUME NEW m, NEW c, KernelOK(m, c), NEW t \in Task, m.state[t] # "WTMTX", NEW r,
         r.wait_list = unlink(m, {t}).wait_list, r.prio = m.prio, r.real_prio = m.real_prio,
         r.owner = m.owner, r.state = m.state
  PROVE  Reorders(m, r, {})
<1> DEFINE S == {t}
           D == {}
<1>1. Fits(m) /\ CoreInv(m, c, {})
  BY FitsKernel, KernelShape
<1>2. \A y \in Mtxs : S \cap Range(m.wait_list[y]) = {}
  BY <1>1, MutexWaiter
<1>3. HandsOver(m, r, S, D, D)
  <2> HIDE DEF S
  <2> QED BY <1>2 DEF HandsOver, S
<1> HIDE DEF S
<1>4. Reorders(m, r, D)
  <2> HIDE DEF D
  <2> QED BY <1>1, <1>3, HandOver
<1> QED BY <1>4

\* A waiter that is taken off a mutex takes back what it lent to the owner.
LEMMA WaiterRemovedReorders ==
  ASSUME NEW m, NEW c, KernelOK(m, c), NEW t \in Task, m.state[t] = "WTMTX"
  PROVE  LET r == mutex_waiter_removed(unlink(time_unlink(m, {t}), {t}), m.obj[t])
         IN  Reorders(m, r, {}) /\ Shape(r)
<1> DEFINE x  == m.obj[t]
           S  == {t}
           m1 == time_unlink(m, S)
           n  == unlink(m1, S)
           o  == m.owner[x]
           r  == mutex_waiter_removed(n, x)
<1>0. /\ Fits(m) /\ (\A u \in Task : OwnsListed(m, u)) /\ Shape(m) /\ CoreInv(m, c, {}) /\ OwnersOK(m)
      /\ m.owner \in [Mtxs -> Task \cup {Null}] /\ m.prio \in [Task -> Prio] /\ DOMAIN m = Fields
  BY FitsKernel, KernelShape, KernelTypes
<1>1. x \in Mtxs /\ t \in Range(m.wait_list[x])
  BY <1>0, WaiterWhere DEF Waiting
<1>2. o \in Task
  <2>1. m.wait_list[x] # <<>>
    BY <1>1 DEF Range
  <2> QED BY <1>0, <1>1, <2>1 DEF OwnersOK
<1>3. Shape(m1) /\ Only(m, m1, {"p_wait", "pov_wait", "deadline", "left"})
  BY <1>0, TimeUnlinkFields
<1>4. Shape(n) /\ Only(m1, n, {"wait_list"})
  <2> HIDE DEF m1
  <2> QED BY <1>3, UnlinkFields
<1>5. /\ n.prio = m.prio /\ n.real_prio = m.real_prio /\ n.owner = m.owner /\ n.owned = m.owned
      /\ n.state = m.state /\ n.obj = m.obj /\ m1.wait_list = m.wait_list
  <2> HIDE DEF m1, n
  <2> QED BY <1>3, <1>4 DEF Only, Fields
<1>6. n.wait_list = unlink(m, S).wait_list
  <2>1. DOMAIN m1 = Fields
    BY <1>3 DEF Shape
  <2> HIDE DEF m1
  <2> QED BY <1>0, <1>5, <2>1 DEF unlink, Fields
<1>7. r = inherit(n, o)
  <2> HIDE DEF n
  <2>1. n.owner[x] = o /\ o # Null
    BY <1>2, <1>5, MutexObjects
  <2> QED BY <2>1 DEF mutex_waiter_removed
<1> SUFFICES Reorders(m, r, {}) /\ Shape(r)
  OBVIOUS
<1> HIDE DEF n, m1, r, S
<1>8. Fits(n)
  <2>1. /\ Fits(m) /\ Shape(n) /\ n.wait_list = unlink(m, S).wait_list /\ n.prio \in [Task -> Prio]
        /\ n.real_prio = m.real_prio /\ \A u \in Task \ S : n.state[u] = m.state[u] /\ n.obj[u] = m.obj[u]
    BY <1>0, <1>4, <1>5, <1>6
  <2> QED BY ONLY <2>1, FitsUnlinked
<1>9. HandsOver(m, n, S, {x}, {o})
  <2>1. \A y \in Mtxs \ {x} : S \cap Range(m.wait_list[y]) = {}
    BY <1>0, MutexWaiter DEF S
  <2> QED BY <1>5, <1>6, <2>1 DEF HandsOver
<1> HIDE DEF o
<1>10. Reorders(m, n, {o})
  BY <1>0, <1>9, HandOver
<1>11. OwnsListed(n, o)
  BY <1>0, <1>2, <1>5 DEF OwnsListed
<1>12. Fits(r) /\ Reorders(n, r, {o}) /\ Lent(r, o)
  BY <1>2, <1>7, <1>8, <1>11, InheritReorders
<1>13. Reorders(m, r, {})
  BY <1>10, <1>12 DEF Reorders
<1> QED BY <1>12, <1>13 DEF Fits

\* _isixp_add_kill_or_set_suspend.
LEMMA KillOrSuspendReorders ==
  ASSUME NEW m, NEW c, KernelOK(m, c), NEW t \in Task, t # Idle, m.state[t] \notin Gone, NEW suspend \in BOOLEAN
  PROVE  LET r == kill_or_suspend(m, t, suspend) IN
         /\ Reorders(m, r, {}) /\ Shape(r)
         /\ ~suspend => r.state[t] = "ZOMBIE"
<1> DEFINE S  == {t}
           m1 == time_unlink(m, S)
           n  == Detach(m, t)
           p  == CutShort(m, t, suspend)
           r  == kill_or_suspend(m, t, suspend)
<1>0. Shape(m) /\ DOMAIN m = Fields /\ CoreInv(m, c, {}) /\ OwnersOK(m) /\ m.state[t] \in State
  BY KernelShape DEF Shape
<1>1. Shape(m1) /\ Only(m, m1, {"p_wait", "pov_wait", "deadline", "left"})
  BY <1>0, TimeUnlinkFields
<1>2. \/ m.state[t] \in Up /\ n = delete_from_ready_list(m1, t)
      \/ m.state[t] = "WTSEM" /\ n = unlink(sem_fast_signal(m1, m.obj[t]), S)
      \/ m.state[t] = "WTMTX" /\ n = mutex_waiter_removed(unlink(m1, S), m.obj[t])
      \/ m.state[t] \in {"WTEVT", "WTCOND", "WTEXIT"} /\ n = unlink(m1, S)
      \/ m.state[t] \notin Up \cup Waiting /\ n = m1
  <2> HIDE DEF m1
  <2>1. CASE m.state[t] \in Up
    BY <2>1 DEF Detach, Up, m1
  <2>2. CASE m.state[t] = "WTSEM"
    BY <2>2 DEF Detach, Up, m1
  <2>3. CASE m.state[t] = "WTMTX"
    BY <2>3 DEF Detach, Up, m1
  <2>4. CASE m.state[t] \in {"WTEVT", "WTCOND", "WTEXIT"}
    BY <2>4 DEF Detach, Up, m1
  <2>5. CASE m.state[t] \notin Up \cup Waiting
    BY <2>5 DEF Detach, Up, Waiting, m1
  <2> QED BY <2>1, <2>2, <2>3, <2>4, <2>5 DEF Waiting
<1>3. \/ suspend /\ r = [p EXCEPT !.state = [@ EXCEPT ![t] = "SUSPEND"]]
      \/ ~suspend /\ r = [p EXCEPT !.state = [@ EXCEPT ![t] = "ZOMBIE"], !.zombie = Append(@, t)]
  BY DEF kill_or_suspend, CutShort, Detach
<1>4. \/ p = n
      \/ p = [n EXCEPT !.wait_aborted = [@ EXCEPT ![t] = suspend]]
  BY DEF CutShort
<1> SUFFICES /\ Reorders(m, r, {}) /\ Shape(r)
             /\ ~suspend => r.state[t] = "ZOMBIE"
  OBVIOUS
<1> HIDE DEF n, p, r
<1>5. Reorders(m, n, {}) /\ Shape(n)
  <2>1. CASE m.state[t] = "WTMTX" /\ n = mutex_waiter_removed(unlink(m1, S), m.obj[t])
    BY <2>1, WaiterRemovedReorders
  <2> HIDE DEF m1
  <2>2. CASE m.state[t] \in Up /\ n = delete_from_ready_list(m1, t)
    <3>1. Shape(n) /\ Only(m1, n, {"ready"})
      BY <1>1, <2>2 DEF delete_from_ready_list, Shape, Only, Fields
    <3>2. Only(m, n, {"p_wait", "pov_wait", "deadline", "left", "ready"})
      BY <1>1, <3>1 DEF Only
    <3>3. n.state = m.state
      BY <3>2 DEF Only, Fields
    <3> QED BY <3>1, <3>2, <3>3, ThinsOnly, ThinsReorders
  <2>3. CASE n = m1
    <3>1. n.state = m.state
      BY <1>1, <2>3 DEF Only, Fields
    <3> QED BY <1>1, <2>3, <3>1, ThinsOnly, ThinsReorders
  <2>4. ASSUME NEW q, Shape(q), Only(m1, q, {"value"}), m.state[t] # "WTMTX", n = unlink(q, S)
        PROVE  Reorders(m, n, {}) /\ Shape(n)
    <3>1. Shape(n) /\ Only(q, n, {"wait_list"})
      BY <2>4, UnlinkFields
    <3>2. /\ n.prio = m.prio /\ n.real_prio = m.real_prio /\ n.owner = m.owner /\ n.state = m.state
          /\ q.wait_list = m.wait_list
      BY <1>1, <2>4, <3>1 DEF Only, Fields
    <3>3. n.wait_list = unlink(m, {t}).wait_list
      <4>1. DOMAIN q = Fields
        BY <2>4 DEF Shape
      <4> QED BY <1>0, <2>4, <3>2, <4>1 DEF unlink, Fields
    <3>4. Reorders(m, n, {})
      BY <2>4, <3>2, <3>3, LeaveListReorders
    <3> QED BY <3>1, <3>4
  <2>5. CASE m.state[t] \in {"WTEVT", "WTCOND", "WTEXIT"} /\ n = unlink(m1, S)
    <3>1. Only(m1, m1, {"value"}) /\ m.state[t] # "WTMTX"
      BY <2>5 DEF Only
    <3> QED BY <1>1, <2>4, <2>5, <3>1
  <2>6. CASE m.state[t] = "WTSEM" /\ n = unlink(sem_fast_signal(m1, m.obj[t]), S)
    <3> DEFINE q == sem_fast_signal(m1, m.obj[t])
    <3>1. Shape(q) /\ Only(m1, q, {"value"}) /\ m.state[t] # "WTMTX"
      BY <1>1, <2>6 DEF sem_fast_signal, Shape, Only, Fields
    <3> HIDE DEF q
    <3> QED BY <2>4, <2>6, <3>1 DEF q
  <2> QED BY <1>2, <2>1, <2>2, <2>3, <2>5, <2>6
<1>6. Shape(p) /\ Only(n, p, {"wait_aborted"})
  BY <1>4, <1>5 DEF Shape, Only, Fields
<1>7. n.state[t] = m.state[t]
  <2>1. Detached(m, n, t)
    BY <1>0, DetachOK DEF n
  <2> QED BY <2>1 DEF Detached
<1>8. /\ Shape(r) /\ Only(p, r, {"state", "zombie"}) /\ p.state = n.state
      /\ \A u \in Task \ {t} : r.state[u] = p.state[u]
      /\ ~suspend => r.state[t] = "ZOMBIE"
  <2>1. "SUSPEND" \in State /\ "ZOMBIE" \in State
    BY DEF State
  <2>2. p.state = n.state /\ p.state \in [Task -> State] /\ DOMAIN p = Fields
    BY <1>6 DEF Only, Fields, Shape
  <2>3. CASE suspend /\ r = [p EXCEPT !.state = [@ EXCEPT ![t] = "SUSPEND"]]
    BY <1>6, <2>1, <2>2, <2>3 DEF Shape, Only, Fields
  <2>4. CASE ~suspend /\ r = [p EXCEPT !.state = [@ EXCEPT ![t] = "ZOMBIE"], !.zombie = Append(@, t)]
    <3>1. r.state = [p.state EXCEPT ![t] = "ZOMBIE"] /\ DOMAIN r = Fields
      BY <2>2, <2>4 DEF Fields
    <3>2. r.obj = p.obj /\ r.evbits = p.evbits /\ r.wait_aborted = p.wait_aborted /\ r.wait_list = p.wait_list
      BY <2>2, <2>4 DEF Fields
    <3>3. Only(p, r, {"state", "zombie"})
      BY <2>2, <2>4 DEF Only, Fields
    <3>4. Shape(r)
      BY <1>6, <2>1, <2>2, <3>1, <3>2 DEF Shape
    <3> QED BY <2>1, <2>2, <2>4, <3>1, <3>3, <3>4
  <2> QED BY <1>3, <2>3, <2>4
<1>9. Only(n, r, {"state", "zombie", "wait_aborted"})
  BY <1>6, <1>8 DEF Only
<1>10. \A u \in Task : r.state[u] \notin Gone => n.state[u] \notin Gone
  BY <1>7, <1>8
<1>11. Reorders(n, r, {})
  BY <1>9, <1>10, ThinsOnly, ThinsReorders
<1> QED BY <1>5, <1>8, <1>11, ReordersTrans

-----------------------------------------------------------------------------
\* The control block of u is filled or freed, with the priority of its own.
Renewed(m, r, u) ==
  /\ r.prio[u] = r.real_prio[u] /\ r.owner = m.owner
  /\ \A o \in Prioritised : r.wait_list[o] = m.wait_list[o]
  /\ \A v \in Task \ {u} :
       r.prio[v] = m.prio[v] /\ r.real_prio[v] = m.real_prio[v] /\ r.state[v] = m.state[v]

\* A task that is gone is on no list and owns nothing.
LEMMA RenewedUrgent ==
  ASSUME NEW m, NEW c, KernelOK(m, c), UrgencyOK(m), NEW u \in Task, m.state[u] \in Gone,
         NEW r, Renewed(m, r, u)
  PROVE  UrgencyOK(r)
<1> USE DEF Renewed
<1>0. QueuedFor(m) /\ m.wait_list \in [Obj -> Seq(Task)]
  BY FitsKernel DEF Fits
<1>1. ASSUME NEW o \in Prioritised PROVE SortedBy(r.wait_list[o], r.prio)
  <2>1. r.wait_list[o] = m.wait_list[o] /\ SortedBy(m.wait_list[o], m.prio) /\ m.wait_list[o] \in Seq(Task)
    BY <1>0, PrioritisedLists, MutexObjects DEF UrgencyOK, Ordered, Prioritised, Obj, Object
  <2>2. Range(m.wait_list[o]) \subseteq Task /\ u \notin Range(m.wait_list[o])
    BY <1>0, <2>1, EmptyRange DEF QueuedFor, Gone
  <2>3. \A v \in Range(m.wait_list[o]) : m.prio[v] = r.prio[v]
    BY <2>2
  <2> QED BY <2>1, <2>3, SortedSame
<1>2. \A x \in Mtxs : r.wait_list[x] = m.wait_list[x]
  BY DEF Prioritised
<1>3. ASSUME NEW v \in Task PROVE Lent(r, v)
  <2>1. CASE v = u
    BY <2>1 DEF Lent
  <2>2. CASE v # u
    BY <1>2, <2>2 DEF Lent, UrgencyOK
  <2> QED BY <2>1, <2>2
<1> QED BY <1>1, <1>3 DEF UrgencyOK, Ordered

\* isix_task_create.
LEMMA TaskCreateUrgent ==
  ASSUME KernelOK(k, call), UrgencyOK(k), NEW t \in Task, NEW u \in Tasks, NEW suspended \in BOOLEAN, NEW ref \in 0 .. 1,
         TaskCreate(t, u, suspended, ref)
  PROVE  UrgencyOK(k')
<1> DEFINE n == [k EXCEPT
                  !.prio      = [@ EXCEPT ![u] = BasePrio[u]],
                  !.real_prio = [@ EXCEPT ![u] = BasePrio[u]],
                  !.refcnt    = [@ EXCEPT ![u] = ref],
                  !.owned     = [@ EXCEPT ![u] = <<>>],
                  !.wait_list = [@ EXCEPT ![u] = <<>>]]
           q == <<u>>
<1>0. /\ Shape(k) /\ DOMAIN k = Fields /\ u \in Task /\ k.state[u] \in Gone /\ k \in Kernel
      /\ k.wait_list \in [Obj -> Seq(Task)] /\ k.state \in [Task -> State]
      /\ k.prio \in [Task -> Prio] /\ k.real_prio \in [Task -> Prio]
  BY KernelShape, KernelTypes DEF TaskCreate, Task, Gone
<1>1. k' = IF suspended THEN [n EXCEPT !.state = [@ EXCEPT ![u] = "SUSPEND"]]
           ELSE do_reschedule(wakeup(n, q, EOK), u)
  BY DEF TaskCreate
<1>2. /\ Shape(n) /\ n.owner = k.owner /\ n.state = k.state
      /\ n.prio = [k.prio EXCEPT ![u] = BasePrio[u]] /\ n.real_prio = [k.real_prio EXCEPT ![u] = BasePrio[u]]
      /\ n.wait_list = [k.wait_list EXCEPT ![u] = <<>>]
  BY <1>0 DEF Shape, Fields
<1> HIDE DEF n
<1>3. /\ k'.prio = n.prio /\ k'.real_prio = n.real_prio /\ k'.owner = n.owner /\ k'.wait_list = n.wait_list
      /\ \A v \in Task \ {u} : k'.state[v] = n.state[v]
  <2>1. CASE k' = [n EXCEPT !.state = [@ EXCEPT ![u] = "SUSPEND"]]
    BY <1>2, <2>1 DEF Shape, Fields
  <2>2. CASE k' = do_reschedule(wakeup(n, q, EOK), u)
    <3> DEFINE p == wakeup(n, q, EOK)
    <3>1. Range(q) = {u}
      BY <1>0, OneElement
    <3> HIDE DEF q
    <3>2. /\ Shape(p) /\ Only(n, p, {"p_wait", "pov_wait", "deadline", "left", "obj", "evbits", "bug", "state", "ready"})
          /\ p.state = [v \in Task |-> IF v \in Range(q) THEN "READY" ELSE n.state[v]]
          /\ p.obj = [v \in Task |-> IF v \in Range(q) THEN EOK ELSE n.obj[v]]
          /\ p.evbits = [v \in Task |-> IF v \in Range(q) THEN NoBits ELSE n.evbits[v]]
      <4>1. Shape(n)
        BY <1>2
      <4> QED BY ONLY <4>1, WakeupFields
    <3> HIDE DEF p
    <3>3. Only(p, k', {"pendsv"})
      BY <2>2, <3>2, RescheduleFields DEF p
    <3>4. /\ k'.prio = n.prio /\ k'.real_prio = n.real_prio /\ k'.owner = n.owner /\ k'.wait_list = n.wait_list
          /\ k'.state = p.state
      BY <3>2, <3>3 DEF Only, Fields
    <3> QED BY <3>1, <3>2, <3>4
  <2> QED BY <1>1, <2>1, <2>2
<1>4. k'.prio[u] = k'.real_prio[u]
  BY <1>0, <1>2, <1>3
<1>5. \A o \in Prioritised : k'.wait_list[o] = k.wait_list[o]
  <2>1. \A o \in Prioritised : o \in Obj /\ o # u
    BY <1>0, PrioritisedLists, SyncObjects DEF Prioritised
  <2> QED BY <1>0, <1>2, <1>3, <2>1
<1>6. \A v \in Task \ {u} : /\ k'.prio[v] = k.prio[v] /\ k'.real_prio[v] = k.real_prio[v]
                            /\ k'.state[v] = k.state[v]
  BY <1>0, <1>2, <1>3
<1>7. Renewed(k, k', u)
  BY <1>2, <1>3, <1>4, <1>5, <1>6 DEF Renewed
<1> QED BY <1>0, <1>7, RenewedUrgent

\* The control block is freed.
LEMMA FreeTcbUrgent ==
  ASSUME KernelOK(k, call), UrgencyOK(k), NEW t \in Task, FreeTcb(t)
  PROVE  UrgencyOK(k')
<1> DEFINE u == call[t].o
<1>0. /\ DOMAIN k = Fields /\ k \in Kernel /\ CoreInv(k, call, {}) /\ call \in [Task -> Call]
      /\ k.state \in [Task -> State] /\ k.prio \in [Task -> Prio] /\ k.real_prio \in [Task -> Prio]
      /\ LifeOK(k, call) /\ CallsOK(call) /\ Freeing(call[t])
  BY KernelShape, KernelTypes, CoreParts DEF FreeTcb, Freeing
<1>1. u \in Task /\ k.state[u] \in Gone
  BY <1>0 DEF LifeOK, CallsOK, CallKind, Freeing, Task, Gone
<1>2. k' = [k EXCEPT !.bug = @ \/ k.state[u] = "NONE",
                     !.state = [@ EXCEPT ![u] = "NONE"],
                     !.prio  = [@ EXCEPT ![u] = BasePrio[u]],
                     !.real_prio = [@ EXCEPT ![u] = BasePrio[u]]]
  BY DEF FreeTcb
<1> HIDE DEF u
<1>3. /\ k'.prio = [k.prio EXCEPT ![u] = BasePrio[u]] /\ k'.real_prio = [k.real_prio EXCEPT ![u] = BasePrio[u]]
      /\ k'.state = [k.state EXCEPT ![u] = "NONE"] /\ k'.owner = k.owner /\ k'.wait_list = k.wait_list
  BY <1>0, <1>2 DEF Fields
<1>4. k'.prio[u] = k'.real_prio[u]
  BY <1>0, <1>1, <1>3
<1>5. \A v \in Task \ {u} : /\ k'.prio[v] = k.prio[v] /\ k'.real_prio[v] = k.real_prio[v]
                            /\ k'.state[v] = k.state[v]
  BY <1>0, <1>1, <1>3
<1>6. Renewed(k, k', u)
  BY <1>3, <1>4, <1>5 DEF Renewed
<1> QED BY <1>1, <1>6, RenewedUrgent

\* isix_task_change_prio.
LEMMA TaskChangePrioUrgent ==
  ASSUME KernelOK(k, call), UrgencyOK(k), NEW t \in Task, NEW u \in Tasks, NEW p \in NewPrios, TaskChangePrio(t, u, p)
  PROVE  UrgencyOK(k')
<1> DEFINE m == [k EXCEPT !.real_prio = [@ EXCEPT ![u] = p]]
           n == reallocate_priority(m, u, p)
<1>0. /\ Fits(k) /\ Shape(k) /\ DOMAIN k = Fields /\ u \in Task /\ p \in Prio
      /\ k.prio \in [Task -> Prio] /\ k.real_prio \in [Task -> Prio]
  <2>1. u \in Task /\ p \in Prio
    BY ControlAssumption, TaskAssumption, Prios DEF Task, Prio
  <2>2. Fits(k)
    BY FitsKernel
  <2> QED BY <2>1, <2>2 DEF Fits, Shape
<1>1. \/ k' = m /\ k.prio[u] # k.real_prio[u]
      \/ k' = [n EXCEPT !.pendsv = TRUE]
  BY DEF TaskChangePrio, port_yield
<1>2. /\ Shape(m) /\ m.prio = k.prio /\ m.wait_list = k.wait_list /\ m.owner = k.owner /\ m.state = k.state
      /\ m.obj = k.obj /\ m.real_prio = [k.real_prio EXCEPT ![u] = p]
  BY <1>0 DEF Shape, Fields
<1> HIDE DEF m
<1>3. CASE k' = m /\ k.prio[u] # k.real_prio[u]
  <2>1. Ordered(m)
    BY <1>2 DEF UrgencyOK, Ordered
  <2>2. ASSUME NEW v \in Task PROVE Lent(m, v)
    <3>1. Lent(k, v)
      BY DEF UrgencyOK
    <3>2. CASE v = u
      BY <1>2, <1>3, <3>1, <3>2 DEF Lent
    <3>3. CASE v # u
      BY <1>0, <1>2, <3>1, <3>3 DEF Lent
    <3> QED BY <3>2, <3>3
  <2> QED BY <1>3, <2>1, <2>2 DEF UrgencyOK
<1>4. CASE k' = [n EXCEPT !.pendsv = TRUE]
  <2>1. Fits(m)
    BY <1>0, <1>2 DEF Fits, QueuedFor
  <2>2. Fits(n) /\ Keeps(m, n) /\ (Ordered(m) => Ordered(n)) /\ n.prio = [m.prio EXCEPT ![u] = p]
    BY <1>0, <2>1, ReallocateReorders
  <2> HIDE DEF n
  <2>3. Ordered(n)
    BY <1>2, <2>2 DEF UrgencyOK, Ordered
  <2>4. ASSUME NEW v \in Task PROVE Lent(n, v)
    <3>1. Lent(k, v)
      BY DEF UrgencyOK
    <3>2. CASE v = u
      <4>1. n.prio[u] = p /\ n.real_prio[u] = p
        BY <1>0, <1>2, <2>2 DEF Keeps
      <4> QED BY <3>2, <4>1 DEF Lent
    <3>3. CASE v # u
      <4>1. Lent(m, v) /\ n.prio[v] = m.prio[v]
        BY <1>0, <1>2, <2>2, <3>1, <3>3 DEF Lent
      <4> QED BY <2>2, <4>1, KeepsLent
    <3> QED BY <3>2, <3>3
  <2>5. Only(n, k', {"pendsv"}) /\ k'.state = n.state
    BY <1>4, <2>2 DEF Fits, Shape, Only, Fields
  <2>6. UrgencyOK(n)
    BY <2>3, <2>4 DEF UrgencyOK
  <2> QED BY <2>5, <2>6, ThinsOnly, ThinsUrgency
<1> QED BY <1>1, <1>3, <1>4

\* isix_task_kill: what u owns goes to the waiters, and u itself needs no
\* priority any more.
LEMMA TaskKillUrgent ==
  ASSUME KernelOK(k, call), UrgencyOK(k), NEW t \in Task, NEW u \in Tasks, TaskKill(t, u)
  PROVE  UrgencyOK(k')
<1> DEFINE m1  == mutex_unlock_all_in_task(k, u)
           ws  == m1.wait_list[u]
           msg == IF u = k.currp THEN EOK ELSE EDESTROY
           m2  == wakeup(unlink(m1, Range(ws)), ws, msg)
           m3  == kill_or_suspend(m2, u, FALSE)
           m4  == leave(m3, u)
           b   == m4.pendsv \/ (u # k.currp /\ \E w \in Range(k.wait_list[u]) : prio_gt(m4.prio[w], m4.prio[k.currp]))
<1>0. CoreInv(k, call, {}) /\ OwnersOK(k)
  BY KernelShape
<1>1. u \in Task /\ u # Idle /\ k.state[u] \notin Gone /\ u \in Obj \ Mtxs
  BY TaskAssumption DEF TaskKill, Handle, Dead, Gone, Task, Obj, Object
<1>2. k' = [m4 EXCEPT !.pendsv = b]
  BY DEF TaskKill, task_kill, wake_exit_waiters
<1>3. KernelOK(m1, call) /\ Reorders(k, m1, {u}) /\ m1.state[u] \notin Gone
  BY <1>0, <1>1, UnlockAllOK, UnlockAllReorders DEF KernelOK
<1> HIDE DEF m1
<1>4. ws \in Seq(Task) /\ Distinct(ws) /\ msg \in Msg
  <2>1. m1 \in Kernel /\ WaitPlaced(m1, call, {})
    BY <1>3, CoreParts DEF KernelOK
  <2> QED BY <1>1, <2>1, KernelTypes DEF WaitPlaced, Msg
<1>5. KernelOK(m2, call) /\ Thins(m1, m2) /\ m2.state[u] \notin Gone
  <2> HIDE DEF msg
  <2>0. Only(m2, m2, {"pendsv", "evbits", "bitset", "live", "evt", "bitno"})
    BY DEF Only
  <2> DEFINE q == ws
  <2>1. q \in Seq(Task) /\ Distinct(q) /\ Range(q) \subseteq Range(m1.wait_list[u]) /\ q = ws
    BY <1>4
  <2> HIDE DEF q
  <2>2. /\ CoreInv(m2, call, {}) /\ OwnersOK(m2) /\ m2 \in Kernel
        /\ SameCore(m1, m2) /\ SameRest(m1, m2) /\ m2.prio = m1.prio /\ m2.pendsv = m1.pendsv
        /\ m2.jiffies = m1.jiffies
        /\ \A v \in Task :
             /\ m2.state[v] = IF v \in Range(ws) THEN "READY" ELSE m1.state[v]
             /\ m2.obj[v] = IF v \in Range(ws) THEN msg ELSE m1.obj[v]
             /\ m2.evbits[v] = IF v \in Range(ws) THEN NoBits ELSE m1.evbits[v]
        /\ \A p \in Obj : Range(m2.wait_list[p]) = Range(m1.wait_list[p]) \ Range(ws)
    <3>1. CoreInv(m1, call, {}) /\ OwnersOK(m1)
      BY <1>3 DEF KernelOK
    <3> QED BY <1>1, <1>4, <2>1, <3>1, WakeWaitersOK
  <2>3. Thins(m1, m2)
    BY <1>1, <1>3, <2>0, <2>1, ThinsWakeSome
  <2> HIDE DEF m2
  <2>4. m2.state[u] = IF u \in Range(ws) THEN "READY" ELSE m1.state[u]
    BY <1>1, <2>2
  <2> QED BY <1>3, <2>2, <2>3, <2>4 DEF KernelOK, Gone
<1> HIDE DEF m2, ws, msg
<1>6. Reorders(m2, m3, {}) /\ Shape(m3) /\ m3.state[u] = "ZOMBIE"
  BY <1>1, <1>5, KillOrSuspendReorders
<1> HIDE DEF m3
<1>7. UrgencyOK(m3)
  <2>1. Reorders(m1, m2, {u})
    BY <1>5, ThinsReorders
  <2>2. Reorders(m2, m3, {u})
    BY <1>6 DEF Reorders
  <2>3. Reorders(k, m3, {u})
    BY <1>3, <2>1, <2>2, ReordersTrans
  <2>4. Lent(m3, u)
    BY <1>6 DEF Lent, Gone
  <2> QED BY <2>3, <2>4, ReordersUrgency
<1>8. Thins(m3, m4) /\ DOMAIN m4 = Fields
  BY <1>6, LeaveThins DEF Shape, leave
<1> HIDE DEF m4, b
<1>9. Only(m4, k', {"pendsv"}) /\ k'.state = m4.state
  BY <1>2, <1>8 DEF Only, Fields
<1> QED BY <1>7, <1>8, <1>9, ThinsOnly, ThinsUrgency

\* The operations on tasks.
LEMMA TaskOpsUrgent ==
  ASSUME KernelOK(k, call), UrgencyOK(k), TaskOps
  PROVE  UrgencyOK(k')
<1>0. DOMAIN k = Fields /\ Shape(k) /\ k \in Kernel /\ k.state \in [Task -> State]
  BY KernelShape
<1>1. ASSUME NEW t \in Task, NEW u \in Tasks, TaskSuspend(t, u) PROVE UrgencyOK(k')
  <2>1. u \in Task /\ u # Idle /\ k.state[u] \notin Gone
    BY <1>1, TaskAssumption DEF TaskSuspend, Handle, Dead, Gone, Task
  <2>2. Reorders(k, k', {})
    BY <1>1, <2>1, KillOrSuspendReorders DEF TaskSuspend
  <2> QED BY <2>2, ReordersUrgency
<1>2. ASSUME NEW t \in Task, NEW u \in Tasks, TaskResume(t, u) PROVE UrgencyOK(k')
  <2> DEFINE q == <<u>>
             p == wakeup(k, q, EOK)
  <2>1. u \in Task /\ k.state[u] \notin Gone /\ k' = do_reschedule(p, u)
    BY <1>2 DEF TaskResume, task_resume, Gone, Task
  <2>2. Range(q) = {u}
    BY <2>1, OneElement
  <2> HIDE DEF q
  <2>3. /\ Shape(p) /\ Only(k, p, {"p_wait", "pov_wait", "deadline", "left", "obj", "evbits", "bug", "state", "ready"})
        /\ p.state = [v \in Task |-> IF v \in Range(q) THEN "READY" ELSE k.state[v]]
        /\ p.obj = [v \in Task |-> IF v \in Range(q) THEN EOK ELSE k.obj[v]]
        /\ p.evbits = [v \in Task |-> IF v \in Range(q) THEN NoBits ELSE k.evbits[v]]
    BY ONLY <1>0, WakeupFields
  <2> HIDE DEF p
  <2>4. Only(p, k', {"pendsv"})
    BY <2>1, <2>3, RescheduleFields
  <2>5. \A v \in Task : p.state[v] \notin Gone => k.state[v] \notin Gone
    BY <2>1, <2>2, <2>3
  <2>6. Thins(k, p)
    BY <2>3, <2>5, ThinsOnly
  <2>7. k'.state = p.state
    BY <2>4 DEF Only, Fields
  <2> QED BY <2>4, <2>6, <2>7, ThinsOnly, ThinsUrgency
<1>3. ASSUME NEW t \in Task, NEW u \in Tasks, TaskRef(t, u) \/ TaskUnref(t, u) PROVE UrgencyOK(k')
  <2>1. Only(k, k', {"refcnt"})
    BY <1>0, <1>3 DEF TaskRef, TaskUnref, Only, Fields
  <2> QED BY <2>1, StoreUrgent
<1>4. ASSUME NEW t \in Task, k' = k \/ k' = leave(k, t) PROVE UrgencyOK(k')
  BY <1>0, <1>4, LeaveThins, ThinsUrgency
<1>5. ASSUME NEW t \in Task, NEW u \in Tasks, TaskWaitFor(t, u) PROVE UrgencyOK(k')
  <2> DEFINE n == [k EXCEPT !.wait_aborted = [@ EXCEPT ![t] = FALSE]]
             m == set_sleep(n, "WTEXIT")
  <2>1. t = k.currp /\ k.state[t] \in Up
    <3>1. CASE MayBlock(t)
      BY <3>1, RunningUp DEF MayBlock
    <3>2. CASE Exec(t) /\ call[t].op = "exit" /\ call[t].pc = "enter"
      BY <3>2, EnterUp DEF Blocking
    <3> QED BY <1>5, <3>1, <3>2 DEF TaskWaitFor
  <2>2. k' = leave(k, t) \/ k' = [m EXCEPT !.wait_list[u] = Append(@, t)]
    BY <1>5 DEF TaskWaitFor
  <2>3. CASE k' = [m EXCEPT !.wait_list[u] = Append(@, t)]
    <3>1. Shape(n) /\ Only(k, n, {"wait_aborted"}) /\ n.currp = k.currp /\ n.state = k.state
      BY <1>0 DEF Shape, Only, Fields
    <3> HIDE DEF n
    <3>2. Shape(m) /\ Only(n, m, {"ready", "state"}) /\ m.state = [n.state EXCEPT ![n.currp] = "WTEXIT"]
      <4>1. "WTEXIT" \in State /\ n.currp \in Task
        BY <2>1, <3>1 DEF State
      <4> QED BY <3>1, <4>1, SleepFields
    <3> HIDE DEF m
    <3>3. Only(m, k', {"wait_list"}) /\ k'.wait_list = [m.wait_list EXCEPT ![u] = Append(@, t)]
      BY <2>3, <3>2 DEF Shape, Only, Fields
    <3>4. /\ k'.prio = k.prio /\ k'.real_prio = k.real_prio /\ k'.owner = k.owner /\ m.wait_list = k.wait_list
          /\ k'.state = [k.state EXCEPT ![t] = "WTEXIT"]
      BY <2>1, <3>1, <3>2, <3>3 DEF Only, Fields
    <3>5. \A v \in Task : k'.state[v] \notin Gone => k.state[v] \notin Gone
      BY <1>0, <2>1, <3>4 DEF Up, Gone
    <3>6. \A o \in Prioritised : k'.wait_list[o] = k.wait_list[o]
      <4>1. \A o \in Prioritised : o \in Obj /\ o # u
        BY PrioritisedLists, SyncObjects DEF Prioritised, Task
      <4>2. k.wait_list \in [Obj -> Seq(Task)]
        BY KernelShape
      <4> QED BY <3>3, <3>4, <4>1, <4>2
    <3> QED BY <3>4, <3>5, <3>6, ThinsOther, ThinsUrgency
  <2> QED BY <1>4, <2>2, <2>3
<1>6. ASSUME NEW t \in Task, TaskWaitForReturn(t) PROVE UrgencyOK(k')
  <2>1. k' = k \/ k' = leave(k, t)
    BY <1>6 DEF TaskWaitForReturn
  <2> QED BY <1>4, <2>1
<1>7. ASSUME Cleanup PROVE UrgencyOK(k')
  <2> DEFINE u == Head(k.zombie)
  <2>1. k' = [k EXCEPT !.zombie = Tail(@), !.state = [@ EXCEPT ![u] = "EXITED"]]
    BY <1>7 DEF Cleanup
  <2> HIDE DEF u
  <2>2. Only(k, k', {"zombie", "state"}) /\ k'.state = [k.state EXCEPT ![u] = "EXITED"]
    BY <1>0, <2>1 DEF Only, Fields
  <2>3. \A v \in Task : k'.state[v] \notin Gone => k.state[v] \notin Gone
    BY <1>0, <2>2 DEF Gone
  <2> QED BY <2>2, <2>3, ThinsOnly, ThinsUrgency
<1> QED BY <1>1, <1>2, <1>3, <1>5, <1>6, <1>7, TaskCreateUrgent, FreeTcbUrgent, TaskChangePrioUrgent,
           TaskKillUrgent DEF TaskOps

-----------------------------------------------------------------------------
\* At first nobody waits, and everybody has the priority of its own.
LEMMA InitUrgent ==
  ASSUME Init
  PROVE  UrgencyOK(k)
<1>1. k.wait_list = [o \in Obj |-> <<>>] /\ k.prio = k.real_prio
  BY DEF Init, InitKernel
<1>2. \A o \in Prioritised : k.wait_list[o] = <<>>
  BY <1>1, PrioritisedLists, SyncObjects DEF Prioritised
<1>3. Ordered(k)
  BY <1>2 DEF Ordered, SortedBy
<1> QED BY <1>1, <1>3 DEF UrgencyOK, Lent

\* Every step keeps the lists in order and every lent priority justified.
LEMMA UrgentStep ==
  ASSUME KernelOK(k, call), UrgencyOK(k), [Next]_vars
  PROVE  KernelOK(k', call') /\ UrgencyOK(k')
<1>1. KernelOK(k', call')
  BY NextOK
<1>2. UrgencyOK(k')
  <2>1. CASE Next
    BY <1>1, <2>1, MachineUrgent, SchedOpsUrgent, SemOpsUrgent, EventOpsUrgent, ConnectOpsUrgent, MtxOpsUrgent,
       CondOpsUrgent, TaskOpsUrgent DEF Next
  <2>2. CASE UNCHANGED vars
    <3>1. k' = k
      BY <2>2 DEF vars
    <3> QED BY <3>1
  <2> QED BY <2>1, <2>2
<1> QED BY <1>1, <1>2

(***************************************************************************)
(* prio_queue.c, _isixp_reallocate_priority, mutex.c: the waiters of every *)
(* semaphore, mutex and condition variable stay sorted by the priority     *)
(* they have now, so that a signal, an unlock or a broadcast serves the    *)
(* most urgent one first - also when a mutex lends a waiter a priority or  *)
(* takes it back, when isix_task_change_prio changes it, and when a task   *)
(* that waits is suspended, killed or timed out.                           *)
(***************************************************************************)
THEOREM IsixWaitLists == Spec => []WaitListsSorted
<1> DEFINE I == KernelOK(k, call) /\ UrgencyOK(k)
<1>1. Init => I
  BY InitOK, InitUrgent
<1>2. I /\ [Next]_vars => I'
  BY UrgentStep
<1>3. I => WaitListsSorted
  BY DEF UrgencyOK, Ordered, Prioritised, WaitListsSorted
<1> QED BY <1>1, <1>2, <1>3, PTL DEF Spec

(***************************************************************************)
(* mutex.c: inherited priority is given back.  A task that lives has a     *)
(* priority other than its own only while somebody waits for a mutex it    *)
(* owns, whatever ends the wait or the ownership: an unlock, an unlock of  *)
(* all, a hand-over, the destruction of the mutex, or the suspension or    *)
(* the end of the waiter or of the owner.                                  *)
(***************************************************************************)
THEOREM IsixInheritance == Spec => []InheritanceReturned
<1> DEFINE I == KernelOK(k, call) /\ UrgencyOK(k)
<1>1. Init => I
  BY InitOK, InitUrgent
<1>2. I /\ [Next]_vars => I'
  BY UrgentStep
<1>3. I => InheritanceReturned
  BY DEF UrgencyOK, Lent, Gone, InheritanceReturned
<1> QED BY <1>1, <1>2, <1>3, PTL DEF Spec

-----------------------------------------------------------------------------
(***************************************************************************)
(* What who waits for a mutex may rely on, without task control: the owner *)
(* is as urgent as the waiter itself is, and a lock that waited and        *)
(* succeeded has the mutex.  Both are kept with the order of the lists,    *)
(* since a hand-over goes to the first of a list.                          *)
(***************************************************************************)

\* A lock past the critical section that blocked it.
Locking(e) == e.op = "mtx" /\ e.pc \in {"yield", "after"}

\* It waits, was cut short, or was told the truth.
LockTold(m, e, t) ==
  Locking(e) => \/ m.state[t] = "WTMTX" \/ m.wait_aborted[t]
                \/ m.obj[t] = EOK => m.owner[e.o] = t

\* The owner of what w waits for is as urgent as w is by itself.
Lends(m, w) == m.state[w] = "WTMTX" => m.prio[m.owner[m.obj[w]]] <= m.real_prio[w]

\* Without recursion a wait for a condition gives the mutex away.
GivenAway(m, e, t) == MaxCount = 1 /\ e.op = "cond" => m.owner[e.o] # t

Single(m) == MaxCount = 1 => \A x \in Mtxs : m.count[x] <= 1

MutexOK(m, c) ==
  /\ \A t \in Task : m.prio[t] <= m.real_prio[t] /\ Lends(m, t)
  /\ \A t \in Task : LockTold(m, c[t], t) /\ GivenAway(m, c[t], t)
  /\ Single(m)

\* No mutex, and nobody who waits for one, is concerned; the tasks of T are
\* told something else.
Aside(m, r, T) ==
  /\ r.prio = m.prio /\ r.real_prio = m.real_prio /\ r.owner = m.owner /\ r.count = m.count
  /\ \A t \in Task \ T : /\ r.obj[t] = m.obj[t] /\ r.wait_aborted[t] = m.wait_aborted[t]
                         /\ r.state[t] = "WTMTX" <=> m.state[t] = "WTMTX"
  /\ \A t \in T : r.state[t] # "WTMTX"

\* The calls d are where the calls c were, as far as mutexes are concerned.
SameLocks(c, d) ==
  \A t \in Task : /\ Locking(d[t]) => Locking(c[t]) /\ d[t].o = c[t].o
                  /\ d[t].op = "cond" => c[t].op = "cond" /\ d[t].o = c[t].o

\* Such a step changes nothing of this.
LEMMA AsideOK ==
  ASSUME NEW m, NEW c, NEW r, NEW d, MutexOK(m, c), SameLocks(c, d),
         NEW T, Aside(m, r, T), \A t \in Task \cap T : ~Locking(d[t])
  PROVE  MutexOK(r, d)
<1>1. \A t \in Task : r.prio[t] <= r.real_prio[t]
  BY DEF MutexOK, Aside
<1>2. ASSUME NEW t \in Task PROVE Lends(r, t)
  BY DEF MutexOK, Aside, Lends
<1>3. ASSUME NEW t \in Task PROVE LockTold(r, d[t], t)
  BY DEF MutexOK, Aside, LockTold, SameLocks
<1>4. ASSUME NEW t \in Task PROVE GivenAway(r, d[t], t)
  BY DEF MutexOK, Aside, GivenAway, SameLocks
<1>5. Single(r)
  BY DEF MutexOK, Aside, Single
<1> QED BY <1>1, <1>2, <1>3, <1>4, <1>5 DEF MutexOK

\* A store into fields this does not speak of.
LEMMA StoreAside ==
  ASSUME NEW m, NEW r, NEW F, Only(m, r, F),
         F \cap {"prio", "real_prio", "owner", "count", "obj", "wait_aborted", "state"} = {}
  PROVE  Aside(m, r, {})
BY DEF Only, Fields, Aside

\* Who waits, but not for a mutex, is in no lock.
LEMMA OtherWait ==
  ASSUME NEW m, NEW c, KernelOK(m, c), NEW t \in Task, m.state[t] \in {"WTSEM", "WTEVT", "WTCOND"}
  PROVE  ~Locking(c[t])
<1>1. Blocked(m.state[t], c[t], m.obj[t], m.wait_aborted[t])
  BY KernelShape, CoreParts DEF BlockedOK
<1> QED BY <1>1 DEF Blocked, Locking

\* The passing of time ends no wait for a mutex.
LEMMA PassesAside ==
  ASSUME NEW m, NEW c, KernelOK(m, c), NEW n, Passes(m, n), MutexOK(m, c)
  PROVE  MutexOK(n, c)
<1> DEFINE T == {t \in Task : m.state[t] \in {"WTSEM", "WTEVT", "WTCOND"} /\ n.state[t] = "READY"}
<1>1. /\ n.prio = m.prio /\ n.real_prio = m.real_prio /\ n.owner = m.owner /\ n.count = m.count
      /\ n.wait_aborted = m.wait_aborted
  BY DEF Passes, Only, Timing, Fields
<1>2. \A t \in Task \ T : n.obj[t] = m.obj[t] /\ (n.state[t] = "WTMTX" <=> m.state[t] = "WTMTX")
  BY DEF Passes, SameMsg
<1>3. Aside(m, n, T)
  BY <1>1, <1>2 DEF Aside
<1>4. \A t \in Task \cap T : ~Locking(c[t])
  BY OtherWait
<1> HIDE DEF T
<1>5. SameLocks(c, c)
  BY DEF SameLocks
<1> QED BY <1>3, <1>4, <1>5, AsideOK

\* The machine itself.
LEMMA MachineMutex ==
  ASSUME KernelOK(k, call), KernelOK(k', call'), MutexOK(k, call), Machine
  PROVE  MutexOK(k', call')
<1>0. DOMAIN k = Fields /\ SameLocks(call, call) /\ call \in [Task -> Call]
  BY KernelShape DEF SameLocks
<1>1. CASE SysTick
  <2>1. PICK n, r : /\ KernelOK(n, call) /\ Only(k, n, {"left"}) /\ Passes(n, r) /\ KernelOK(r, call)
                    /\ Only(r, k', {"pendsv", "skipped"})
    BY <1>1, SysTickPasses
  <2>2. call' = call
    BY <1>1, SysTickPasses
  <2>3. Aside(k, n, {}) /\ Aside(r, k', {})
    BY <2>1, StoreAside
  <2>4. MutexOK(n, call)
    BY <1>0, <2>3, AsideOK
  <2>5. MutexOK(r, call)
    BY <2>1, <2>4, PassesAside
  <2> QED BY <1>0, <2>2, <2>3, <2>5, AsideOK
<1>2. CASE PendSV
  <2>1. /\ Only(k, k', {"bug", "ready", "state", "currp", "pendsv", "yield_pending"})
        /\ SameTasks(k, k', {}) /\ call' = call
    BY <1>2, PendSVEffect DEF PendSV
  <2>2. Aside(k, k', {})
    BY <2>1 DEF Only, Fields, Aside, SameTasks, Up
  <2> QED BY <1>0, <2>1, <2>2, AsideOK
<1>3. ASSUME NEW t \in Task, Yield(t) PROVE MutexOK(k', call')
  <2>1. Only(k, k', {"pendsv"})
    BY <1>0, <1>3 DEF Yield, port_yield, Only, Fields
  <2>2. SameLocks(call, call')
    <3>1. call' = [call EXCEPT ![t] = NoCall] \/ call' = [call EXCEPT ![t] = [@ EXCEPT !.pc = "after"]]
      BY <1>0, <1>3 DEF Yield
    <3>2. call[t].pc = "yield" /\ call[t] \in Call
      BY <1>0, <1>3 DEF Yield
    <3> QED BY <1>0, <3>1, <3>2 DEF SameLocks, Locking, NoCall, Call
  <2>3. Aside(k, k', {})
    BY <2>1, StoreAside
  <2> QED BY <2>2, <2>3, AsideOK
<1> QED BY <1>1, <1>2, <1>3 DEF Machine

\* Sleeping concerns no mutex.
LEMMA SleepOpsMutex ==
  ASSUME KernelOK(k, call), MutexOK(k, call), SleepOps
  PROVE  MutexOK(k', call')
<1>0. DOMAIN k = Fields /\ Shape(k) /\ k.currp \in Task /\ call \in [Task -> Call]
  BY KernelShape
<1>1. PICK t \in Task, timeout \in Timeouts : Wait(t, timeout)
  BY DEF SleepOps
<1>2. k.state[k.currp] \in Up /\ t = k.currp
  BY <1>1, RunningUp DEF Wait, MayBlock
<1>3. /\ Only(k, k', {"ready", "state", "deadline", "left", "p_wait", "pov_wait"})
      /\ k'.state = [k.state EXCEPT ![k.currp] = "SLEEPING"]
  BY <1>0, <1>1, SleepFields DEF Wait, State
<1>4. Aside(k, k', {})
  BY <1>0, <1>2, <1>3 DEF Only, Fields, Aside, Up, Shape
<1>5. call' = [call EXCEPT ![t] = [NoCall EXCEPT !.op = "sleep", !.pc = "yield"]]
  BY <1>1 DEF Wait
<1>6. SameLocks(call, call')
  BY <1>0, <1>5 DEF SameLocks, Locking, NoCall
<1> QED BY <1>4, <1>6, AsideOK

\* The head of a list in order is the most urgent of it.
LEMMA HeadFirst ==
  ASSUME NEW s \in Seq(Task), NEW key \in [Task -> Prio], SortedBy(s, key), NEW v \in Range(s)
  PROVE  key[Head(s)] <= key[v]
<1>1. Len(s) \in Nat /\ DOMAIN s = 1 .. Len(s) /\ \A i \in 1 .. Len(s) : s[i] \in Task
  BY LenProperties, ElementOfSeq
<1>2. PICK i \in 1 .. Len(s) : s[i] = v
  BY <1>1 DEF Range
<1>3. s # <<>>
  BY EmptyRange
<1>4. Head(s) = s[1] /\ 1 \in 1 .. Len(s)
  BY <1>1, <1>2, <1>3, HeadTailProperties
<1>5. CASE i = 1
  <2>1. key[v] \in Prio /\ Head(s) = v
    BY <1>1, <1>2, <1>4, <1>5
  <2> QED BY <2>1, Prios
<1>6. CASE i # 1
  <2>1. 1 < i
    BY <1>1, <1>6
  <2> QED BY <1>1, <1>2, <1>4, <2>1 DEF SortedBy
<1> QED BY <1>5, <1>6

\* calc_inherited_priority is as urgent as the task itself and as whoever waits
\* for what it owns.
LEMMA CalcCovers ==
  ASSUME NEW m, Fits(m), NEW t \in Task, OwnsListed(m, t), Ordered(m)
  PROVE  /\ calc_inherited_priority(m, t) \in Prio
         /\ calc_inherited_priority(m, t) <= m.real_prio[t]
         /\ \A x \in Range(m.owned[t]) : \A v \in Range(m.wait_list[x]) :
              calc_inherited_priority(m, t) <= m.prio[v]
<1> DEFINE Y == {y \in Range(m.owned[t]) : m.wait_list[y] # <<>>}
           B == {m.prio[Head(m.wait_list[x])] : x \in Y}
           T == {m.real_prio[t]} \cup B
           np == calc_inherited_priority(m, t)
<1>1. np = Min(T)
  BY DEF calc_inherited_priority
<1>2. m.real_prio[t] \in Prio /\ m.prio \in [Task -> Prio] /\ m.wait_list \in [Obj -> Seq(Task)]
  BY DEF Fits
<1>3. \A y \in Y : /\ m.wait_list[y] \in Seq(Task) /\ m.wait_list[y] # <<>> /\ y \in Prioritised
                   /\ Head(m.wait_list[y]) \in Task /\ m.prio[Head(m.wait_list[y])] \in B
  <2> SUFFICES ASSUME NEW y \in Y
               PROVE  /\ m.wait_list[y] \in Seq(Task) /\ m.wait_list[y] # <<>> /\ y \in Prioritised
                      /\ Head(m.wait_list[y]) \in Task /\ m.prio[Head(m.wait_list[y])] \in B
    OBVIOUS
  <2>1. y \in Mtxs /\ m.wait_list[y] # <<>>
    BY DEF OwnsListed
  <2>2. m.wait_list[y] \in Seq(Task) /\ y \in Prioritised
    BY <1>2, <2>1, MutexObjects DEF Prioritised
  <2> QED BY <2>1, <2>2, EmptyRange
<1>4. T \subseteq Prio /\ T # {} /\ m.real_prio[t] \in T /\ B \subseteq T
  BY <1>2, <1>3
<1>5. \A x \in Range(m.owned[t]) : m.wait_list[x] # <<>> => x \in Y
  OBVIOUS
<1>6. \A x \in Range(m.owned[t]) : x \in Mtxs
  BY DEF OwnsListed
<1> HIDE DEF B, Y, np, T
<1>7. \E n \in T : \A i \in T : n <= i
  BY <1>4, LeastNat, Prios
<1>8. Min(T) \in T /\ \A i \in T : Min(T) <= i
  BY <1>7 DEF Min
<1>9. ASSUME NEW x \in Range(m.owned[t]), NEW v \in Range(m.wait_list[x]) PROVE np <= m.prio[v]
  <2>1. m.wait_list[x] \in Seq(Task)
    BY <1>2, <1>6, MutexObjects
  <2>2. m.wait_list[x] # <<>> /\ v \in Task
    BY <1>9, <2>1, EmptyRange
  <2>3. x \in Y
    BY <1>5, <2>2
  <2>4. m.prio[Head(m.wait_list[x])] <= m.prio[v]
    BY <1>2, <1>3, <1>9, <2>1, <2>3, HeadFirst DEF Ordered
  <2>5. np <= m.prio[Head(m.wait_list[x])] /\ np \in Prio
    BY <1>1, <1>3, <1>4, <1>8, <2>3
  <2>6. m.prio[Head(m.wait_list[x])] \in Prio /\ m.prio[v] \in Prio
    BY <1>2, <1>3, <2>2, <2>3
  <2> QED BY <2>4, <2>5, <2>6, Prios
<1> QED BY <1>1, <1>4, <1>8, <1>9 DEF np

\* The mutexes X of t go to their first waiters S or become free, and t is left
\* with a priority that covers itself and who waits for its other mutexes.
HandedOver(m, r, t, X, S) ==
  /\ r.real_prio = m.real_prio /\ r.wait_aborted = m.wait_aborted
  /\ r.prio \in [Task -> Prio] /\ \A u \in Task \ {t} : r.prio[u] = m.prio[u]
  /\ r.prio[t] <= m.real_prio[t]
  /\ \A v \in Task : m.state[v] = "WTMTX" /\ m.obj[v] \notin X /\ m.owner[m.obj[v]] = t
                       => r.prio[t] <= m.real_prio[v]
  /\ \A y \in Mtxs \ X : r.owner[y] = m.owner[y] /\ r.count[y] = m.count[y]
  /\ \A y \in Mtxs \cap X :
       /\ m.owner[y] = t /\ r.count[y] <= 1
       /\ \/ m.wait_list[y] = <<>> /\ r.owner[y] = Null
          \/ m.wait_list[y] # <<>> /\ r.owner[y] = Head(m.wait_list[y]) /\ Head(m.wait_list[y]) \in S
  /\ \A s \in S : /\ s \in Task /\ m.state[s] = "WTMTX" /\ m.obj[s] \in Mtxs \cap X
                  /\ s = Head(m.wait_list[m.obj[s]])
                  /\ r.state[s] # "WTMTX" /\ r.obj[s] = EOK
  /\ \A u \in Task \ S : r.obj[u] = m.obj[u] /\ (r.state[u] = "WTMTX" <=> m.state[u] = "WTMTX")

\* Who waits for a mutex is in a lock of it, and on its list.
LEMMA LockWaits ==
  ASSUME NEW m, NEW c, KernelOK(m, c), NEW v \in Task, m.state[v] = "WTMTX"
  PROVE  /\ m.obj[v] \in Mtxs /\ v \in Range(m.wait_list[m.obj[v]]) /\ Locking(c[v]) /\ c[v].o = m.obj[v]
         /\ m.owner[m.obj[v]] \in Task \ {v}
<1>1. WaitPlaced(m, c, {}) /\ BlockedOK(m, c, {}) /\ OwnersOK(m) /\ m.owner \in [Mtxs -> Task \cup {Null}]
  BY KernelShape, CoreParts
<1>2. Blocked(m.state[v], c[v], m.obj[v], m.wait_aborted[v])
  BY <1>1 DEF BlockedOK
<1>3. m.obj[v] \in Mtxs /\ Locking(c[v]) /\ c[v].o = m.obj[v]
  BY <1>2 DEF Blocked, Locking, Waiting
<1>4. m.obj[v] \in Obj /\ Aw(m, c, v) = m.obj[v] /\ m.state[v] \in Waiting
  BY <1>3, MutexObjects DEF Aw, Waiting
<1>5. v \in Range(m.wait_list[m.obj[v]])
  BY <1>1, <1>4 DEF WaitPlaced
<1>6. m.wait_list[m.obj[v]] # <<>>
  <2>1. m.wait_list[m.obj[v]] \in Seq(Task)
    BY <1>4, KernelShape
  <2> QED BY <1>5, <2>1, EmptyRange
<1> QED BY <1>1, <1>3, <1>5, <1>6 DEF OwnersOK

\* A hand-over leaves every waiter covered and every new owner told.
LEMMA HandedOverOK ==
  ASSUME NEW m, NEW c, KernelOK(m, c), MutexOK(m, c), Ordered(m),
         NEW t \in Task, ~Locking(c[t]), c[t].op # "cond",
         NEW r, NEW X, NEW S, HandedOver(m, r, t, X, S)
  PROVE  MutexOK(r, c)
<1> USE DEF HandedOver
<1>0. /\ m.prio \in [Task -> Prio] /\ m.real_prio \in [Task -> Prio] /\ m.wait_list \in [Obj -> Seq(Task)]
      /\ Prio \subseteq Int
  BY KernelShape, KernelTypes, Prios
<1>1. \A u \in Task : m.prio[u] <= m.real_prio[u] /\ Lends(m, u) /\ LockTold(m, c[u], u) /\ GivenAway(m, c[u], u)
  BY DEF MutexOK
<1>2. \A u \in Task : r.prio[u] <= r.real_prio[u]
  BY <1>1
<1>3. \A s \in S : s # t
  BY LockWaits
<1>4. ASSUME NEW v \in Task, r.state[v] = "WTMTX" PROVE r.prio[r.owner[r.obj[v]]] <= r.real_prio[v]
  <2>1. v \notin S /\ r.obj[v] = m.obj[v] /\ m.state[v] = "WTMTX"
    BY <1>4
  <2> DEFINE y == m.obj[v]
  <2>2. y \in Mtxs /\ v \in Range(m.wait_list[y]) /\ m.owner[y] \in Task
    BY <2>1, LockWaits
  <2>3. m.prio[v] \in Int /\ m.real_prio[v] \in Int /\ m.prio[v] <= m.real_prio[v]
    BY <1>0, <1>1
  <2>4. m.prio[m.owner[y]] <= m.real_prio[v]
    BY <1>1, <2>1 DEF Lends
  <2>5. CASE y \in X
    <3>1. m.wait_list[y] \in Seq(Task) /\ m.wait_list[y] # <<>>
      BY <1>0, <2>2, MutexObjects, EmptyRange
    <3>2. r.owner[y] = Head(m.wait_list[y]) /\ Head(m.wait_list[y]) \in S
      BY <2>2, <2>5, <3>1
    <3>3. m.prio[Head(m.wait_list[y])] <= m.prio[v]
      BY <1>0, <2>2, <3>1, HeadFirst DEF Ordered, Prioritised
    <3>4. Head(m.wait_list[y]) \in Task \ {t}
      BY <1>3, <3>2
    <3>5. r.prio[r.owner[y]] = m.prio[Head(m.wait_list[y])] /\ m.prio[Head(m.wait_list[y])] \in Int
      <4>1. \A u \in Task \ {t} : r.prio[u] = m.prio[u] /\ m.prio[u] \in Int
        BY <1>0
      <4> QED BY ONLY <3>2, <3>4, <4>1
    <3> HIDE DEF y
    <3> QED BY <2>1, <2>3, <3>3, <3>5 DEF y
  <2>6. CASE y \notin X /\ m.owner[y] = t
    <3>1. r.prio[t] <= m.real_prio[v] /\ r.owner[y] = t
      BY <2>1, <2>2, <2>6
    <3> QED BY <2>1, <3>1
  <2>7. CASE y \notin X /\ m.owner[y] # t
    <3>1. r.owner[y] = m.owner[y] /\ r.prio[m.owner[y]] = m.prio[m.owner[y]]
      BY <2>2, <2>7
    <3> QED BY <2>1, <2>4, <3>1
  <2> QED BY <2>5, <2>6, <2>7
<1>5. ASSUME NEW u \in Task PROVE LockTold(r, c[u], u)
  <2> SUFFICES ASSUME Locking(c[u])
               PROVE  r.state[u] = "WTMTX" \/ r.wait_aborted[u] \/ (r.obj[u] = EOK => r.owner[c[u].o] = u)
    BY DEF LockTold
  <2>1. CASE u \in S
    <3>1. c[u].o = m.obj[u] /\ u = Head(m.wait_list[m.obj[u]]) /\ m.obj[u] \in Mtxs \cap X
      BY <2>1, LockWaits
    <3>2. m.wait_list[m.obj[u]] # <<>>
      <4>1. m.wait_list[m.obj[u]] \in Seq(Task) /\ u \in Range(m.wait_list[m.obj[u]])
        BY <1>0, <2>1, <3>1, LockWaits, MutexObjects
      <4> QED BY <4>1, EmptyRange
    <3> QED BY <3>1, <3>2
  <2>2. CASE u \notin S
    <3>1. CASE m.state[u] = "WTMTX" \/ m.wait_aborted[u]
      BY <2>2, <3>1
    <3>2. CASE m.obj[u] = EOK => m.owner[c[u].o] = u
      <4>1. c[u].o \in Mtxs /\ u # t
        BY KernelShape DEF CallsOK, CallKind, Locking
      <4> QED BY <2>2, <3>2, <4>1
    <3> QED BY <1>1, <3>1, <3>2 DEF LockTold
  <2> QED BY <2>1, <2>2
<1>6. ASSUME NEW u \in Task PROVE GivenAway(r, c[u], u)
  <2> SUFFICES ASSUME MaxCount = 1, c[u].op = "cond" PROVE r.owner[c[u].o] # u
    BY DEF GivenAway
  <2>1. c[u].o \in Mtxs /\ ~Locking(c[u])
    BY KernelShape DEF CallsOK, CallKind, Locking
  <2>2. m.owner[c[u].o] # u
    BY <1>1 DEF GivenAway
  <2>3. u \notin S /\ u # Null
    BY <2>1, LockWaits, MutexObjects
  <2> QED BY <2>1, <2>2, <2>3
<1>7. Single(r)
  <2> SUFFICES ASSUME MaxCount = 1, NEW y \in Mtxs PROVE r.count[y] <= 1
    BY DEF Single
  <2>1. m.count[y] <= 1
    BY DEF MutexOK, Single
  <2> QED BY <2>1
<1> QED BY <1>2, <1>4, <1>5, <1>6, <1>7 DEF MutexOK, Lends

\* The last isix_mutex_unlock.
LEMMA ReleaseHands ==
  ASSUME NEW m, NEW c, KernelOK(m, c), m.currp # Idle, m.state[m.currp] \in Up, Ordered(m), MutexOK(m, c),
         NEW x \in Mtxs, m.owner[x] = m.currp
  PROVE  \E S : HandedOver(m, mtx_release(m, x), m.currp, {x}, S)
<1> DEFINE t  == m.currp
           ws == m.wait_list[x]
           w  == Head(ws)
           m1 == [m EXCEPT !.bug = @ \/ x \notin Range(m.owned[t]), !.owned[t] = Without(@, {x})]
           np == calc_inherited_priority(m1, t)
           m2 == reallocate_priority(m1, t, np)
           n  == transfer(m2, x)
           q  == <<w>>
           p  == wakeup(n, q, EOK)
           r  == mtx_release(m, x)
<1>0. /\ m \in Kernel /\ CoreInv(m, c, {}) /\ Shape(m) /\ DOMAIN m = Fields /\ t \in Task /\ OwnersOK(m)
      /\ x \in Obj /\ ws \in Seq(Task) /\ m.owned \in [Task -> Seq(Mtxs)]
      /\ m.owner \in [Mtxs -> Task \cup {Null}] /\ m.count \in [Mtxs -> Nat] /\ m.prio \in [Task -> Prio]
      /\ m.real_prio \in [Task -> Prio]
  BY KernelShape, KernelTypes, MutexObjects
<1>1. Fits(m) /\ \A u \in Task : OwnsListed(m, u)
  BY FitsKernel
<1>2. /\ Shape(m1) /\ Only(m, m1, {"bug", "owned"})
      /\ m1.owned[t] = Without(m.owned[t], {x}) /\ m1.state = m.state /\ m1.wait_list = m.wait_list
      /\ m1.owner = m.owner /\ m1.prio = m.prio /\ m1.real_prio = m.real_prio /\ m1.count = m.count
      /\ m1.obj = m.obj /\ m1.wait_aborted = m.wait_aborted
  BY <1>0 DEF Shape, Only, Fields
<1>3. \/ ws = <<>> /\ r = [m1 EXCEPT !.count = [@ EXCEPT ![x] = 0], !.owner = [@ EXCEPT ![x] = Null]]
      \/ ws # <<>> /\ r = do_reschedule(p, w)
  BY DEF mtx_release
<1> SUFFICES \E S : HandedOver(m, r, t, {x}, S)
  OBVIOUS
<1> HIDE DEF m1, r
<1>4. Fits(m1)
  BY <1>1, <1>2, FitsStore
<1>5. Range(m1.owned[t]) = Range(m.owned[t]) \ {x}
  <2> HIDE DEF t
  <2>1. m.owned[t] \in Seq(Mtxs)
    BY <1>0
  <2> QED BY <1>2, <2>1, WithoutList
<1>6. OwnsListed(m1, t)
  <2> HIDE DEF t
  <2> QED BY <1>0, <1>1, <1>2, <1>5 DEF OwnsListed
<1>7. CASE ws = <<>> /\ r = [m1 EXCEPT !.count = [@ EXCEPT ![x] = 0], !.owner = [@ EXCEPT ![x] = Null]]
  <2>1. /\ r.prio = m.prio /\ r.real_prio = m.real_prio /\ r.wait_aborted = m.wait_aborted
        /\ r.state = m.state /\ r.obj = m.obj
        /\ r.owner = [m.owner EXCEPT ![x] = Null] /\ r.count = [m.count EXCEPT ![x] = 0]
    BY <1>2, <1>7 DEF Shape, Fields
  <2>2. \A v \in Task : m.state[v] = "WTMTX" /\ m.obj[v] \notin {x} /\ m.owner[m.obj[v]] = t
                         => r.prio[t] <= m.real_prio[v]
    BY <2>1 DEF MutexOK, Lends
  <2>3. /\ \A y \in Mtxs \ {x} : r.owner[y] = m.owner[y] /\ r.count[y] = m.count[y]
        /\ r.owner[x] = Null /\ r.count[x] = 0
    BY <1>0, <2>1
  <2>4. r.prio[t] <= m.real_prio[t]
    BY <1>0, <2>1 DEF MutexOK
  <2>5. HandedOver(m, r, t, {x}, {})
    <3> HIDE DEF t
    <3> QED BY <1>0, <1>7, <2>1, <2>2, <2>3, <2>4 DEF HandedOver, t
  <2> QED BY <2>5
<1>8. CASE ws # <<>> /\ r = do_reschedule(p, w)
  <2>1. w \in Range(ws) /\ w \in Task /\ q \in Seq(Task) /\ Range(q) = {w}
    <3>1. w \in Range(ws) /\ w \in Task
      BY <1>0, <1>8, EmptyRange
    <3> QED BY <3>1, OneElement
  <2>2. m.obj[w] = x /\ m.state[w] = "WTMTX"
    BY <1>0, <2>1, MutexWaiter
  <2>3. /\ np \in Prio /\ np <= m1.real_prio[t]
        /\ \A y \in Range(m1.owned[t]) : \A v \in Range(m1.wait_list[y]) : np <= m1.prio[v]
    <3>1. Ordered(m1)
      BY <1>2 DEF Ordered
    <3> HIDE DEF t
    <3> QED BY <1>0, <1>4, <1>6, <3>1, CalcCovers
  <2>4. Fits(m2) /\ m2.prio = [m1.prio EXCEPT ![t] = np]
    <3>1. m1.state[t] \in Up
      BY <1>2
    <3> HIDE DEF np, t
    <3> QED BY <1>0, <1>4, <2>3, <3>1, ReallocateReorders
  <2>5. /\ Shape(m2) /\ Only(m1, m2, {"prio", "ready", "state", "bug", "wait_list"})
        /\ SameTasks(m1, m2, {})
    BY <1>0, <1>2, ReallocateFields
  <2> HIDE DEF m2, np
  <2>6. /\ DOMAIN m2 = Fields /\ m2.owner = m.owner /\ m2.real_prio = m.real_prio /\ m2.count = m.count
        /\ m2.wait_aborted = m.wait_aborted
        /\ \A u \in Task : m2.obj[u] = m.obj[u] /\ (m2.state[u] = "WTMTX" <=> m.state[u] = "WTMTX")
    BY <1>2, <2>5 DEF Only, Fields, Shape, SameTasks, Up
  <2>7. /\ Shape(n) /\ n.prio = m2.prio /\ n.real_prio = m2.real_prio /\ n.wait_aborted = m2.wait_aborted
        /\ n.state = m2.state /\ n.obj = m2.obj
        /\ n.owner = [m2.owner EXCEPT ![x] = Head(m2.wait_list[x])] /\ n.count = [m2.count EXCEPT ![x] = 1]
    BY <2>5, <2>6 DEF transfer, unlink, Shape, Fields
  <2>8. Head(m2.wait_list[x]) = w
    <3>1. m1.state[t] \in Up
      BY <1>2
    <3>2. m2.wait_list = m1.wait_list
      <4> HIDE DEF t
      <4> QED BY <1>0, <1>4, <2>3, <3>1, ReallocateReorders DEF m2
    <3> QED BY <1>2, <3>2
  <2> HIDE DEF n, w
  <2>9. /\ Shape(p) /\ Only(n, p, {"p_wait", "pov_wait", "deadline", "left", "obj", "evbits", "bug", "state", "ready"})
        /\ p.state = [u \in Task |-> IF u \in Range(q) THEN "READY" ELSE n.state[u]]
        /\ p.obj = [u \in Task |-> IF u \in Range(q) THEN EOK ELSE n.obj[u]]
        /\ p.evbits = [u \in Task |-> IF u \in Range(q) THEN NoBits ELSE n.evbits[u]]
    <3> HIDE DEF q
    <3>1. Shape(n)
      BY <2>7
    <3> QED BY ONLY <3>1, WakeupFields
  <2> HIDE DEF p
  <2>10. Only(p, r, {"pendsv"})
    BY <1>8, <2>9, RescheduleFields
  <2>11. /\ r.prio = [m.prio EXCEPT ![t] = np] /\ r.real_prio = m.real_prio /\ r.wait_aborted = m.wait_aborted
         /\ r.owner = [m.owner EXCEPT ![x] = w] /\ r.count = [m.count EXCEPT ![x] = 1]
         /\ r.state = p.state /\ r.obj = p.obj
    BY <1>2, <2>4, <2>6, <2>7, <2>8, <2>9, <2>10 DEF Only, Fields
  <2>12. /\ r.state[w] = "READY" /\ r.obj[w] = EOK
         /\ \A u \in Task \ {w} : r.obj[u] = m.obj[u] /\ (r.state[u] = "WTMTX" <=> m.state[u] = "WTMTX")
    BY <2>1, <2>6, <2>7, <2>9, <2>11
  <2>13. /\ r.prio \in [Task -> Prio] /\ r.prio[t] = np
         /\ \A u \in Task \ {t} : r.prio[u] = m.prio[u]
    <3> HIDE DEF t
    <3> QED BY <1>0, <2>3, <2>11
  <2>14. ASSUME NEW v \in Task, m.state[v] = "WTMTX", m.obj[v] \notin {x}, m.owner[m.obj[v]] = t
         PROVE  np <= m.real_prio[v]
    <3>1. m.obj[v] \in Mtxs /\ v \in Range(m.wait_list[m.obj[v]])
      BY <2>14, LockWaits
    <3>2. m.obj[v] \in Range(m1.owned[t])
      BY <1>0, <1>5, <2>14, <3>1 DEF OwnersOK
    <3>3. np <= m.prio[v]
      BY <1>2, <2>3, <3>1, <3>2
    <3>4. m.prio[v] <= m.real_prio[v] /\ m.prio[v] \in Prio /\ m.real_prio[v] \in Prio
      BY <1>0 DEF MutexOK
    <3> QED BY <2>3, <3>3, <3>4, Prios
  <2>15. /\ \A y \in Mtxs \ {x} : r.owner[y] = m.owner[y] /\ r.count[y] = m.count[y]
         /\ r.owner[x] = w /\ r.count[x] = 1
    BY <1>0, <2>11
  <2>16. HandedOver(m, r, t, {x}, {w})
    <3>1. m.owner[x] = t /\ w = Head(m.wait_list[x]) /\ m.wait_list[x] # <<>> /\ np <= m.real_prio[t]
      BY <1>2, <1>8, <2>3 DEF w
    <3> HIDE DEF t, ws
    <3> QED BY <2>1, <2>2, <2>11, <2>12, <2>13, <2>14, <2>15, <3>1 DEF HandedOver
  <2> QED BY <2>16
<1> QED BY <1>3, <1>7, <1>8

\* isix_mutex_unlock: one level of the recursion less, or the hand-over.
LEMMA UnlockMutex ==
  ASSUME NEW m, NEW c, KernelOK(m, c), MutexOK(m, c), Ordered(m), m.currp # Idle, m.state[m.currp] \in Up,
         ~Locking(c[m.currp]), c[m.currp].op # "cond", NEW x \in Mtxs, m.owner[x] = m.currp
  PROVE  /\ MutexOK(mutex_unlock(m, x), c)
         /\ MaxCount = 1 => mutex_unlock(m, x).owner[x] # m.currp
<1> DEFINE n == [m EXCEPT !.count[x] = @ - 1]
<1>0. /\ DOMAIN m = Fields /\ m.count \in [Mtxs -> Nat] /\ m.currp \in Task /\ CoreInv(m, c, {})
      /\ m.wait_list \in [Obj -> Seq(Task)]
  BY KernelShape, KernelTypes
<1>1. CASE m.count[x] > 1
  <2>1. mutex_unlock(m, x) = n
    BY <1>1 DEF mutex_unlock
  <2>2. Only(m, n, {"count"}) /\ n.count = [m.count EXCEPT ![x] = @ - 1]
    BY <1>0 DEF Only, Fields
  <2> HIDE DEF n
  <2>3. /\ n.prio = m.prio /\ n.real_prio = m.real_prio /\ n.owner = m.owner /\ n.obj = m.obj
        /\ n.wait_aborted = m.wait_aborted /\ n.state = m.state
    BY <2>2 DEF Only, Fields
  <2>4. MaxCount # 1
    BY <1>0, <1>1 DEF MutexOK, Single
  <2>5. MutexOK(n, c)
    BY <2>3, <2>4 DEF MutexOK, Single, Lends, LockTold, GivenAway
  <2> QED BY <2>1, <2>4, <2>5
<1>2. CASE ~(m.count[x] > 1)
  <2> DEFINE r == mtx_release(m, x)
  <2>1. mutex_unlock(m, x) = r
    BY <1>2 DEF mutex_unlock
  <2>2. PICK S : HandedOver(m, r, m.currp, {x}, S)
    BY ReleaseHands
  <2> HIDE DEF r
  <2>3. MutexOK(r, c)
    BY <1>0, <2>2, HandedOverOK
  <2>4. r.owner[x] = Null \/ (m.wait_list[x] # <<>> /\ r.owner[x] = Head(m.wait_list[x]))
    BY <2>2 DEF HandedOver
  <2>5. r.owner[x] # m.currp
    <3>1. CASE r.owner[x] = Null
      BY <1>0, <3>1, MutexObjects
    <3>2. CASE m.wait_list[x] # <<>> /\ r.owner[x] = Head(m.wait_list[x])
      <4>1. Head(m.wait_list[x]) \in Range(m.wait_list[x])
        BY <1>0, <3>2, MutexObjects, EmptyRange
      <4>2. m.state[Head(m.wait_list[x])] \notin Up
        BY <1>0, <4>1, MutexWaiter
      <4> QED BY <3>2, <4>2
    <3> QED BY <2>4, <3>1, <3>2
  <2> QED BY <2>1, <2>3, <2>5
<1> QED BY <1>1, <1>2

\* _isixp_mutex_unlock_all_in_task of the current task.
LEMMA UnlockAllHands ==
  ASSUME NEW m, NEW c, KernelOK(m, c), m.currp # Idle, m.state[m.currp] \in Up
  PROVE  LET u == m.currp IN
         \E S : HandedOver(m, mutex_unlock_all_in_task(m, u), u, {x \in Mtxs : m.owner[x] = u}, S)
<1> DEFINE u  == m.currp
           ms == m.owned[u]
           hs == Keep(ms, {x \in Mtxs : m.wait_list[x] # <<>>})
           ws == [i \in 1 .. Len(hs) |-> Head(m.wait_list[hs[i]])]
           S  == Range(ws)
           X  == {x \in Mtxs : m.owner[x] = u}
           n0 == unlink(m, S)
           cn == [x \in Mtxs |-> CASE x \in Range(hs) -> 1
                                   [] x \in Range(ms) \ Range(hs) -> 0
                                   [] OTHER -> n0.count[x]]
           ow == [x \in Mtxs |-> CASE x \in Range(hs) -> Head(m.wait_list[x])
                                   [] x \in Range(ms) \ Range(hs) -> Null
                                   [] OTHER -> n0.owner[x]]
           od == [t \in Task |-> CASE t = u -> <<>>
                                   [] t \in Range(ws) -> InsertFirst(n0.owned[t], m.obj[t])
                                   [] OTHER -> n0.owned[t]]
           n1 == [n0 EXCEPT !.count = cn, !.owner = ow, !.owned = od]
           n2 == wakeup(n1, ws, EOK)
           n3 == inherit(n2, u)
           r  == mutex_unlock_all_in_task(m, u)
<1>0. /\ m \in Kernel /\ Fits(m) /\ Shape(m) /\ DOMAIN m = Fields /\ CoreInv(m, c, {}) /\ OwnersOK(m)
      /\ m.prio \in [Task -> Prio] /\ m.wait_list \in [Obj -> Seq(Task)] /\ m.real_prio \in [Task -> Prio]
      /\ u \in Task /\ m.count \in [Mtxs -> Nat]
  BY KernelShape, KernelTypes, FitsKernel
<1>1. r = IF ws = <<>> THEN n3 ELSE do_reschedule(n3, ws[1])
  BY DEF mutex_unlock_all_in_task
<1>2. /\ ws \in Seq(Task) /\ Distinct(ws)
      /\ \A x \in Mtxs : x \in Range(hs) <=> m.owner[x] = u /\ m.wait_list[x] # <<>>
      /\ \A x \in Range(hs) : Head(m.wait_list[x]) \in Range(ws)
      /\ \A t \in Range(ws) : /\ t \in Task /\ t # u /\ t # Idle /\ m.state[t] = "WTMTX"
                              /\ m.obj[t] \in Range(hs) /\ t = Head(m.wait_list[m.obj[t]])
      /\ Range(hs) \subseteq Mtxs
  <2>1. hs = Contended(m, u) /\ ws = Heirs(m, hs)
    BY DEF Contended, Heirs
  <2> HIDE DEF hs, ws, u
  <2> QED BY <1>0, <2>1, HeirsOK DEF u
<1>3. \A x \in Mtxs : x \in Range(ms) <=> m.owner[x] = u
  BY <1>0 DEF OwnersOK
<1> SUFFICES HandedOver(m, r, u, X, S)
  OBVIOUS
<1> HIDE DEF hs, ws, ms, r, u
<1>4. Shape(n0) /\ Only(m, n0, {"wait_list"}) /\ n0.wait_list = unlink(m, S).wait_list
  BY <1>0, UnlinkFields
<1> HIDE DEF n0, S
<1>5. n0.owner = m.owner /\ n0.count = m.count /\ n0.obj = m.obj /\ n0.state = m.state
  BY <1>4 DEF Only, Fields
<1>6. /\ \A y \in Mtxs \ X : ow[y] = m.owner[y] /\ cn[y] = m.count[y]
      /\ \A y \in Mtxs \cap X : /\ cn[y] <= 1
                                /\ \/ m.wait_list[y] = <<>> /\ ow[y] = Null
                                   \/ /\ m.wait_list[y] # <<>> /\ ow[y] = Head(m.wait_list[y])
                                      /\ Head(m.wait_list[y]) \in S
  <2>1. ASSUME NEW y \in Mtxs, m.owner[y] # u PROVE ow[y] = m.owner[y] /\ cn[y] = m.count[y]
    <3>1. y \notin Range(hs) /\ y \notin Range(ms)
      BY <1>2, <1>3, <2>1
    <3> QED BY <1>5, <3>1
  <2>2. ASSUME NEW y \in Mtxs, m.owner[y] = u, m.wait_list[y] # <<>>
        PROVE  ow[y] = Head(m.wait_list[y]) /\ cn[y] = 1 /\ Head(m.wait_list[y]) \in S
    <3>1. y \in Range(hs)
      BY <1>2, <2>2
    <3> QED BY <1>2, <3>1 DEF S
  <2>3. ASSUME NEW y \in Mtxs, m.owner[y] = u, m.wait_list[y] = <<>> PROVE ow[y] = Null /\ cn[y] = 0
    <3>1. y \notin Range(hs) /\ y \in Range(ms)
      BY <1>2, <1>3, <2>3
    <3> QED BY <3>1
  <2> HIDE DEF ow, cn
  <2> QED BY <2>1, <2>2, <2>3
<1>7. od[u] = <<>>
  <2>1. u \notin Range(ws)
    BY <1>2
  <2> QED BY <1>0, <2>1
<1> HIDE DEF cn, ow, od
<1>8. /\ Shape(n1) /\ Only(n0, n1, {"count", "owner", "owned"}) /\ n1.owner = ow /\ n1.owned = od /\ n1.count = cn
      /\ n1.state = n0.state /\ n1.obj = n0.obj
  BY <1>4 DEF Shape, Only, Fields
<1> HIDE DEF n1
<1>9. /\ Shape(n2) /\ Only(n1, n2, {"p_wait", "pov_wait", "deadline", "left", "obj", "evbits", "bug", "state", "ready"})
      /\ n2.state = [t \in Task |-> IF t \in Range(ws) THEN "READY" ELSE n1.state[t]]
      /\ n2.obj = [t \in Task |-> IF t \in Range(ws) THEN EOK ELSE n1.obj[t]]
      /\ n2.evbits = [t \in Task |-> IF t \in Range(ws) THEN NoBits ELSE n1.evbits[t]]
  BY ONLY <1>8, WakeupFields
<1> HIDE DEF n2
<1>10. /\ n2.wait_list = unlink(m, S).wait_list /\ n2.real_prio = m.real_prio /\ n2.prio = m.prio
       /\ n2.owner = ow /\ n2.owned = od /\ n2.count = cn /\ n2.wait_aborted = m.wait_aborted
  BY <1>4, <1>8, <1>9 DEF Only, Fields
<1>11. /\ \A t \in Task \ S : n2.state[t] = m.state[t] /\ n2.obj[t] = m.obj[t]
       /\ \A t \in Task \cap S : n2.state[t] = "READY" /\ n2.obj[t] = EOK
  BY <1>5, <1>8, <1>9 DEF S
<1>12. Fits(n2)
  BY <1>0, <1>9, <1>10, <1>11, FitsUnlinked
<1>13. OwnsListed(n2, u)
  <2>1. n2.owned[u] = <<>> /\ Range(<<>>) = {}
    BY <1>7, <1>10 DEF Range
  <2> QED BY <2>1 DEF OwnsListed
<1>14. calc_inherited_priority(n2, u) = m.real_prio[u]
  <2>1. n2.owned[u] = <<>> /\ Range(<<>>) = {}
    BY <1>7, <1>10 DEF Range
  <2>2. calc_inherited_priority(n2, u) \in Prio
    BY <1>0, <1>12, <1>13, CalcLent
  <2>3. calc_inherited_priority(n2, u) # n2.real_prio[u] => \E x \in Mtxs : x \in Range(n2.owned[u])
    BY <1>0, <1>12, <1>13, CalcLent
  <2> QED BY <1>10, <2>1, <2>3
<1>15. /\ Shape(n3) /\ Only(n2, n3, {"prio", "ready", "state", "bug", "wait_list"}) /\ SameTasks(n2, n3, {})
       /\ n3.prio = [m.prio EXCEPT ![u] = m.real_prio[u]]
  <2> DEFINE np == m.real_prio[u]
  <2>1. n3 = IF np = n2.prio[u] THEN n2 ELSE reallocate_priority(n2, u, np)
    BY <1>14 DEF inherit
  <2>2. np \in Prio
    BY <1>0
  <2> HIDE DEF n3, np
  <2>3. CASE n3 = n2 /\ np = n2.prio[u]
    <3>1. n3.prio = [m.prio EXCEPT ![u] = np]
      BY <1>0, <1>10, <2>3
    <3> QED BY <1>9, <2>3, <3>1 DEF np, Only, SameTasks
  <2>4. CASE n3 = reallocate_priority(n2, u, np)
    <3>1. n3.prio = [m.prio EXCEPT ![u] = np]
      BY <1>0, <1>10, <1>12, <2>2, <2>4, ReallocateReorders
    <3>2. /\ Shape(n3) /\ Only(n2, n3, {"prio", "ready", "state", "bug", "wait_list"})
          /\ SameTasks(n2, n3, {})
      BY <1>0, <1>9, <2>4, ReallocateFields
    <3> QED BY <3>1, <3>2 DEF np
  <2> QED BY <2>1, <2>3, <2>4
<1> HIDE DEF n3
<1>16. Only(n3, r, {"pendsv"})
  <2>1. CASE r = n3
    BY <2>1 DEF Only
  <2>2. CASE r = do_reschedule(n3, ws[1])
    BY <1>15, <2>2, RescheduleFields
  <2> QED BY <1>1, <2>1, <2>2
<1>17. /\ r.real_prio = m.real_prio /\ r.wait_aborted = m.wait_aborted /\ r.owner = ow /\ r.count = cn
       /\ r.prio = [m.prio EXCEPT ![u] = m.real_prio[u]] /\ r.state = n3.state /\ r.obj = n2.obj
  BY <1>10, <1>15, <1>16 DEF Only, Fields
<1>18. /\ \A t \in Task \ S : r.obj[t] = m.obj[t] /\ (r.state[t] = "WTMTX" <=> m.state[t] = "WTMTX")
       /\ \A t \in Task \cap S : r.state[t] # "WTMTX" /\ r.obj[t] = EOK
  BY <1>11, <1>15, <1>17 DEF SameTasks, Up
<1>19. /\ r.prio \in [Task -> Prio] /\ r.prio[u] = m.real_prio[u]
       /\ \A t \in Task \ {u} : r.prio[t] = m.prio[t]
  BY <1>0, <1>17
<1>20. \A s \in S : s \in Task /\ m.state[s] = "WTMTX" /\ m.obj[s] \in Mtxs \cap X /\ s = Head(m.wait_list[m.obj[s]])
  BY <1>2 DEF S
<1>21. \A v \in Task : m.state[v] = "WTMTX" /\ m.obj[v] \notin X => m.owner[m.obj[v]] # u
  BY LockWaits
<1>22. r.prio[u] <= m.real_prio[u]
  BY <1>0, <1>19, Prios
<1> QED BY <1>6, <1>17, <1>18, <1>19, <1>20, <1>21, <1>22 DEF HandedOver

\* isix_mutex_destroy: who is left without the mutex x has a priority that
\* covers who waits for its other mutexes.
LEMMA DestroyMutex ==
  ASSUME NEW m, NEW c, KernelOK(m, c), MutexOK(m, c), UrgencyOK(m), NEW x \in Mtxs,
         \A t \in Task : c[t].o = x => m.state[t] \in Waiting \ {"WTCOND"}
  PROVE  MutexOK(mutex_destroy(m, x), c)
<1> DEFINE o  == m.owner[x]
           ws == m.wait_list[x]
           S  == Range(ws)
           D  == S \cup {o}
           n0 == unlink(m, S)
           od == [t \in Task |-> Without(n0.owned[t], {x})]
           n1 == [n0 EXCEPT !.owned = od, !.owner = [n0.owner EXCEPT ![x] = Null],
                            !.count = [n0.count EXCEPT ![x] = 0]]
           pr == [t \in Task |-> IF t \in S THEN calc_inherited_priority(n1, t) ELSE n1.prio[t]]
           n2 == [n1 EXCEPT !.prio = pr]
           n3 == wakeup(n2, ws, EDESTROY)
           n4 == IF o = Null THEN n3 ELSE inherit(n3, o)
           r  == mutex_destroy(m, x)
<1>0. /\ m \in Kernel /\ Fits(m) /\ Shape(m) /\ DOMAIN m = Fields /\ CoreInv(m, c, {}) /\ OwnersOK(m)
      /\ m.prio \in [Task -> Prio] /\ m.wait_list \in [Obj -> Seq(Task)] /\ ws \in Seq(Task)
      /\ m.owner \in [Mtxs -> Task \cup {Null}] /\ m.owned \in [Task -> Seq(Mtxs)] /\ x \in Obj
      /\ m.real_prio \in [Task -> Prio] /\ m.count \in [Mtxs -> Nat]
      /\ \A t \in Task : OwnsListed(m, t)
  BY KernelShape, KernelTypes, FitsKernel, MutexObjects
<1>1. r = IF ws = <<>> THEN n4 ELSE do_reschedule(n4, Head(ws))
  BY DEF mutex_destroy
<1>2. S \subseteq Task /\ \A t \in S : m.state[t] = "WTMTX" /\ m.obj[t] = x /\ t # o
  <2>1. S \subseteq Task
    BY <1>0, EmptyRange
  <2>2. o \notin S
    BY <1>0 DEF OwnersOK
  <2> QED BY <1>0, <2>1, <2>2, MutexWaiter
<1>3. \A t \in Task : m.state[t] = "WTMTX" /\ m.obj[t] = x => t \in S
  BY LockWaits
<1> SUFFICES MutexOK(r, c)
  OBVIOUS
<1> HIDE DEF r
<1>4. Shape(n0) /\ Only(m, n0, {"wait_list"}) /\ n0.wait_list = unlink(m, S).wait_list
  BY <1>0, UnlinkFields
<1> HIDE DEF n0, S, ws, o
<1>5. /\ n0.owner = m.owner /\ n0.owned = m.owned /\ n0.prio = m.prio /\ n0.real_prio = m.real_prio
      /\ n0.state = m.state /\ n0.obj = m.obj /\ n0.count = m.count /\ n0.wait_aborted = m.wait_aborted
  BY <1>4 DEF Only, Fields
<1>6. \A t \in Task : Range(od[t]) = Range(m.owned[t]) \ {x}
  <2> SUFFICES ASSUME NEW t \in Task PROVE Range(Without(n0.owned[t], {x})) = Range(m.owned[t]) \ {x}
    OBVIOUS
  <2>1. n0.owned[t] = m.owned[t] /\ m.owned[t] \in Seq(Mtxs)
    BY <1>0, <1>5
  <2> QED BY <2>1, WithoutList
<1> HIDE DEF od
<1>7. /\ Shape(n1) /\ n1.wait_list = unlink(m, S).wait_list /\ n1.prio = m.prio /\ n1.real_prio = m.real_prio
      /\ n1.state = m.state /\ n1.obj = m.obj /\ n1.owned = od /\ n1.owner = [m.owner EXCEPT ![x] = Null]
      /\ n1.count = [m.count EXCEPT ![x] = 0] /\ n1.wait_aborted = m.wait_aborted
  BY <1>4, <1>5 DEF Shape, Fields
<1> HIDE DEF n1
<1>8. \A t \in Task : OwnsListed(n1, t)
  <2> SUFFICES ASSUME NEW t \in Task PROVE OwnsListed(n1, t)
    OBVIOUS
  <2>1. Range(n1.owned[t]) = Range(m.owned[t]) \ {x}
    BY <1>6, <1>7
  <2>2. Range(m.owned[t]) \subseteq Mtxs /\ \A y \in Range(m.owned[t]) : m.owner[y] = t
    BY <1>0 DEF OwnsListed
  <2>3. ASSUME NEW y \in Range(m.owned[t]) \ {x} PROVE n1.owner[y] = t
    <3>1. y \in Mtxs /\ y # x /\ m.owner[y] = t
      BY <2>2
    <3> QED BY <1>0, <1>7, <3>1
  <2> QED BY <2>1, <2>2, <2>3 DEF OwnsListed
<1>9. Fits(n1)
  BY <1>0, <1>7, FitsUnlinked
<1>10. Ordered(n1) /\ \A y \in Obj : Range(n1.wait_list[y]) = Range(m.wait_list[y]) \ S
  <2>1. \A y \in Obj : n1.wait_list[y] = Without(m.wait_list[y], S)
    BY <1>0, <1>7 DEF unlink, Fields
  <2>2. \A y \in Obj : Range(n1.wait_list[y]) = Range(m.wait_list[y]) \ S
    BY <1>0, <2>1, WithoutList
  <2>3. ASSUME NEW p \in Prioritised PROVE SortedBy(n1.wait_list[p], n1.prio)
    <3>1. p \in Obj /\ m.wait_list[p] \in Seq(Task) /\ SortedBy(m.wait_list[p], m.prio)
      BY <1>0, MutexObjects, SyncObjects DEF Prioritised, UrgencyOK, Ordered
    <3> QED BY <1>7, <2>1, <3>1, WithoutProperties
  <2> QED BY <2>2, <2>3 DEF Ordered
<1>11. \A t \in Task : \A v \in Task :
         m.state[v] = "WTMTX" /\ m.obj[v] # x /\ m.owner[m.obj[v]] = t
           => /\ m.obj[v] \in Range(n1.owned[t]) /\ v \in Range(n1.wait_list[m.obj[v]]) /\ v \notin S
  <2> SUFFICES ASSUME NEW t \in Task, NEW v \in Task, m.state[v] = "WTMTX", m.obj[v] # x, m.owner[m.obj[v]] = t
               PROVE  m.obj[v] \in Range(n1.owned[t]) /\ v \in Range(n1.wait_list[m.obj[v]]) /\ v \notin S
    OBVIOUS
  <2>1. m.obj[v] \in Mtxs /\ m.obj[v] \in Obj /\ v \in Range(m.wait_list[m.obj[v]])
    BY LockWaits, MutexObjects
  <2>2. m.obj[v] \in Range(m.owned[t])
    BY <1>0, <2>1 DEF OwnersOK
  <2> QED BY <1>2, <1>6, <1>7, <1>10, <2>1, <2>2
<1>12. ASSUME NEW t \in Task
       PROVE  /\ calc_inherited_priority(n1, t) \in Prio
              /\ calc_inherited_priority(n1, t) <= m.real_prio[t]
              /\ \A v \in Task : m.state[v] = "WTMTX" /\ m.obj[v] # x /\ m.owner[m.obj[v]] = t
                                   => calc_inherited_priority(n1, t) <= m.prio[v]
  <2>1. /\ calc_inherited_priority(n1, t) \in Prio
        /\ calc_inherited_priority(n1, t) <= n1.real_prio[t]
        /\ \A y \in Range(n1.owned[t]) : \A v \in Range(n1.wait_list[y]) :
             calc_inherited_priority(n1, t) <= n1.prio[v]
    BY <1>8, <1>9, <1>10, CalcCovers
  <2> QED BY <1>7, <1>11, <2>1
<1>13. /\ pr \in [Task -> Prio] /\ \A t \in Task \ S : pr[t] = m.prio[t]
       /\ \A t \in S : pr[t] = calc_inherited_priority(n1, t)
  BY <1>0, <1>2, <1>7, <1>12
<1> HIDE DEF pr
<1>14. /\ Shape(n2) /\ Only(n1, n2, {"prio"}) /\ n2.prio = pr /\ n2.state = n1.state /\ n2.obj = n1.obj
  BY <1>7 DEF Shape, Only, Fields
<1> HIDE DEF n2
<1>15. /\ Shape(n3) /\ Only(n2, n3, {"p_wait", "pov_wait", "deadline", "left", "obj", "evbits", "bug", "state", "ready"})
       /\ n3.state = [t \in Task |-> IF t \in Range(ws) THEN "READY" ELSE n2.state[t]]
       /\ n3.obj = [t \in Task |-> IF t \in Range(ws) THEN EDESTROY ELSE n2.obj[t]]
       /\ n3.evbits = [t \in Task |-> IF t \in Range(ws) THEN NoBits ELSE n2.evbits[t]]
  BY ONLY <1>14, WakeupFields
<1> HIDE DEF n3
<1>16. /\ n3.wait_list = unlink(m, S).wait_list /\ n3.real_prio = m.real_prio /\ n3.prio = pr
       /\ n3.owner = n1.owner /\ n3.owned = n1.owned /\ n3.wait_list = n1.wait_list /\ n3.count = n1.count
       /\ n3.wait_aborted = m.wait_aborted
  BY <1>7, <1>14, <1>15 DEF Only, Fields
<1>17. /\ \A t \in Task \ S : n3.state[t] = m.state[t] /\ n3.obj[t] = m.obj[t]
       /\ \A t \in S : n3.state[t] = "READY" /\ n3.obj[t] = EDESTROY
  BY <1>2, <1>7, <1>14, <1>15 DEF S
<1>18. Fits(n3)
  <2>1. /\ Fits(m) /\ Shape(n3) /\ n3.wait_list = unlink(m, S).wait_list /\ n3.prio \in [Task -> Prio]
        /\ n3.real_prio = m.real_prio
        /\ \A t \in Task \ S : n3.state[t] = m.state[t] /\ n3.obj[t] = m.obj[t]
    BY <1>0, <1>13, <1>15, <1>16, <1>17
  <2> QED BY ONLY <2>1, FitsUnlinked
<1>19. Ordered(n3)
  <2> SUFFICES ASSUME NEW p \in Prioritised PROVE SortedBy(n3.wait_list[p], n3.prio)
    BY DEF Ordered
  <2>1. p \in Obj /\ n1.wait_list[p] \in Seq(Task) /\ SortedBy(n1.wait_list[p], n1.prio)
    BY <1>9, <1>10, MutexObjects, SyncObjects DEF Prioritised, Ordered, Fits
  <2>2. Range(n1.wait_list[p]) \subseteq Task \ S
    BY <1>10, <2>1, EmptyRange
  <2>3. \A u \in Range(n1.wait_list[p]) : n1.prio[u] = n3.prio[u]
    BY <1>7, <1>13, <1>16, <2>2
  <2> QED BY <1>16, <2>1, <2>3, SortedSame
<1>20. /\ Shape(n4) /\ Only(n3, n4, {"prio", "ready", "state", "bug", "wait_list"}) /\ SameTasks(n3, n4, {})
       /\ n4.prio \in [Task -> Prio] /\ \A t \in Task \ {o} : n4.prio[t] = pr[t]
       /\ o # Null => /\ n4.prio[o] <= m.real_prio[o]
                      /\ \A v \in Task : m.state[v] = "WTMTX" /\ m.obj[v] # x /\ m.owner[m.obj[v]] = o
                                           => n4.prio[o] <= m.prio[v]
  <2>1. CASE o = Null /\ n4 = n3
    BY <1>13, <1>15, <1>16, <2>1 DEF Only, SameTasks
  <2>2. CASE o # Null /\ n4 = inherit(n3, o)
    <3> HIDE DEF n4
    <3> DEFINE np == calc_inherited_priority(n3, o)
    <3>1. o \in Task /\ o \notin S
      BY <1>0, <1>2, <2>2 DEF o
    <3>2. OwnsListed(n3, o)
      BY <1>8, <1>16, <3>1 DEF OwnsListed
    <3>3. /\ np \in Prio /\ np <= n3.real_prio[o]
          /\ \A y \in Range(n3.owned[o]) : \A v \in Range(n3.wait_list[y]) : np <= n3.prio[v]
      BY <1>18, <1>19, <3>1, <3>2, CalcCovers
    <3>4. n4 = IF np = n3.prio[o] THEN n3 ELSE reallocate_priority(n3, o, np)
      BY <2>2 DEF inherit
    <3> HIDE DEF np
    <3>5. /\ Shape(n4) /\ Only(n3, n4, {"prio", "ready", "state", "bug", "wait_list"}) /\ SameTasks(n3, n4, {})
          /\ n4.prio = [n3.prio EXCEPT ![o] = np]
      <4>1. CASE n4 = n3 /\ np = n3.prio[o]
        BY <1>13, <1>15, <1>16, <4>1 DEF Only, SameTasks
      <4>2. CASE n4 = reallocate_priority(n3, o, np)
        <5>1. /\ Shape(n4) /\ Only(n3, n4, {"prio", "ready", "state", "bug", "wait_list"})
              /\ SameTasks(n3, n4, {})
          BY <1>15, <3>1, <4>2, ReallocateFields
        <5>2. n4.prio = [n3.prio EXCEPT ![o] = np]
          BY <1>18, <3>1, <3>3, <4>2, ReallocateReorders
        <5> QED BY <5>1, <5>2
      <4> QED BY <3>4, <4>1, <4>2
    <3>6. n4.prio \in [Task -> Prio] /\ n4.prio[o] = np /\ \A t \in Task \ {o} : n4.prio[t] = pr[t]
      BY <1>13, <1>16, <3>1, <3>3, <3>5
    <3>7. \A v \in Task : m.state[v] = "WTMTX" /\ m.obj[v] # x /\ m.owner[m.obj[v]] = o => np <= m.prio[v]
      <4>1. \A v \in Task \ S : n3.prio[v] = m.prio[v]
        BY <1>13, <1>16
      <4> QED BY <1>11, <1>16, <3>1, <3>3, <4>1
    <3> QED BY <1>16, <3>3, <3>5, <3>6, <3>7
  <2> QED BY <2>1, <2>2
<1> HIDE DEF n4
<1>21. Only(n4, r, {"pendsv"})
  <2>1. CASE r = n4
    BY <2>1 DEF Only
  <2>2. CASE r = do_reschedule(n4, Head(ws))
    BY <1>20, <2>2, RescheduleFields
  <2> QED BY <1>1, <2>1, <2>2
<1>22. /\ r.prio = n4.prio /\ r.real_prio = m.real_prio /\ r.wait_aborted = m.wait_aborted
       /\ r.owner = [m.owner EXCEPT ![x] = Null] /\ r.count = [m.count EXCEPT ![x] = 0]
       /\ r.state = n4.state /\ r.obj = n3.obj
  BY <1>7, <1>16, <1>20, <1>21 DEF Only, Fields
<1>23. /\ \A t \in Task \ S : r.obj[t] = m.obj[t] /\ (r.state[t] = "WTMTX" <=> m.state[t] = "WTMTX")
       /\ \A t \in S : r.state[t] # "WTMTX" /\ r.obj[t] = EDESTROY
  BY <1>2, <1>17, <1>20, <1>22 DEF SameTasks, Up
<1>24. \A u \in Task : /\ m.prio[u] \in Int /\ m.real_prio[u] \in Int /\ r.prio[u] \in Int
                       /\ m.prio[u] <= m.real_prio[u]
  BY <1>0, <1>20, <1>22, Prios DEF MutexOK
<1>25. ASSUME NEW u \in Task PROVE r.prio[u] <= r.real_prio[u]
  <2>1. CASE u = o
    <3>1. o # Null
      BY <2>1, MutexObjects
    <3> QED BY <1>20, <1>22, <2>1, <3>1
  <2>2. CASE u \in S /\ u # o
    BY <1>12, <1>13, <1>20, <1>22, <2>2
  <2>3. CASE u \notin S /\ u # o
    BY <1>13, <1>20, <1>22, <1>24, <2>3
  <2> QED BY <2>1, <2>2, <2>3
<1>26. ASSUME NEW v \in Task, r.state[v] = "WTMTX" PROVE r.prio[r.owner[r.obj[v]]] <= r.real_prio[v]
  <2>1. v \notin S /\ m.state[v] = "WTMTX" /\ r.obj[v] = m.obj[v]
    BY <1>23, <1>26
  <2> DEFINE y == m.obj[v]
             u == m.owner[y]
  <2>2. y \in Mtxs /\ y # x /\ u \in Task
    BY <1>3, <2>1, LockWaits
  <2>3. r.owner[y] = u
    BY <1>0, <1>22, <2>2
  <2>4. m.prio[u] <= m.real_prio[v]
    BY <2>1 DEF MutexOK, Lends
  <2>5. CASE u = o
    <3>1. o # Null
      BY <2>2, <2>5, MutexObjects
    <3>2. r.prio[u] <= m.prio[v]
      BY <1>20, <1>22, <2>1, <2>2, <2>5, <3>1
    <3>3. r.prio[u] <= m.real_prio[v]
      BY <1>24, <2>2, <3>2
    <3> QED BY <1>22, <2>1, <2>3, <3>3
  <2>6. CASE u \in S /\ u # o
    <3>1. r.prio[u] <= m.prio[v]
      BY <1>12, <1>13, <1>20, <1>22, <2>1, <2>2, <2>6
    <3>2. r.prio[u] <= m.real_prio[v]
      BY <1>24, <2>2, <3>1
    <3> QED BY <1>22, <2>1, <2>3, <3>2
  <2>7. CASE u \notin S /\ u # o
    <3>1. r.prio[u] = m.prio[u]
      BY <1>13, <1>20, <1>22, <2>2, <2>7
    <3> QED BY <1>22, <2>1, <2>3, <2>4, <3>1
  <2> QED BY <2>5, <2>6, <2>7
<1>27. ASSUME NEW u \in Task PROVE LockTold(r, c[u], u)
  <2> SUFFICES ASSUME Locking(c[u])
               PROVE  r.state[u] = "WTMTX" \/ r.wait_aborted[u] \/ (r.obj[u] = EOK => r.owner[c[u].o] = u)
    BY DEF LockTold
  <2>1. CASE u \in S
    BY <1>23, <2>1 DEF EOK, EDESTROY
  <2>2. CASE u \notin S
    <3>1. c[u].o # x
      <4> SUFFICES ASSUME c[u].o = x PROVE FALSE
        OBVIOUS
      <4>1. m.state[u] \in Waiting
        OBVIOUS
      <4>2. Blocked(m.state[u], c[u], m.obj[u], m.wait_aborted[u])
        <5>1. BlockedOK(m, c, {})
          BY KernelShape, CoreParts
        <5> QED BY <5>1 DEF BlockedOK
      <4>3. m.state[u] = "WTMTX" /\ m.obj[u] = x
        BY <4>1, <4>2 DEF Blocked, Locking, Waiting
      <4> QED BY <1>3, <2>2, <4>3
    <3>2. c[u].o \in Mtxs
      BY KernelShape DEF CallsOK, CallKind, Locking
    <3>3. r.owner[c[u].o] = m.owner[c[u].o]
      BY <1>0, <1>22, <3>1, <3>2
    <3>4. LockTold(m, c[u], u)
      BY DEF MutexOK
    <3> QED BY <1>22, <1>23, <2>2, <3>3, <3>4 DEF LockTold
  <2> QED BY <2>1, <2>2
<1>28. ASSUME NEW u \in Task PROVE GivenAway(r, c[u], u)
  <2> SUFFICES ASSUME MaxCount = 1, c[u].op = "cond" PROVE r.owner[c[u].o] # u
    BY DEF GivenAway
  <2>1. c[u].o \in Mtxs /\ u # Null
    BY KernelShape, MutexObjects DEF CallsOK, CallKind
  <2>2. m.owner[c[u].o] # u
    BY DEF GivenAway, MutexOK
  <2> QED BY <1>0, <1>22, <2>1, <2>2
<1>29. Single(r)
  BY <1>0, <1>22 DEF Single, MutexOK
<1> QED BY <1>25, <1>26, <1>27, <1>28, <1>29 DEF MutexOK, Lends


\* The blocking branch of isix_mutex_lock lends the priority before it queues.
LEMMA MtxBlockMutex ==
  ASSUME NEW m, NEW c, KernelOK(m, c), MutexOK(m, c), m.state[m.currp] \in Up,
         NEW x \in Mtxs, m.owner[x] \notin {Null, m.currp},
         NEW d, d = [c EXCEPT ![m.currp] = [NoCall EXCEPT !.op = "mtx", !.pc = "yield", !.o = x]]
  PROVE  MutexOK(mtx_block(m, x), d)
<1> DEFINE t  == m.currp
           o  == m.owner[x]
           np == m.prio[t]
           m1 == IF prio_gt(m.prio[t], m.prio[o]) THEN reallocate_priority(m, o, np) ELSE m
           n  == [m1 EXCEPT !.wait_aborted = [@ EXCEPT ![t] = FALSE]]
           n2 == set_sleep(n, "WTMTX")
           n3 == add_to_prio_queue(n2, x, t)
           r  == mtx_block(m, x)
<1>0. /\ Fits(m) /\ Shape(m) /\ DOMAIN m = Fields /\ t \in Task /\ o \in Task /\ o # t /\ c \in [Task -> Call]
      /\ m.prio \in [Task -> Prio] /\ m.real_prio \in [Task -> Prio] /\ m.owner \in [Mtxs -> Task \cup {Null}]
  BY KernelShape, KernelTypes, FitsKernel
<1>1. r = [n3 EXCEPT !.obj = [@ EXCEPT ![t] = x]]
  BY DEF mtx_block
<1>2. \A u \in Task : /\ m.prio[u] \in Int /\ m.real_prio[u] \in Int /\ m.prio[u] <= m.real_prio[u]
                      /\ Lends(m, u) /\ LockTold(m, c[u], u) /\ GivenAway(m, c[u], u)
  BY <1>0, Prios DEF MutexOK
<1> SUFFICES MutexOK(r, d)
  OBVIOUS
<1> HIDE DEF r, t, o, np
<1>3. /\ Shape(m1) /\ Only(m, m1, {"prio", "ready", "state", "bug", "wait_list"}) /\ SameTasks(m, m1, {})
      /\ m1.prio \in [Task -> Prio] /\ m1.prio[o] <= m.prio[t] /\ m1.prio[o] <= m.prio[o]
      /\ \A u \in Task \ {o} : m1.prio[u] = m.prio[u]
  <2>1. CASE m1 = m /\ ~(m.prio[t] < m.prio[o])
    <3>1. m.prio[o] <= m.prio[t] /\ m.prio[o] <= m.prio[o]
      BY <1>0, <1>2, <2>1
    <3> QED BY <1>0, <2>1, <3>1 DEF Only, SameTasks
  <2>2. CASE m1 = reallocate_priority(m, o, np) /\ m.prio[t] < m.prio[o]
    <3> HIDE DEF m1
    <3>1. np \in Prio
      BY <1>0 DEF np
    <3>2. /\ Shape(m1) /\ Only(m, m1, {"prio", "ready", "state", "bug", "wait_list"}) /\ SameTasks(m, m1, {})
      BY <1>0, <2>2, ReallocateFields
    <3>3. m1.prio = [m.prio EXCEPT ![o] = np]
      BY <1>0, <2>2, <3>1, ReallocateReorders
    <3>4. m1.prio \in [Task -> Prio] /\ m1.prio[o] = np /\ \A u \in Task \ {o} : m1.prio[u] = m.prio[u]
      BY <1>0, <3>1, <3>3
    <3>5. np = m.prio[t] /\ m.prio[t] \in Int /\ m.prio[o] \in Int
      BY <1>0, <1>2 DEF np
    <3>6. m1.prio[o] <= m.prio[t] /\ m1.prio[o] <= m.prio[o]
      BY ONLY <2>2, <3>4, <3>5
    <3> QED BY <3>2, <3>4, <3>6
  <2> QED BY <2>1, <2>2 DEF prio_gt
<1> HIDE DEF m1
<1>4. /\ m1.real_prio = m.real_prio /\ m1.owner = m.owner /\ m1.count = m.count /\ m1.obj = m.obj
      /\ m1.wait_aborted = m.wait_aborted /\ m1.currp = t
      /\ \A u \in Task : m1.state[u] = "WTMTX" <=> m.state[u] = "WTMTX"
  BY <1>3 DEF Only, Fields, SameTasks, Up, t
<1>5. /\ Shape(n) /\ n.state = m1.state /\ n.obj = m1.obj /\ n.prio = m1.prio /\ n.real_prio = m1.real_prio
      /\ n.owner = m1.owner /\ n.count = m1.count /\ n.currp = t
      /\ n.wait_aborted = [m1.wait_aborted EXCEPT ![t] = FALSE]
  BY <1>3, <1>4 DEF Shape, Fields
<1> HIDE DEF n
<1>6. /\ Shape(n2) /\ Only(n, n2, {"ready", "state"}) /\ n2.state = [n.state EXCEPT ![t] = "WTMTX"]
  <2>1. "WTMTX" \in State /\ n.currp \in Task
    BY <1>0, <1>5 DEF State
  <2> QED BY <1>5, <2>1, SleepFields
<1> HIDE DEF n2
<1>7. Shape(n3) /\ Only(n2, n3, {"wait_list"})
  BY <1>6, QueueFields
<1> HIDE DEF n3
<1>8. /\ r.prio = m1.prio /\ r.real_prio = m.real_prio /\ r.owner = m.owner /\ r.count = m.count
      /\ r.state = [m1.state EXCEPT ![t] = "WTMTX"] /\ r.obj = [m.obj EXCEPT ![t] = x]
      /\ r.wait_aborted = [m.wait_aborted EXCEPT ![t] = FALSE]
  <2>1. DOMAIN n3 = Fields
    BY <1>7 DEF Shape
  <2>2. Only(n3, r, {"obj"}) /\ r.obj = [n3.obj EXCEPT ![t] = x]
    BY <1>1, <2>1 DEF Only, Fields
  <2> QED BY <1>4, <1>5, <1>6, <1>7, <2>2 DEF Only, Fields
<1>9. /\ r.state[t] = "WTMTX" /\ r.obj[t] = x
      /\ \A u \in Task \ {t} : /\ r.obj[u] = m.obj[u] /\ r.wait_aborted[u] = m.wait_aborted[u]
                               /\ r.state[u] = "WTMTX" <=> m.state[u] = "WTMTX"
  <2>1. DOMAIN m1.state = Task /\ DOMAIN m.obj = Task /\ DOMAIN m.wait_aborted = Task
    BY <1>0, <1>3 DEF Shape
  <2> QED BY <1>0, <1>4, <1>8, <2>1
<1>10. ASSUME NEW u \in Task PROVE r.prio[u] <= m.prio[u] /\ r.prio[u] \in Int
  <2>1. m1.prio[u] \in Int /\ m.prio[u] \in Int
    BY <1>2, <1>3, Prios
  <2>2. m1.prio[u] <= m.prio[u]
    BY <1>3, <2>1
  <2> QED BY <1>8, <2>1, <2>2
<1>11. \A u \in Task : r.prio[u] <= r.real_prio[u]
  BY <1>2, <1>8, <1>10
<1>12. ASSUME NEW v \in Task, r.state[v] = "WTMTX" PROVE r.prio[r.owner[r.obj[v]]] <= r.real_prio[v]
  <2>1. CASE v = t
    <3>1. r.prio[o] <= m.prio[t] /\ r.owner[r.obj[t]] = o
      BY <1>3, <1>8, <1>9 DEF o
    <3> QED BY <1>0, <1>2, <1>8, <1>10, <2>1, <3>1
  <2>2. CASE v # t
    <3>1. m.state[v] = "WTMTX" /\ r.obj[v] = m.obj[v]
      BY <1>9, <1>12, <2>2
    <3>2. m.owner[m.obj[v]] \in Task
      BY <3>1, LockWaits
    <3>3. m.prio[m.owner[m.obj[v]]] <= m.real_prio[v]
      BY <1>2, <3>1 DEF Lends
    <3> QED BY <1>2, <1>8, <1>10, <3>1, <3>2, <3>3
  <2> QED BY <2>1, <2>2
<1>13. d[t].op = "mtx" /\ \A u \in Task \ {t} : d[u] = c[u]
  BY <1>0 DEF t, NoCall
<1>14. ASSUME NEW u \in Task PROVE LockTold(r, d[u], u) /\ GivenAway(r, d[u], u)
  <2>1. CASE u = t
    BY <1>9, <1>13, <2>1 DEF LockTold, GivenAway
  <2>2. CASE u # t
    <3>1. LockTold(m, d[u], u) /\ GivenAway(m, d[u], u)
      BY <1>2, <1>13, <2>2
    <3>2. GivenAway(r, d[u], u)
      BY <1>8, <3>1 DEF GivenAway
    <3>3. r.obj[u] = m.obj[u] /\ r.wait_aborted[u] = m.wait_aborted[u] /\ (r.state[u] = "WTMTX" <=> m.state[u] = "WTMTX")
      BY <1>9, <2>2
    <3>4. LockTold(r, d[u], u)
      BY <1>8, <3>1, <3>3 DEF LockTold
    <3> QED BY <3>2, <3>4
  <2> QED BY <2>1, <2>2
<1>15. Single(r)
  BY <1>8 DEF Single, MutexOK
<1> QED BY <1>11, <1>12, <1>14, <1>15 DEF MutexOK, Lends


\* A service that returns.
LEMMA LeaveAside ==
  ASSUME NEW m, Shape(m), NEW t \in Task, m.state[t] \in Up
  PROVE  Aside(m, leave(m, t), {t})
<1>1. /\ leave(m, t).state = m.state /\ leave(m, t).obj = [m.obj EXCEPT ![t] = EOK]
      /\ leave(m, t).wait_aborted = [m.wait_aborted EXCEPT ![t] = FALSE]
      /\ leave(m, t).prio = m.prio /\ leave(m, t).real_prio = m.real_prio
      /\ leave(m, t).owner = m.owner /\ leave(m, t).count = m.count
  BY DEF leave, Shape, Fields
<1> QED BY <1>1 DEF Aside, Up, Shape


\* A free mutex, and one the caller has already, is taken by a task that is in
\* no other lock; d are the calls after it.
LEMMA TakeMutex ==
  ASSUME NEW m, NEW c, KernelOK(m, c), MutexOK(m, c), NEW x \in Mtxs, NEW r, NEW d,
         d = [c EXCEPT ![m.currp] = NoCall],
         \/ m.owner[x] = Null /\ r = set_ownership_to_current(m, x)
         \/ m.owner[x] = m.currp /\ m.count[x] < MaxCount /\ r = [m EXCEPT !.count[x] = @ + 1]
  PROVE  MutexOK(r, d)
<1>0. /\ DOMAIN m = Fields /\ OwnersOK(m) /\ m.owner \in [Mtxs -> Task \cup {Null}] /\ c \in [Task -> Call]
      /\ m.count \in [Mtxs -> Nat] /\ m.currp \in Task
  BY KernelShape, KernelTypes
<1>1. /\ r.prio = m.prio /\ r.real_prio = m.real_prio /\ r.state = m.state /\ r.obj = m.obj
      /\ r.wait_aborted = m.wait_aborted
      /\ r.count = [m.count EXCEPT ![x] = @ + 1]
      /\ r.owner = m.owner \/ (m.owner[x] = Null /\ r.owner = [m.owner EXCEPT ![x] = m.currp])
  BY <1>0 DEF set_ownership_to_current, Fields
<1>2. \A y \in Mtxs : m.owner[y] # Null => r.owner[y] = m.owner[y]
  BY <1>0, <1>1
<1>3. \A u \in Task : r.prio[u] <= r.real_prio[u]
  BY <1>1 DEF MutexOK
<1>4. ASSUME NEW v \in Task, r.state[v] = "WTMTX" PROVE r.prio[r.owner[r.obj[v]]] <= r.real_prio[v]
  <2>1. m.obj[v] \in Mtxs /\ m.owner[m.obj[v]] \in Task
    BY <1>1, <1>4, LockWaits
  <2>2. r.owner[m.obj[v]] = m.owner[m.obj[v]]
    BY <1>2, <2>1, MutexObjects
  <2>3. Lends(m, v)
    BY DEF MutexOK
  <2> QED BY <1>1, <1>4, <2>2, <2>3 DEF Lends
<1>5. ASSUME NEW u \in Task PROVE LockTold(r, d[u], u) /\ GivenAway(r, d[u], u)
  <2>1. CASE u = m.currp
    BY <1>0, <2>1 DEF LockTold, GivenAway, Locking, NoCall
  <2>2. CASE u # m.currp
    <3>1. d[u] = c[u] /\ LockTold(m, c[u], u) /\ GivenAway(m, c[u], u) /\ CallKind(c[u]) /\ u # Null
      BY <1>0, <2>2, KernelShape, MutexObjects DEF MutexOK, CallsOK
    <3>2. \A y \in Mtxs : r.owner[y] = u <=> m.owner[y] = u
      BY <1>0, <1>1, <2>2, <3>1
    <3>3. Locking(c[u]) \/ c[u].op = "cond" => c[u].o \in Mtxs
      BY <3>1 DEF CallKind, Locking
    <3>4. LockTold(r, d[u], u)
      BY <1>1, <3>1, <3>2, <3>3 DEF LockTold
    <3>5. GivenAway(r, d[u], u)
      BY <3>1, <3>2, <3>3 DEF GivenAway
    <3> QED BY <3>4, <3>5
  <2> QED BY <2>1, <2>2
<1>6. Single(r)
  <2> SUFFICES ASSUME MaxCount = 1, NEW y \in Mtxs PROVE r.count[y] <= 1
    BY DEF Single
  <2>1. m.count[y] <= 1
    BY DEF MutexOK, Single
  <2>2. m.count[x] = 0
    <3>1. m.owner[x] = Null => m.count[x] = 0
      BY <1>0 DEF OwnersOK
    <3> QED BY <1>0, <3>1
  <2> QED BY <1>0, <1>1, <2>1, <2>2
<1> QED BY <1>3, <1>4, <1>5, <1>6 DEF MutexOK, Lends

\* A call between two others is in no lock.
LEMMA RunningUnlocked ==
  ASSUME KernelOK(k, call), NEW t \in Task, Running(t)
  PROVE  ~Locking(call[t]) /\ call[t].op # "cond"
BY KernelShape DEF Running, CallsOK, CallKind, Locking

\* The operations of the mutexes.
LEMMA MtxOpsMutex ==
  ASSUME KernelOK(k, call), UrgencyOK(k), MutexOK(k, call), MtxOps
  PROVE  MutexOK(k', call')
<1>0. /\ DOMAIN k = Fields /\ Shape(k) /\ CoreInv(k, call, {}) /\ OwnersOK(k) /\ call \in [Task -> Call]
      /\ Ordered(k) /\ k.owner \in [Mtxs -> Task \cup {Null}] /\ k.count \in [Mtxs -> Nat]
  BY KernelShape, KernelTypes DEF UrgencyOK
<1>s. SameLocks(call, call)
  BY DEF SameLocks
<1>1. ASSUME NEW t \in Task, NEW x \in Mtxs, MtxLock(t, x) PROVE MutexOK(k', call')
  <2>1. t = k.currp /\ k.state[t] \in Up
    <3>1. CASE MayBlock(t) /\ x \in k.live
      BY <3>1, RunningUp DEF MayBlock
    <3>2. CASE Exec(t) /\ call[t].op = "mtx" /\ call[t].pc = "enter" /\ call[t].o = x
      BY <3>2, EnterUp DEF Blocking
    <3> QED BY <1>1, <3>1, <3>2 DEF MtxLock
  <2>2. CASE /\ call' = [call EXCEPT ![t] = NoCall]
             /\ \/ k.owner[x] = Null /\ k' = set_ownership_to_current(k, x)
                \/ k.owner[x] = t /\ k.count[x] < MaxCount /\ k' = [k EXCEPT !.count[x] = @ + 1]
    BY <2>1, <2>2, TakeMutex
  <2>3. CASE /\ k.owner[x] \notin {Null, t} /\ k' = mtx_block(k, x)
             /\ call' = [call EXCEPT ![t] = [NoCall EXCEPT !.op = "mtx", !.pc = "yield", !.o = x]]
    BY <2>1, <2>3, MtxBlockMutex
  <2> QED BY <1>1, <2>2, <2>3 DEF MtxLock
<1>2. ASSUME NEW t \in Task, NEW x \in Mtxs, MtxTryLock(t, x) PROVE MutexOK(k', call')
  <2>1. t = k.currp /\ ~Locking(call[t]) /\ call[t].op # "cond" /\ call' = call
    BY <1>2, RunningUp, RunningUnlocked DEF MtxTryLock
  <2> DEFINE d == [call EXCEPT ![k.currp] = NoCall]
  <2>2. MutexOK(k', d)
    <3>1. \/ k.owner[x] = Null /\ k' = set_ownership_to_current(k, x)
          \/ k.owner[x] = k.currp /\ k.count[x] < MaxCount /\ k' = [k EXCEPT !.count[x] = @ + 1]
      BY <1>2, <2>1 DEF MtxTryLock
    <3> QED BY <3>1, TakeMutex
  <2>3. SameLocks(d, call)
    BY <1>0, <2>1 DEF SameLocks
  <2>4. Aside(k', k', {})
    BY DEF Aside
  <2> QED BY <2>1, <2>2, <2>3, <2>4, AsideOK
<1>3. ASSUME NEW t \in Task, NEW x \in Mtxs, MtxUnlock(t, x) PROVE MutexOK(k', call')
  <2>1. /\ t = k.currp /\ k.currp # Idle /\ k.state[k.currp] \in Up /\ k.owner[x] = k.currp
        /\ ~Locking(call[t]) /\ call[t].op # "cond" /\ call' = call
    BY <1>3, RunningUp, RunningUnlocked DEF MtxUnlock
  <2> QED BY <1>0, <1>3, <2>1, UnlockMutex DEF MtxUnlock
<1>4. ASSUME NEW t \in Task, NEW x \in Mtxs, MtxDestroy(t, x) PROVE MutexOK(k', call')
  <2> DEFINE n == mutex_destroy(k, x)
  <2>1. MutexOK(n, call) /\ Shape(n)
    <3>1. \A u \in Task : call[u].o = x => k.state[u] \in Waiting \ {"WTCOND"}
      BY <1>4 DEF MtxDestroy, Quiescent
    <3> QED BY <3>1, DestroyMutex, DestroyUrgent
  <2>2. k' = [n EXCEPT !.live = @ \ {x}] /\ call' = call
    BY <1>4 DEF MtxDestroy
  <2> HIDE DEF n
  <2>3. Only(n, k', {"live"})
    BY <2>1, <2>2 DEF Shape, Only, Fields
  <2>4. Aside(n, k', {})
    BY <2>3, StoreAside
  <2> QED BY <1>s, <2>1, <2>2, <2>4, AsideOK
<1>5. ASSUME NEW t \in Task, NEW x \in Mtxs, MtxCreate(t, x) PROVE MutexOK(k', call')
  <2>1. k.owner[x] = Null /\ k.count[x] = 0
    BY <1>0, <1>5 DEF OwnersOK, MtxCreate
  <2>2. /\ Only(k, k', {"live", "owner", "count", "wait_list"}) /\ call' = call
        /\ k'.owner = [k.owner EXCEPT ![x] = Null] /\ k'.count = [k.count EXCEPT ![x] = 0]
    BY <1>0, <1>5 DEF MtxCreate, Only, Fields
  <2>3. k'.owner = k.owner /\ k'.count = k.count
    BY <1>0, <2>1, <2>2
  <2>4. Only(k, k', {"live", "wait_list"})
    BY <2>2, <2>3 DEF Only
  <2>5. Aside(k, k', {})
    BY <2>4, StoreAside
  <2> QED BY <1>s, <2>2, <2>5, AsideOK
<1>6. ASSUME NEW t \in Task, MtxLockReturn(t) PROVE MutexOK(k', call')
  <2>1. call[t].op = "mtx" /\ call[t].pc = "after" /\ t = k.currp /\ k.state[t] \in Up
    BY <1>6, ExecUp DEF MtxLockReturn
  <2>2. CASE call' = [call EXCEPT ![t].pc = "enter"] /\ k' = k
    <3>1. SameLocks(call, call')
      <4>1. call'[t].pc = "enter" /\ call'[t].op = "mtx" /\ \A u \in Task \ {t} : call'[u] = call[u]
        BY <1>0, <2>1, <2>2 DEF Call
      <4> QED BY <4>1 DEF SameLocks, Locking
    <3>2. Aside(k, k', {})
      BY <2>2 DEF Aside
    <3> QED BY <3>1, <3>2, AsideOK
  <2>3. CASE call' = [call EXCEPT ![t] = NoCall] /\ k' = leave(k, t)
    <3>1. SameLocks(call, call') /\ ~Locking(call'[t])
      BY <1>0, <2>3 DEF SameLocks, Locking, NoCall
    <3>2. Aside(k, k', {t})
      BY <1>0, <2>1, <2>3, LeaveAside
    <3> QED BY <3>1, <3>2, AsideOK
  <2> QED BY <1>6, <2>2, <2>3 DEF MtxLockReturn
<1>7. ASSUME NEW t \in Task, MtxUnlockAll(t) PROVE MutexOK(k', call')
  <2>1. /\ t = k.currp /\ k.currp # Idle /\ k.state[k.currp] \in Up /\ k' = mutex_unlock_all_in_task(k, t)
        /\ ~Locking(call[t]) /\ call[t].op # "cond" /\ call' = call
    BY <1>7, RunningUp, RunningUnlocked DEF MtxUnlockAll
  <2>2. \E S : HandedOver(k, k', t, {x \in Mtxs : k.owner[x] = t}, S)
    BY <2>1, UnlockAllHands
  <2> QED BY <1>0, <2>1, <2>2, HandedOverOK
<1> QED BY <1>1, <1>2, <1>3, <1>4, <1>5, <1>6, <1>7 DEF MtxOps


\* A wait for a condition: the mutex goes to somebody else, or is free.
LEMMA CondBlockMutex ==
  ASSUME NEW m, NEW c, KernelOK(m, c), MutexOK(m, c), Ordered(m), m.currp # Idle, m.state[m.currp] \in Up,
         ~Locking(c[m.currp]), c[m.currp].op # "cond", m.owned[m.currp] # <<>>, NEW v \in Cvs, NEW timeout,
         NEW d, d = [c EXCEPT ![m.currp] = [NoCall EXCEPT !.op = "cond", !.pc = "yield", !.o = top_mutex(m)]]
  PROVE  MutexOK(cond_block(m, v, timeout), d)
<1> DEFINE t == m.currp
           x == top_mutex(m)
           n == mutex_unlock(m, x)
           p == set_sleep_timeout(n, "WTCOND", timeout)
           q == add_to_prio_queue(p, v, t)
           r == cond_block(m, v, timeout)
<1>0. m \in Kernel /\ t \in Task /\ CoreInv(m, c, {}) /\ OwnersOK(m) /\ c \in [Task -> Call]
  BY KernelShape
<1>1. x \in Mtxs /\ m.owner[x] = t
  <2> HIDE DEF t
  <2>1. m.owned[t] \in Seq(Mtxs) /\ m.owned[t] # <<>>
    BY <1>0, KernelTypes DEF t
  <2>2. x \in Range(m.owned[t]) /\ Range(m.owned[t]) \subseteq Mtxs
    BY <2>1, EmptyRange DEF top_mutex, t
  <2> HIDE DEF x
  <2> QED BY <1>0, <2>2 DEF OwnersOK
<1>2. r = [q EXCEPT !.obj = [@ EXCEPT ![t] = v]]
  BY DEF cond_block
<1>3. d[t].op = "cond" /\ d[t].o = x /\ \A u \in Task \ {t} : d[u] = c[u]
  BY <1>0 DEF NoCall
<1> SUFFICES MutexOK(r, d)
  OBVIOUS
<1> HIDE DEF x, r
<1>4. MutexOK(n, c) /\ (MaxCount = 1 => n.owner[x] # t)
  BY <1>1, UnlockMutex
<1>5. CoreInv(n, c, {}) /\ OwnersOK(n) /\ Signalled(m, n)
  BY <1>0, <1>1, UnlockFunOK
<1> HIDE DEF n
<1>6. n.currp = t /\ n.state[t] \in Up /\ Shape(n)
  BY <1>5, CoreParts, ShapeOfKernel DEF Signalled
<1>7. /\ Shape(p) /\ Only(n, p, {"ready", "state", "deadline", "left", "p_wait", "pov_wait"})
      /\ p.state = [n.state EXCEPT ![t] = "WTCOND"]
  <2>1. "WTCOND" \in State /\ n.currp \in Task
    BY <1>0, <1>6 DEF State
  <2> QED BY <1>6, <2>1, SleepFields
<1> HIDE DEF p
<1>8. Shape(q) /\ Only(p, q, {"wait_list"})
  BY <1>7, QueueFields
<1> HIDE DEF q, t
<1>9. /\ r.prio = n.prio /\ r.real_prio = n.real_prio /\ r.owner = n.owner /\ r.count = n.count
      /\ r.wait_aborted = n.wait_aborted /\ r.state = [n.state EXCEPT ![t] = "WTCOND"]
      /\ r.obj = [n.obj EXCEPT ![t] = v]
  <2>1. DOMAIN q = Fields
    BY <1>8 DEF Shape
  <2>2. Only(q, r, {"obj"}) /\ r.obj = [q.obj EXCEPT ![t] = v]
    BY <1>2, <2>1 DEF Only, Fields
  <2> QED BY <1>7, <1>8, <2>2 DEF Only, Fields
<1>10. Aside(n, r, {t})
  BY <1>0, <1>6, <1>9 DEF Aside, Shape
<1>11. MutexOK(r, c)
  <2>1. SameLocks(c, c) /\ ~Locking(c[t])
    BY DEF SameLocks, t
  <2> QED BY <1>4, <1>10, <2>1, AsideOK
<1>12. ASSUME NEW u \in Task PROVE LockTold(r, d[u], u) /\ GivenAway(r, d[u], u)
  <2>1. CASE u = t
    BY <1>3, <1>4, <1>9, <2>1 DEF LockTold, GivenAway, Locking
  <2>2. CASE u # t
    BY <1>3, <1>11, <2>2 DEF MutexOK
  <2> QED BY <2>1, <2>2
<1> QED BY <1>11, <1>12 DEF MutexOK

\* Waking who waits for a condition.
LEMMA CondWakes ==
  ASSUME NEW m, NEW c, KernelOK(m, c), MutexOK(m, c), NEW v \in Cvs, NEW S, S \subseteq Range(m.wait_list[v]),
         NEW r, NEW msg, NEW F, Only(m, r, F),
         F \cap {"prio", "real_prio", "owner", "count", "wait_aborted"} = {}, WakesWith(m, r, S, msg)
  PROVE  MutexOK(r, c)
<1>0. CoreInv(m, c, {})
  BY KernelShape
<1>1. \A t \in S : t \in Task /\ m.state[t] = "WTCOND"
  BY <1>0, MutexWaiter
<1>2. \A t \in S : ~Locking(c[t])
  BY <1>1, OtherWait
<1>3. Aside(m, r, S)
  BY <1>1 DEF Only, Fields, WakesWith, Aside
<1>4. SameLocks(c, c)
  BY DEF SameLocks
<1> QED BY <1>2, <1>3, <1>4, AsideOK

\* The operations of the condition variables.
LEMMA CondOpsMutex ==
  ASSUME KernelOK(k, call), UrgencyOK(k), MutexOK(k, call), CondOps
  PROVE  MutexOK(k', call')
<1>0. /\ DOMAIN k = Fields /\ Shape(k) /\ CoreInv(k, call, {}) /\ OwnersOK(k) /\ call \in [Task -> Call]
      /\ Ordered(k) /\ k.wait_list \in [Obj -> Seq(Task)]
  BY KernelShape DEF UrgencyOK
<1>s. SameLocks(call, call)
  BY DEF SameLocks
<1>v. \A v \in Cvs : v \in Obj \ Mtxs /\ k.wait_list[v] \in Seq(Task)
  BY <1>0, TaskAssumption DEF Obj, Object
<1>1. ASSUME NEW t \in Task, NEW v \in Cvs, NEW timeout \in Timeouts, CondWait(t, v, timeout)
      PROVE  MutexOK(k', call')
  <2>1. /\ t = k.currp /\ k.currp # Idle /\ k.state[k.currp] \in Up /\ k.owned[k.currp] # <<>>
        /\ k' = cond_block(k, v, timeout) /\ ~Locking(call[t]) /\ call[t].op # "cond"
        /\ call' = [call EXCEPT ![t] = [NoCall EXCEPT !.op = "cond", !.pc = "yield", !.o = top_mutex(k)]]
    BY <1>1, RunningUp, RunningUnlocked DEF CondWait, MayBlock
  <2> QED BY <1>0, <2>1, CondBlockMutex
<1>2. ASSUME NEW v \in Cvs, CondSignal(v) PROVE MutexOK(k', call')
  <2> DEFINE ws == k.wait_list[v]
             t  == Head(ws)
             n  == [unlink(k, {t}) EXCEPT !.bug = @ \/ k.state[t] # "WTCOND"]
             q  == <<t>>
             w  == wakeup(n, q, EOK)
  <2>1. k' = (IF ws = <<>> THEN k ELSE do_reschedule(w, t)) /\ call' = call
    BY <1>2 DEF CondSignal, condvar_signal
  <2>2. CASE k' = k
    BY <2>1, <2>2
  <2>3. CASE ws # <<>> /\ k' = do_reschedule(w, t)
    <3>1. t \in Range(ws) /\ t \in Task /\ q \in Seq(Task) /\ Range(q) = {t}
      <4>1. t \in Range(ws) /\ t \in Task
        BY <1>v, <2>3, EmptyRange
      <4> QED BY <4>1, OneElement
    <3>2. Shape(unlink(k, {t})) /\ Only(k, unlink(k, {t}), {"wait_list"})
      BY <1>0, UnlinkFields
    <3>3. Shape(n) /\ Only(k, n, {"wait_list", "bug"}) /\ n.state = k.state /\ n.obj = k.obj /\ n.evbits = k.evbits
      BY <3>2 DEF Shape, Only, Fields
    <3> HIDE DEF n, t, ws, q
    <3>4. /\ Shape(w) /\ Only(n, w, {"p_wait", "pov_wait", "deadline", "left", "obj", "evbits", "bug", "state", "ready"})
          /\ w.state = [u \in Task |-> IF u \in Range(q) THEN "READY" ELSE n.state[u]]
          /\ w.obj = [u \in Task |-> IF u \in Range(q) THEN EOK ELSE n.obj[u]]
          /\ w.evbits = [u \in Task |-> IF u \in Range(q) THEN NoBits ELSE n.evbits[u]]
      <4>1. Shape(n)
        BY <3>3
      <4> QED BY ONLY <4>1, WakeupFields
    <3> HIDE DEF w
    <3>5. Only(w, k', {"pendsv"})
      BY <2>3, <3>4, RescheduleFields
    <3>6. Only(k, k', Waking)
      BY <3>3, <3>4, <3>5 DEF Only, Fields, Waking
    <3>7. WakesWith(k, k', {t}, EOK)
      <4>1. k'.state = w.state /\ k'.obj = w.obj /\ k'.evbits = w.evbits
        BY <3>5 DEF Only, Fields
      <4> QED BY <3>1, <3>3, <3>4, <4>1 DEF WakesWith
    <3>8. {t} \subseteq Range(k.wait_list[v])
      BY <3>1 DEF ws
    <3>9. Waking \cap {"prio", "real_prio", "owner", "count", "wait_aborted"} = {}
      BY DEF Waking
    <3> QED BY <2>1, <3>6, <3>7, <3>8, <3>9, CondWakes
  <2> QED BY <2>1, <2>2, <2>3
<1>3. ASSUME NEW v \in Cvs, NEW msg, NEW n, n = condvar_broadcast_msg(k, v, msg)
      PROVE  Shape(n) /\ MutexOK(n, call)
  <2>1. n = IF k.wait_list[v] = <<>> THEN k
            ELSE do_reschedule(wakeup(unlink(k, Range(k.wait_list[v])), k.wait_list[v], msg), Head(k.wait_list[v]))
    BY <1>3 DEF condvar_broadcast_msg
  <2>2. Shape(n) /\ Only(k, n, Waking) /\ WakesWith(k, n, Range(k.wait_list[v]), msg)
    BY <1>0, <1>v, <2>1, BroadcastEffect
  <2>3. Waking \cap {"prio", "real_prio", "owner", "count", "wait_aborted"} = {}
    BY DEF Waking
  <2> QED BY <2>2, <2>3, CondWakes
<1>4. ASSUME NEW v \in Cvs, CondBroadcast(v) PROVE MutexOK(k', call')
  BY <1>3, <1>4 DEF CondBroadcast
<1>5. ASSUME NEW t \in Task, NEW v \in Cvs, CondDestroy(t, v) PROVE MutexOK(k', call')
  <2> DEFINE n == condvar_broadcast_msg(k, v, EDESTROY)
  <2>1. k' = [n EXCEPT !.live = @ \ {v}] /\ call' = call
    BY <1>5 DEF CondDestroy
  <2>2. Shape(n) /\ MutexOK(n, call)
    BY <1>3
  <2> HIDE DEF n
  <2>3. Only(n, k', {"live"})
    BY <2>1, <2>2 DEF Shape, Only, Fields
  <2>4. Aside(n, k', {})
    BY <2>3, StoreAside
  <2> QED BY <1>s, <2>1, <2>2, <2>4, AsideOK
<1>6. ASSUME NEW t \in Task, NEW v \in Cvs, CondCreate(t, v) PROVE MutexOK(k', call')
  <2>1. Only(k, k', {"live", "wait_list"}) /\ call' = call
    BY <1>0, <1>6 DEF CondCreate, Only, Fields
  <2>2. Aside(k, k', {})
    BY <2>1, StoreAside
  <2> QED BY <1>s, <2>1, <2>2, AsideOK
<1>7. ASSUME NEW t \in Task, CondWaitReturn(t) PROVE MutexOK(k', call')
  <2>1. k' = leave(k, t) /\ t = k.currp /\ k.state[t] \in Up
    BY <1>7, ExecUp DEF CondWaitReturn
  <2>2. SameLocks(call, call') /\ ~Locking(call'[t])
    <3>1. /\ call'[t].op \in {"none", "mtx"} /\ call'[t].pc \in {"run", "enter"}
          /\ \A u \in Task \ {t} : call'[u] = call[u]
      BY <1>0, <1>7 DEF CondWaitReturn, NoCall
    <3> QED BY <3>1 DEF SameLocks, Locking
  <2>3. Aside(k, k', {t})
    BY <1>0, <2>1, LeaveAside
  <2> QED BY <2>2, <2>3, AsideOK
<1> QED BY <1>1, <1>2, <1>4, <1>5, <1>6, <1>7 DEF CondOps

-----------------------------------------------------------------------------
\* At first nobody is in a call.
LEMMA InitMutex ==
  ASSUME Init
  PROVE  MutexOK(k, call)
<1>1. /\ k.prio = k.real_prio /\ k.count = [x \in Mtxs |-> 0] /\ call = [t \in Task |-> NoCall]
      /\ \A t \in Task : k.state[t] # "WTMTX"
  BY DEF Init, InitKernel
<1>2. \A t \in Task : k.prio[t] \in Int
  BY InitOK, KernelShape, KernelTypes, Prios
<1> QED BY <1>1, <1>2 DEF MutexOK, Lends, LockTold, GivenAway, Single, Locking, NoCall

\* What the mutexes and the condition variables keep, as long as no task is
\* suspended, killed or given another priority.
MutexInv == KernelOK(k, call) /\ UrgencyOK(k) /\ MutexOK(k, call)

\* Every step keeps it.
LEMMA MutexStep ==
  ASSUME MutexInv, [CondNext]_vars
  PROVE  MutexInv'
<1>1. [Next]_vars
  BY DEF CondNext, Next, SchedOps
<1>2. KernelOK(k', call') /\ UrgencyOK(k')
  BY <1>1, UrgentStep DEF MutexInv
<1>3. MutexOK(k', call')
  <2>1. CASE CondNext
    BY <1>2, <2>1, MachineMutex, SleepOpsMutex, MtxOpsMutex, CondOpsMutex DEF CondNext, MutexInv
  <2>2. CASE UNCHANGED vars
    BY <2>2 DEF vars, MutexInv
  <2> QED BY <2>1, <2>2
<1> QED BY <1>2, <1>3 DEF MutexInv

(***************************************************************************)
(* isix_mutex_lock, mutex_waiter_removed, transfer: the owner of a mutex   *)
(* is at least as urgent as every waiter that owns nothing itself,         *)
(* whatever locks, hand-overs, recursive unlocks, destructions and waits   *)
(* for conditions came before.                                             *)
(***************************************************************************)
THEOREM MutexOwnersInherit == CondSpec => []OwnerInherits
<1>1. Init => MutexInv
  BY InitOK, InitUrgent, InitMutex DEF MutexInv
<1>2. MutexInv /\ [CondNext]_vars => MutexInv'
  BY MutexStep
<1>3. MutexInv => OwnerInherits
  <2> SUFFICES ASSUME MutexInv, NEW x \in Mtxs, NEW w \in Task, w \in Range(k.wait_list[x]), k.owned[w] = <<>>
               PROVE  k.prio[k.owner[x]] <= k.prio[w]
    BY DEF OwnerInherits
  <2>1. CoreInv(k, call, {}) /\ OwnersOK(k)
    BY KernelShape DEF MutexInv
  <2>2. k.state[w] = "WTMTX" /\ k.obj[w] = x
    BY <2>1, MutexWaiter
  <2>3. k.prio[k.owner[x]] <= k.real_prio[w]
    BY <2>2 DEF MutexInv, MutexOK, Lends
  <2>4. \A y \in Mtxs : k.owner[y] # w
    BY <2>1 DEF OwnersOK, Range
  <2>5. k.prio[w] = k.real_prio[w]
    BY <2>2, <2>4 DEF MutexInv, UrgencyOK, Lent, Gone
  <2> QED BY <2>3, <2>5
<1> QED BY <1>1, <1>2, <1>3, PTL DEF CondSpec

(***************************************************************************)
(* isix_mutex_lock: a lock that waited and returns ISIX_EOK has the mutex. *)
(* Nobody takes it between the hand-over and the return, and no other wait *)
(* of the same thread leaves a message that the lock could mistake for its *)
(* own.                                                                    *)
(***************************************************************************)
THEOREM LockTellsOwner == CondSpec => []LockOkMeansOwner
<1>1. Init => MutexInv
  BY InitOK, InitUrgent, InitMutex DEF MutexInv
<1>2. MutexInv /\ [CondNext]_vars => MutexInv'
  BY MutexStep
<1>3. MutexInv => LockOkMeansOwner
  <2> SUFFICES ASSUME MutexInv, NEW t \in Task, call[t].op = "mtx", call[t].pc = "after", Linked(t),
                      ~k.wait_aborted[t], k.obj[t] = EOK
               PROVE  k.owner[call[t].o] = t
    BY DEF LockOkMeansOwner
  <2>1. k.state[t] # "WTMTX"
    BY DEF Linked
  <2> QED BY <2>1 DEF MutexInv, MutexOK, LockTold, Locking
<1> QED BY <1>1, <1>2, <1>3, PTL DEF CondSpec

(***************************************************************************)
(* isix_condvar_wait, for mutexes that are not locked recursively: who     *)
(* waits for a condition, and whose wait ended with an error, does not own *)
(* the mutex it gave up.  (With recursion it may: the wait gives up one    *)
(* level only.)                                                            *)
(***************************************************************************)
THEOREM CondGivesMutexAway ==
  ASSUME MaxCount = 1
  PROVE  CondSpec => []CondWaiterReleased
<1>1. Init => MutexInv
  BY InitOK, InitUrgent, InitMutex DEF MutexInv
<1>2. MutexInv /\ [CondNext]_vars => MutexInv'
  BY MutexStep
<1>3. MutexInv => CondWaiterReleased
  BY DEF MutexInv, MutexOK, GivenAway, CondWaiterReleased
<1> QED BY <1>1, <1>2, <1>3, PTL DEF CondSpec
=============================================================================
