----------------------------- MODULE Sync_proofs -----------------------------
(***************************************************************************)
(* The services of event groups and semaphores, and those of mutexes and   *)
(* condition variables, keep the invariant of the kernel.                  *)
(***************************************************************************)
EXTENDS Semaphore, Condvar, Kernel_proofs

\* A semaphore or an event group is an object and no mutex.
LEMMA SyncObjects ==
  /\ Sems \cup Evts \subseteq Object /\ Object \subseteq Obj /\ Task \subseteq Obj
  /\ (Sems \cup Evts) \cap Mtxs = {}
  /\ Object \cap Task = {} /\ Null \notin Obj /\ Evts \cap Sems = {}
  /\ Sems \subseteq Notifier /\ Mtxs \subseteq Object /\ Cvs \subseteq Object
BY TaskAssumption DEF Obj, Object, Notifier

-----------------------------------------------------------------------------
\* event_set: some of the waiters leave.
LEMMA EventSetOK ==
  ASSUME NEW m, NEW c, CoreInv(m, c, {}), OwnersOK(m), NEW e \in Evts, NEW bits \in SUBSET Bits
  PROVE  LET r == event_set(m, e, bits) IN
         CoreInv(r, c, {}) /\ OwnersOK(r) /\ Signalled(m, r)
<1>0. /\ m \in Kernel /\ m.wait_list \in [Obj -> Seq(Task)] /\ e \in Obj
      /\ m.bitset \in [Evts -> SUBSET Bits] /\ WaitPlaced(m, c, {}) /\ m.pendsv \in BOOLEAN
  BY CoreParts, KernelTypes, SyncObjects
<1> DEFINE cur == m.bitset[e] \cup bits
           T   == {t \in Task : check_cond(cur, m.evbits[t])}
           ws  == Keep(m.wait_list[e], T)
           clr == UNION {m.evbits[t].bits : t \in {u \in Range(ws) : m.evbits[u].clear}}
           n   == wakeup(unlink(m, Range(ws)), ws, EOK)
           f   == [t \in Task |-> IF t \in Range(ws) THEN [NoBits EXCEPT !.bits = cur] ELSE n.evbits[t]]
           g   == [n.bitset EXCEPT ![e] = cur \ clr]
           b   == n.pendsv \/ \E t \in Range(ws) : prio_gt(m.prio[t], m.prio[m.currp])
           r   == [n EXCEPT !.evbits = f, !.bitset = g, !.pendsv = b]
<1>1. event_set(m, e, bits) = r
  BY DEF event_set
<1>2. ws \in Seq(Task) /\ Range(ws) \subseteq Range(m.wait_list[e]) /\ Distinct(ws)
  <2>1. m.wait_list[e] \in Seq(Task) /\ Distinct(m.wait_list[e])
    BY <1>0 DEF WaitPlaced
  <2> HIDE DEF T
  <2>2. ws \in Seq(Task) /\ Range(ws) = Range(m.wait_list[e]) \cap T
    BY <2>1, KeepProperties
  <2>3. Distinct(ws)
    BY <2>1, KeepOrder
  <2> QED BY <2>2, <2>3
<1>3. cur \in SUBSET Bits
  BY <1>0
<1> HIDE DEF T, ws, cur, clr
<1>4. /\ CoreInv(n, c, {}) /\ OwnersOK(n) /\ n \in Kernel
      /\ SameCore(m, n) /\ SameRest(m, n) /\ n.prio = m.prio /\ n.pendsv = m.pendsv
      /\ n.jiffies = m.jiffies
      /\ \A t \in Task : n.state[t] = IF t \in Range(ws) THEN "READY" ELSE m.state[t]
  <2>1. EOK \in Msg
    BY DEF Msg
  <2> QED BY <1>0, <1>2, <2>1, WakeWaitersOK
<1> HIDE DEF n
<1>5. f \in [Task -> EvBits] /\ g \in [Evts -> SUBSET Bits] /\ b \in BOOLEAN
  <2>1. [NoBits EXCEPT !.bits = cur] \in EvBits
    BY <1>3 DEF NoBits, EvBits
  <2>2. n.evbits \in [Task -> EvBits] /\ n.bitset \in [Evts -> SUBSET Bits] /\ cur \ clr \in SUBSET Bits
    BY <1>3, <1>4, KernelTypes
  <2>3. n.pendsv \in BOOLEAN
    BY <1>4, KernelTypes
  <2> QED BY <2>1, <2>2, <2>3 DEF prio_gt
<1>6. n.pendsv => b
  OBVIOUS
<1> HIDE DEF f, g, b
<1>7. /\ r \in Kernel /\ SameLinks(n, r) /\ SameControl(n, r) /\ (n.pendsv => r.pendsv)
      /\ r.wait_aborted = n.wait_aborted /\ r.obj = n.obj /\ r.prio = n.prio
      /\ r.owner = n.owner /\ r.count = n.count /\ r.owned = n.owned
  BY <1>4, <1>5, <1>6 DEF Kernel, SameLinks, SameControl
<1> HIDE DEF r
<1>8. CoreInv(r, c, {})
  BY <1>4, <1>7, AlterOK
<1>9. OwnersOK(r)
  BY <1>4, <1>7 DEF OwnersOK, SameLinks, SameControl
<1>10. Signalled(m, r)
  BY <1>4, <1>7 DEF Signalled, SameCore, SameLinks, SameControl, Up
<1> QED BY <1>1, <1>8, <1>9, <1>10

\* event_clear.
LEMMA EventClearOK ==
  ASSUME NEW m, NEW c, CoreInv(m, c, {}), OwnersOK(m), NEW e \in Evts, NEW bits
  PROVE  LET r == event_clear(m, e, bits) IN
         CoreInv(r, c, {}) /\ OwnersOK(r) /\ Signalled(m, r)
<1> DEFINE g == [m.bitset EXCEPT ![e] = m.bitset[e] \ bits]
           r == [m EXCEPT !.bitset = g]
<1>0. m \in Kernel /\ m.bitset \in [Evts -> SUBSET Bits]
  BY CoreParts, KernelTypes
<1>1. event_clear(m, e, bits) = r
  BY <1>0 DEF event_clear, Kernel
<1>2. g \in [Evts -> SUBSET Bits]
  BY <1>0
<1> HIDE DEF g
<1>3. /\ r \in Kernel /\ SameLinks(m, r) /\ SameControl(m, r) /\ r.pendsv = m.pendsv
      /\ r.wait_aborted = m.wait_aborted /\ r.obj = m.obj /\ r.prio = m.prio
      /\ r.owner = m.owner /\ r.count = m.count /\ r.owned = m.owned
  BY <1>0, <1>2 DEF Kernel, SameLinks, SameControl
<1> HIDE DEF r
<1>4. CoreInv(r, c, {})
  BY <1>3, AlterOK
<1>5. OwnersOK(r)
  BY <1>3 DEF OwnersOK, SameLinks, SameControl
<1>6. Signalled(m, r)
  BY <1>3 DEF Signalled, SameLinks, SameControl
<1> QED BY <1>1, <1>4, <1>5, <1>6

\* The blocking half of isix_event_wait and isix_event_sync.
LEMMA EventBlockOK ==
  ASSUME NEW m, NEW c, CoreInv(m, c, {}), OwnersOK(m), m.currp # Idle, m.state[m.currp] \in Up,
         m.sched_lock = 0, NEW e \in Evts, e \in m.live, NEW w \in EvBits, NEW tout \in Tick,
         NEW d \in Call, CallKind(d), d.op \in {"evt", "sync"}, d.o = e, d.pc \in {"yield", "after"},
         d.pc = "yield" \/ m.pendsv
  PROVE  LET r == event_block(m, e, w, tout) IN
         CoreInv(r, [c EXCEPT ![m.currp] = d], {}) /\ OwnersOK(r)
<1>0. /\ m \in Kernel /\ m.currp \in Task /\ m.wait_aborted \in [Task -> BOOLEAN]
      /\ e \in Obj /\ e \in Object /\ e \notin Task /\ e \notin Mtxs
  BY CoreParts, KernelTypes, SyncObjects
<1> DEFINE t == m.currp
           a == [m.wait_aborted EXCEPT ![t] = FALSE]
           n == [m EXCEPT !.wait_aborted = a]
           s == set_sleep_timeout(n, "WTEVT", tout)
           q == Append(s.wait_list[e], t)
           f == [s.wait_list EXCEPT ![e] = q]
           g == [s.evbits EXCEPT ![t] = w]
           r == [s EXCEPT !.wait_list = f, !.evbits = g]
<1>1. a \in [Task -> BOOLEAN] /\ ~a[t] /\ \A u \in Task \ {t} : a[u] = m.wait_aborted[u]
  BY <1>0
<1> HIDE DEF a
<1>2. /\ n \in Kernel /\ SameLinks(m, n) /\ SameControl(m, n) /\ n.pendsv = m.pendsv
      /\ n.wait_aborted = a /\ n.obj = m.obj /\ n.prio = m.prio
      /\ n.owner = m.owner /\ n.count = m.count /\ n.owned = m.owned
  BY <1>0, <1>1 DEF Kernel, SameLinks, SameControl
<1> HIDE DEF n
<1>5. /\ CoreInv(s, c, {t}) /\ OwnersOK(s) /\ s \in Kernel
      /\ s.currp = m.currp /\ s.sched_lock = 0 /\ s.live = m.live /\ s.pendsv = m.pendsv
      /\ s.state[t] = "WTEVT" /\ ~s.wait_aborted[t]
  <2>1. "WTEVT" \in Timed
    BY DEF Timed
  <2>2. ~n.wait_aborted[m.currp] /\ \A u \in Task \ {m.currp} :
          n.wait_aborted[u] = m.wait_aborted[u] /\ n.obj[u] = m.obj[u]
    BY <1>1, <1>2
  <2> HIDE DEF n
  <2> QED BY <1>2, <2>1, <2>2, PrepareSleepOK
<1>6. /\ event_block(m, e, w, tout) = r
  <2>1. event_block(m, e, w, tout) = [s EXCEPT !.wait_list[e] = Append(@, t), !.evbits = [@ EXCEPT ![t] = w]]
    BY DEF event_block, n, a
  <2>2. s \in Kernel
    BY <1>5, CoreParts
  <2> HIDE DEF s
  <2> QED BY <2>1, <2>2 DEF Kernel
<1> HIDE DEF s
<1>7. s \in Kernel /\ s.wait_list \in [Obj -> Seq(Task)] /\ s.evbits \in [Task -> EvBits]
  BY <1>5, CoreParts, KernelTypes
<1>8. /\ q \in Seq(Task) /\ Range(q) = Range(s.wait_list[e]) \cup {t}
      /\ Distinct(s.wait_list[e]) /\ t \notin Range(s.wait_list[e]) => Distinct(q)
  <2>1. s.wait_list[e] \in Seq(Task) /\ t \in Task
    BY <1>0, <1>7
  <2> HIDE DEF t
  <2> QED BY <2>1, AppendList
<1> HIDE DEF q
<1>9. /\ f \in [Obj -> Seq(Task)] /\ f[e] = q /\ \A p \in Obj \ {e} : f[p] = s.wait_list[p]
      /\ g \in [Task -> EvBits]
  BY <1>0, <1>7, <1>8
<1> HIDE DEF f, g
<1>10. /\ r \in Kernel /\ r.wait_list = f /\ r.obj = s.obj /\ r.state = s.state /\ r.ready = s.ready
       /\ r.prio = s.prio /\ SameTime(s, r) /\ SameControl(s, r) /\ r.zombie = s.zombie
       /\ r.pendsv = s.pendsv /\ r.wait_aborted = s.wait_aborted
       /\ r.owner = s.owner /\ r.count = s.count /\ r.owned = s.owned
  BY <1>7, <1>9 DEF Kernel, SameTime, SameControl
<1> HIDE DEF r
<1>11. CoreInv(r, [c EXCEPT ![t] = d], {})
  <2>1. /\ \A u \in Task \ {t} : r.obj[u] = s.obj[u] /\ r.wait_aborted[u] = s.wait_aborted[u]
        /\ \A p \in Obj \ {e} : r.wait_list[p] = s.wait_list[p]
        /\ Range(r.wait_list[e]) = Range(s.wait_list[e]) \cup {t}
        /\ Distinct(s.wait_list[e]) /\ t \notin Range(s.wait_list[e]) => Distinct(r.wait_list[e])
    BY <1>8, <1>9, <1>10
  <2>2. /\ Blocked(s.state[t], d, r.obj[t], r.wait_aborted[t]) /\ ~Freeing(d)
        /\ e = IF s.state[t] \in {"WTEXIT", "WTEVT"} THEN d.o ELSE r.obj[t]
        /\ s.state[t] \in Waiting
    BY <1>5, <1>10 DEF Blocked, Waiting, Freeing
  <2>3. /\ e \in s.live /\ (d.o \in Object => d.o \in s.live)
        /\ t = s.currp => s.sched_lock = 0 /\ (d.pc = "yield" \/ r.pendsv)
        /\ (s.pendsv => r.pendsv)
    BY <1>5, <1>10
  <2> HIDE DEF t
  <2> QED BY <1>0, <1>5, <1>7, <1>10, <2>1, <2>2, <2>3, QueueOK DEF t
<1>12. OwnersOK(r)
  <2>1. \A x \in Mtxs : r.wait_list[x] = s.wait_list[x]
    BY <1>0, <1>9, <1>10, SyncObjects
  <2> QED BY <1>5, <1>10, <2>1 DEF OwnersOK, SameControl
<1> QED BY <1>6, <1>11, <1>12

-----------------------------------------------------------------------------
\* Polling, setting and clearing, by threads and by interrupt handlers.
LEMMA EventDataOK ==
  ASSUME KernelOK(k, call), NEW e \in Evts,
         \/ \E t \in Task, w \in EvWaits : EventPoll(t, e, w)
         \/ \E t \in Task, bits \in SetBits : EventSet(t, e, bits)
         \/ \E bits \in SetBits : EventSetIsr(e, bits) \/ EventClear(e, bits)
  PROVE  KernelOK(k', call')
<1>0. CoreInv(k, call, {}) /\ OwnersOK(k)
  BY DEF KernelOK
<1>1. ASSUME NEW t \in Task, NEW w \in EvWaits, EventPoll(t, e, w)
      PROVE  KernelOK(k', call')
  <2>1. call' = call /\ (k' = event_clear(k, e, w.bits) \/ k' = k)
    BY <1>1 DEF EventPoll
  <2> QED BY <1>0, <2>1, EventClearOK DEF KernelOK
<1>2. ASSUME NEW bits \in SetBits, k' = event_set(k, e, bits), call' = call
      PROVE  KernelOK(k', call')
  <2>1. bits \in SUBSET Bits
    BY EventAssumption
  <2> QED BY <1>0, <1>2, <2>1, EventSetOK DEF KernelOK
<1>3. ASSUME NEW bits \in SetBits, k' = event_clear(k, e, bits), call' = call
      PROVE  KernelOK(k', call')
  BY <1>0, <1>3, EventClearOK DEF KernelOK
<1> QED BY <1>1, <1>2, <1>3 DEF EventSet, EventSetIsr, EventClear

\* isix_event_create.
LEMMA EventCreateOK ==
  ASSUME KernelOK(k, call), NEW t \in Task, NEW e \in Evts, EventCreate(t, e)
  PROVE  KernelOK(k', call')
<1>0. /\ CoreInv(k, call, {}) /\ OwnersOK(k) /\ k \in Kernel /\ AliveOK(k, call) /\ e \in Object
      /\ e \in Obj /\ e \notin k.live
  BY CoreParts, SyncObjects DEF KernelOK, EventCreate
<1> DEFINE L == k.live \cup {e}
           g == [k.bitset EXCEPT ![e] = {}]
           f == [k.wait_list EXCEPT ![e] = <<>>]
           r == [k EXCEPT !.live = L, !.bitset = g, !.wait_list = f]
<1>1. k' = r /\ call' = call
  BY DEF EventCreate
<1>2. L \in SUBSET Object /\ g \in [Evts -> SUBSET Bits]
  BY <1>0, KernelTypes
<1>3. f = k.wait_list
  BY <1>0, KernelTypes DEF AliveOK
<1>4. \A o \in Object \ L : k.wait_list[o] = <<>>
  BY <1>0 DEF AliveOK
<1>5. \A u \in Task : call[u].o \in Object \ L => Harmless(call[u], k.wait_aborted[u])
  BY <1>0 DEF AliveOK
<1>6. \A n \in Notifier : k.evt[n] # Null => k.evt[n] \in L /\ 0 \in Bits
  BY <1>0 DEF AliveOK
<1>7. \A x \in Mtxs : x \notin L => x \notin k.live
  OBVIOUS
<1> HIDE DEF L, g, f
<1>8. /\ r \in Kernel /\ SameLinks(k, r) /\ r.live = L /\ r.currp = k.currp
      /\ r.sched_lock = k.sched_lock /\ r.refcnt = k.refcnt /\ r.bug = k.bug
      /\ r.pendsv = k.pendsv /\ r.prio = k.prio /\ r.obj = k.obj /\ r.wait_aborted = k.wait_aborted
      /\ r.evt = k.evt /\ r.owner = k.owner /\ r.count = k.count /\ r.owned = k.owned
  BY <1>0, <1>2, <1>3 DEF Kernel, SameLinks
<1> HIDE DEF r
<1>9. CoreInv(r, call, {})
  BY <1>0, <1>4, <1>5, <1>6, <1>8, LiveOK
<1>10. OwnersOK(r)
  BY <1>0, <1>7, <1>8 DEF OwnersOK, SameLinks
<1> QED BY <1>1, <1>9, <1>10 DEF KernelOK

\* isix_event_destroy.
LEMMA EventDestroyOK ==
  ASSUME KernelOK(k, call), NEW t \in Task, NEW e \in Evts, EventDestroy(t, e)
  PROVE  KernelOK(k', call')
<1>0. /\ CoreInv(k, call, {}) /\ OwnersOK(k) /\ k \in Kernel /\ AliveOK(k, call) /\ e \in Object
      /\ e \in Obj /\ WaitPlaced(k, call, {}) /\ k.wait_list \in [Obj -> Seq(Task)]
  BY CoreParts, KernelTypes, SyncObjects DEF KernelOK, EventDestroy
<1> DEFINE ws == k.wait_list[e]
           n  == wakeup(unlink(k, Range(ws)), ws, EDESTROY)
           L  == n.live \ {e}
           b  == n.pendsv \/ \E u \in Range(ws) : prio_gt(k.prio[u], k.prio[k.currp])
           p  == [n EXCEPT !.pendsv = b]
           r  == [n EXCEPT !.live = L, !.pendsv = b]
<1>1. k' = r /\ call' = call /\ \A i \in Notifier : k.evt[i] # e
  BY DEF EventDestroy, event_destroy
<1>2. /\ CoreInv(n, call, {}) /\ OwnersOK(n) /\ n \in Kernel
      /\ SameCore(k, n) /\ n.prio = k.prio /\ n.pendsv = k.pendsv
      /\ \A o \in Obj : Range(n.wait_list[o]) = Range(k.wait_list[o]) \ Range(ws)
  <2>1. ws \in Seq(Task) /\ Distinct(ws) /\ Range(ws) \subseteq Range(k.wait_list[e])
    BY <1>0 DEF WaitPlaced
  <2>2. EDESTROY \in Msg
    BY DEF Msg
  <2> HIDE DEF ws
  <2> QED BY <1>0, <2>1, <2>2, WakeWaitersOK
<1>3. \A u \in Task : call[u].o = e => Harmless(call[u], k.wait_aborted[u])
  BY <1>0, QuiescentHarmless DEF EventDestroy
<1>4. n.wait_list[e] = <<>>
  <2>1. Range(n.wait_list[e]) = {} /\ n.wait_list[e] \in Seq(Task)
    BY <1>0, <1>2, KernelTypes
  <2> HIDE DEF n
  <2> QED BY <2>1, EmptyRange
<1>5. b \in BOOLEAN /\ (n.pendsv => b)
  BY <1>2, KernelTypes DEF prio_gt
<1>6. AliveOK(n, call) /\ n.live \in SUBSET Object
  BY <1>2, CoreParts, KernelTypes
<1> HIDE DEF ws, n, b
<1>7. /\ CoreInv(p, call, {}) /\ (OwnersOK(n) => OwnersOK(p)) /\ SameLinks(n, p) /\ SameControl(n, p)
      /\ p.prio = n.prio /\ p.pendsv = b /\ p.wait_aborted = n.wait_aborted /\ p.obj = n.obj
      /\ p.owner = n.owner /\ p.owned = n.owned /\ p.count = n.count
  BY <1>2, <1>5, PendOK
<1>8. L \in SUBSET Object
  BY <1>6
<1>9. /\ r \in Kernel /\ SameLinks(p, r) /\ r.live = L /\ r.currp = p.currp
      /\ r.sched_lock = p.sched_lock /\ r.refcnt = p.refcnt /\ r.bug = p.bug
      /\ r.pendsv = p.pendsv /\ r.prio = p.prio /\ r.obj = p.obj /\ r.wait_aborted = p.wait_aborted
      /\ r.evt = p.evt /\ r.owner = p.owner /\ r.count = p.count /\ r.owned = p.owned
  <2> HIDE DEF L
  <2> QED BY <1>2, <1>5, <1>8 DEF Kernel, SameLinks
<1>10. \A o \in Object \ L : p.wait_list[o] = <<>>
  BY <1>4, <1>6, <1>7 DEF AliveOK, SameLinks
<1>11. \A u \in Task : call[u].o \in Object \ L => Harmless(call[u], p.wait_aborted[u])
  BY <1>2, <1>3, <1>6, <1>7 DEF AliveOK, SameCore
<1>12. \A i \in Notifier : r.evt[i] # Null => r.evt[i] \in L /\ 0 \in Bits
  BY <1>1, <1>2, <1>6, <1>7, <1>9 DEF AliveOK, SameCore, SameControl
<1>13. \A x \in Mtxs : x \notin L => x \notin n.live
  BY SyncObjects
<1> HIDE DEF L, p, r
<1>14. CoreInv(r, call, {})
  BY <1>7, <1>9, <1>10, <1>11, <1>12, LiveOK
<1>15. OwnersOK(r)
  BY <1>2, <1>7, <1>9, <1>13 DEF OwnersOK, SameLinks, SameControl
<1> QED BY <1>1, <1>14, <1>15 DEF KernelOK

-----------------------------------------------------------------------------
\* The rest of the time of a call is a number of ticks.
LEMMA TimeLeftType ==
  ASSUME NEW t \in Task, k.jiffies \in Tick, call[t] \in Call, ~TimeOver(t)
  PROVE  TimeLeft(t) \in Tick
<1>1. k.jiffies \in Int /\ call[t].start \in Int /\ call[t].tmo \in Tick
  BY Ticks DEF Call
<1>2. Elapsed(t) \in 0 .. MaxTick
  BY <1>1, Ticks DEF Elapsed
<1> QED BY <1>1, <1>2, Ticks DEF TimeOver, TimeLeft, Infinite

\* isix_event_wait and isix_event_sync begin.
LEMMA EventBeginOK ==
  ASSUME KernelOK(k, call), NEW t \in Task, NEW e \in Evts, NEW timeout \in Timeouts,
         \/ \E w \in EvWaits : EventWait(t, e, w, timeout)
         \/ \E bits \in SetBits : EventSync(t, e, bits, SyncBits, timeout)
  PROVE  KernelOK(k', call')
<1>0. /\ t = k.currp /\ t # Idle /\ k.state[t] \in Up /\ k.sched_lock = 0 /\ e \in k.live /\ k' = k
      /\ CoreInv(k, call, {}) /\ OwnersOK(k) /\ k.jiffies \in Tick
  <2>1. MayBlock(t) /\ e \in k.live /\ k' = k
    BY DEF EventWait, EventSync
  <2> QED BY <2>1, RunningUp, KernelTypes DEF MayBlock
<1>1. timeout \in Tick /\ 0 \in Tick /\ e \in Obj
  BY TimeAssumption, Ticks, SyncObjects
<1> DEFINE st == IF timeout = Infinite THEN 0 ELSE k.jiffies
<1>2. st \in Tick
  BY <1>0, <1>1
<1> HIDE DEF st
<1>3. ASSUME NEW d, call' = [call EXCEPT ![t] = d], d \in Call, d.op \in {"evt", "sync"},
             d.pc = "enter", d.o = e, d.op = "sync" => d.w.all
      PROVE  KernelOK(k', call')
  <2>1. CallKind(d) /\ ~Freeing(d)
    BY <1>3 DEF CallKind, Freeing
  <2>2. CoreInv(k, [call EXCEPT ![t] = d], {})
    BY <1>0, <1>3, <2>1, BeginCallOK
  <2> QED BY <1>0, <1>3, <2>2 DEF KernelOK
<1>4. ASSUME NEW w \in EvWaits, EventWait(t, e, w, timeout)
      PROVE  KernelOK(k', call')
  <2> DEFINE d == [NoCall EXCEPT !.op = "evt", !.pc = "enter", !.o = e, !.w = w, !.tmo = timeout,
                                 !.start = st]
  <2>1. call' = [call EXCEPT ![t] = d]
    BY <1>4 DEF EventWait, st
  <2>2. w \in EvBits /\ "evt" \in Ops /\ "enter" \in Pcs
    BY EventAssumption DEF Ops, Pcs
  <2>3. d \in Call /\ d.op = "evt" /\ d.pc = "enter" /\ d.o = e
    BY <1>1, <1>2, <2>2, NoCallFits DEF Call
  <2> HIDE DEF d
  <2> QED BY <1>3, <2>1, <2>3
<1>5. ASSUME NEW bits \in SetBits, EventSync(t, e, bits, SyncBits, timeout)
      PROVE  KernelOK(k', call')
  <2> DEFINE w == [bits |-> SyncBits, all |-> TRUE, clear |-> TRUE]
             d == [NoCall EXCEPT !.op = "sync", !.pc = "enter", !.o = e, !.set = bits, !.w = w,
                                 !.tmo = timeout, !.start = st]
  <2>1. call' = [call EXCEPT ![t] = d]
    BY <1>5 DEF EventSync, st
  <2>2. w \in EvBits /\ bits \in SUBSET Bits /\ "sync" \in Ops /\ "enter" \in Pcs
    BY EventAssumption DEF Ops, Pcs, EvBits
  <2>4. w.all
    OBVIOUS
  <2> HIDE DEF w
  <2>3. d \in Call /\ d.op = "sync" /\ d.pc = "enter" /\ d.o = e /\ d.w = w
    BY <1>1, <1>2, <2>2, NoCallFits DEF Call
  <2> HIDE DEF d
  <2> QED BY <1>3, <2>1, <2>3, <2>4
<1> QED BY <1>4, <1>5

\* The critical section of isix_event_wait.
LEMMA EventWaitEnterOK ==
  ASSUME KernelOK(k, call), NEW t \in Task, EventWaitEnter(t)
  PROVE  KernelOK(k', call')
<1> DEFINE e == call[t].o
           w == call[t].w
           d == [call[t] EXCEPT !.pc = "yield"]
<1>0. /\ t = k.currp /\ t # Idle /\ k.state[t] \in Up /\ k.sched_lock = 0
      /\ CoreInv(k, call, {}) /\ OwnersOK(k) /\ k \in Kernel
      /\ call \in [Task -> Call] /\ call[t] \in Call /\ e \in Evts /\ e \in k.live
  <2>1. Exec(t) /\ call[t].pc = "enter" /\ call[t].op = "evt" /\ call[t].op \in Blocking
    BY DEF EventWaitEnter, Blocking
  <2> QED BY <2>1, EnterUp, SyncObjects DEF CallKind
<1>1. \/ call' = [call EXCEPT ![t] = NoCall] /\ k' = leave(event_clear(k, e, w.bits), t)
      \/ call' = [call EXCEPT ![t] = NoCall] /\ k' = leave(k, t)
      \/ ~TimeOver(t) /\ k' = event_block(k, e, w, TimeLeft(t)) /\ call' = [call EXCEPT ![t] = d]
  BY DEF EventWaitEnter
<1>2. ASSUME NEW n, CoreInv(n, call, {}), OwnersOK(n), n.state[t] \in Up,
             k' = leave(n, t), call' = [call EXCEPT ![t] = NoCall]
      PROVE  KernelOK(k', call')
  <2> DEFINE r == leave(n, t)
  <2>1. n.state[t] \notin Waiting
    BY <1>2 DEF Up, Waiting
  <2>2. CoreInv(r, call, {}) /\ OwnersOK(r) /\ SameLinks(n, r)
    BY <1>2, <2>1, LeaveOK
  <2> HIDE DEF r
  <2>3. CoreInv(r, [call EXCEPT ![t] = NoCall], {})
    BY <1>2, <2>2, EndCallOK DEF SameLinks
  <2> QED BY <1>2, <2>2, <2>3 DEF KernelOK, r
<1>3. CASE call' = [call EXCEPT ![t] = NoCall] /\ k' = leave(event_clear(k, e, w.bits), t)
  BY <1>0, <1>2, <1>3, EventClearOK DEF Signalled
<1>4. CASE call' = [call EXCEPT ![t] = NoCall] /\ k' = leave(k, t)
  BY <1>0, <1>2, <1>4
<1>5. CASE ~TimeOver(t) /\ k' = event_block(k, e, w, TimeLeft(t)) /\ call' = [call EXCEPT ![t] = d]
  <2>1. TimeLeft(t) \in Tick /\ w \in EvBits
    BY <1>0, <1>5, TimeLeftType, KernelTypes DEF Call
  <2>2. d \in Call /\ d.op = "evt" /\ d.o = e /\ d.pc = "yield"
    BY <1>0 DEF Call, Pcs, EventWaitEnter
  <2> HIDE DEF d, e, w
  <2>3. CallKind(d)
    BY <1>0, <2>2 DEF CallKind
  <2>4. /\ CoreInv(event_block(k, e, w, TimeLeft(t)), [call EXCEPT ![k.currp] = d], {})
        /\ OwnersOK(event_block(k, e, w, TimeLeft(t)))
    BY <1>0, <2>1, <2>2, <2>3, EventBlockOK
  <2> QED BY <1>0, <1>5, <2>4 DEF KernelOK
<1> QED BY <1>1, <1>3, <1>4, <1>5

\* The critical section of isix_event_sync.
LEMMA EventSyncEnterOK ==
  ASSUME KernelOK(k, call), NEW t \in Task, EventSyncEnter(t)
  PROVE  KernelOK(k', call')
<1> DEFINE e == call[t].o
           m == event_set(k, e, call[t].set)
           d == [call[t] EXCEPT !.pc = IF m.pendsv THEN "after" ELSE "yield"]
<1>0. /\ t = k.currp /\ t # Idle /\ k.state[t] \in Up /\ k.sched_lock = 0
      /\ CoreInv(k, call, {}) /\ OwnersOK(k) /\ k \in Kernel
      /\ call \in [Task -> Call] /\ call[t] \in Call /\ e \in Evts /\ e \in k.live
  <2>1. Exec(t) /\ call[t].pc = "enter" /\ call[t].op = "sync" /\ call[t].op \in Blocking
    BY DEF EventSyncEnter, Blocking
  <2> QED BY <2>1, EnterUp, SyncObjects DEF CallKind
<1>1. \/ call' = [call EXCEPT ![t] = NoCall] /\ k' = event_clear(m, e, call[t].w.bits)
      \/ call' = [call EXCEPT ![t] = NoCall] /\ k' = m
      \/ k' = event_block(m, e, call[t].w, call[t].tmo) /\ call' = [call EXCEPT ![t] = d]
  BY DEF EventSyncEnter
<1>2. call[t].set \in SUBSET Bits /\ call[t].w \in EvBits /\ call[t].tmo \in Tick
  BY <1>0 DEF Call
<1>3. CoreInv(m, call, {}) /\ OwnersOK(m) /\ Signalled(k, m)
  BY <1>0, <1>2, EventSetOK
<1>4. m.state[t] \in Up /\ m.currp = t /\ m.sched_lock = 0 /\ m.live = k.live
  BY <1>0, <1>3 DEF Signalled
<1>5. d \in Call /\ d.op = "sync" /\ d.o = e /\ d.pc \in {"yield", "after"} /\ (d.pc = "yield" \/ m.pendsv)
      /\ d.w.all
  <2>1. CallKind(call[t]) /\ call[t].op = "sync"
    BY EnterUp DEF EventSyncEnter, Blocking
  <2>2. call[t].w.all
    BY <2>1 DEF CallKind
  <2> QED BY <1>0, <2>2 DEF Call, Pcs, EventSyncEnter
<1> HIDE DEF m, e, d
<1>6. CASE call' = [call EXCEPT ![t] = NoCall] /\ k' = event_clear(m, e, call[t].w.bits)
  <2> DEFINE r == event_clear(m, e, call[t].w.bits)
  <2>1. CoreInv(r, call, {}) /\ OwnersOK(r) /\ Signalled(m, r)
    BY <1>0, <1>3, EventClearOK
  <2> HIDE DEF r
  <2>2. CoreInv(r, [call EXCEPT ![t] = NoCall], {})
    BY <1>4, <2>1, EndCallOK DEF Signalled
  <2> QED BY <1>6, <2>1, <2>2 DEF KernelOK, r
<1>7. CASE call' = [call EXCEPT ![t] = NoCall] /\ k' = m
  BY <1>3, <1>4, <1>7, EndCallOK DEF KernelOK
<1>8. CASE k' = event_block(m, e, call[t].w, call[t].tmo) /\ call' = [call EXCEPT ![t] = d]
  <2>1. CallKind(d) /\ m.currp # Idle /\ m.state[m.currp] \in Up /\ e \in m.live
    BY <1>0, <1>4, <1>5 DEF CallKind
  <2>2. /\ CoreInv(event_block(m, e, call[t].w, call[t].tmo), [call EXCEPT ![m.currp] = d], {})
        /\ OwnersOK(event_block(m, e, call[t].w, call[t].tmo))
    BY <1>0, <1>2, <1>3, <1>4, <1>5, <2>1, EventBlockOK
  <2> QED BY <1>4, <1>8, <2>2 DEF KernelOK
<1> QED BY <1>1, <1>6, <1>7, <1>8

\* Back from the rendezvous.
LEMMA EventSyncReturnOK ==
  ASSUME KernelOK(k, call), NEW t \in Task, EventSyncReturn(t)
  PROVE  KernelOK(k', call')
<1>0. Exec(t) /\ call[t].pc = "after" /\ call[t].op = "sync"
  BY DEF EventSyncReturn
<1> DEFINE st == IF call[t].tmo = Infinite THEN 0 ELSE k.jiffies
           d  == [call[t] EXCEPT !.op = "evt", !.pc = "enter", !.set = {}, !.tmo = TimeLeft(t),
                                 !.start = st]
<1>1. CASE k.wait_aborted[t] /\ ~TimeOver(t) /\ call' = [call EXCEPT ![t] = d] /\ k' = k
  <2>2. /\ t = k.currp /\ k.state[t] \in Up /\ CoreInv(k, call, {}) /\ OwnersOK(k)
        /\ call[t] \in Call /\ k.jiffies \in Tick
    BY <1>0, ExecUp, KernelTypes
  <2>3. CurrentOK(k, call, {}) /\ CallsOK(call) /\ AliveOK(k, call)
    BY <2>2, CoreParts
  <2>4. t # Idle /\ k.sched_lock = 0 /\ call[t].o \in Evts /\ (call[t].o \in Object => call[t].o \in k.live)
    BY <1>0, <1>1, <2>2, <2>3 DEF CurrentOK, CallsOK, CallKind, AliveOK, Harmless, Blocking
  <2>5. TimeLeft(t) \in Tick /\ st \in Tick /\ "evt" \in Ops /\ "enter" \in Pcs
    BY <1>1, <2>2, TimeLeftType, Ticks DEF Ops, Pcs
  <2> HIDE DEF st
  <2>6. d \in Call /\ d.op = "evt" /\ d.pc = "enter" /\ d.o = call[t].o
    BY <2>2, <2>5 DEF Call
  <2> HIDE DEF d
  <2>7. CallKind(d) /\ ~Freeing(d)
    BY <2>4, <2>6 DEF CallKind, Freeing
  <2>8. CoreInv(k, [call EXCEPT ![t] = d], {})
    BY <2>2, <2>4, <2>6, <2>7, BeginCallOK
  <2> QED BY <1>1, <2>2, <2>8 DEF KernelOK
<1>2. CASE call' = [call EXCEPT ![t] = NoCall] /\ k' = leave(k, t)
  BY <1>0, <1>2, ReturnOK
<1> QED BY <1>1, <1>2 DEF EventSyncReturn

\* The services of event groups.
LEMMA EventOpsOK ==
  ASSUME KernelOK(k, call), EventOps
  PROVE  KernelOK(k', call')
<1>1. ASSUME NEW t \in Task, EventWaitReturn(t)
      PROVE  KernelOK(k', call')
  BY <1>1, ReturnOK DEF EventWaitReturn
<1>2. CASE \E t \in Task, e \in Evts :
             \/ \E w \in EvWaits : EventPoll(t, e, w)
             \/ \E bits \in SetBits : EventSet(t, e, bits)
  BY <1>2, EventDataOK
<1>3. CASE \E e \in Evts, bits \in SetBits : EventSetIsr(e, bits) \/ EventClear(e, bits)
  BY <1>3, EventDataOK
<1>4. CASE \E t \in Task, e \in Evts, timeout \in Timeouts :
             \/ \E w \in EvWaits : EventWait(t, e, w, timeout)
             \/ \E bits \in SetBits : EventSync(t, e, bits, SyncBits, timeout)
  BY <1>4, EventBeginOK
<1>5. CASE \E t \in Task, e \in Evts : EventDestroy(t, e) \/ EventCreate(t, e)
  BY <1>5, EventDestroyOK, EventCreateOK
<1>6. CASE \E t \in Task : EventWaitEnter(t) \/ EventWaitReturn(t) \/ EventSyncEnter(t) \/ EventSyncReturn(t)
  BY <1>1, <1>6, EventWaitEnterOK, EventSyncEnterOK, EventSyncReturnOK
<1> QED BY <1>2, <1>3, <1>4, <1>5, <1>6 DEF EventOps

-----------------------------------------------------------------------------
\* The notification of a group that a notifier was connected to.
LEMMA NotifyOK ==
  ASSUME KernelOK(k, call), NEW t \in Task, Notify(t)
  PROVE  KernelOK(k', call')
<1> DEFINE r == event_set(k, call[t].o, call[t].set)
<1>0. /\ k.state[t] \in Up /\ CoreInv(k, call, {}) /\ OwnersOK(k) /\ call[t] \in Call
  BY ExecUp DEF Notify
<1>1. call[t].o \in Evts /\ call[t].set \in SUBSET Bits
  BY <1>0, CoreParts DEF CallsOK, CallKind, Call, Notify
<1>2. CoreInv(r, call, {}) /\ OwnersOK(r) /\ Signalled(k, r)
  BY <1>0, <1>1, EventSetOK
<1>3. k' = r /\ call' = [call EXCEPT ![t] = NoCall]
  BY DEF Notify
<1> HIDE DEF r
<1>4. CoreInv(r, [call EXCEPT ![t] = NoCall], {})
  BY <1>0, <1>2, EndCallOK DEF Signalled
<1> QED BY <1>2, <1>3, <1>4 DEF KernelOK

\* The group of a notifier is exchanged: connect and disconnect.
LEMMA ConnectOK ==
  ASSUME KernelOK(k, call), NEW t \in Task, NEW n \in Notifier, NEW e \in Evts,
         EventDisconnect(t, n, e) \/ \E bit \in Bits : EventConnect(t, n, e, bit)
  PROVE  KernelOK(k', call')
<1>0. /\ t = k.currp /\ t # Idle /\ k.state[t] \in Up /\ CoreInv(k, call, {}) /\ OwnersOK(k)
      /\ k \in Kernel /\ AliveOK(k, call)
  BY RunningUp, CoreParts DEF EventDisconnect, EventConnect
<1>1. n \in Obj \cup Fifos \cup {Null} /\ (n \in Object => n \in k.live)
  BY TaskAssumption DEF Notifier, Obj, Object, EventDisconnect, EventConnect
<1>2. ASSUME NEW x \in Evts \cup {Null}, x # Null => x \in k.live /\ 0 \in Bits,
             NEW d, d \in Call, d.op \in {"connect", "disconnect"}, d.pc = "enter", d.o = n,
             d.op = "connect" => d.set # {},
             k' = [k EXCEPT !.evt = [@ EXCEPT ![n] = x]], call' = [call EXCEPT ![t] = d]
      PROVE  KernelOK(k', call')
  <2> DEFINE g == [k.evt EXCEPT ![n] = x]
             r == [k EXCEPT !.evt = g]
  <2>1. k' = r
    BY <1>2
  <2>2. g \in [Notifier -> Evts \cup {Null}] /\ \A i \in Notifier : g[i] # Null => g[i] \in k.live /\ 0 \in Bits
    BY <1>0, <1>2, KernelTypes DEF AliveOK
  <2> HIDE DEF g
  <2>3. /\ r \in Kernel /\ SameLinks(k, r) /\ r.live = k.live /\ r.currp = k.currp
        /\ r.sched_lock = k.sched_lock /\ r.refcnt = k.refcnt /\ r.bug = k.bug
        /\ r.pendsv = k.pendsv /\ r.prio = k.prio /\ r.obj = k.obj /\ r.wait_aborted = k.wait_aborted
        /\ r.evt = g /\ r.owner = k.owner /\ r.count = k.count /\ r.owned = k.owned
    BY <1>0, <2>2 DEF Kernel, SameLinks
  <2> HIDE DEF r
  <2>4. CoreInv(r, call, {})
    BY <1>0, <2>2, <2>3, LiveOK DEF AliveOK
  <2>5. OwnersOK(r)
    BY <1>0, <2>3 DEF OwnersOK, SameLinks
  <2>6. CallKind(d) /\ ~Freeing(d) /\ d.op \notin Blocking
    BY <1>2 DEF CallKind, Freeing, Blocking
  <2>7. r.state[t] \in Up
    BY <1>0, <2>3 DEF SameLinks
  <2>8. CoreInv(r, [call EXCEPT ![t] = d], {})
    BY <1>0, <1>1, <1>2, <2>3, <2>4, <2>6, <2>7, BeginCallOK
  <2> QED BY <1>2, <2>1, <2>5, <2>8 DEF KernelOK
<1>3. CASE EventDisconnect(t, n, e)
  <2> DEFINE d == [NoCall EXCEPT !.op = "disconnect", !.pc = "enter", !.o = n]
  <2>1. k' = [k EXCEPT !.evt = [@ EXCEPT ![n] = Null]] /\ call' = [call EXCEPT ![t] = d]
    BY <1>3 DEF EventDisconnect
  <2>2. "disconnect" \in Ops /\ "enter" \in Pcs
    BY DEF Ops, Pcs
  <2>3. d \in Call /\ d.op = "disconnect" /\ d.pc = "enter" /\ d.o = n
    BY <1>1, <2>2, NoCallFits DEF Call
  <2> HIDE DEF d
  <2> QED BY <1>2, <2>1, <2>3
<1>4. ASSUME NEW bit \in Bits, EventConnect(t, n, e, bit)
      PROVE  KernelOK(k', call')
  <2> DEFINE s == {bit}
             d == [NoCall EXCEPT !.op = "connect", !.pc = "enter", !.o = n, !.set = s]
  <2>1. k' = [k EXCEPT !.evt = [@ EXCEPT ![n] = e]] /\ call' = [call EXCEPT ![t] = d] /\ e \in k.live
    BY <1>4 DEF EventConnect
  <2>2. "connect" \in Ops /\ "enter" \in Pcs /\ s \in SUBSET Bits /\ s # {} /\ 0 \in Bits
    BY TaskAssumption DEF Ops, Pcs
  <2> HIDE DEF s
  <2>3. d \in Call /\ d.op = "connect" /\ d.pc = "enter" /\ d.o = n /\ d.set = s
    BY <1>1, <2>2, NoCallFits DEF Call
  <2> HIDE DEF d
  <2> QED BY <1>2, <2>1, <2>2, <2>3
<1> QED BY <1>3, <1>4

\* ... and the bit number stored.
LEMMA StoreBitOK ==
  ASSUME KernelOK(k, call), NEW t \in Task, EventStoreBit(t)
  PROVE  KernelOK(k', call')
<1> DEFINE v == IF call[t].op = "connect" THEN CHOOSE b \in call[t].set : TRUE ELSE InvalidBit
           g == [k.bitno EXCEPT ![call[t].o] = v]
           r == [k EXCEPT !.bitno = g]
<1>0. CallsOK(call) /\ CurrentOK(k, call, {}) /\ CoreInv(k, call, {}) /\ OwnersOK(k) /\ k \in Kernel
      /\ call[t] \in Call
  BY CoreParts DEF KernelOK
<1>1. k' = r /\ call' = [call EXCEPT ![t] = NoCall] /\ t = k.currp /\ ~k.pendsv
  BY DEF EventStoreBit, Exec
<1>2. call[t].o \in Notifier /\ v \in Bits \cup {0, InvalidBit}
  <2>1. CallKind(call[t]) /\ call[t].op \in {"connect", "disconnect"}
    BY <1>0 DEF CallsOK, EventStoreBit
  <2>2. call[t].op = "connect" => (CHOOSE b \in call[t].set : TRUE) \in call[t].set /\ call[t].set \in SUBSET Bits
    BY <1>0, <2>1 DEF CallKind, Call
  <2> QED BY <2>1, <2>2 DEF CallKind
<1> HIDE DEF v
<1>3. g \in [Notifier -> Bits \cup {0, InvalidBit}]
  BY <1>0, <1>2, KernelTypes
<1> HIDE DEF g
<1>4. /\ r \in Kernel /\ SameLinks(k, r) /\ SameControl(k, r) /\ r.pendsv = k.pendsv
      /\ r.wait_aborted = k.wait_aborted /\ r.obj = k.obj /\ r.prio = k.prio
      /\ r.owner = k.owner /\ r.count = k.count /\ r.owned = k.owned
  BY <1>0, <1>3 DEF Kernel, SameLinks, SameControl
<1> HIDE DEF r
<1>5. CoreInv(r, call, {})
  BY <1>0, <1>4, AlterOK
<1>6. OwnersOK(r)
  BY <1>0, <1>4 DEF OwnersOK, SameLinks, SameControl
<1>8. r.state[t] \in Up
  <2>1. k.state[t] \in Up
    BY ExecUp DEF EventStoreBit
  <2> QED BY <1>4, <2>1 DEF SameLinks
<1>9. CoreInv(r, [call EXCEPT ![t] = NoCall], {})
  BY <1>5, <1>8, EndCallOK
<1> QED BY <1>1, <1>6, <1>9 DEF KernelOK

\* Connecting a notifier to a group.
LEMMA ConnectOpsOK ==
  ASSUME KernelOK(k, call), ConnectOps
  PROVE  KernelOK(k', call')
BY ConnectOK, StoreBitOK, NotifyOK DEF ConnectOps

-----------------------------------------------------------------------------
(***************************************************************************)
(* Semaphores.                                                             *)
(***************************************************************************)

\* The counter of a semaphore, or who was handed a token, changes alone.
LEMMA ValueOK ==
  ASSUME NEW m, NEW c, CoreInv(m, c, {}), OwnersOK(m), NEW s \in Sems, NEW v \in Int,
         NEW G \in SUBSET Task, NEW r,
         r = [m EXCEPT !.value = [m.value EXCEPT ![s] = v], !.grant = G]
  PROVE  r \in Kernel /\ SameState(m, r)
<1> DEFINE g == [m.value EXCEPT ![s] = v]
<1>0. m \in Kernel
  BY CoreParts
<1>1. g \in [Sems -> Int]
  BY <1>0, KernelTypes
<1>2. r = [m EXCEPT !.value = g, !.grant = G]
  OBVIOUS
<1> HIDE DEF g
<1> DEFINE q == [m EXCEPT !.value = g, !.grant = G]
<1>3. q \in Kernel /\ SameState(m, q)
  BY <1>0, <1>1 DEF Kernel, SameState, SameLinks, SameControl
<1> HIDE DEF q
<1> QED BY <1>2, <1>3 DEF q

\* ... the counter alone.
LEMMA CounterOK ==
  ASSUME NEW m, NEW c, CoreInv(m, c, {}), OwnersOK(m), NEW s \in Sems, NEW v \in Int, NEW r,
         r = [m EXCEPT !.value = [m.value EXCEPT ![s] = v]]
  PROVE  CoreInv(r, c, {}) /\ OwnersOK(r) /\ Signalled(m, r) /\ r \in Kernel /\ SameState(m, r)
<1> DEFINE g == [m.value EXCEPT ![s] = v]
<1>0. m \in Kernel
  BY CoreParts
<1>1. g \in [Sems -> Int]
  BY <1>0, KernelTypes
<1>2. r = [m EXCEPT !.value = g]
  OBVIOUS
<1> HIDE DEF g
<1> DEFINE q == [m EXCEPT !.value = g]
<1>3. q \in Kernel /\ SameState(m, q)
  BY <1>0, <1>1 DEF Kernel, SameState, SameLinks, SameControl
<1>4. r = q
  BY <1>2
<1> HIDE DEF q
<1> QED BY <1>3, <1>4, DataOK

\* _isixp_sem_fast_signal.
LEMMA FastSignalOK ==
  ASSUME NEW m, NEW c, CoreInv(m, c, {}), OwnersOK(m), NEW s \in Sems
  PROVE  LET r == sem_fast_signal(m, s)
             v == sem_inc(m.value[s], SemLimit[s], 1)
         IN  /\ v \in Int /\ r = [m EXCEPT !.value = [m.value EXCEPT ![s] = v]]
             /\ CoreInv(r, c, {}) /\ OwnersOK(r) /\ Signalled(m, r)
<1> DEFINE v  == sem_inc(m.value[s], SemLimit[s], 1)
           r  == sem_fast_signal(m, s)
<1>0. m \in Kernel /\ m.value \in [Sems -> Int]
  BY CoreParts, KernelTypes
<1>1. v \in Int
  BY <1>0, SemIncType, SemAssumption
<1>2. r = [m EXCEPT !.value = [m.value EXCEPT ![s] = v]]
  BY <1>0 DEF sem_fast_signal, Kernel
<1> HIDE DEF v, r
<1>3. CoreInv(r, c, {}) /\ OwnersOK(r) /\ Signalled(m, r)
  BY <1>1, <1>2, CounterOK
<1> QED BY <1>1, <1>2, <1>3 DEF v, r

\* _isixp_sem_signal.
LEMMA SemSignalFunOK ==
  ASSUME NEW m, NEW c, CoreInv(m, c, {}), OwnersOK(m), NEW s \in Sems
  PROVE  LET r == sem_signal(m, s) IN CoreInv(r, c, {}) /\ OwnersOK(r) /\ Signalled(m, r)
<1> DEFINE v  == sem_inc(m.value[s], SemLimit[s], 1)
           g  == [m.value EXCEPT ![s] = v]
           m1 == sem_fast_signal(m, s)
           ws == m.wait_list[s]
           h  == Head(ws)
           G  == m.grant \cup {h}
           m2 == [m EXCEPT !.value = g, !.grant = G]
           q  == <<h>>
           n  == wakeup(unlink(m2, Range(q)), q, EOK)
           r  == do_reschedule(n, h)
<1>0. /\ m \in Kernel /\ m.value \in [Sems -> Int] /\ s \in Obj /\ ws \in Seq(Task)
      /\ m.grant \in SUBSET Task
  BY CoreParts, KernelTypes, SyncObjects
<1>1. v \in Int /\ m1 = [m EXCEPT !.value = g] /\ CoreInv(m1, c, {}) /\ OwnersOK(m1) /\ Signalled(m, m1)
  BY FastSignalOK
<1> HIDE DEF v
<1>3. CASE sem_signal(m, s) = m1
  BY <1>1, <1>3
<1>4. CASE ws # <<>> /\ sem_signal(m, s) =
             do_reschedule(wakeup([unlink(m1, {h}) EXCEPT !.grant = @ \cup {h}], q, EOK), h)
  <2>1. h \in Task /\ h \in Range(ws)
    BY <1>0, <1>4, EmptyRange
  <2>2. q \in Seq(Task) /\ Range(q) = {h} /\ Distinct(q)
    BY <2>1, OneElement
  <2>3. [unlink(m1, {h}) EXCEPT !.grant = @ \cup {h}] = unlink(m2, {h})
    <3> HIDE DEF g, h, m1
    <3> QED BY <1>0, <1>1 DEF unlink, Kernel
  <2>4. sem_signal(m, s) = r
    BY <1>4, <2>2, <2>3
  <2>g. G \in SUBSET Task
    BY <1>0, <2>1
  <2> HIDE DEF G, m1, h
  <2>5. m2 \in Kernel /\ SameState(m, m2)
    BY <1>1, <2>g, ValueOK
  <2> HIDE DEF m2
  <2>6. CoreInv(m2, c, {}) /\ OwnersOK(m2) /\ Signalled(m, m2)
    BY <2>5, DataOK
  <2>7. Range(q) \subseteq Range(m2.wait_list[s])
    BY <2>1, <2>2, <2>5 DEF SameState, SameLinks
  <2>8. EOK \in Msg
    BY DEF Msg
  <2> HIDE DEF q
  <2>9. /\ CoreInv(n, c, {}) /\ OwnersOK(n) /\ n \in Kernel
        /\ SameCore(m2, n) /\ SameRest(m2, n) /\ n.prio = m2.prio /\ n.pendsv = m2.pendsv
        /\ n.jiffies = m2.jiffies
        /\ \A t \in Task :
             /\ n.state[t] = IF t \in Range(q) THEN "READY" ELSE m2.state[t]
             /\ n.obj[t] = IF t \in Range(q) THEN EOK ELSE m2.obj[t]
             /\ n.evbits[t] = IF t \in Range(q) THEN NoBits ELSE m2.evbits[t]
        /\ \A p \in Obj : Range(n.wait_list[p]) = Range(m2.wait_list[p]) \ Range(q)
    <3>1. s \in Obj /\ q \in Seq(Task) /\ Distinct(q)
      BY <1>0, <2>2
    <3> HIDE DEF ws, g, r
    <3> QED BY <3>1, <2>6, <2>7, <2>8, WakeWaitersOK
  <2> HIDE DEF n
  <2>10. /\ CoreInv(r, c, {}) /\ OwnersOK(r) /\ SameLinks(n, r) /\ SameControl(n, r)
         /\ r.wait_aborted = n.wait_aborted /\ (n.pendsv => r.pendsv)
    BY <2>1, <2>9, RescheduleOK
  <2> HIDE DEF r
  <2>11. Signalled(m, r)
    BY <2>6, <2>9, <2>10 DEF Signalled, SameCore, SameLinks, SameControl, Up
  <2> QED BY <2>4, <2>10, <2>11
<1> HIDE DEF m1
<1> QED BY <1>3, <1>4 DEF sem_signal, m1

\* The blocking half of isix_sem_wait.
LEMMA SemBlockOK ==
  ASSUME NEW m, NEW c, CoreInv(m, c, {}), OwnersOK(m), m.currp # Idle, m.state[m.currp] \in Up,
         m.sched_lock = 0, NEW s \in Sems, s \in m.live, NEW tout \in Tick,
         NEW d \in Call, d.op = "sem", d.o = s, d.pc = "yield"
  PROVE  LET r == sem_block(m, s, tout) IN
         CoreInv(r, [c EXCEPT ![m.currp] = d], {}) /\ OwnersOK(r)
<1>0. /\ m \in Kernel /\ m.currp \in Task /\ m.wait_aborted \in [Task -> BOOLEAN]
      /\ m.obj \in [Task -> Msg \cup Sems \cup Mtxs \cup Cvs] /\ m.grant \in SUBSET Task
      /\ s \in Sems \cup Mtxs \cup Cvs /\ s \notin Mtxs /\ s \in Object
  BY CoreParts, KernelTypes, SyncObjects
<1> DEFINE t == m.currp
           a == [m.wait_aborted EXCEPT ![t] = FALSE]
           b == [m.obj EXCEPT ![t] = s]
           G == m.grant \ {t}
           n == [m EXCEPT !.obj = b, !.wait_aborted = a, !.grant = G]
           p == set_sleep_timeout(n, "WTSEM", tout)
           r == add_to_prio_queue(p, s, t)
<1>1. sem_block(m, s, tout) = r
  BY DEF sem_block
<1>2. /\ a \in [Task -> BOOLEAN] /\ ~a[t] /\ \A u \in Task \ {t} : a[u] = m.wait_aborted[u]
      /\ b \in [Task -> Msg \cup Sems \cup Mtxs \cup Cvs] /\ b[t] = s /\ \A u \in Task \ {t} : b[u] = m.obj[u]
      /\ G \in SUBSET Task
  BY <1>0
<1> HIDE DEF a, b, G
<1>3. /\ n \in Kernel /\ SameLinks(m, n) /\ SameControl(m, n) /\ n.pendsv = m.pendsv
      /\ n.wait_aborted = a /\ n.obj = b /\ n.prio = m.prio
      /\ n.owner = m.owner /\ n.count = m.count /\ n.owned = m.owned
  BY <1>0, <1>2 DEF Kernel, SameLinks, SameControl
<1> HIDE DEF n
<1>4. /\ CoreInv(p, c, {m.currp}) /\ OwnersOK(p)
      /\ p.currp = m.currp /\ p.sched_lock = m.sched_lock /\ p.live = m.live
      /\ p.obj = n.obj /\ p.state[m.currp] = "WTSEM" /\ ~p.wait_aborted[m.currp]
  <2>1. "WTSEM" \in Timed
    BY DEF Timed
  <2>2. ~n.wait_aborted[m.currp] /\ \A u \in Task \ {m.currp} :
          n.wait_aborted[u] = m.wait_aborted[u] /\ n.obj[u] = m.obj[u]
    BY <1>2, <1>3
  <2>3. /\ n \in Kernel /\ SameLinks(m, n) /\ SameControl(m, n) /\ n.pendsv = m.pendsv
        /\ n.prio = m.prio /\ n.owner = m.owner /\ n.count = m.count /\ n.owned = m.owned
    BY <1>3
  <2> HIDE DEF t
  <2>4. /\ CoreInv(p, c, {m.currp}) /\ OwnersOK(p) /\ p \in Kernel
        /\ p.currp = m.currp /\ p.sched_lock = m.sched_lock /\ p.live = m.live /\ p.pendsv = m.pendsv
        /\ p.owner = m.owner /\ p.obj = n.obj
        /\ p.state[m.currp] = "WTSEM" /\ ~p.wait_aborted[m.currp]
    BY <2>1, <2>2, <2>3, PrepareSleepOK
  <2> QED BY <2>4
<1> HIDE DEF p
<1>5. CallKind(d) /\ ~Freeing(d) /\ Blocked(p.state[t], d, s, p.wait_aborted[t])
  BY <1>4 DEF CallKind, Freeing, Blocked, Waiting
<1>6. p.obj[t] = s
  BY <1>2, <1>3, <1>4
<1>7. CoreInv(r, [c EXCEPT ![t] = d], {}) /\ OwnersOK(r)
  BY <1>0, <1>4, <1>5, <1>6, EnqueueOK
<1> QED BY <1>1, <1>7

\* isix_sem_trywait.
LEMMA SemTryWaitOK ==
  ASSUME KernelOK(k, call), NEW s \in Sems, SemTryWait(s)
  PROVE  KernelOK(k', call')
<1> DEFINE v == sem_trydec(k.value[s])
           r == [k EXCEPT !.value = [k.value EXCEPT ![s] = v]]
<1>0. CoreInv(k, call, {}) /\ OwnersOK(k) /\ k \in Kernel /\ k.value \in [Sems -> Int]
  BY CoreParts, KernelTypes DEF KernelOK
<1>1. v \in Int
  BY <1>0 DEF sem_trydec
<1>2. k' = r /\ call' = call
  BY <1>0 DEF SemTryWait, Kernel
<1> HIDE DEF v
<1>3. CoreInv(r, call, {}) /\ OwnersOK(r)
  BY <1>0, <1>1, CounterOK
<1> QED BY <1>2, <1>3 DEF KernelOK

\* isix_sem_wait begins.
LEMMA SemWaitOK ==
  ASSUME KernelOK(k, call), NEW t \in Task, NEW s \in Sems, NEW timeout \in Timeouts,
         SemWait(t, s, timeout)
  PROVE  KernelOK(k', call')
<1>0. /\ t = k.currp /\ t # Idle /\ k.state[t] \in Up /\ k.sched_lock = 0 /\ s \in k.live /\ k' = k
      /\ CoreInv(k, call, {}) /\ OwnersOK(k) /\ k.jiffies \in Tick
  BY RunningUp, KernelTypes DEF MayBlock, SemWait
<1>1. timeout \in Tick /\ 0 \in Tick /\ s \in Obj
  BY TimeAssumption, Ticks, SyncObjects
<1> DEFINE st == IF timeout = Infinite THEN 0 ELSE k.jiffies
           d  == [NoCall EXCEPT !.op = "sem", !.pc = "enter", !.o = s, !.tmo = timeout, !.start = st]
<1>2. st \in Tick /\ "sem" \in Ops /\ "enter" \in Pcs
  BY <1>0, <1>1 DEF Ops, Pcs
<1>3. call' = [call EXCEPT ![t] = d]
  BY DEF SemWait
<1> HIDE DEF st
<1>4. d \in Call /\ d.op = "sem" /\ d.pc = "enter" /\ d.o = s
  BY <1>1, <1>2, NoCallFits DEF Call
<1> HIDE DEF d
<1>5. CallKind(d) /\ ~Freeing(d)
  BY <1>4 DEF CallKind, Freeing
<1>6. CoreInv(k, [call EXCEPT ![t] = d], {})
  BY <1>0, <1>4, <1>5, BeginCallOK
<1> QED BY <1>0, <1>3, <1>6 DEF KernelOK

\* The critical section of isix_sem_wait.
LEMMA SemWaitEnterOK ==
  ASSUME KernelOK(k, call), NEW t \in Task, SemWaitEnter(t)
  PROVE  KernelOK(k', call')
<1> DEFINE s == call[t].o
           v == k.value[s] - 1
           m == [k EXCEPT !.value = [k.value EXCEPT ![s] = v]]
           e == (k.jiffies - call[t].start) % (MaxTick + 1)
           w == IF call[t].tmo = Infinite THEN Infinite ELSE call[t].tmo - e
           d == [call[t] EXCEPT !.pc = "yield"]
<1>0. /\ t = k.currp /\ t # Idle /\ k.state[t] \in Up /\ k.sched_lock = 0
      /\ CoreInv(k, call, {}) /\ OwnersOK(k) /\ k \in Kernel /\ k.jiffies \in Tick
      /\ k.value \in [Sems -> Int]
      /\ call \in [Task -> Call] /\ call[t] \in Call /\ s \in Sems /\ s \in k.live
  <2>1. Exec(t) /\ call[t].pc = "enter" /\ call[t].op = "sem" /\ call[t].op \in Blocking
    BY DEF SemWaitEnter, Blocking
  <2> QED BY <2>1, EnterUp, KernelTypes, SyncObjects DEF CallKind
<1>1. [k EXCEPT !.value[s] = @ - 1] = m
  BY <1>0 DEF Kernel
<1>2. \/ call' = [call EXCEPT ![t] = NoCall] /\ k' = m
      \/ call' = [call EXCEPT ![t] = NoCall] /\ k' = sem_fast_signal(m, s)
      \/ /\ (call[t].tmo # Infinite => e < call[t].tmo)
         /\ k' = sem_block(m, s, w) /\ call' = [call EXCEPT ![t] = d]
  BY <1>1 DEF SemWaitEnter
<1>3. v \in Int
  BY <1>0
<1> HIDE DEF v
<1>4. CoreInv(m, call, {}) /\ OwnersOK(m) /\ Signalled(k, m)
  BY <1>0, <1>3, CounterOK
<1> HIDE DEF m
<1>5. m.state[t] \in Up /\ m.currp = t /\ m.sched_lock = 0 /\ s \in m.live
  BY <1>0, <1>4 DEF Signalled
<1>6. CASE call' = [call EXCEPT ![t] = NoCall] /\ k' = m
  BY <1>4, <1>5, <1>6, EndCallOK DEF KernelOK
<1>7. CASE call' = [call EXCEPT ![t] = NoCall] /\ k' = sem_fast_signal(m, s)
  <2> DEFINE r == sem_fast_signal(m, s)
  <2>1. CoreInv(r, call, {}) /\ OwnersOK(r) /\ Signalled(m, r)
    BY <1>0, <1>4, FastSignalOK
  <2> HIDE DEF r
  <2>2. CoreInv(r, [call EXCEPT ![t] = NoCall], {})
    BY <1>5, <2>1, EndCallOK DEF Signalled
  <2> QED BY <1>7, <2>1, <2>2 DEF KernelOK, r
<1>8. CASE /\ (call[t].tmo # Infinite => e < call[t].tmo)
           /\ k' = sem_block(m, s, w) /\ call' = [call EXCEPT ![t] = d]
  <2>1. w \in Tick
    <3>1. k.jiffies \in Int /\ call[t].start \in Int /\ call[t].tmo \in Tick
      BY <1>0, Ticks DEF Call
    <3>2. e \in 0 .. MaxTick
      BY <3>1, Ticks
    <3> HIDE DEF e
    <3> QED BY <1>8, <3>1, <3>2, Ticks DEF Infinite
  <2>2. d \in Call /\ d.op = "sem" /\ d.o = s /\ d.pc = "yield"
    BY <1>0 DEF Call, Pcs, SemWaitEnter
  <2> HIDE DEF d, s, w
  <2>3. /\ CoreInv(sem_block(m, s, w), [call EXCEPT ![m.currp] = d], {})
        /\ OwnersOK(sem_block(m, s, w))
    BY <1>0, <1>4, <1>5, <2>1, <2>2, SemBlockOK
  <2> QED BY <1>5, <1>8, <2>3 DEF KernelOK
<1> QED BY <1>2, <1>6, <1>7, <1>8

\* The group and the bit a signal has to raise.
LEMMA NotifiesWhat ==
  ASSUME KernelOK(k, call), NEW s \in Sems, Notifies(s)
  PROVE  k.evt[s] \in Evts /\ k.evt[s] \in k.live /\ k.bitno[s] \in Bits
<1>1. AliveOK(k, call) /\ k \in Kernel /\ s \in Notifier
  BY CoreParts, SyncObjects DEF KernelOK
<1>2. k.evt[s] \in Evts \cup {Null} /\ k.bitno[s] \in Bits \cup {0, InvalidBit}
  BY <1>1, KernelTypes
<1> QED BY <1>1, <1>2 DEF AliveOK, Notifies, Connected

\* isix_sem_signal and isix_sem_signal_isr.
LEMMA SemSignalOK ==
  ASSUME KernelOK(k, call), NEW s \in Sems, SemSignalIsr(s) \/ \E t \in Task : SemSignal(t, s)
  PROVE  KernelOK(k', call')
<1> DEFINE r == sem_signal(k, s)
           g == k.evt[s]
           b == k.bitno[s]
           S == {b}
<1>0. CoreInv(k, call, {}) /\ OwnersOK(k)
  BY DEF KernelOK
<1>1. CoreInv(r, call, {}) /\ OwnersOK(r) /\ Signalled(k, r)
  BY <1>0, SemSignalFunOK
<1>2. CASE SemSignalIsr(s)
  <2>1. call' = call /\ (k' = r \/ (Notifies(s) /\ k' = event_set(r, g, S)))
    BY <1>2 DEF SemSignalIsr
  <2>2. CASE k' = r
    BY <1>1, <2>1, <2>2 DEF KernelOK
  <2>3. CASE Notifies(s) /\ k' = event_set(r, g, S)
    <3>1. g \in Evts /\ S \in SUBSET Bits
      BY <2>3, NotifiesWhat
    <3> HIDE DEF r, g, S
    <3>2. CoreInv(event_set(r, g, S), call, {}) /\ OwnersOK(event_set(r, g, S))
      BY <1>1, <3>1, EventSetOK
    <3> QED BY <2>1, <2>3, <3>2 DEF KernelOK
  <2> QED BY <2>1, <2>2, <2>3
<1>3. ASSUME NEW t \in Task, SemSignal(t, s)
      PROVE  KernelOK(k', call')
  <2> DEFINE d == [NoCall EXCEPT !.op = "notify", !.pc = "enter", !.o = g, !.set = S]
  <2>0. t = k.currp /\ t # Idle /\ k.state[t] \in Up
    BY <1>3, RunningUp DEF SemSignal
  <2>1. k' = r /\ (call' = call \/ (Notifies(s) /\ call' = [call EXCEPT ![t] = d]))
    BY <1>3 DEF SemSignal, Raise
  <2>2. CASE Notifies(s) /\ call' = [call EXCEPT ![t] = d]
    <3>1. g \in Evts /\ g \in k.live /\ S \in SUBSET Bits
      BY <2>2, NotifiesWhat
    <3>2. "notify" \in Ops /\ "enter" \in Pcs /\ g \in Obj
      BY <3>1, SyncObjects DEF Ops, Pcs
    <3> HIDE DEF r, g, S
    <3>3. d \in Call /\ d.op = "notify" /\ d.pc = "enter" /\ d.o = g
      BY <3>1, <3>2, NoCallFits DEF Call
    <3> HIDE DEF d
    <3>4. CallKind(d) /\ ~Freeing(d) /\ d.op \notin Blocking
      BY <3>1, <3>3 DEF CallKind, Freeing, Blocking
    <3>5. r.state[t] \in Up /\ d.o \in r.live
      BY <1>1, <2>0, <3>1, <3>3 DEF Signalled
    <3>6. CoreInv(r, [call EXCEPT ![t] = d], {})
      BY <1>1, <2>0, <3>3, <3>4, <3>5, BeginCallOK
    <3> QED BY <1>1, <2>1, <2>2, <3>6 DEF KernelOK
  <2> QED BY <1>1, <2>1, <2>2 DEF KernelOK
<1> QED BY <1>2, <1>3

\* isix_sem_reset.
LEMMA SemResetOK ==
  ASSUME KernelOK(k, call), NEW s \in Sems, NEW u \in ResetValues, SemReset(s, u)
  PROVE  KernelOK(k', call')
<1> DEFINE v == sem_write_val(u, SemLimit[s])
           m == [k EXCEPT !.value = [k.value EXCEPT ![s] = v]]
           r == sem_wakeup_all(m, s, ERESET)
<1>0. CoreInv(k, call, {}) /\ OwnersOK(k) /\ s \in Obj
  BY SyncObjects DEF KernelOK
<1>1. k' = r /\ call' = call
  BY DEF SemReset
<1>2. v \in Int
  BY ResetAssumption, SemAssumption DEF sem_write_val
<1> HIDE DEF v
<1>3. CoreInv(m, call, {}) /\ OwnersOK(m)
  BY <1>0, <1>2, CounterOK
<1> HIDE DEF m
<1>4. ERESET \in Msg
  BY DEF Msg
<1>5. CoreInv(r, call, {}) /\ OwnersOK(r)
  BY <1>0, <1>3, <1>4, WakeAllOK DEF sem_wakeup_all
<1> QED BY <1>1, <1>5 DEF KernelOK

\* The critical section of isix_sem_destroy, when nobody will look at s again.
LEMMA SemDestroyFunOK ==
  ASSUME NEW m, NEW c, KernelOK(m, c), NEW s \in Sems,
         \A u \in Task : c[u].o = s => Harmless(c[u], m.wait_aborted[u])
  PROVE  KernelOK(sem_destroy(m, s), c)
<1> DEFINE n == sem_wakeup_all(m, s, EDESTROY)
           L == n.live \ {s}
           E == [n.evt EXCEPT ![s] = Null]
           B == [n.bitno EXCEPT ![s] = 0]
           r == [n EXCEPT !.live = L, !.evt = E, !.bitno = B]
<1>0. /\ CoreInv(m, c, {}) /\ OwnersOK(m) /\ s \in Obj /\ s \in Object /\ s \in Notifier /\ s \notin Mtxs
      /\ s \notin Evts
  BY SyncObjects DEF KernelOK
<1>1. sem_destroy(m, s) = r
  BY DEF sem_destroy
<1>2. CoreInv(n, c, {}) /\ OwnersOK(n) /\ Signalled(m, n) /\ n.wait_list[s] = <<>>
  <2>1. EDESTROY \in Msg
    BY DEF Msg
  <2> QED BY <1>0, <2>1, WakeAllOK DEF sem_wakeup_all
<1> HIDE DEF n
<1>3. AliveOK(n, c) /\ n \in Kernel /\ n.live \in SUBSET Object
      /\ n.evt \in [Notifier -> Evts \cup {Null}] /\ n.bitno \in [Notifier -> Bits \cup {0, InvalidBit}]
  BY <1>2, CoreParts, KernelTypes
<1>4. \A u \in Task : c[u].o = s => Harmless(c[u], n.wait_aborted[u])
  BY <1>2 DEF Signalled
<1>5. L \in SUBSET Object /\ E \in [Notifier -> Evts \cup {Null}] /\ B \in [Notifier -> Bits \cup {0, InvalidBit}]
  BY <1>0, <1>3
<1>6. \A o \in Object \ L : n.wait_list[o] = <<>>
  BY <1>2, <1>3 DEF AliveOK
<1>7. \A u \in Task : c[u].o \in Object \ L => Harmless(c[u], n.wait_aborted[u])
  BY <1>3, <1>4 DEF AliveOK
<1>8. \A i \in Notifier : E[i] # Null => E[i] \in L /\ 0 \in Bits
  BY <1>0, <1>3 DEF AliveOK
<1>9. \A x \in Mtxs : x \notin L => x \notin n.live
  BY <1>0
<1> HIDE DEF L, E, B
<1>10. /\ r \in Kernel /\ SameLinks(n, r) /\ r.live = L /\ r.currp = n.currp
       /\ r.sched_lock = n.sched_lock /\ r.refcnt = n.refcnt /\ r.bug = n.bug
       /\ r.pendsv = n.pendsv /\ r.prio = n.prio /\ r.obj = n.obj /\ r.wait_aborted = n.wait_aborted
       /\ r.evt = E /\ r.owner = n.owner /\ r.count = n.count /\ r.owned = n.owned
  BY <1>3, <1>5 DEF Kernel, SameLinks
<1> HIDE DEF r
<1>11. CoreInv(r, c, {})
  BY <1>2, <1>6, <1>7, <1>8, <1>10, LiveOK
<1>12. OwnersOK(r)
  BY <1>2, <1>9, <1>10 DEF OwnersOK, SameLinks
<1> QED BY <1>1, <1>11, <1>12 DEF KernelOK

\* isix_sem_destroy.
LEMMA SemDestroyOK ==
  ASSUME KernelOK(k, call), NEW t \in Task, NEW s \in Sems, SemDestroy(t, s)
  PROVE  KernelOK(k', call')
<1>0. CoreInv(k, call, {}) /\ s \in Obj /\ s \in Object /\ s \notin Evts
  BY SyncObjects DEF KernelOK
<1>1. \A u \in Task : call[u].o = s => Harmless(call[u], k.wait_aborted[u])
  BY <1>0, QuiescentHarmless DEF SemDestroy
<1>2. k' = sem_destroy(k, s) /\ call' = call
  BY DEF SemDestroy
<1> QED BY <1>1, <1>2, SemDestroyFunOK

\* isix_sem_create_limited on the storage of a semaphore that is gone.
LEMMA SemCreateFunOK ==
  ASSUME NEW m, NEW c, KernelOK(m, c), NEW s \in Sems, s \notin m.live
  PROVE  KernelOK(sem_create(m, s), c) /\ sem_create(m, s).wait_list = m.wait_list
<1>0. /\ CoreInv(m, c, {}) /\ OwnersOK(m) /\ m \in Kernel /\ AliveOK(m, c) /\ s \in Object
      /\ s \in Obj /\ s \notin m.live
  BY CoreParts, SyncObjects DEF KernelOK
<1> DEFINE L == m.live \cup {s}
           g == [m.value EXCEPT ![s] = SemInit[s]]
           f == [m.wait_list EXCEPT ![s] = <<>>]
           r == [m EXCEPT !.live = L, !.value = g, !.wait_list = f]
<1>1. sem_create(m, s) = r
  BY DEF sem_create
<1>2. L \in SUBSET Object /\ g \in [Sems -> Int]
  BY <1>0, KernelTypes, SemAssumption
<1>3. f = m.wait_list
  BY <1>0, KernelTypes DEF AliveOK
<1>4. \A o \in Object \ L : m.wait_list[o] = <<>>
  BY <1>0 DEF AliveOK
<1>5. \A u \in Task : c[u].o \in Object \ L => Harmless(c[u], m.wait_aborted[u])
  BY <1>0 DEF AliveOK
<1>6. \A n \in Notifier : m.evt[n] # Null => m.evt[n] \in L /\ 0 \in Bits
  BY <1>0 DEF AliveOK
<1>7. \A x \in Mtxs : x \notin L => x \notin m.live
  OBVIOUS
<1> HIDE DEF L, g, f
<1>8. /\ r \in Kernel /\ SameLinks(m, r) /\ r.live = L /\ r.currp = m.currp
      /\ r.sched_lock = m.sched_lock /\ r.refcnt = m.refcnt /\ r.bug = m.bug
      /\ r.pendsv = m.pendsv /\ r.prio = m.prio /\ r.obj = m.obj /\ r.wait_aborted = m.wait_aborted
      /\ r.evt = m.evt /\ r.owner = m.owner /\ r.count = m.count /\ r.owned = m.owned
      /\ r.wait_list = m.wait_list
  BY <1>0, <1>2, <1>3 DEF Kernel, SameLinks
<1> HIDE DEF r
<1>9. CoreInv(r, c, {})
  BY <1>0, <1>4, <1>5, <1>6, <1>8, LiveOK
<1>10. OwnersOK(r)
  BY <1>0, <1>7, <1>8 DEF OwnersOK, SameLinks
<1> QED BY <1>1, <1>8, <1>9, <1>10 DEF KernelOK

\* isix_sem_create_limited.
LEMMA SemCreateOK ==
  ASSUME KernelOK(k, call), NEW t \in Task, NEW s \in Sems, SemCreate(t, s)
  PROVE  KernelOK(k', call')
BY SemCreateFunOK DEF SemCreate

\* Semaphores.
LEMMA SemOpsOK ==
  ASSUME KernelOK(k, call), SemOps
  PROVE  KernelOK(k', call')
<1>1. ASSUME NEW t \in Task, SemWaitReturn(t)
      PROVE  KernelOK(k', call')
  <2>1. /\ Exec(t) /\ call[t].pc = "after"
        /\ \/ k.wait_aborted[t] /\ call' = [call EXCEPT ![t].pc = "enter"] /\ k' = k
           \/ call' = [call EXCEPT ![t] = NoCall] /\ k' = leave(k, t)
    BY <1>1 DEF SemWaitReturn
  <2> QED BY <2>1, ReturnOK
<1> QED BY <1>1, SemSignalOK, SemDestroyOK, SemCreateOK, SemWaitOK, SemWaitEnterOK, SemTryWaitOK,
           SemResetOK DEF SemOps

-----------------------------------------------------------------------------
(***************************************************************************)
(* Mutexes and condition variables.                                        *)
(***************************************************************************)


\* A mutex or a condition variable is an object, and nothing else.
LEMMA MutexObjects ==
  /\ Mtxs \cup Cvs \subseteq Object /\ Object \subseteq Obj /\ Mtxs \cup Cvs \subseteq Obj
  /\ Mtxs \cap Cvs = {} /\ Mtxs \cap Sems = {} /\ Mtxs \cap Evts = {} /\ Cvs \cap Sems = {}
  /\ Cvs \cap Evts = {} /\ Object \cap Task = {} /\ Null \notin Obj /\ Null \notin Task
  /\ Mtxs \cup Cvs \subseteq Sems \cup Mtxs \cup Cvs
BY TaskAssumption DEF Obj, Object

\* calc_inherited_priority is a priority.
LEMMA CalcPrio ==
  ASSUME NEW m \in Kernel, NEW t \in Task
  PROVE  calc_inherited_priority(m, t) \in Prio
<1> DEFINE T == {m.real_prio[t]} \cup
                {m.prio[Head(m.wait_list[x])] : x \in {y \in Range(m.owned[t]) : m.wait_list[y] # <<>>}}
<1>1. calc_inherited_priority(m, t) = Min(T)
  BY DEF calc_inherited_priority
<1>2. T \subseteq Prio /\ T # {}
  <2>1. m.real_prio[t] \in Prio /\ m.prio \in [Task -> Prio] /\ m.wait_list \in [Obj -> Seq(Task)]
        /\ Range(m.owned[t]) \subseteq Mtxs
    BY KernelTypes, EmptyRange
  <2>2. ASSUME NEW y \in Range(m.owned[t]), m.wait_list[y] # <<>>
        PROVE  m.prio[Head(m.wait_list[y])] \in Prio
    <3>1. m.wait_list[y] \in Seq(Task)
      BY <2>1, MutexObjects
    <3>2. Head(m.wait_list[y]) \in Task
      BY <2>2, <3>1, EmptyRange
    <3> QED BY <2>1, <3>2
  <2> QED BY <2>1, <2>2
<1> HIDE DEF T
<1>3. \E n \in T : \A i \in T : n <= i
  BY <1>2, LeastNat, Prios
<1> QED BY <1>1, <1>2, <1>3 DEF Min

\* What a change of priorities leaves alone: a task that was ready stays
\* ready, every list keeps its members.
Reordered(m, r) ==
  /\ SameCore(m, r) /\ SameRest(m, r) /\ SameTime(m, r)
  /\ r.pendsv = m.pendsv /\ r.obj = m.obj /\ r.evbits = m.evbits
  /\ \A u \in Task : (m.state[u] \in Up /\ r.state[u] \in Up) \/ r.state[u] = m.state[u]
  /\ \A o \in Obj : Range(r.wait_list[o]) = Range(m.wait_list[o])

\* _isixp_reallocate_priority keeps the kernel consistent and moves tasks only
\* within their lists.
LEMMA PrioOK ==
  ASSUME NEW m, NEW c, NEW X, CoreInv(m, c, X), NEW t \in Task \ X, t # Idle, NEW np \in Prio
  PROVE  LET r == reallocate_priority(m, t, np) IN
         CoreInv(r, c, X) /\ (OwnersOK(m) => OwnersOK(r)) /\ Reordered(m, r)
<1> DEFINE r == reallocate_priority(m, t, np)
<1>1. /\ CoreInv(r, c, X) /\ (OwnersOK(m) => OwnersOK(r))
      /\ SameCore(m, r) /\ SameRest(m, r) /\ SameTime(m, r)
      /\ r.pendsv = m.pendsv /\ r.obj = m.obj /\ r.evbits = m.evbits
      /\ m.state[t] \in Up => r.wait_list = m.wait_list /\ r.state[t] = "READY"
      /\ m.state[t] \notin Up => r.state = m.state
      /\ \A u \in Task \ {t} : r.state[u] = m.state[u]
      /\ \A o \in Obj : Range(r.wait_list[o]) = Range(m.wait_list[o])
  BY ReallocateOK
<1> HIDE DEF r
<1>2. Reordered(m, r)
  BY <1>1 DEF Reordered, Up
<1> QED BY <1>1, <1>2 DEF r

\* inherit.
LEMMA InheritOK ==
  ASSUME NEW m, NEW c, NEW X, CoreInv(m, c, X), NEW t \in Task \ X, t # Idle
  PROVE  LET r == inherit(m, t) IN
         CoreInv(r, c, X) /\ (OwnersOK(m) => OwnersOK(r)) /\ Reordered(m, r)
<1> DEFINE np == calc_inherited_priority(m, t)
<1>1. np \in Prio
  BY CoreParts, CalcPrio
<1>2. CASE inherit(m, t) = m
  BY <1>2 DEF Reordered, SameCore, SameRest, SameTime
<1>3. CASE inherit(m, t) = reallocate_priority(m, t, np)
  <2> HIDE DEF np
  <2> QED BY <1>1, <1>3, PrioOK
<1> QED BY <1>2, <1>3 DEF inherit

\* Who is queued on a mutex waits for it.
LEMMA MutexWaiter ==
  ASSUME NEW m, NEW c, CoreInv(m, c, {}), NEW x \in Mtxs \cup Cvs, NEW w \in Range(m.wait_list[x])
  PROVE  /\ w \in Task /\ m.obj[w] = x
         /\ x \in Mtxs => m.state[w] = "WTMTX"
         /\ x \in Cvs => m.state[w] = "WTCOND"
         /\ m.state[w] \in Waiting /\ m.state[w] \notin Up \cup Gone /\ w # Idle
<1>0. m \in Kernel /\ WaitPlaced(m, c, {}) /\ BlockedOK(m, c, {}) /\ CallsOK(c) /\ CurrentOK(m, c, {})
  BY CoreParts
<1>1. x \in Obj /\ w \in Task
  BY <1>0, KernelTypes, EmptyRange, MutexObjects
<1>2. m.state[w] \in Waiting /\ Aw(m, c, w) = x
  BY <1>0, <1>1 DEF WaitPlaced
<1>3. Blocked(m.state[w], c[w], m.obj[w], m.wait_aborted[w]) /\ CallKind(c[w])
  BY <1>0, <1>1 DEF BlockedOK, CallsOK
<1>4. m.state[w] \notin {"WTEXIT", "WTEVT"}
  <2>1. m.state[w] = "WTEVT" => c[w].o \in Evts
    BY <1>3 DEF Blocked, CallKind
  <2>2. m.state[w] = "WTEXIT" => c[w].o \in Task
    BY <1>3 DEF Blocked, CallKind, Task
  <2> QED BY <1>2, <2>1, <2>2, MutexObjects DEF Aw
<1>5. m.obj[w] = x
  BY <1>2, <1>4 DEF Aw
<1>6. w # Idle /\ m.state[w] \notin Up \cup Gone
  BY <1>0, <1>2 DEF CurrentOK, Up, Gone, Waiting
<1> QED BY <1>1, <1>2, <1>3, <1>4, <1>5, <1>6, MutexObjects DEF Blocked, Waiting

-----------------------------------------------------------------------------
\* The owner and the count of mutexes and the lists of owned mutexes change,
\* nothing else.
LEMMA OwnerDataOK ==
  ASSUME NEW m, NEW c, NEW X, CoreInv(m, c, X), NEW r \in Kernel, SameLinks(m, r), SameControl(m, r),
         r.pendsv = m.pendsv, r.wait_aborted = m.wait_aborted, r.obj = m.obj, r.prio = m.prio
  PROVE  CoreInv(r, c, X) /\ Signalled(m, r)
<1>1. CoreInv(r, c, X)
  BY AlterOK
<1>2. Signalled(m, r)
  BY DEF SameLinks, SameControl, Signalled
<1> QED BY <1>1, <1>2

\* set_ownership_to_current.
LEMMA SetOwnershipOK ==
  ASSUME NEW m, NEW c, CoreInv(m, c, {}), OwnersOK(m), m.currp # Idle, m.state[m.currp] \in Up,
         NEW x \in Mtxs, x \in m.live, m.owner[x] = Null
  PROVE  LET r == set_ownership_to_current(m, x) IN
         CoreInv(r, c, {}) /\ OwnersOK(r) /\ Signalled(m, r)
<1> DEFINE t == m.currp
           q == InsertFirst(m.owned[t], x)
           b == m.bug \/ m.count[x] # 0
           cn == [m.count EXCEPT ![x] = m.count[x] + 1]
           ow == [m.owner EXCEPT ![x] = t]
           od == [m.owned EXCEPT ![t] = q]
           r == [m EXCEPT !.count = cn, !.owner = ow, !.owned = od]
<1>0. /\ m \in Kernel /\ t \in Task /\ ~m.bug /\ m.count \in [Mtxs -> Nat]
      /\ m.owner \in [Mtxs -> Task \cup {Null}] /\ m.owned \in [Task -> Seq(Mtxs)]
  BY CoreParts, KernelTypes
<1>1. set_ownership_to_current(m, x) = [m EXCEPT !.bug = b, !.count = cn, !.owner = ow, !.owned = od]
  BY <1>0 DEF set_ownership_to_current, Kernel
<1>2. m.count[x] = 0 /\ x \notin Range(m.owned[t]) /\ Distinct(m.owned[t]) /\ m.wait_list[x] = <<>>
  BY <1>0, MutexObjects DEF OwnersOK
<1>b. b = m.bug
  BY <1>0, <1>2, KernelTypes
<1>3. q \in Seq(Mtxs) /\ Range(q) = Range(m.owned[t]) \cup {x} /\ Distinct(q)
  <2>1. m.owned[t] \in Seq(Mtxs)
    BY <1>0
  <2> QED BY <1>2, <2>1, InsertFirstList
<1> HIDE DEF q
<1>t. cn \in [Mtxs -> Nat] /\ ow \in [Mtxs -> Task \cup {Null}] /\ od \in [Task -> Seq(Mtxs)]
  BY <1>0, <1>3
<1>4. /\ cn[x] = 1 /\ ow[x] = t /\ od[t] = q
      /\ \A y \in Mtxs \ {x} : cn[y] = m.count[y] /\ ow[y] = m.owner[y]
      /\ \A u \in Task \ {t} : od[u] = m.owned[u]
  BY <1>0, <1>2, <1>3
<1> HIDE DEF cn, ow, od, b
<1>s. set_ownership_to_current(m, x) = r
  BY <1>0, <1>1, <1>b DEF Kernel
<1>5. /\ r \in Kernel /\ SameLinks(m, r) /\ SameControl(m, r)
      /\ r.pendsv = m.pendsv /\ r.wait_aborted = m.wait_aborted /\ r.obj = m.obj /\ r.prio = m.prio
      /\ r.owner = ow /\ r.count = cn /\ r.owned = od /\ r.evbits = m.evbits
  <2>1. m \in Kernel
    BY <1>0
  <2> QED BY ONLY <1>t, <2>1 DEF Kernel, SameLinks, SameControl
<1> HIDE DEF r
<1>6. CoreInv(r, c, {}) /\ Signalled(m, r)
  BY <1>5, OwnerDataOK
<1>7. OwnersOK(r)
  <2>1. ASSUME NEW y \in Mtxs
        PROVE  /\ r.owner[y] = Null <=> r.count[y] = 0
               /\ r.owner[y] = Null => r.wait_list[y] = <<>>
               /\ r.owner[y] \notin Range(r.wait_list[y])
               /\ r.owner[y] # Null => r.state[r.owner[y]] \notin Gone
               /\ r.owner[y] # Idle
               /\ y \notin r.live => r.owner[y] = Null
    <3>1. CASE y = x
      <4>1. Range(<<>>) = {}
        BY DEF Range
      <4> QED BY <1>0, <1>2, <1>4, <1>5, <3>1, <4>1, MutexObjects DEF SameLinks, SameControl, Up, Gone
    <3>2. CASE y # x
      BY <1>4, <1>5, <3>2 DEF SameLinks, SameControl, OwnersOK
    <3> QED BY <3>1, <3>2
  <2>2. ASSUME NEW u \in Task
        PROVE  Distinct(r.owned[u]) /\ \A y \in Mtxs : y \in Range(r.owned[u]) <=> r.owner[y] = u
    <3>1. Distinct(m.owned[u]) /\ \A y \in Mtxs : y \in Range(m.owned[u]) <=> m.owner[y] = u
      BY DEF OwnersOK
    <3> QED BY <1>3, <1>4, <1>5, <3>1, MutexObjects
  <2> QED BY <2>1, <2>2 DEF OwnersOK
<1> QED BY <1>s, <1>6, <1>7

\* The recursion of a mutex.
LEMMA CountOK ==
  ASSUME NEW m, NEW c, CoreInv(m, c, {}), OwnersOK(m), NEW x \in Mtxs, m.owner[x] # Null,
         NEW n \in Nat \ {0}, NEW r, r = [m EXCEPT !.count = [m.count EXCEPT ![x] = n]]
  PROVE  CoreInv(r, c, {}) /\ OwnersOK(r) /\ Signalled(m, r)
<1> DEFINE cn == [m.count EXCEPT ![x] = n]
           q  == [m EXCEPT !.count = cn]
<1>0. m \in Kernel /\ r = q
  BY CoreParts
<1>1. cn \in [Mtxs -> Nat] /\ \A y \in Mtxs : cn[y] = IF y = x THEN n ELSE m.count[y]
  BY <1>0, KernelTypes
<1> HIDE DEF cn
<1>2. /\ q \in Kernel /\ SameLinks(m, q) /\ SameControl(m, q)
      /\ q.pendsv = m.pendsv /\ q.wait_aborted = m.wait_aborted /\ q.obj = m.obj /\ q.prio = m.prio
      /\ q.owner = m.owner /\ q.count = cn /\ q.owned = m.owned
  BY <1>0, <1>1 DEF Kernel, SameLinks, SameControl
<1> HIDE DEF q
<1>3. CoreInv(q, c, {}) /\ Signalled(m, q)
  BY <1>2, OwnerDataOK
<1>4. OwnersOK(q)
  BY <1>1, <1>2 DEF OwnersOK, SameLinks, SameControl
<1> QED BY <1>0, <1>3, <1>4

\* The blocking branch of isix_mutex_lock.
LEMMA MtxBlockOK ==
  ASSUME NEW m, NEW c, CoreInv(m, c, {}), OwnersOK(m), m.currp # Idle, m.state[m.currp] \in Up,
         m.sched_lock = 0, NEW x \in Mtxs, x \in m.live, m.owner[x] \notin {Null, m.currp},
         NEW d \in Call, d.op = "mtx", d.o = x, d.pc = "yield"
  PROVE  LET r == mtx_block(m, x) IN
         CoreInv(r, [c EXCEPT ![m.currp] = d], {}) /\ OwnersOK(r)
<1> DEFINE t  == m.currp
           o  == m.owner[x]
           m1 == IF prio_gt(m.prio[t], m.prio[o]) THEN reallocate_priority(m, o, m.prio[t]) ELSE m
           a  == [m1.wait_aborted EXCEPT ![t] = FALSE]
           n  == [m1 EXCEPT !.wait_aborted = a]
           p  == set_sleep(n, "WTMTX")
           r  == [add_to_prio_queue(p, x, t) EXCEPT !.obj = [@ EXCEPT ![t] = x]]
<1>0. m \in Kernel /\ t \in Task /\ m.prio[t] \in Prio /\ o \in Task /\ o # Idle /\ o # t
  BY CoreParts, KernelTypes DEF OwnersOK
<1>1. mtx_block(m, x) = r
  BY DEF mtx_block
<1>2. CoreInv(m1, c, {}) /\ OwnersOK(m1) /\ Reordered(m, m1)
  <2>1. CASE m1 = m
    BY <2>1 DEF Reordered, SameCore, SameRest, SameTime
  <2>2. CASE m1 = reallocate_priority(m, o, m.prio[t])
    <3> HIDE DEF m1, o, t
    <3> QED BY <1>0, <2>2, PrioOK
  <2> QED BY <2>1, <2>2
<1> HIDE DEF m1
<1>3. /\ m1.currp = t /\ m1.state[t] \in Up /\ m1.sched_lock = 0 /\ m1.live = m.live /\ m1.owner = m.owner
      /\ m1 \in Kernel /\ m1.wait_aborted \in [Task -> BOOLEAN]
  BY <1>0, <1>2, CoreParts, KernelTypes DEF Reordered, SameCore
<1>4. a \in [Task -> BOOLEAN] /\ ~a[t] /\ \A u \in Task : a[u] => m1.wait_aborted[u]
  BY <1>0, <1>3
<1> HIDE DEF a
<1>5. /\ n \in Kernel /\ SameLinks(m1, n) /\ SameControl(m1, n) /\ n.pendsv = m1.pendsv
      /\ n.wait_aborted = a /\ n.obj = m1.obj /\ n.prio = m1.prio
      /\ n.owner = m1.owner /\ n.count = m1.count /\ n.owned = m1.owned
  BY <1>3, <1>4 DEF Kernel, SameLinks, SameControl
<1> HIDE DEF n
<1>6. CoreInv(n, c, {}) /\ OwnersOK(n)
  <2>1. CoreInv(n, c, {})
    BY <1>2, <1>4, <1>5, AlterOK
  <2>2. OwnersOK(n)
    BY <1>2, <1>5 DEF OwnersOK, SameLinks, SameControl
  <2> QED BY <2>1, <2>2
<1>7. n.currp = t /\ n.state[t] \in Up
  BY <1>3, <1>5 DEF SameLinks, SameControl
<1>8. /\ CoreInv(p, c, {t}) /\ OwnersOK(p) /\ SameCore(n, p) /\ p.pendsv = n.pendsv /\ p.state[t] = "WTMTX"
  <2>1. "WTMTX" \in Waiting \cup {"SLEEPING"} /\ n.currp # Idle /\ n.state[n.currp] \in Up
    BY <1>7 DEF Waiting
  <2> HIDE DEF t
  <2>2. /\ CoreInv(p, c, {n.currp}) /\ (OwnersOK(n) => OwnersOK(p))
        /\ SameCore(n, p) /\ SameWaits(n, p) /\ p.prio = n.prio /\ p.pendsv = n.pendsv
        /\ p.state[n.currp] = "WTMTX" /\ \A u \in Task \ {n.currp} : p.state[u] = n.state[u]
        /\ n.currp \notin OnTimeList(p) /\ p.jiffies = n.jiffies
    BY <1>6, <2>1, SleepOK
  <2> HIDE DEF p
  <2> QED BY <1>6, <1>7, <2>2
<1> HIDE DEF p
<1>9. /\ p.currp = t /\ p.sched_lock = 0 /\ p.live = m.live /\ p.owner = m.owner /\ ~p.wait_aborted[t]
  BY <1>3, <1>4, <1>5, <1>8 DEF SameCore, SameControl
<1>10. CallKind(d) /\ ~Freeing(d) /\ Blocked(p.state[t], d, x, p.wait_aborted[t])
  BY <1>8, <1>9 DEF CallKind, Freeing, Blocked, Waiting
<1>11. x \in Sems \cup Mtxs \cup Cvs /\ p.state[t] \in {"WTSEM", "WTMTX", "WTCOND"}
       /\ (t = p.currp => p.sched_lock = 0 /\ (d.pc = "yield" \/ p.pendsv))
       /\ (x \in Mtxs => p.owner[x] \notin {Null, t}) /\ x \in p.live /\ (d.o \in Object => d.o \in p.live)
  BY <1>8, <1>9
<1> HIDE DEF t, r
<1>12. CoreInv(r, [c EXCEPT ![t] = d], {}) /\ OwnersOK(r)
  BY <1>0, <1>8, <1>10, <1>11, EnqueueOK DEF r
<1> QED BY <1>1, <1>12 DEF t

\* The last unlock of a mutex.
LEMMA ReleaseOK ==
  ASSUME NEW m, NEW c, CoreInv(m, c, {}), OwnersOK(m), m.currp # Idle, m.state[m.currp] \in Up,
         NEW x \in Mtxs, m.owner[x] = m.currp
  PROVE  LET r == mtx_release(m, x) IN
         CoreInv(r, c, {}) /\ OwnersOK(r) /\ Signalled(m, r)
<1> DEFINE t  == m.currp
           ws == m.wait_list[x]
           w  == Head(ws)
           b  == m.bug \/ x \notin Range(m.owned[t])
           l  == Without(m.owned[t], {x})
           od == [m.owned EXCEPT ![t] = l]
           m1 == [m EXCEPT !.owned = od]
<1>0. /\ m \in Kernel /\ t \in Task /\ ~m.bug /\ m.count \in [Mtxs -> Nat] /\ m.owned[t] \in Seq(Mtxs)
      /\ m.owner \in [Mtxs -> Task \cup {Null}] /\ m.owned \in [Task -> Seq(Mtxs)] /\ ws \in Seq(Task)
      /\ x \in Obj
  BY CoreParts, KernelTypes, MutexObjects
<1>1. /\ x \in Range(m.owned[t]) /\ m.owner[x] # Null /\ t # Null /\ x \in m.live
      /\ \A u \in Task : Distinct(m.owned[u]) /\ \A y \in Mtxs : y \in Range(m.owned[u]) <=> m.owner[y] = u
  BY <1>0, MutexObjects DEF OwnersOK
<1>2. l \in Seq(Mtxs) /\ Range(l) = Range(m.owned[t]) \ {x} /\ Distinct(l)
  <2>1. Distinct(m.owned[t])
    BY <1>0, <1>1
  <2> HIDE DEF t
  <2> QED BY <1>0, <2>1, WithoutList
<1> HIDE DEF l
<1>3. od \in [Task -> Seq(Mtxs)] /\ od[t] = l /\ \A u \in Task \ {t} : od[u] = m.owned[u]
  BY <1>0, <1>2
<1>4. m1 = [m EXCEPT !.bug = b, !.owned = od]
  <2>1. b = m.bug
    BY <1>0, <1>1, KernelTypes
  <2> HIDE DEF b, od
  <2> QED BY ONLY <1>0, <2>1 DEF Kernel
<1> HIDE DEF od, b
<1>5. /\ m1 \in Kernel /\ SameLinks(m, m1) /\ SameControl(m, m1)
      /\ m1.pendsv = m.pendsv /\ m1.wait_aborted = m.wait_aborted /\ m1.obj = m.obj /\ m1.prio = m.prio
      /\ m1.owner = m.owner /\ m1.count = m.count /\ m1.owned = od
  <2>1. m \in Kernel /\ od \in [Task -> Seq(Mtxs)]
    BY <1>0, <1>3
  <2> QED BY ONLY <2>1 DEF Kernel, SameLinks, SameControl
<1> HIDE DEF m1
<1>6. CoreInv(m1, c, {})
  BY <1>5, OwnerDataOK
<1>7. CASE ws = <<>> /\ mtx_release(m, x) =
             [m1 EXCEPT !.count = [@ EXCEPT ![x] = 0], !.owner = [@ EXCEPT ![x] = Null]]
  <2> DEFINE cn == [m1.count EXCEPT ![x] = 0]
             ow == [m1.owner EXCEPT ![x] = Null]
             r  == [m1 EXCEPT !.count = cn, !.owner = ow]
  <2>1. /\ cn \in [Mtxs -> Nat] /\ ow \in [Mtxs -> Task \cup {Null}]
    BY <1>0, <1>5
  <2>2. /\ cn[x] = 0 /\ ow[x] = Null
        /\ \A y \in Mtxs \ {x} : cn[y] = m.count[y] /\ ow[y] = m.owner[y]
    BY <1>0, <1>5
  <2> HIDE DEF cn, ow
  <2>3. /\ r \in Kernel /\ SameLinks(m1, r) /\ SameControl(m1, r)
        /\ r.pendsv = m1.pendsv /\ r.wait_aborted = m1.wait_aborted /\ r.obj = m1.obj /\ r.prio = m1.prio
        /\ r.owner = ow /\ r.count = cn /\ r.owned = m1.owned
    <3>1. m1 \in Kernel
      BY <1>5
    <3> QED BY ONLY <3>1, <2>1 DEF Kernel, SameLinks, SameControl
  <2>4. mtx_release(m, x) = r
    BY <1>7 DEF cn, ow
  <2> HIDE DEF r
  <2>5. CoreInv(r, c, {}) /\ Signalled(m1, r)
    BY <1>6, <2>3, OwnerDataOK
  <2>6. Signalled(m, r)
    BY <1>5, <2>5 DEF Signalled, SameLinks, SameControl
  <2>7. OwnersOK(r)
    <3>1. /\ r.wait_list = m.wait_list /\ r.state = m.state /\ r.live = m.live
      BY <1>5, <2>3 DEF SameLinks, SameControl
    <3>2. \A y \in Mtxs :
               /\ r.owner[y] = Null <=> r.count[y] = 0
               /\ r.owner[y] = Null => r.wait_list[y] = <<>>
               /\ r.owner[y] \notin Range(r.wait_list[y])
               /\ r.owner[y] # Null => r.state[r.owner[y]] \notin Gone
               /\ r.owner[y] # Idle
               /\ y \notin r.live => r.owner[y] = Null
      <4> SUFFICES ASSUME NEW y \in Mtxs
                   PROVE  /\ r.owner[y] = Null <=> r.count[y] = 0
                          /\ r.owner[y] = Null => r.wait_list[y] = <<>>
                          /\ r.owner[y] \notin Range(r.wait_list[y])
                          /\ r.owner[y] # Null => r.state[r.owner[y]] \notin Gone
                          /\ r.owner[y] # Idle
                          /\ y \notin r.live => r.owner[y] = Null
        OBVIOUS
      <4>1. CASE y = x
        <5>1. Range(<<>>) = {} /\ Idle # Null
          BY TaskAssumption DEF Range, Task
        <5> QED BY <1>7, <2>2, <2>3, <3>1, <4>1, <5>1
      <4>2. CASE y # x
        BY <2>2, <2>3, <3>1, <4>2 DEF OwnersOK
      <4> QED BY <4>1, <4>2
    <3>3. ASSUME NEW u \in Task
          PROVE  Distinct(r.owned[u]) /\ \A y \in Mtxs : y \in Range(r.owned[u]) <=> r.owner[y] = u
      <4>1. /\ Range(od[u]) = IF u = t THEN Range(m.owned[u]) \ {x} ELSE Range(m.owned[u])
            /\ Distinct(od[u]) /\ r.owned[u] = od[u]
        BY <1>1, <1>2, <1>3, <1>5, <2>3
      <4>2. \A y \in Mtxs : y \in Range(m.owned[u]) <=> m.owner[y] = u
        BY <1>1
      <4>3. \A y \in Mtxs : r.owner[y] = IF y = x THEN Null ELSE m.owner[y]
        BY <2>2, <2>3
      <4>4. Null # u /\ m.owner[x] = t
        BY MutexObjects
      <4> HIDE DEF t
      <4> QED BY <4>1, <4>2, <4>3, <4>4
    <3> QED BY <3>2, <3>3 DEF OwnersOK
  <2> QED BY <2>4, <2>5, <2>6, <2>7
<1> DEFINE np == calc_inherited_priority(m1, t)
           m2 == reallocate_priority(m1, t, np)
           q  == <<w>>
<1>8. CASE ws # <<>> /\ mtx_release(m, x) = do_reschedule(wakeup(transfer(m2, x), q, EOK), w)
  <2>0. m1.state[t] \in Up /\ np \in Prio /\ t \in Task \ {}
    BY <1>0, <1>5, CalcPrio DEF SameLinks
  <2>1. /\ CoreInv(m2, c, {}) /\ SameCore(m1, m2) /\ SameTime(m1, m2) /\ m2.pendsv = m1.pendsv
        /\ m2.wait_list = m1.wait_list /\ m2.state[t] = "READY"
        /\ \A u \in Task \ {t} : m2.state[u] = m1.state[u]
    <3> HIDE DEF np, t
    <3>1. t # Idle
      BY DEF t
    <3>2. /\ CoreInv(m2, c, {}) /\ (OwnersOK(m1) => OwnersOK(m2))
          /\ SameCore(m1, m2) /\ SameRest(m1, m2) /\ SameTime(m1, m2)
          /\ m2.pendsv = m1.pendsv /\ m2.obj = m1.obj /\ m2.evbits = m1.evbits
          /\ m1.state[t] \in Up => m2.wait_list = m1.wait_list /\ m2.state[t] = "READY"
          /\ m1.state[t] \notin Up => m2.state = m1.state
          /\ \A u \in Task \ {t} : m2.state[u] = m1.state[u]
          /\ \A o \in Obj : Range(m2.wait_list[o]) = Range(m1.wait_list[o])
      BY <1>6, <2>0, <3>1, ReallocateOK
    <3> HIDE DEF m2
    <3> QED BY <2>0, <3>2
  <2> HIDE DEF m2
  <2>2. /\ m2.wait_list = m.wait_list /\ m2.owned = od /\ m2.owner = m.owner /\ m2.count = m.count
        /\ m2.live = m.live /\ m2 \in Kernel /\ w \in Range(m2.wait_list[x])
    <3>1. m2 \in Kernel /\ w \in Range(ws)
      BY <1>0, <1>8, <2>1, CoreParts, EmptyRange
    <3> QED BY <1>5, <2>1, <3>1 DEF SameLinks, SameControl, SameCore
  <2>3. w \in Task /\ m2.state[w] = "WTMTX" /\ m2.state[w] \notin Up \cup Gone /\ w # Idle
    <3> HIDE DEF w
    <3> QED BY <2>1, <2>2, MutexWaiter
  <2>4. w # t
    BY <2>1, <2>3
  <2> DEFINE S  == {w}
             n0 == unlink(m2, S)
             cn == [n0.count EXCEPT ![x] = 1]
             ow == [n0.owner EXCEPT ![x] = w]
             f  == [u \in Task |-> IF u = w THEN InsertFirst(n0.owned[u], x) ELSE Without(n0.owned[u], {x})]
             n  == [n0 EXCEPT !.count = cn, !.owner = ow, !.owned = f]
  <2>5. transfer(m2, x) = n
    BY <2>2 DEF transfer
  <2>6. CoreInv(n0, c, S)
    <3>1. S \in SUBSET Task /\ \A u \in S : m2.state[u] \notin Up
      BY <2>3
    <3> HIDE DEF S
    <3>2. CoreInv(n0, c, {} \cup S)
      BY <2>1, <3>1, TakeWaitOK
    <3>3. {} \cup S = S
      OBVIOUS
    <3> QED BY <3>2, <3>3
  <2>7. /\ n0 \in Kernel /\ SameCore(m2, n0) /\ SameRest(m2, n0) /\ SameTime(m2, n0)
        /\ n0.obj = m2.obj /\ n0.evbits = m2.evbits /\ n0.ready = m2.ready
        /\ n0.prio = m2.prio /\ n0.pendsv = m2.pendsv /\ n0.state = m2.state /\ n0.bug = m2.bug
        /\ \A o \in Obj : Range(n0.wait_list[o]) = Range(m2.wait_list[o]) \ S
    BY <2>2, UnlinkEffect
  <2> HIDE DEF n0
  <2>8. n0.owner = m.owner /\ n0.count = m.count /\ n0.owned = od
    BY <2>2, <2>7 DEF SameCore
  <2>9. \A u \in Task : /\ f[u] \in Seq(Mtxs) /\ Distinct(f[u])
                        /\ Range(f[u]) = IF u = w THEN Range(od[u]) \cup {x} ELSE Range(od[u]) \ {x}
    <3> SUFFICES ASSUME NEW u \in Task
                 PROVE  /\ f[u] \in Seq(Mtxs) /\ Distinct(f[u])
                        /\ Range(f[u]) = IF u = w THEN Range(od[u]) \cup {x} ELSE Range(od[u]) \ {x}
      OBVIOUS
    <3>1. od[u] \in Seq(Mtxs) /\ Distinct(od[u])
      BY <1>1, <1>2, <1>3
    <3>2. CASE u = w
      <4>1. f[u] = InsertFirst(od[u], x)
        BY <2>8, <3>2
      <4>2. x \notin Range(od[u])
        BY <1>1, <1>3, <2>3, <2>4, <3>2
      <4> HIDE DEF f
      <4> QED BY <3>1, <3>2, <4>1, <4>2, InsertFirstList
    <3>3. CASE u # w
      <4>1. f[u] = Without(od[u], {x})
        BY <2>8, <3>3
      <4> HIDE DEF f
      <4> QED BY <3>1, <3>3, <4>1, WithoutList
    <3> QED BY <3>2, <3>3
  <2>10. f \in [Task -> Seq(Mtxs)]
    <3>1. f = [u \in Task |-> f[u]]
      OBVIOUS
    <3> HIDE DEF f
    <3> QED BY <2>9, <3>1
  <2> HIDE DEF f
  <2>11. cn \in [Mtxs -> Nat] /\ ow \in [Mtxs -> Task \cup {Null}]
    BY <1>0, <2>3, <2>8
  <2>12. /\ cn[x] = 1 /\ ow[x] = w
         /\ \A y \in Mtxs \ {x} : cn[y] = m.count[y] /\ ow[y] = m.owner[y]
    BY <1>0, <2>8
  <2> HIDE DEF cn, ow
  <2>13. /\ n \in Kernel /\ SameLinks(n0, n) /\ SameControl(n0, n)
         /\ n.pendsv = n0.pendsv /\ n.wait_aborted = n0.wait_aborted /\ n.obj = n0.obj /\ n.prio = n0.prio
         /\ n.owner = ow /\ n.count = cn /\ n.owned = f
    <3>1. n0 \in Kernel
      BY <2>7
    <3> QED BY ONLY <3>1, <2>10, <2>11 DEF Kernel, SameLinks, SameControl
  <2> HIDE DEF n
  <2>14. CoreInv(n, c, S)
    BY <2>6, <2>13, OwnerDataOK
  <2>15. /\ n.live = m.live /\ n.state = m2.state /\ \A y \in Mtxs : Range(n.wait_list[y]) = Range(m.wait_list[y]) \ S
    BY <2>2, <2>7, <2>13, MutexObjects DEF SameCore, SameLinks, SameControl
  <2>16. OwnersOK(n)
    <3>1. ASSUME NEW y \in Mtxs
          PROVE  /\ n.owner[y] = Null <=> n.count[y] = 0
                 /\ n.owner[y] = Null => n.wait_list[y] = <<>>
                 /\ n.owner[y] \notin Range(n.wait_list[y])
                 /\ n.owner[y] # Null => n.state[n.owner[y]] \notin Gone
                 /\ n.owner[y] # Idle
                 /\ y \notin n.live => n.owner[y] = Null
      <4>1. CASE y = x
        <5>1. n.owner[x] = w /\ n.count[x] = 1 /\ n.state[w] \notin Gone /\ x \in n.live
          BY <1>1, <2>3, <2>12, <2>13, <2>15
        <5>2. w # Null /\ w # Idle /\ w \notin Range(n.wait_list[x])
          BY <2>3, <2>15, MutexObjects
        <5> HIDE DEF w
        <5> QED BY <4>1, <5>1, <5>2
      <4>2. CASE y # x
        <5>1. n.owner[y] = m.owner[y] /\ n.count[y] = m.count[y]
          BY <2>12, <2>13, <4>2
        <5>2. n.wait_list[y] \in Seq(Task) /\ m.wait_list[y] \in Seq(Task)
          BY <1>0, <2>13, KernelTypes, MutexObjects
        <5>3. m.owner[y] = Null => n.wait_list[y] = <<>>
          <6>1. m.owner[y] = Null => Range(m.wait_list[y]) = {}
            BY <5>2, EmptyRange DEF OwnersOK
          <6> QED BY <2>15, <5>2, <6>1, EmptyRange
        <5>4. m.owner[y] # Null => n.state[m.owner[y]] \notin Gone
          <6>1. m.owner[y] # Null => m.state[m.owner[y]] \notin Gone /\ m.owner[y] \in Task
            BY <1>0 DEF OwnersOK
          <6> QED BY <1>5, <2>1, <2>15, <6>1 DEF SameLinks, Gone
        <5>5. /\ m.owner[y] = Null <=> m.count[y] = 0
              /\ m.owner[y] \notin Range(m.wait_list[y]) /\ m.owner[y] # Idle
              /\ y \notin m.live => m.owner[y] = Null
          BY DEF OwnersOK
        <5>6. n.live = m.live /\ Range(n.wait_list[y]) \subseteq Range(m.wait_list[y])
          BY <2>15
        <5> QED BY <5>1, <5>3, <5>4, <5>5, <5>6
      <4> QED BY <4>1, <4>2
    <3>2. ASSUME NEW u \in Task
          PROVE  Distinct(n.owned[u]) /\ \A y \in Mtxs : y \in Range(n.owned[u]) <=> n.owner[y] = u
      <4>1. Range(od[u]) = IF u = t THEN Range(m.owned[u]) \ {x} ELSE Range(m.owned[u])
        BY <1>2, <1>3
      <4>2. \A y \in Mtxs : y \in Range(m.owned[u]) <=> m.owner[y] = u
        BY <1>1
      <4>3. n.owned[u] = f[u] /\ Distinct(f[u])
            /\ Range(f[u]) = IF u = w THEN Range(od[u]) \cup {x} ELSE Range(od[u]) \ {x}
        BY <2>9, <2>13
      <4>4. \A y \in Mtxs : n.owner[y] = IF y = x THEN w ELSE m.owner[y]
        BY <2>12, <2>13
      <4> QED BY <2>4, <4>1, <4>2, <4>3, <4>4
    <3> QED BY <3>1, <3>2 DEF OwnersOK
  <2>17. q \in Seq(Task) /\ Range(q) = S /\ Distinct(q) /\ EOK \in Msg
    <3>1. EOK \in Msg
      BY DEF Msg
    <3> QED BY <2>3, <3>1, OneElement
  <2>18. \A u \in Range(q) : n.state[u] \notin Up \cup {"ZOMBIE", "EXITED"}
    BY <2>3, <2>15, <2>17 DEF Gone
  <2> DEFINE p == wakeup(n, q, EOK)
             r == do_reschedule(p, w)
  <2>23. mtx_release(m, x) = r
    BY <1>8, <2>5
  <2> HIDE DEF q, S, w
  <2>19. CoreInv(p, c, {}) /\ OwnersOK(p)
    BY <2>14, <2>16, <2>17, <2>18, WakeOK
  <2>20. /\ SameCore(n, p) /\ p.pendsv = n.pendsv /\ p.jiffies = n.jiffies
         /\ p.state = [u \in Task |-> IF u \in Range(q) THEN "READY" ELSE n.state[u]]
    BY <2>13, <2>17, WakeupEffect
  <2> HIDE DEF p
  <2>21. /\ CoreInv(r, c, {}) /\ OwnersOK(r) /\ SameLinks(p, r) /\ SameControl(p, r)
         /\ r.wait_aborted = p.wait_aborted /\ (p.pendsv => r.pendsv)
    BY <2>3, <2>19, RescheduleOK
  <2>22. Signalled(m, r)
    <3>1. Signalled(m, m1)
      BY <1>5 DEF Signalled, SameLinks, SameControl
    <3>2. Signalled(m1, m2)
      BY <2>0, <2>1 DEF Signalled, SameCore, SameTime, Up
    <3>3. Signalled(m2, n)
      BY <2>7, <2>13 DEF Signalled, SameCore, SameTime, SameLinks, SameControl
    <3>4. Signalled(n, p)
      BY <2>20 DEF Signalled, SameCore, Up
    <3>5. Signalled(p, r)
      BY <2>21 DEF Signalled, SameLinks, SameControl
    <3> HIDE DEF r
    <3> QED BY <3>1, <3>2, <3>3, <3>4, <3>5 DEF Signalled
  <2> HIDE DEF r
  <2> QED BY <2>21, <2>22, <2>23
<1>9. \/ ws = <<>> /\ mtx_release(m, x) =
             [m1 EXCEPT !.count = [@ EXCEPT ![x] = 0], !.owner = [@ EXCEPT ![x] = Null]]
      \/ ws # <<>> /\ mtx_release(m, x) = do_reschedule(wakeup(transfer(m2, x), q, EOK), w)
  <2>1. [m EXCEPT !.bug = @ \/ x \notin Range(m.owned[m.currp]),
                  !.owned[m.currp] = Without(@, {x})] = m1
    BY <1>0, <1>4 DEF Kernel, b, od, l
  <2> QED BY <2>1 DEF mtx_release
<1> QED BY <1>7, <1>8, <1>9

\* isix_mutex_unlock by the owner.
LEMMA UnlockFunOK ==
  ASSUME NEW m, NEW c, CoreInv(m, c, {}), OwnersOK(m), m.currp # Idle, m.state[m.currp] \in Up,
         NEW x \in Mtxs, m.owner[x] = m.currp
  PROVE  LET r == mutex_unlock(m, x) IN
         CoreInv(r, c, {}) /\ OwnersOK(r) /\ Signalled(m, r)
<1>0. m \in Kernel /\ m.count \in [Mtxs -> Nat] /\ m.owner[x] # Null
  BY CoreParts, KernelTypes, MutexObjects
<1>1. CASE m.count[x] > 1
  <2> DEFINE v == m.count[x] - 1
             r == [m EXCEPT !.count = [m.count EXCEPT ![x] = v]]
  <2>1. mutex_unlock(m, x) = r
    BY <1>0, <1>1 DEF mutex_unlock, Kernel
  <2>2. v \in Nat \ {0}
    BY <1>0, <1>1
  <2> HIDE DEF v
  <2>3. CoreInv(r, c, {}) /\ OwnersOK(r) /\ Signalled(m, r)
    BY <1>0, <2>2, CountOK
  <2> QED BY <2>1, <2>3
<1>2. CASE ~(m.count[x] > 1)
  BY <1>2, ReleaseOK DEF mutex_unlock
<1> QED BY <1>1, <1>2

-----------------------------------------------------------------------------
(***************************************************************************)
(* The calls on mutexes.                                                   *)
(***************************************************************************)

\* The current task takes a free mutex, or its own once more.
LEMMA TakeOK ==
  ASSUME NEW m, NEW c, CoreInv(m, c, {}), OwnersOK(m), m.currp # Idle, m.state[m.currp] \in Up,
         NEW x \in Mtxs, x \in m.live, NEW r,
         \/ m.owner[x] = Null /\ r = set_ownership_to_current(m, x)
         \/ m.owner[x] = m.currp /\ r = [m EXCEPT !.count[x] = @ + 1]
  PROVE  CoreInv(r, c, {}) /\ OwnersOK(r) /\ Signalled(m, r)
<1>0. m \in Kernel /\ m.count \in [Mtxs -> Nat] /\ m.currp \in Task
  BY CoreParts, KernelTypes
<1>1. CASE m.owner[x] = Null /\ r = set_ownership_to_current(m, x)
  BY <1>1, SetOwnershipOK
<1>2. CASE m.owner[x] = m.currp /\ r = [m EXCEPT !.count[x] = @ + 1]
  <2> DEFINE v == m.count[x] + 1
  <2>1. r = [m EXCEPT !.count = [m.count EXCEPT ![x] = v]]
    BY <1>0, <1>2 DEF Kernel
  <2>2. v \in Nat \ {0} /\ m.owner[x] # Null
    BY <1>0, <1>2, MutexObjects
  <2> HIDE DEF v
  <2> QED BY <2>1, <2>2, CountOK
<1> QED BY <1>1, <1>2

\* isix_mutex_lock.
LEMMA MtxLockOK ==
  ASSUME KernelOK(k, call), NEW t \in Task, NEW x \in Mtxs, MtxLock(t, x)
  PROVE  KernelOK(k', call')
<1> DEFINE d == [NoCall EXCEPT !.op = "mtx", !.pc = "yield", !.o = x]
<1>0. /\ t = k.currp /\ t # Idle /\ k.state[t] \in Up /\ k.sched_lock = 0 /\ x \in k.live
      /\ CoreInv(k, call, {}) /\ OwnersOK(k)
  <2>1. CASE MayBlock(t) /\ x \in k.live
    BY <2>1, RunningUp DEF MayBlock
  <2>2. CASE Exec(t) /\ call[t].op = "mtx" /\ call[t].pc = "enter" /\ call[t].o = x
    <3>1. call[t].op \in Blocking /\ call[t].o \in Object
      BY <2>2, MutexObjects DEF Blocking
    <3> QED BY <2>2, <3>1, EnterUp
  <2> QED BY <2>1, <2>2 DEF MtxLock
<1>1. \/ /\ \/ k.owner[x] = Null /\ k' = set_ownership_to_current(k, x)
            \/ k.owner[x] = t /\ k' = [k EXCEPT !.count[x] = @ + 1]
         /\ call' = [call EXCEPT ![t] = NoCall]
      \/ /\ k.owner[x] \notin {Null, t} /\ k' = mtx_block(k, x)
         /\ call' = [call EXCEPT ![t] = d]
  BY DEF MtxLock
<1>2. CASE /\ \/ k.owner[x] = Null /\ k' = set_ownership_to_current(k, x)
              \/ k.owner[x] = t /\ k' = [k EXCEPT !.count[x] = @ + 1]
           /\ call' = [call EXCEPT ![t] = NoCall]
  <2>1. CoreInv(k', call, {}) /\ OwnersOK(k') /\ Signalled(k, k')
    BY <1>0, <1>2, TakeOK
  <2>2. k'.state[t] \in Up
    BY <1>0, <2>1 DEF Signalled
  <2>3. CoreInv(k', [call EXCEPT ![t] = NoCall], {})
    BY <2>1, <2>2, EndCallOK
  <2> QED BY <1>2, <2>1, <2>3 DEF KernelOK
<1>3. CASE /\ k.owner[x] \notin {Null, t} /\ k' = mtx_block(k, x)
           /\ call' = [call EXCEPT ![t] = d]
  <2>1. "mtx" \in Ops /\ "yield" \in Pcs /\ x \in Obj
    BY MutexObjects DEF Ops, Pcs
  <2>2. d \in Call /\ d.op = "mtx" /\ d.o = x /\ d.pc = "yield"
    BY <2>1, NoCallFits DEF Call
  <2> HIDE DEF d
  <2>3. CoreInv(mtx_block(k, x), [call EXCEPT ![k.currp] = d], {}) /\ OwnersOK(mtx_block(k, x))
    BY <1>0, <1>3, <2>2, MtxBlockOK
  <2> QED BY <1>0, <1>3, <2>3 DEF KernelOK
<1> QED BY <1>1, <1>2, <1>3

\* isix_mutex_trylock.
LEMMA MtxTryLockOK ==
  ASSUME KernelOK(k, call), NEW t \in Task, NEW x \in Mtxs, MtxTryLock(t, x)
  PROVE  KernelOK(k', call')
<1>0. /\ t = k.currp /\ t # Idle /\ k.state[t] \in Up /\ x \in k.live
      /\ CoreInv(k, call, {}) /\ OwnersOK(k) /\ call' = call
  BY RunningUp DEF MtxTryLock
<1>1. \/ k.owner[x] = Null /\ k' = set_ownership_to_current(k, x)
      \/ k.owner[x] = t /\ k' = [k EXCEPT !.count[x] = @ + 1]
  BY DEF MtxTryLock
<1>2. CoreInv(k', call, {}) /\ OwnersOK(k')
  BY <1>0, <1>1, TakeOK
<1> QED BY <1>0, <1>2 DEF KernelOK

\* isix_mutex_unlock.
LEMMA MtxUnlockOK ==
  ASSUME KernelOK(k, call), NEW t \in Task, NEW x \in Mtxs, MtxUnlock(t, x)
  PROVE  KernelOK(k', call')
<1>0. /\ t = k.currp /\ t # Idle /\ k.state[t] \in Up /\ k.owner[x] = k.currp
      /\ CoreInv(k, call, {}) /\ OwnersOK(k) /\ k' = mutex_unlock(k, x) /\ call' = call
  BY RunningUp DEF MtxUnlock
<1>1. CoreInv(mutex_unlock(k, x), call, {}) /\ OwnersOK(mutex_unlock(k, x))
  BY <1>0, UnlockFunOK
<1> QED BY <1>0, <1>1 DEF KernelOK

\* Back from the wait of isix_mutex_lock.
LEMMA MtxLockReturnOK ==
  ASSUME KernelOK(k, call), NEW t \in Task, MtxLockReturn(t)
  PROVE  KernelOK(k', call')
<1>1. /\ Exec(t) /\ call[t].pc = "after"
      /\ \/ k.wait_aborted[t] /\ call' = [call EXCEPT ![t].pc = "enter"] /\ k' = k
         \/ call' = [call EXCEPT ![t] = NoCall] /\ k' = leave(k, t)
  BY DEF MtxLockReturn
<1> QED BY <1>1, ReturnOK

\* isix_mutex_create.
LEMMA MtxCreateOK ==
  ASSUME KernelOK(k, call), NEW t \in Task, NEW x \in Mtxs, MtxCreate(t, x)
  PROVE  KernelOK(k', call')
<1>0. /\ CoreInv(k, call, {}) /\ OwnersOK(k) /\ k \in Kernel /\ AliveOK(k, call) /\ x \in Object
      /\ x \in Obj /\ x \notin k.live
  BY CoreParts, MutexObjects DEF KernelOK, MtxCreate
<1> DEFINE L == k.live \cup {x}
           g == [k.owner EXCEPT ![x] = Null]
           h == [k.count EXCEPT ![x] = 0]
           f == [k.wait_list EXCEPT ![x] = <<>>]
           r == [k EXCEPT !.live = L]
<1>1. k' = [k EXCEPT !.live = L, !.owner = g, !.count = h, !.wait_list = f] /\ call' = call
  BY DEF MtxCreate
<1>2. k.owner[x] = Null /\ k.count[x] = 0 /\ k.wait_list[x] = <<>>
  BY <1>0 DEF OwnersOK
<1>3. f = k.wait_list /\ g = k.owner /\ h = k.count
  BY <1>0, <1>2, KernelTypes
<1>4. \A o \in Object \ L : k.wait_list[o] = <<>>
  BY <1>0 DEF AliveOK
<1>5. \A u \in Task : call[u].o \in Object \ L => Harmless(call[u], k.wait_aborted[u])
  BY <1>0 DEF AliveOK
<1>6. \A n \in Notifier : k.evt[n] # Null => k.evt[n] \in L /\ 0 \in Bits
  BY <1>0 DEF AliveOK
<1>7. L \in SUBSET Object /\ \A y \in Mtxs : y \notin L => y \notin k.live
  BY <1>0, KernelTypes
<1> HIDE DEF L, g, h, f
<1>8. k' = r
  BY <1>0, <1>1, <1>3 DEF Kernel
<1>9. /\ r \in Kernel /\ SameLinks(k, r) /\ r.live = L /\ r.currp = k.currp
      /\ r.sched_lock = k.sched_lock /\ r.refcnt = k.refcnt /\ r.bug = k.bug
      /\ r.pendsv = k.pendsv /\ r.prio = k.prio /\ r.obj = k.obj /\ r.wait_aborted = k.wait_aborted
      /\ r.evt = k.evt /\ r.owner = k.owner /\ r.count = k.count /\ r.owned = k.owned
  BY <1>0, <1>7 DEF Kernel, SameLinks
<1> HIDE DEF r
<1>10. CoreInv(r, call, {})
  BY <1>0, <1>4, <1>5, <1>6, <1>9, LiveOK
<1>11. OwnersOK(r)
  BY <1>0, <1>7, <1>9 DEF OwnersOK, SameLinks
<1> QED BY <1>1, <1>8, <1>10, <1>11 DEF KernelOK

\* isix_mutex_destroy.
LEMMA DestroyFunOK ==
  ASSUME NEW m, NEW c, CoreInv(m, c, {}), OwnersOK(m), NEW x \in Mtxs
  PROVE  LET r == mutex_destroy(m, x) IN
         /\ CoreInv(r, c, {}) /\ OwnersOK(r) /\ Signalled(m, r)
         /\ r.owner[x] = Null /\ r.wait_list[x] = <<>>
<1> DEFINE o  == m.owner[x]
           ws == m.wait_list[x]
           S  == Range(ws)
           n0 == unlink(m, S)
           f  == [t \in Task |-> Without(n0.owned[t], {x})]
           ow == [n0.owner EXCEPT ![x] = Null]
           cn == [n0.count EXCEPT ![x] = 0]
           n1 == [n0 EXCEPT !.owned = f, !.owner = ow, !.count = cn]
           g  == [t \in Task |-> IF t \in S THEN calc_inherited_priority(n1, t) ELSE n1.prio[t]]
           n2 == [n1 EXCEPT !.prio = g]
           n3 == wakeup(n2, ws, EDESTROY)
           n4 == IF o = Null THEN n3 ELSE inherit(n3, o)
           r  == IF ws = <<>> THEN n4 ELSE do_reschedule(n4, Head(ws))
<1>0. /\ m \in Kernel /\ WaitPlaced(m, c, {}) /\ x \in Obj
      /\ m.count \in [Mtxs -> Nat] /\ m.owner \in [Mtxs -> Task \cup {Null}]
      /\ m.owned \in [Task -> Seq(Mtxs)] /\ ws \in Seq(Task) /\ o \in Task \cup {Null}
  BY CoreParts, KernelTypes, MutexObjects
<1>1. mutex_destroy(m, x) = r
  BY DEF mutex_destroy
<1>2. /\ S \in SUBSET Task /\ Distinct(ws) /\ (ws # <<>> => Head(ws) \in Task)
      /\ \A t \in S : m.state[t] \notin Up \cup Gone
  BY <1>0, EmptyRange, MutexWaiter DEF WaitPlaced
<1> HIDE DEF ws, S, o
<1>3. CoreInv(n0, c, S)
  <2>1. \A t \in S : m.state[t] \notin Up
    BY <1>2
  <2>2. CoreInv(n0, c, {} \cup S)
    BY <1>2, <2>1, TakeWaitOK
  <2>3. {} \cup S = S
    OBVIOUS
  <2> QED BY <2>2, <2>3
<1>4. /\ n0 \in Kernel /\ SameCore(m, n0) /\ SameRest(m, n0) /\ SameTime(m, n0)
      /\ n0.obj = m.obj /\ n0.evbits = m.evbits /\ n0.ready = m.ready
      /\ n0.prio = m.prio /\ n0.pendsv = m.pendsv /\ n0.state = m.state /\ n0.bug = m.bug
      /\ \A y \in Obj : Range(n0.wait_list[y]) = Range(m.wait_list[y]) \ S
  BY <1>0, UnlinkEffect
<1> HIDE DEF n0
<1>5. n0.owner = m.owner /\ n0.count = m.count /\ n0.owned = m.owned /\ n0.live = m.live
  BY <1>4 DEF SameCore
<1>6. \A t \in Task : f[t] \in Seq(Mtxs) /\ Distinct(f[t]) /\ Range(f[t]) = Range(m.owned[t]) \ {x}
  <2> SUFFICES ASSUME NEW t \in Task
               PROVE  f[t] \in Seq(Mtxs) /\ Distinct(f[t]) /\ Range(f[t]) = Range(m.owned[t]) \ {x}
    OBVIOUS
  <2>1. f[t] = Without(m.owned[t], {x}) /\ m.owned[t] \in Seq(Mtxs) /\ Distinct(m.owned[t])
    BY <1>0, <1>5 DEF OwnersOK
  <2> HIDE DEF f
  <2> QED BY <2>1, WithoutList
<1>7. f \in [Task -> Seq(Mtxs)]
  <2>1. f = [t \in Task |-> f[t]]
    OBVIOUS
  <2> HIDE DEF f
  <2> QED BY <1>6, <2>1
<1> HIDE DEF f
<1>8. ow \in [Mtxs -> Task \cup {Null}] /\ cn \in [Mtxs -> Nat]
  BY <1>0, <1>5
<1>9. \A y \in Mtxs : /\ ow[y] = IF y = x THEN Null ELSE m.owner[y]
                      /\ cn[y] = IF y = x THEN 0 ELSE m.count[y]
  BY <1>0, <1>5
<1> HIDE DEF ow, cn
<1>10. /\ n1 \in Kernel /\ SameLinks(n0, n1) /\ SameControl(n0, n1)
       /\ n1.pendsv = n0.pendsv /\ n1.wait_aborted = n0.wait_aborted /\ n1.obj = n0.obj /\ n1.prio = n0.prio
       /\ n1.owner = ow /\ n1.count = cn /\ n1.owned = f
  <2>1. n0 \in Kernel
    BY <1>4
  <2> QED BY ONLY <2>1, <1>7, <1>8 DEF Kernel, SameLinks, SameControl
<1> HIDE DEF n1
<1>11. CoreInv(n1, c, S)
  BY <1>3, <1>10, OwnerDataOK
<1>12. n1.live = m.live /\ n1.state = m.state /\ \A y \in Mtxs : Range(n1.wait_list[y]) = Range(m.wait_list[y]) \ S
  BY <1>4, <1>10, MutexObjects DEF SameCore, SameLinks, SameControl
<1>13. n1.wait_list \in [Obj -> Seq(Task)] /\ n1.wait_list[x] = <<>>
  <2>1. n1.wait_list \in [Obj -> Seq(Task)] /\ n1.wait_list[x] \in Seq(Task)
    BY <1>0, <1>10, KernelTypes
  <2>2. Range(n1.wait_list[x]) = {}
    BY <1>12 DEF S, ws
  <2> QED BY <2>1, <2>2, EmptyRange
<1>14. OwnersOK(n1)
  <2>1. ASSUME NEW y \in Mtxs
        PROVE  /\ n1.owner[y] = Null <=> n1.count[y] = 0
               /\ n1.owner[y] = Null => n1.wait_list[y] = <<>>
               /\ n1.owner[y] \notin Range(n1.wait_list[y])
               /\ n1.owner[y] # Null => n1.state[n1.owner[y]] \notin Gone
               /\ n1.owner[y] # Idle
               /\ y \notin n1.live => n1.owner[y] = Null
    <3>1. CASE y = x
      <4>1. n1.owner[x] = Null /\ n1.count[x] = 0 /\ Null # Idle
        BY <1>9, <1>10, TaskAssumption DEF Task
      <4>2. Range(<<>>) = {}
        BY DEF Range
      <4> QED BY <1>13, <3>1, <4>1, <4>2
    <3>2. CASE y # x
      <4>1. n1.owner[y] = m.owner[y] /\ n1.count[y] = m.count[y]
        BY <1>9, <1>10, <3>2
      <4>2. /\ m.owner[y] = Null <=> m.count[y] = 0
            /\ m.owner[y] = Null => m.wait_list[y] = <<>>
            /\ m.owner[y] \notin Range(m.wait_list[y]) /\ m.owner[y] # Idle
            /\ m.owner[y] # Null => m.state[m.owner[y]] \notin Gone
            /\ y \notin m.live => m.owner[y] = Null
        BY DEF OwnersOK
      <4>3. m.wait_list[y] = <<>> => n1.wait_list[y] = <<>>
        <5>1. n1.wait_list[y] \in Seq(Task)
          BY <1>13, MutexObjects
        <5>2. Range(<<>>) = {}
          BY DEF Range
        <5>3. m.wait_list[y] = <<>> => Range(n1.wait_list[y]) = {}
          BY <1>12, <5>2
        <5> QED BY <5>1, <5>3, EmptyRange
      <4>4. Range(n1.wait_list[y]) \subseteq Range(m.wait_list[y]) /\ n1.live = m.live /\ n1.state = m.state
        BY <1>12
      <4> QED BY <4>1, <4>2, <4>3, <4>4
    <3> QED BY <3>1, <3>2
  <2>2. ASSUME NEW u \in Task
        PROVE  Distinct(n1.owned[u]) /\ \A y \in Mtxs : y \in Range(n1.owned[u]) <=> n1.owner[y] = u
    <3>1. \A y \in Mtxs : y \in Range(m.owned[u]) <=> m.owner[y] = u
      BY DEF OwnersOK
    <3>2. n1.owned[u] = f[u] /\ Distinct(f[u]) /\ Range(f[u]) = Range(m.owned[u]) \ {x}
      BY <1>6, <1>10
    <3>3. \A y \in Mtxs : n1.owner[y] = IF y = x THEN Null ELSE m.owner[y]
      BY <1>9, <1>10
    <3>4. Null # u
      BY MutexObjects
    <3> QED BY <3>1, <3>2, <3>3, <3>4
  <2> QED BY <2>1, <2>2 DEF OwnersOK
<1>15. g \in [Task -> Prio] /\ \A t \in Task \ S : g[t] = n1.prio[t]
  <2>1. n1.prio \in [Task -> Prio]
    BY <1>10, KernelTypes
  <2>2. \A t \in Task : calc_inherited_priority(n1, t) \in Prio
    BY <1>10, CalcPrio
  <2> QED BY <2>1, <2>2
<1> HIDE DEF g
<1>16. /\ n2 \in Kernel /\ SameLinks(n1, n2) /\ SameControl(n1, n2)
       /\ n2.pendsv = n1.pendsv /\ n2.wait_aborted = n1.wait_aborted /\ n2.obj = n1.obj /\ n2.prio = g
       /\ n2.owner = n1.owner /\ n2.count = n1.count /\ n2.owned = n1.owned
  <2>1. n1 \in Kernel
    BY <1>10
  <2> QED BY ONLY <2>1, <1>15 DEF Kernel, SameLinks, SameControl
<1> HIDE DEF n2
<1>17. CoreInv(n2, c, S)
  <2>1. \A t \in Task : t \notin S /\ n1.state[t] \in Up => n2.prio[t] = n1.prio[t]
    BY <1>15, <1>16
  <2> QED BY <1>11, <1>16, <2>1, AlterOK
<1>18. OwnersOK(n2)
  BY <1>14, <1>16 DEF OwnersOK, SameLinks, SameControl
<1>19. /\ EDESTROY \in Msg /\ ws \in Seq(Task) /\ Range(ws) = S
       /\ \A t \in Range(ws) : n2.state[t] \notin Up \cup {"ZOMBIE", "EXITED"}
  <2>1. EDESTROY \in Msg
    BY DEF Msg
  <2>2. n2.state = m.state
    BY <1>12, <1>16 DEF SameLinks
  <2>3. Range(ws) = S
    BY DEF S
  <2> QED BY <1>0, <1>2, <2>1, <2>2, <2>3 DEF Gone
<1>20. CoreInv(n3, c, {}) /\ OwnersOK(n3)
  BY <1>2, <1>17, <1>18, <1>19, WakeOK
<1>21. /\ SameCore(n2, n3) /\ n3.pendsv = n2.pendsv /\ n3.jiffies = n2.jiffies /\ n3.wait_list = n2.wait_list
       /\ n3.state = [u \in Task |-> IF u \in Range(ws) THEN "READY" ELSE n2.state[u]]
  BY <1>16, <1>19, WakeupEffect
<1> HIDE DEF n3
<1>22. CoreInv(n4, c, {}) /\ OwnersOK(n4) /\ Reordered(n3, n4)
  <2>1. CASE n4 = n3
    BY <1>20, <2>1 DEF Reordered, SameCore, SameRest, SameTime
  <2>2. CASE o # Null /\ n4 = inherit(n3, o)
    <3>1. o \in Task \ {} /\ o # Idle
      BY <1>0, <2>2 DEF OwnersOK, o
    <3> HIDE DEF n4
    <3> QED BY <1>20, <2>2, <3>1, InheritOK
  <2> QED BY <2>1, <2>2
<1> HIDE DEF n4
<1>23. CoreInv(r, c, {}) /\ OwnersOK(r) /\ r.wait_list = n4.wait_list /\ r.owner = n4.owner /\ Signalled(n4, r)
  <2>1. CASE r = n4
    BY <1>22, <2>1 DEF Signalled
  <2>2. CASE ws # <<>> /\ r = do_reschedule(n4, Head(ws))
    <3> DEFINE h == Head(ws)
    <3>1. h \in Task /\ r = do_reschedule(n4, h)
      BY <1>2, <2>2
    <3> HIDE DEF r, h
    <3>2. /\ CoreInv(r, c, {}) /\ (OwnersOK(n4) => OwnersOK(r)) /\ SameLinks(n4, r) /\ SameControl(n4, r)
          /\ r.prio = n4.prio /\ r.wait_aborted = n4.wait_aborted /\ r.obj = n4.obj
          /\ r.owner = n4.owner /\ r.owned = n4.owned /\ r.count = n4.count
          /\ (n4.pendsv => r.pendsv)
      BY <1>22, <3>1, RescheduleOK
    <3> QED BY <1>22, <3>2 DEF Signalled, SameLinks, SameControl
  <2> QED BY <2>1, <2>2
<1> HIDE DEF r
<1>24. Signalled(m, r)
  <2>1. Signalled(m, n1)
    BY <1>4, <1>10 DEF Signalled, SameCore, SameTime, SameLinks, SameControl
  <2>2. Signalled(n1, n2)
    BY <1>16 DEF Signalled, SameLinks, SameControl
  <2>3. Signalled(n2, n3)
    BY <1>21 DEF Signalled, SameCore, Up
  <2>4. Signalled(n3, n4)
    BY <1>22 DEF Signalled, Reordered, SameCore, SameTime, Up
  <2> QED BY <1>23, <2>1, <2>2, <2>3, <2>4 DEF Signalled
<1>25. r.owner[x] = Null
  BY <1>9, <1>10, <1>16, <1>21, <1>22, <1>23 DEF SameCore, Reordered
<1>26. r.wait_list[x] = <<>>
  <2>1. r.wait_list[x] \in Seq(Task)
    BY <1>0, <1>23, CoreParts, KernelTypes
  <2>2. n3.wait_list[x] = <<>> /\ Range(<<>>) = {}
    BY <1>13, <1>16, <1>21 DEF SameLinks, Range
  <2>3. Range(r.wait_list[x]) = {}
    BY <1>0, <1>22, <1>23, <2>2 DEF Reordered
  <2> QED BY <2>1, <2>3, EmptyRange
<1> QED BY <1>1, <1>23, <1>24, <1>25, <1>26

\* isix_mutex_destroy keeps the kernel consistent: nobody is left on the list of
\* the freed mutex and nobody owns it.
LEMMA MtxDestroyOK ==
  ASSUME KernelOK(k, call), NEW t \in Task, NEW x \in Mtxs, MtxDestroy(t, x)
  PROVE  KernelOK(k', call')
<1> DEFINE n == mutex_destroy(k, x)
           L == n.live \ {x}
           r == [n EXCEPT !.live = L]
<1>0. CoreInv(k, call, {}) /\ OwnersOK(k) /\ x \in Obj /\ x \in Object /\ x \notin Evts
  BY MutexObjects DEF KernelOK
<1>1. k' = r /\ call' = call
  BY DEF MtxDestroy
<1>2. CoreInv(n, call, {}) /\ OwnersOK(n) /\ Signalled(k, n) /\ n.owner[x] = Null /\ n.wait_list[x] = <<>>
  BY <1>0, DestroyFunOK
<1> HIDE DEF n
<1>3. AliveOK(n, call) /\ n \in Kernel /\ n.live \in SUBSET Object /\ n.evt \in [Notifier -> Evts \cup {Null}]
  BY <1>2, CoreParts, KernelTypes
<1>4. \A u \in Task : call[u].o = x => Harmless(call[u], n.wait_aborted[u])
  BY <1>0, <1>2, QuiescentHarmless DEF MtxDestroy, Signalled
<1>5. L \in SUBSET Object
  BY <1>3
<1>6. \A o \in Object \ L : n.wait_list[o] = <<>>
  BY <1>2, <1>3 DEF AliveOK
<1>7. \A u \in Task : call[u].o \in Object \ L => Harmless(call[u], n.wait_aborted[u])
  BY <1>3, <1>4 DEF AliveOK
<1>8. \A i \in Notifier : n.evt[i] # Null => n.evt[i] \in L /\ 0 \in Bits
  BY <1>0, <1>3 DEF AliveOK
<1>9. \A y \in Mtxs : y \notin L => n.owner[y] = Null
  BY <1>2 DEF OwnersOK
<1> HIDE DEF L
<1>10. /\ r \in Kernel /\ SameLinks(n, r) /\ r.live = L /\ r.currp = n.currp
       /\ r.sched_lock = n.sched_lock /\ r.refcnt = n.refcnt /\ r.bug = n.bug
       /\ r.pendsv = n.pendsv /\ r.prio = n.prio /\ r.obj = n.obj /\ r.wait_aborted = n.wait_aborted
       /\ r.evt = n.evt /\ r.owner = n.owner /\ r.count = n.count /\ r.owned = n.owned
  BY <1>3, <1>5 DEF Kernel, SameLinks
<1> HIDE DEF r
<1>11. CoreInv(r, call, {})
  BY <1>2, <1>6, <1>7, <1>8, <1>10, LiveOK
<1>12. OwnersOK(r)
  BY <1>2, <1>9, <1>10 DEF OwnersOK, SameLinks
<1> QED BY <1>1, <1>11, <1>12 DEF KernelOK

\* The mutexes of u that somebody waits for, and the first waiter of each.
Contended(m, u) == Keep(m.owned[u], {x \in Mtxs : m.wait_list[x] # <<>>})
Heirs(m, hs) == [i \in 1 .. Len(hs) |-> Head(m.wait_list[hs[i]])]

\* The first waiters of the contended mutexes of u: each waits for one mutex
\* only, so they are different tasks.
LEMMA HeirsOK ==
  ASSUME NEW m, NEW c, CoreInv(m, c, {}), OwnersOK(m), NEW u \in Task, u # Idle,
         NEW hs, hs = Contended(m, u), NEW ws, ws = Heirs(m, hs)
  PROVE  /\ ws \in Seq(Task) /\ Distinct(ws)
         /\ \A x \in Mtxs : x \in Range(hs) <=> m.owner[x] = u /\ m.wait_list[x] # <<>>
         /\ \A x \in Range(hs) : Head(m.wait_list[x]) \in Range(ws)
         /\ \A t \in Range(ws) : /\ t \in Task /\ t # u /\ t # Idle /\ m.state[t] = "WTMTX"
                                 /\ m.obj[t] \in Range(hs) /\ t = Head(m.wait_list[m.obj[t]])
         /\ \A x \in Range(hs) : m.obj[Head(m.wait_list[x])] = x
         /\ Range(hs) \subseteq Mtxs
<1> DEFINE H == {x \in Mtxs : m.wait_list[x] # <<>>}
           ms == m.owned[u]
<1>0. /\ m \in Kernel /\ ms \in Seq(Mtxs) /\ Distinct(ms)
      /\ \A x \in Mtxs : x \in Range(ms) <=> m.owner[x] = u
  BY CoreParts, KernelTypes DEF OwnersOK
<1>1. hs \in Seq(Mtxs) /\ Range(hs) = Range(ms) \cap H /\ Distinct(hs)
  <2>1. hs = Keep(ms, H)
    BY DEF Contended
  <2> HIDE DEF H, ms
  <2>2. Keep(ms, H) \in Seq(Mtxs) /\ Range(Keep(ms, H)) = Range(ms) \cap H
    BY ONLY <1>0, KeepProperties
  <2>3. Distinct(Keep(ms, H))
    BY ONLY <1>0, KeepOrder
  <2> QED BY ONLY <2>1, <2>2, <2>3
<1>2. Range(ms) \subseteq Mtxs /\ Range(hs) \subseteq Mtxs
  BY <1>0, <1>1, EmptyRange
<1>3. \A x \in Mtxs : x \in Range(hs) <=> m.owner[x] = u /\ m.wait_list[x] # <<>>
  BY <1>0, <1>1
<1>4. ASSUME NEW x \in Range(hs)
      PROVE  LET w == Head(m.wait_list[x]) IN
             w \in Task /\ w # u /\ w # Idle /\ m.state[w] = "WTMTX" /\ m.obj[w] = x
  <2> DEFINE w == Head(m.wait_list[x])
  <2>1. x \in Mtxs /\ m.wait_list[x] \in Seq(Task) /\ m.wait_list[x] # <<>> /\ m.owner[x] = u
    BY <1>0, <1>2, <1>3, KernelTypes, MutexObjects
  <2>2. w \in Range(m.wait_list[x])
    BY <2>1, EmptyRange
  <2>3. w # u
    BY <2>1, <2>2 DEF OwnersOK
  <2> HIDE DEF w
  <2>4. w \in Task /\ m.obj[w] = x /\ m.state[w] = "WTMTX" /\ w # Idle
    BY <2>1, <2>2, MutexWaiter
  <2> QED BY <2>3, <2>4 DEF w
<1>5. Len(hs) \in Nat /\ DOMAIN hs = 1 .. Len(hs) /\ Range(hs) = {hs[i] : i \in 1 .. Len(hs)}
  BY ONLY <1>1, LenProperties DEF Range
<1>6. DOMAIN ws = 1 .. Len(hs) /\ \A i \in 1 .. Len(hs) : ws[i] = Head(m.wait_list[hs[i]]) /\ hs[i] \in Range(hs)
  BY <1>5 DEF Heirs
<1>7. ws \in Seq(Task) /\ Len(ws) = Len(hs)
  <2>1. \A i \in 1 .. Len(hs) : ws[i] \in Task
    BY <1>4, <1>6
  <2>2. ws = [i \in 1 .. Len(hs) |-> ws[i]]
    BY DEF Heirs
  <2>3. ws \in Seq(Task)
    BY ONLY <1>5, <2>1, <2>2, SeqDef
  <2> QED BY ONLY <1>5, <1>6, <2>3, LenProperties
<1>8. Range(ws) = {ws[i] : i \in 1 .. Len(hs)}
  BY <1>6 DEF Range
<1>9. Distinct(ws)
  <2> SUFFICES ASSUME NEW i \in 1 .. Len(hs), NEW j \in 1 .. Len(hs), ws[i] = ws[j]
               PROVE  i = j
    BY <1>6 DEF Distinct
  <2>1. m.obj[ws[i]] = hs[i] /\ m.obj[ws[j]] = hs[j]
    BY <1>4, <1>6
  <2>2. hs[i] = hs[j]
    BY <2>1
  <2> QED BY ONLY <1>1, <1>5, <2>2, i \in 1 .. Len(hs), j \in 1 .. Len(hs) DEF Distinct
<1>10. \A x \in Range(hs) : Head(m.wait_list[x]) \in Range(ws)
  BY <1>5, <1>6, <1>8
<1>11. ASSUME NEW t \in Range(ws)
       PROVE  /\ t \in Task /\ t # u /\ t # Idle /\ m.state[t] = "WTMTX"
              /\ m.obj[t] \in Range(hs) /\ t = Head(m.wait_list[m.obj[t]])
  <2>1. PICK i \in 1 .. Len(hs) : t = ws[i]
    BY <1>8
  <2>2. t = Head(m.wait_list[hs[i]]) /\ hs[i] \in Range(hs)
    BY <1>6, <2>1
  <2> QED BY <1>4, <2>2
<1> QED BY <1>2, <1>3, <1>4, <1>7, <1>9, <1>10, <1>11

\* _isixp_mutex_unlock_all_in_task: u owns nothing after it, and every mutex
\* it owned is free or belongs to a task that waited for it.
LEMMA UnlockAllOK ==
  ASSUME NEW m, NEW c, CoreInv(m, c, {}), OwnersOK(m), NEW u \in Task, u # Idle
  PROVE  LET r == mutex_unlock_all_in_task(m, u) IN
         /\ CoreInv(r, c, {}) /\ OwnersOK(r) /\ Signalled(m, r)
         /\ r.owned[u] = <<>>
         /\ \A t \in Task : m.state[t] \notin Gone => r.state[t] \notin Gone
<1> DEFINE ms == m.owned[u]
           hs == Keep(ms, {x \in Mtxs : m.wait_list[x] # <<>>})
           ws == [i \in 1 .. Len(hs) |-> Head(m.wait_list[hs[i]])]
           S  == Range(ws)
           n0 == unlink(m, S)
           cn == [x \in Mtxs |-> CASE x \in Range(hs) -> 1
                                   [] x \in Range(ms) \ Range(hs) -> 0
                                   [] OTHER -> n0.count[x]]
           ow == [x \in Mtxs |-> CASE x \in Range(hs) -> Head(m.wait_list[x])
                                   [] x \in Range(ms) \ Range(hs) -> Null
                                   [] OTHER -> n0.owner[x]]
           od == [t \in Task |-> CASE t = u -> <<>>
                                   [] t \in Range(ws) -> InsertFirst(n0.owned[t], m.obj[t])
                                   [] OTHER -> n0.owned[t]]
           n1 == [n0 EXCEPT !.count = cn, !.owner = ow, !.owned = od]
           n2 == wakeup(n1, ws, EOK)
           n3 == IF u = m.currp THEN inherit(n2, u) ELSE n2
           r  == IF ws = <<>> THEN n3 ELSE do_reschedule(n3, ws[1])
<1>0. /\ m \in Kernel /\ m.count \in [Mtxs -> Nat] /\ m.owner \in [Mtxs -> Task \cup {Null}]
      /\ m.owned \in [Task -> Seq(Mtxs)] /\ m.wait_list \in [Obj -> Seq(Task)]
  BY CoreParts, KernelTypes
<1>1. mutex_unlock_all_in_task(m, u) = r
  BY DEF mutex_unlock_all_in_task
<1>2. /\ ws \in Seq(Task) /\ Distinct(ws)
      /\ \A x \in Mtxs : x \in Range(hs) <=> m.owner[x] = u /\ m.wait_list[x] # <<>>
      /\ \A x \in Range(hs) : Head(m.wait_list[x]) \in Range(ws)
      /\ \A t \in Range(ws) : /\ t \in Task /\ t # u /\ t # Idle /\ m.state[t] = "WTMTX"
                              /\ m.obj[t] \in Range(hs) /\ t = Head(m.wait_list[m.obj[t]])
      /\ \A x \in Range(hs) : m.obj[Head(m.wait_list[x])] = x
      /\ Range(hs) \subseteq Mtxs
  <2>1. hs = Contended(m, u) /\ ws = Heirs(m, hs)
    BY DEF Contended, Heirs
  <2> HIDE DEF hs, ws
  <2> QED BY <2>1, HeirsOK
<1>3. \A x \in Mtxs : x \in Range(ms) <=> m.owner[x] = u
  BY DEF OwnersOK
<1> HIDE DEF hs, ws, ms
<1>4. S \in SUBSET Task /\ \A t \in S : m.state[t] \notin Up \cup Gone
  BY <1>2 DEF Up, Gone
<1>5. CoreInv(n0, c, S)
  <2> HIDE DEF S
  <2>1. \A t \in S : m.state[t] \notin Up
    BY <1>4
  <2>2. CoreInv(n0, c, {} \cup S)
    BY <1>4, <2>1, TakeWaitOK
  <2>3. {} \cup S = S
    OBVIOUS
  <2> QED BY <2>2, <2>3
<1>6. /\ n0 \in Kernel /\ SameCore(m, n0) /\ SameRest(m, n0) /\ SameTime(m, n0)
      /\ n0.obj = m.obj /\ n0.evbits = m.evbits /\ n0.ready = m.ready
      /\ n0.prio = m.prio /\ n0.pendsv = m.pendsv /\ n0.state = m.state /\ n0.bug = m.bug
      /\ \A y \in Obj : Range(n0.wait_list[y]) = Range(m.wait_list[y]) \ S
  BY <1>0, UnlinkEffect
<1> HIDE DEF n0
<1>7. n0.owner = m.owner /\ n0.count = m.count /\ n0.owned = m.owned /\ n0.live = m.live
  BY <1>6 DEF SameCore
<1>8. \A x \in Mtxs :
        /\ cn[x] = IF m.owner[x] # u THEN m.count[x] ELSE IF m.wait_list[x] = <<>> THEN 0 ELSE 1
        /\ ow[x] = IF m.owner[x] # u THEN m.owner[x]
                   ELSE IF m.wait_list[x] = <<>> THEN Null ELSE Head(m.wait_list[x])
  <2> SUFFICES ASSUME NEW x \in Mtxs
               PROVE  /\ cn[x] = IF m.owner[x] # u THEN m.count[x] ELSE IF m.wait_list[x] = <<>> THEN 0 ELSE 1
                      /\ ow[x] = IF m.owner[x] # u THEN m.owner[x]
                                 ELSE IF m.wait_list[x] = <<>> THEN Null ELSE Head(m.wait_list[x])
    OBVIOUS
  <2>1. x \in Range(hs) <=> m.owner[x] = u /\ m.wait_list[x] # <<>>
    BY <1>2
  <2>2. x \in Range(ms) <=> m.owner[x] = u
    BY <1>3
  <2>3. n0.count[x] = m.count[x] /\ n0.owner[x] = m.owner[x]
    BY <1>7
  <2> QED BY <2>1, <2>2, <2>3
<1>9. \A t \in Task : od[t] = IF t = u THEN <<>>
                              ELSE IF t \in S THEN InsertFirst(m.owned[t], m.obj[t]) ELSE m.owned[t]
  <2> SUFFICES ASSUME NEW t \in Task
               PROVE  od[t] = IF t = u THEN <<>>
                              ELSE IF t \in S THEN InsertFirst(m.owned[t], m.obj[t]) ELSE m.owned[t]
    OBVIOUS
  <2>1. n0.owned[t] = m.owned[t]
    BY <1>7
  <2>2. CASE t = u
    <3>1. t \notin Range(ws)
      BY <1>2, <2>2
    <3> QED BY <2>2, <3>1
  <2>3. CASE t # u /\ t \in S
    <3>1. t \in Range(ws)
      BY <2>3
    <3> QED BY <2>1, <2>3, <3>1
  <2>4. CASE t # u /\ t \notin S
    <3>1. t \notin Range(ws)
      BY <2>4
    <3> QED BY <2>1, <2>4, <3>1
  <2> QED BY <2>2, <2>3, <2>4
<1>10. cn \in [Mtxs -> Nat] /\ ow \in [Mtxs -> Task \cup {Null}]
  <2>1. \A x \in Mtxs : cn[x] \in Nat
    BY <1>0, <1>8
  <2>2. \A x \in Mtxs : ow[x] \in Task \cup {Null}
    BY <1>0, <1>2, <1>8
  <2>3. cn = [x \in Mtxs |-> cn[x]] /\ ow = [x \in Mtxs |-> ow[x]]
    OBVIOUS
  <2> HIDE DEF cn, ow
  <2> QED BY <2>1, <2>2, <2>3
<1>11. \A t \in Task :
         /\ od[t] \in Seq(Mtxs) /\ Distinct(od[t])
         /\ Range(od[t]) = IF t = u THEN {}
                           ELSE IF t \in S THEN Range(m.owned[t]) \cup {m.obj[t]} ELSE Range(m.owned[t])
  <2> SUFFICES ASSUME NEW t \in Task
               PROVE  /\ od[t] \in Seq(Mtxs) /\ Distinct(od[t])
                      /\ Range(od[t]) = IF t = u THEN {}
                                        ELSE IF t \in S THEN Range(m.owned[t]) \cup {m.obj[t]} ELSE Range(m.owned[t])
    OBVIOUS
  <2>1. m.owned[t] \in Seq(Mtxs) /\ Distinct(m.owned[t])
    BY <1>0 DEF OwnersOK
  <2>2. CASE t = u
    <3>1. od[t] = <<>>
      BY <1>9, <2>2
    <3>2. <<>> \in Seq(Mtxs) /\ Distinct(<<>>) /\ Range(<<>>) = {}
      BY DEF Distinct, Range
    <3> HIDE DEF od
    <3> QED BY <2>2, <3>1, <3>2
  <2>3. CASE t # u /\ t \in S
    <3>1. od[t] = InsertFirst(m.owned[t], m.obj[t])
      BY <1>9, <2>3
    <3>2. m.obj[t] \in Mtxs /\ m.obj[t] \notin Range(m.owned[t])
      <4>1. m.obj[t] \in Mtxs /\ m.owner[m.obj[t]] = u
        BY <1>2, <2>3
      <4> QED BY <2>3, <4>1 DEF OwnersOK
    <3> HIDE DEF od, S
    <3> QED BY <2>1, <2>3, <3>1, <3>2, InsertFirstList
  <2>4. CASE t # u /\ t \notin S
    BY <1>9, <2>1, <2>4
  <2> QED BY <2>2, <2>3, <2>4
<1>12. od \in [Task -> Seq(Mtxs)]
  <2>1. od = [t \in Task |-> od[t]]
    OBVIOUS
  <2> HIDE DEF od
  <2> QED BY <1>11, <2>1
<1> HIDE DEF cn, ow, od
<1>13. /\ n1 \in Kernel /\ SameLinks(n0, n1) /\ SameControl(n0, n1)
       /\ n1.pendsv = n0.pendsv /\ n1.wait_aborted = n0.wait_aborted /\ n1.obj = n0.obj /\ n1.prio = n0.prio
       /\ n1.owner = ow /\ n1.count = cn /\ n1.owned = od
  <2>1. n0 \in Kernel
    BY <1>6
  <2> QED BY ONLY <2>1, <1>10, <1>12 DEF Kernel, SameLinks, SameControl
<1> HIDE DEF n1
<1>14. CoreInv(n1, c, S)
  BY <1>5, <1>13, OwnerDataOK
<1>15. n1.live = m.live /\ n1.state = m.state /\ \A y \in Mtxs : Range(n1.wait_list[y]) = Range(m.wait_list[y]) \ S
  BY <1>6, <1>13, MutexObjects DEF SameCore, SameLinks, SameControl
<1>16. OwnersOK(n1)
  <2>1. ASSUME NEW y \in Mtxs
        PROVE  /\ n1.owner[y] = Null <=> n1.count[y] = 0
               /\ n1.owner[y] = Null => n1.wait_list[y] = <<>>
               /\ n1.owner[y] \notin Range(n1.wait_list[y])
               /\ n1.owner[y] # Null => n1.state[n1.owner[y]] \notin Gone
               /\ n1.owner[y] # Idle
               /\ y \notin n1.live => n1.owner[y] = Null
    <3>1. /\ m.owner[y] = Null <=> m.count[y] = 0
          /\ m.owner[y] = Null => m.wait_list[y] = <<>>
          /\ m.owner[y] \notin Range(m.wait_list[y]) /\ m.owner[y] # Idle
          /\ m.owner[y] # Null => m.state[m.owner[y]] \notin Gone
          /\ y \notin m.live => m.owner[y] = Null
      BY DEF OwnersOK
    <3>2. m.wait_list[y] = <<>> => n1.wait_list[y] = <<>>
      <4>1. n1.wait_list[y] \in Seq(Task)
        BY <1>13, KernelTypes, MutexObjects
      <4>2. Range(<<>>) = {}
        BY DEF Range
      <4>3. m.wait_list[y] = <<>> => Range(n1.wait_list[y]) = {}
        BY <1>15, <4>2
      <4> QED BY <4>1, <4>3, EmptyRange
    <3>3. Null # u /\ Null # Idle
      BY MutexObjects, TaskAssumption DEF Task
    <3>4. n1.live = m.live /\ n1.state = m.state /\ Range(n1.wait_list[y]) = Range(m.wait_list[y]) \ S
      BY <1>15
    <3>5. CASE m.owner[y] # u
      <4>1. n1.owner[y] = m.owner[y] /\ n1.count[y] = m.count[y]
        BY <1>8, <1>13, <3>5
      <4> QED BY <3>1, <3>2, <3>4, <4>1
    <3>6. CASE m.owner[y] = u /\ m.wait_list[y] = <<>>
      <4>1. n1.owner[y] = Null /\ n1.count[y] = 0
        BY <1>8, <1>13, <3>6
      <4>2. Range(<<>>) = {}
        BY DEF Range
      <4> QED BY <3>2, <3>3, <3>6, <4>1, <4>2
    <3>7. CASE m.owner[y] = u /\ m.wait_list[y] # <<>>
      <4> DEFINE w == Head(m.wait_list[y])
      <4>1. n1.owner[y] = w /\ n1.count[y] = 1
        BY <1>8, <1>13, <3>7
      <4>2. y \in Range(hs)
        BY <1>2, <3>7
      <4>3. w \in S /\ w \in Task /\ w # Idle /\ m.state[w] \notin Gone /\ w # Null
        BY <1>2, <1>4, <4>2, MutexObjects
      <4> HIDE DEF w, S
      <4> QED BY <3>1, <3>3, <3>4, <3>7, <4>1, <4>3
    <3> QED BY <3>5, <3>6, <3>7
  <2>2. ASSUME NEW t \in Task
        PROVE  Distinct(n1.owned[t]) /\ \A y \in Mtxs : y \in Range(n1.owned[t]) <=> n1.owner[y] = t
    <3>1. Distinct(n1.owned[t])
      BY <1>11, <1>13
    <3>2. ASSUME NEW y \in Mtxs
          PROVE  y \in Range(n1.owned[t]) <=> n1.owner[y] = t
      <4>1. y \in Range(m.owned[t]) <=> m.owner[y] = t
        BY DEF OwnersOK
      <4>2. n1.owner[y] = IF m.owner[y] # u THEN m.owner[y]
                          ELSE IF m.wait_list[y] = <<>> THEN Null ELSE Head(m.wait_list[y])
        BY <1>8, <1>13
      <4>3. Range(n1.owned[t]) = IF t = u THEN {}
               ELSE IF t \in S THEN Range(m.owned[t]) \cup {m.obj[t]} ELSE Range(m.owned[t])
        BY <1>11, <1>13
      <4>4. Null # t
        BY MutexObjects
      <4>5. m.owner[y] = u /\ m.wait_list[y] # <<>> =>
              /\ Head(m.wait_list[y]) \in S /\ Head(m.wait_list[y]) # u
              /\ m.obj[Head(m.wait_list[y])] = y
        BY <1>2
      <4>6. t \in S => /\ t # u /\ m.owner[m.obj[t]] = u /\ m.wait_list[m.obj[t]] # <<>>
                       /\ t = Head(m.wait_list[m.obj[t]])
        BY <1>2
      <4> HIDE DEF S
      <4>7. CASE t = u
        BY <4>2, <4>3, <4>4, <4>5, <4>7
      <4>8. CASE t # u /\ t \in S
        BY <4>1, <4>2, <4>3, <4>4, <4>5, <4>6, <4>8
      <4>9. CASE t # u /\ t \notin S
        BY <4>1, <4>2, <4>3, <4>4, <4>5, <4>9
      <4> QED BY <4>7, <4>8, <4>9
    <3> QED BY <3>1, <3>2
  <2> QED BY <2>1, <2>2 DEF OwnersOK
<1>17. /\ EOK \in Msg /\ \A t \in Range(ws) : n1.state[t] \notin Up \cup {"ZOMBIE", "EXITED"}
  <2>1. EOK \in Msg
    BY DEF Msg
  <2> QED BY <1>4, <1>15, <2>1 DEF Gone
<1>18. CoreInv(n2, c, {}) /\ OwnersOK(n2)
  BY <1>2, <1>14, <1>16, <1>17, WakeOK
<1>19. /\ SameCore(n1, n2) /\ n2.pendsv = n1.pendsv /\ n2.jiffies = n1.jiffies
       /\ n2.state = [t \in Task |-> IF t \in Range(ws) THEN "READY" ELSE n1.state[t]]
  <2>1. ws \in Seq(Task) /\ n1 \in Kernel /\ EOK \in Msg
    BY <1>2, <1>13, <1>17
  <2> QED BY <2>1, WakeupEffect
<1> HIDE DEF n2
<1>20. CoreInv(n3, c, {}) /\ OwnersOK(n3) /\ Reordered(n2, n3)
  <2>1. CASE n3 = n2
    BY <1>18, <2>1 DEF Reordered, SameCore, SameRest, SameTime
  <2>2. CASE n3 = inherit(n2, u)
    <3> HIDE DEF n3
    <3> QED BY <1>18, <2>2, InheritOK
  <2> QED BY <2>1, <2>2
<1> HIDE DEF n3
<1>21. CoreInv(r, c, {}) /\ OwnersOK(r) /\ r.owned = n3.owned /\ r.state = n3.state /\ Signalled(n3, r)
  <2>1. CASE r = n3
    BY <1>20, <2>1 DEF Signalled
  <2>2. CASE ws # <<>> /\ r = do_reschedule(n3, ws[1])
    <3> DEFINE h == ws[1]
    <3>1. h \in Task /\ r = do_reschedule(n3, h)
      BY <1>2, <2>2
    <3> HIDE DEF r, h
    <3>2. /\ CoreInv(r, c, {}) /\ (OwnersOK(n3) => OwnersOK(r)) /\ SameLinks(n3, r) /\ SameControl(n3, r)
          /\ r.prio = n3.prio /\ r.wait_aborted = n3.wait_aborted /\ r.obj = n3.obj
          /\ r.owner = n3.owner /\ r.owned = n3.owned /\ r.count = n3.count
          /\ (n3.pendsv => r.pendsv)
      BY <1>20, <3>1, RescheduleOK
    <3> QED BY <1>20, <3>2 DEF Signalled, SameLinks, SameControl
  <2> QED BY <2>1, <2>2
<1> HIDE DEF r
<1>22. Signalled(m, r)
  <2>1. Signalled(m, n1)
    BY <1>6, <1>13 DEF Signalled, SameCore, SameTime, SameLinks, SameControl
  <2>2. Signalled(n1, n2)
    BY <1>19 DEF Signalled, SameCore, Up
  <2>3. Signalled(n2, n3)
    BY <1>20 DEF Signalled, Reordered, SameCore, SameTime, Up
  <2> QED BY <1>21, <2>1, <2>2, <2>3 DEF Signalled
<1>23. r.owned[u] = <<>>
  <2>1. od[u] = <<>>
    BY <1>9
  <2> QED BY <1>13, <1>19, <1>20, <1>21, <2>1 DEF SameCore, Reordered
<1>24. \A t \in Task : m.state[t] \notin Gone => r.state[t] \notin Gone
  <2> SUFFICES ASSUME NEW t \in Task, m.state[t] \notin Gone
               PROVE  r.state[t] \notin Gone
    OBVIOUS
  <2>1. n2.state[t] \notin Gone
    BY <1>15, <1>19 DEF Gone
  <2> QED BY <1>20, <1>21, <2>1 DEF Reordered, Gone, Up
<1> QED BY <1>1, <1>21, <1>22, <1>23, <1>24

\* isix_mutex_unlock_all.
LEMMA MtxUnlockAllOK ==
  ASSUME KernelOK(k, call), NEW t \in Task, MtxUnlockAll(t)
  PROVE  KernelOK(k', call')
<1>0. /\ t # Idle /\ CoreInv(k, call, {}) /\ OwnersOK(k)
      /\ k' = mutex_unlock_all_in_task(k, t) /\ call' = call
  BY RunningUp DEF MtxUnlockAll
<1>1. CoreInv(mutex_unlock_all_in_task(k, t), call, {}) /\ OwnersOK(mutex_unlock_all_in_task(k, t))
  BY <1>0, UnlockAllOK
<1> QED BY <1>0, <1>1 DEF KernelOK

\* Mutexes.
LEMMA MtxOpsOK ==
  ASSUME KernelOK(k, call), MtxOps
  PROVE  KernelOK(k', call')
BY MtxLockOK, MtxTryLockOK, MtxUnlockOK, MtxDestroyOK, MtxCreateOK, MtxLockReturnOK, MtxUnlockAllOK
   DEF MtxOps

-----------------------------------------------------------------------------
(***************************************************************************)
(* Condition variables.                                                    *)
(***************************************************************************)

\* isix_condvar_wait: the mutex is released before the task is queued.
LEMMA CondWaitOK ==
  ASSUME KernelOK(k, call), NEW t \in Task, NEW v \in Cvs, NEW timeout \in Timeouts,
         CondWait(t, v, timeout)
  PROVE  KernelOK(k', call')
<1> DEFINE x == top_mutex(k)
           m == mutex_unlock(k, x)
           p == set_sleep_timeout(m, "WTCOND", timeout)
           r == [add_to_prio_queue(p, v, t) EXCEPT !.obj = [@ EXCEPT ![t] = v]]
           d == [NoCall EXCEPT !.op = "cond", !.pc = "yield", !.o = x]
<1>0. /\ t = k.currp /\ t # Idle /\ k.state[t] \in Up /\ k.sched_lock = 0
      /\ CoreInv(k, call, {}) /\ OwnersOK(k) /\ k \in Kernel /\ v \in k.live /\ k.owned[t] # <<>>
  BY RunningUp DEF CondWait, MayBlock
<1>1. k' = r /\ call' = [call EXCEPT ![t] = d]
  BY <1>0 DEF CondWait, cond_block
<1>2. x \in Mtxs /\ k.owner[x] = t /\ x \in k.live
  <2>1. k.owned[t] \in Seq(Mtxs)
    BY <1>0, KernelTypes
  <2>2. x \in Range(k.owned[t]) /\ Range(k.owned[t]) \subseteq Mtxs
    BY <1>0, <2>1, EmptyRange DEF top_mutex
  <2> HIDE DEF x
  <2>3. k.owner[x] = t
    BY <1>0, <2>2 DEF OwnersOK
  <2>4. t # Null
    BY MutexObjects
  <2> QED BY <1>0, <2>2, <2>3, <2>4 DEF OwnersOK
<1> HIDE DEF x
<1>3. CoreInv(m, call, {}) /\ OwnersOK(m) /\ Signalled(k, m)
  BY <1>0, <1>2, UnlockFunOK
<1> HIDE DEF m
<1>4. m.currp = t /\ m.state[t] \in Up /\ m.sched_lock = 0 /\ m.live = k.live
  BY <1>0, <1>3 DEF Signalled
<1>5. /\ CoreInv(p, call, {t}) /\ OwnersOK(p) /\ SameCore(m, p) /\ p.pendsv = m.pendsv
      /\ p.state[t] = "WTCOND"
  <2>1. "WTCOND" \in Timed /\ timeout \in Tick /\ m.currp # Idle /\ m.state[m.currp] \in Up
    BY <1>0, <1>4, TimeAssumption DEF Timed
  <2>2. /\ CoreInv(p, call, {m.currp}) /\ (OwnersOK(m) => OwnersOK(p))
        /\ SameCore(m, p) /\ SameWaits(m, p) /\ p.prio = m.prio /\ p.pendsv = m.pendsv
        /\ p.state[m.currp] = "WTCOND" /\ \A u \in Task \ {m.currp} : p.state[u] = m.state[u]
    BY <1>3, <2>1, SleepTimeoutOK
  <2> HIDE DEF p
  <2> QED BY <1>3, <1>4, <2>2
<1> HIDE DEF p
<1>6. p.currp = t /\ p.sched_lock = 0 /\ p.live = k.live
  BY <1>4, <1>5 DEF SameCore
<1>7. d \in Call /\ d.op = "cond" /\ d.pc = "yield" /\ d.o = x
  <2>1. "cond" \in Ops /\ "yield" \in Pcs /\ x \in Obj
    BY <1>2, MutexObjects DEF Ops, Pcs
  <2> QED BY <2>1, NoCallFits DEF Call
<1> HIDE DEF d, r
<1>8. CallKind(d) /\ ~Freeing(d) /\ Blocked(p.state[t], d, v, p.wait_aborted[t])
  BY <1>2, <1>5, <1>7 DEF CallKind, Freeing, Blocked, Waiting
<1>9. v \in Sems \cup Mtxs \cup Cvs /\ p.state[t] \in {"WTSEM", "WTMTX", "WTCOND"}
      /\ (t = p.currp => p.sched_lock = 0 /\ (d.pc = "yield" \/ p.pendsv))
      /\ (v \in Mtxs => p.owner[v] \notin {Null, t}) /\ v \in p.live /\ (d.o \in Object => d.o \in p.live)
  BY <1>0, <1>2, <1>5, <1>6, <1>7, MutexObjects
<1>10. CoreInv(r, [call EXCEPT ![t] = d], {}) /\ OwnersOK(r)
  BY <1>5, <1>7, <1>8, <1>9, EnqueueOK DEF r
<1> QED BY <1>1, <1>10 DEF KernelOK

\* Back from the wait for a condition.
LEMMA CondWaitReturnOK ==
  ASSUME KernelOK(k, call), NEW t \in Task, CondWaitReturn(t)
  PROVE  KernelOK(k', call')
<1> DEFINE r == leave(k, t)
           x == call[t].o
           d == [NoCall EXCEPT !.op = "mtx", !.pc = "enter", !.o = x]
<1>0. /\ t = k.currp /\ k.state[t] \in Up /\ k.state[t] \notin Waiting /\ call[t].op = "cond"
      /\ CoreInv(k, call, {}) /\ OwnersOK(k) /\ call[t].pc = "after"
  BY ExecUp DEF CondWaitReturn
<1>1. CurrentOK(k, call, {}) /\ CallsOK(call) /\ AliveOK(k, call)
  BY <1>0, CoreParts
<1>2. t # Idle /\ k.sched_lock = 0
  BY <1>0, <1>1 DEF CurrentOK, Blocking
<1>3. x \in Mtxs /\ x \in k.live /\ x \in Obj
  BY <1>0, <1>1, MutexObjects DEF CallsOK, CallKind, AliveOK, Harmless
<1>4. /\ CoreInv(r, call, {}) /\ OwnersOK(r) /\ r.state[t] \in Up /\ r.live = k.live /\ r.sched_lock = 0
  <2>1. /\ CoreInv(r, call, {}) /\ (OwnersOK(k) => OwnersOK(r))
        /\ SameLinks(k, r) /\ SameControl(k, r) /\ r.prio = k.prio /\ r.pendsv = k.pendsv
        /\ ~r.wait_aborted[t] /\ r.owner = k.owner
    BY <1>0, LeaveOK
  <2> HIDE DEF r
  <2> QED BY <1>0, <1>2, <2>1 DEF SameLinks, SameControl
<1>5. k' = r /\ (call' = [call EXCEPT ![t] = d] \/ call' = [call EXCEPT ![t] = NoCall])
  BY DEF CondWaitReturn
<1> HIDE DEF r
<1>6. d \in Call /\ d.op = "mtx" /\ d.pc = "enter" /\ d.o = x
  <2>1. "mtx" \in Ops /\ "enter" \in Pcs
    BY DEF Ops, Pcs
  <2> QED BY <1>3, <2>1, NoCallFits DEF Call
<1> HIDE DEF d
<1>7. CallKind(d) /\ ~Freeing(d) /\ (d.o \in Object => d.o \in r.live)
  BY <1>3, <1>4, <1>6 DEF CallKind, Freeing
<1>8. CoreInv(r, [call EXCEPT ![t] = d], {})
  BY <1>2, <1>4, <1>6, <1>7, BeginCallOK
<1>9. CoreInv(r, [call EXCEPT ![t] = NoCall], {})
  BY <1>4, EndCallOK
<1> QED BY <1>4, <1>5, <1>8, <1>9 DEF KernelOK

\* isix_condvar_signal.
LEMMA CondSignalOK ==
  ASSUME KernelOK(k, call), NEW v \in Cvs, CondSignal(v)
  PROVE  KernelOK(k', call')
<1> DEFINE w == Head(k.wait_list[v])
           S == {w}
           q == <<w>>
           n == wakeup(unlink(k, Range(q)), q, EOK)
           r == do_reschedule(n, w)
<1>0. CoreInv(k, call, {}) /\ OwnersOK(k) /\ k \in Kernel /\ v \in Obj /\ call' = call /\ ~k.bug
      /\ k.wait_list[v] \in Seq(Task)
  BY CoreParts, KernelTypes, MutexObjects DEF KernelOK, CondSignal
<1>1. CASE k.wait_list[v] = <<>>
  BY <1>0, <1>1 DEF CondSignal, condvar_signal, KernelOK
<1>2. CASE k.wait_list[v] # <<>>
  <2>1. w \in Range(k.wait_list[v])
    BY <1>0, <1>2, EmptyRange
  <2>2. w \in Task /\ k.state[w] = "WTCOND"
    <3> HIDE DEF w
    <3> QED BY <1>0, <2>1, MutexWaiter
  <2>3. q \in Seq(Task) /\ Range(q) = S /\ Distinct(q) /\ EOK \in Msg
    <3>1. EOK \in Msg
      BY DEF Msg
    <3> QED BY <2>2, <3>1, OneElement
  <2>4. [unlink(k, {w}) EXCEPT !.bug = @ \/ k.state[w] # "WTCOND"] = unlink(k, Range(q))
    <3> DEFINE u == unlink(k, Range(q))
    <3>1. u \in Kernel /\ u = unlink(k, {w})
      BY <1>0, <2>3, UnlinkEffect
    <3> HIDE DEF u
    <3>2. u.bug = (u.bug \/ k.state[w] # "WTCOND")
      BY <2>2, <3>1, KernelTypes
    <3>3. [u EXCEPT !.bug = @ \/ k.state[w] # "WTCOND"] = u
      BY <3>1, <3>2 DEF Kernel
    <3> QED BY <3>1, <3>3 DEF u
  <2>5. k' = r
    BY <1>2, <2>4 DEF CondSignal, condvar_signal
  <2>6. Range(q) \subseteq Range(k.wait_list[v])
    BY <2>1, <2>3
  <2> HIDE DEF w, q, S
  <2>7. CoreInv(n, call, {}) /\ OwnersOK(n)
    BY <1>0, <2>3, <2>6, WakeWaitersOK
  <2> HIDE DEF n
  <2>8. CoreInv(r, call, {}) /\ OwnersOK(r)
    BY <2>2, <2>7, RescheduleOK
  <2> QED BY <1>0, <2>5, <2>8 DEF KernelOK
<1> QED BY <1>1, <1>2

\* isix_condvar_broadcast.
LEMMA CondBroadcastOK ==
  ASSUME KernelOK(k, call), NEW v \in Cvs, CondBroadcast(v)
  PROVE  KernelOK(k', call')
<1> DEFINE r == condvar_broadcast_msg(k, v, EOK)
<1>0. CoreInv(k, call, {}) /\ OwnersOK(k) /\ v \in Obj /\ call' = call /\ k' = r /\ EOK \in Msg
  <2>1. EOK \in Msg
    BY DEF Msg
  <2> QED BY <2>1, MutexObjects DEF KernelOK, CondBroadcast
<1>1. CoreInv(r, call, {}) /\ OwnersOK(r)
  BY <1>0, WakeAllOK DEF condvar_broadcast_msg
<1> QED BY <1>0, <1>1 DEF KernelOK

\* No call is on a condition variable: a wait is a call on the mutex.
LEMMA NoCallOnCond ==
  ASSUME NEW c \in [Task -> Call], CallsOK(c), NEW t \in Task
  PROVE  c[t].o \notin Cvs
<1>1. c[t].op \in Ops /\ CallKind(c[t])
  BY DEF CallsOK, Call
<1>2. Cvs \cap Sems = {} /\ Cvs \cap Mtxs = {} /\ Cvs \cap Evts = {} /\ Cvs \cap Notifier = {}
      /\ Cvs \cap Task = {} /\ Null \notin Cvs
  BY TaskAssumption DEF Object, Notifier
<1> QED BY <1>1, <1>2 DEF CallKind, Ops, Task

\* isix_condvar_destroy.
LEMMA CondDestroyOK ==
  ASSUME KernelOK(k, call), NEW t \in Task, NEW v \in Cvs, CondDestroy(t, v)
  PROVE  KernelOK(k', call')
<1> DEFINE n == condvar_broadcast_msg(k, v, EDESTROY)
           L == n.live \ {v}
           r == [n EXCEPT !.live = L]
<1>0. CoreInv(k, call, {}) /\ OwnersOK(k) /\ v \in Obj /\ v \in Object /\ v \notin Evts /\ v \notin Mtxs
  BY MutexObjects DEF KernelOK
<1>1. k' = r /\ call' = call
  BY DEF CondDestroy
<1>2. CoreInv(n, call, {}) /\ OwnersOK(n) /\ n.wait_list[v] = <<>>
  <2>1. EDESTROY \in Msg
    BY DEF Msg
  <2> QED BY <1>0, <2>1, WakeAllOK DEF condvar_broadcast_msg
<1> HIDE DEF n
<1>3. AliveOK(n, call) /\ n \in Kernel /\ n.live \in SUBSET Object /\ n.evt \in [Notifier -> Evts \cup {Null}]
      /\ call \in [Task -> Call] /\ CallsOK(call)
  BY <1>2, CoreParts, KernelTypes
<1>4. \A u \in Task : call[u].o # v
  BY <1>3, NoCallOnCond
<1>5. L \in SUBSET Object
  BY <1>3
<1>6. \A o \in Object \ L : n.wait_list[o] = <<>>
  BY <1>2, <1>3 DEF AliveOK
<1>7. \A u \in Task : call[u].o \in Object \ L => Harmless(call[u], n.wait_aborted[u])
  BY <1>3, <1>4 DEF AliveOK
<1>8. \A i \in Notifier : n.evt[i] # Null => n.evt[i] \in L /\ 0 \in Bits
  BY <1>0, <1>3 DEF AliveOK
<1>9. \A y \in Mtxs : y \notin L => y \notin n.live
  BY <1>0
<1> HIDE DEF L
<1>10. /\ r \in Kernel /\ SameLinks(n, r) /\ r.live = L /\ r.currp = n.currp
       /\ r.sched_lock = n.sched_lock /\ r.refcnt = n.refcnt /\ r.bug = n.bug
       /\ r.pendsv = n.pendsv /\ r.prio = n.prio /\ r.obj = n.obj /\ r.wait_aborted = n.wait_aborted
       /\ r.evt = n.evt /\ r.owner = n.owner /\ r.count = n.count /\ r.owned = n.owned
  BY <1>3, <1>5 DEF Kernel, SameLinks
<1> HIDE DEF r
<1>11. CoreInv(r, call, {})
  BY <1>2, <1>6, <1>7, <1>8, <1>10, LiveOK
<1>12. OwnersOK(r)
  BY <1>2, <1>9, <1>10 DEF OwnersOK, SameLinks
<1> QED BY <1>1, <1>11, <1>12 DEF KernelOK

\* isix_condvar_create.
LEMMA CondCreateOK ==
  ASSUME KernelOK(k, call), NEW t \in Task, NEW v \in Cvs, CondCreate(t, v)
  PROVE  KernelOK(k', call')
<1>0. /\ CoreInv(k, call, {}) /\ OwnersOK(k) /\ k \in Kernel /\ AliveOK(k, call) /\ v \in Object
      /\ v \in Obj /\ v \notin k.live
  BY CoreParts, MutexObjects DEF KernelOK, CondCreate
<1> DEFINE L == k.live \cup {v}
           f == [k.wait_list EXCEPT ![v] = <<>>]
           r == [k EXCEPT !.live = L]
<1>1. k' = [k EXCEPT !.live = L, !.wait_list = f] /\ call' = call
  BY DEF CondCreate
<1>2. f = k.wait_list
  BY <1>0, KernelTypes DEF AliveOK
<1>3. L \in SUBSET Object /\ \A y \in Mtxs : y \notin L => y \notin k.live
  BY <1>0, KernelTypes
<1>4. \A o \in Object \ L : k.wait_list[o] = <<>>
  BY <1>0 DEF AliveOK
<1>5. \A u \in Task : call[u].o \in Object \ L => Harmless(call[u], k.wait_aborted[u])
  BY <1>0 DEF AliveOK
<1>6. \A n \in Notifier : k.evt[n] # Null => k.evt[n] \in L /\ 0 \in Bits
  BY <1>0 DEF AliveOK
<1> HIDE DEF L, f
<1>7. k' = r
  BY <1>0, <1>1, <1>2 DEF Kernel
<1>8. /\ r \in Kernel /\ SameLinks(k, r) /\ r.live = L /\ r.currp = k.currp
      /\ r.sched_lock = k.sched_lock /\ r.refcnt = k.refcnt /\ r.bug = k.bug
      /\ r.pendsv = k.pendsv /\ r.prio = k.prio /\ r.obj = k.obj /\ r.wait_aborted = k.wait_aborted
      /\ r.evt = k.evt /\ r.owner = k.owner /\ r.count = k.count /\ r.owned = k.owned
  BY <1>0, <1>3 DEF Kernel, SameLinks
<1> HIDE DEF r
<1>9. CoreInv(r, call, {})
  BY <1>0, <1>4, <1>5, <1>6, <1>8, LiveOK
<1>10. OwnersOK(r)
  BY <1>0, <1>3, <1>8 DEF OwnersOK, SameLinks
<1> QED BY <1>1, <1>7, <1>9, <1>10 DEF KernelOK

\* Condition variables.
LEMMA CondOpsOK ==
  ASSUME KernelOK(k, call), CondOps
  PROVE  KernelOK(k', call')
BY CondWaitOK, CondWaitReturnOK, CondSignalOK, CondBroadcastOK, CondDestroyOK, CondCreateOK DEF CondOps
=============================================================================
