----------------------------- MODULE Fifo_proofs -----------------------------
(***************************************************************************)
(* Message queues for every number of queues, slots, threads and items: a  *)
(* queue is a bounded first-in first-out queue, no slot gets lost between  *)
(* its two semaphores, and nobody works on a queue that is gone.           *)
(***************************************************************************)
EXTENDS Fifo, Messages_proofs

\* A queue operation takes a token on one side and gives one on the other.
Side == {"read", "write"}
Other(a) == IF a = "read" THEN "write" ELSE "read"
SemOf(f, a) == IF a = "write" THEN TxSem[f] ELSE RxSem[f]

IsOpen(m, f) == RxSem[f] \in m.live

\* The thread in the operation c has locked the scheduler.
Locked(c) == \/ c.op # "none" /\ c.pc \in {"locked", "unlock", "raise", "end"}
             \/ c.op = "write" /\ c.pc = "signal"

\* The place c of a thread in a queue operation fits its place e in the kernel.
Place(e, c) ==
  /\ c \in Fop
  /\ e.op = "sem" <=> c.op # "none" /\ c.pc = "wait"
  /\ c.op = "none" => c.pc = "run"
  /\ c.op # "none" => c.f \in Fifos /\ c.pc # "run"
  /\ e.op = "sem" => c.op \in Side /\ e.o = Takes(c)
  /\ c.op = "write" => c.item \in Item
  /\ c.op = "read" => c.pc \notin {"lock", "raise", "end"}
  /\ c.op = "destroy" => c.pc \in {"locked", "unlock"}
  /\ Locked(c) => e.op = "none" /\ e.pc = "run"

PlaceOK(c, o) == \A t \in Task : Place(c[t], o[t])

\* The scheduler is locked exactly while the current thread is in such a place.
HeldOK(m, o) ==
  /\ \A t \in Task : Locked(o[t]) => t = m.currp /\ m.sched_lock = 1
  /\ m.sched_lock # 0 => Locked(o[m.currp])

\* Who was handed a token is still in its wait; no wait is cut short, and the
\* semaphores of the queues raise no events of their own.
GrantOK(m, c) ==
  /\ \A t \in m.grant : c[t].op = "sem" /\ c[t].pc \in {"yield", "after"}
  /\ \A t \in Task : ~m.wait_aborted[t]
  /\ \A s \in Sems : m.evt[s] = Null

\* Who works on a queue, or was handed one of its tokens, finds it there.
OpenOK(m, o) ==
  /\ \A f \in Fifos : RxSem[f] \in m.live <=> TxSem[f] \in m.live
  /\ \A t \in Task : (o[t].op \in Side /\ (o[t].pc \notin {"wait", "end"} \/ t \in m.grant))
                     => IsOpen(m, o[t].f)

\* While t destroys the queue f under the scheduler lock, the others that are
\* inside of a call on it are asleep.
Closing(m, c, r, o, t, f) ==
  /\ IsOpen(m, f) /\ r[f].noirq
  /\ \A u \in Task : c[u].o \in {RxSem[f], TxSem[f]} => m.state[u] = "WTSEM"
  /\ \A u \in Task \ {t} : (o[u].op # "none" /\ o[u].f = f) => o[u].pc = "wait"

ClosingOK(m, c, r, o) ==
  \A t \in Task : (o[t].op = "destroy" /\ o[t].pc = "locked") => Closing(m, c, r, o, t, o[t].f)

\* A thread in the operation c, with the token it waits for if g holds, has a
\* slot of the side a of f that no semaphore counts.
Works(g, c, f, a) ==
  /\ c.f = f
  /\ \/ c.op = a /\ (c.pc \in {"copy", "locked"} \/ (c.pc = "wait" /\ g))
     \/ c.op = Other(a) /\ c.pc \in {"unlock", "lock", "signal"}

Busy(m, o, f, a) == {t \in Task : Works(t \in m.grant, o[t], f, a)}

\* The items for a reader, and the free slots for a writer.
Slots(r, f, a) == IF a = "read" THEN r[f].used ELSE Capacity(f) - r[f].used

SlotsOK(m, r, o) ==
  \A f \in Fifos, a \in Side :
    IsOpen(m, f) => Slots(r, f, a) = Tokens(m, SemOf(f, a)) + Cardinality(Busy(m, o, f, a))

\* The ring: the writing position is as far ahead of the reading one as there
\* are items.
Ahead(f, p, n) == IF p + n < Capacity(f) THEN p + n ELSE p + n - Capacity(f)

RingOK(r) ==
  \A f \in Fifos : /\ r[f] \in Ring(f) /\ r[f].used \in 0 .. Capacity(f)
                   /\ r[f].tx_p = Ahead(f, r[f].rx_p, r[f].used)

\* The inductive invariant of the queues, on top of the one of the kernel.
QueuesOK(m, c, r, o) ==
  /\ PlaceOK(c, o) /\ HeldOK(m, o) /\ GrantOK(m, c) /\ OpenOK(m, o) /\ ClosingOK(m, c, r, o)
  /\ SlotsOK(m, r, o) /\ DOMAIN o = Task /\ DOMAIN r = Fifos /\ RingOK(r)

BaseOK(m, c) == KernelOK(m, c) /\ ServiceOK(m, c) /\ ToldOK(m, c)

FifoOK == BaseOK(k, call) /\ QueuesOK(k, call, ring, fop)

-----------------------------------------------------------------------------
\* Each side of each queue has a semaphore of its own, without a limit.
LEMMA SemsOfQueues ==
  /\ \A f \in Fifos : Capacity(f) \in Nat /\ Capacity(f) > 0
  /\ \A f \in Fifos, a \in Side : SemOf(f, a) \in Sems /\ SemLimit[SemOf(f, a)] = 0
  /\ \A f, g \in Fifos, a, b \in Side : SemOf(f, a) = SemOf(g, b) => f = g /\ a = b
  /\ \A c : c.op \in Side => Takes(c) = SemOf(c.f, c.op) /\ Gives(c) = SemOf(c.f, Other(c.op))
  /\ \A a \in Side : Other(a) \in Side /\ Other(a) # a /\ Other(Other(a)) = a
<1>1. \A f \in Fifos : Capacity(f) \in Nat /\ Capacity(f) > 0
  BY FifoAssumption, SemAssumption DEF Capacity
<1>2. \A f \in Fifos, a \in Side : SemOf(f, a) \in Sems /\ SemLimit[SemOf(f, a)] = 0
  BY FifoAssumption DEF SemOf
<1>3. \A f, g \in Fifos, a, b \in Side : SemOf(f, a) = SemOf(g, b) => f = g /\ a = b
  BY FifoAssumption DEF SemOf, Side
<1>4. \A c : c.op \in Side => Takes(c) = SemOf(c.f, c.op) /\ Gives(c) = SemOf(c.f, Other(c.op))
  BY DEF Takes, Gives, SemOf, Side, Other
<1>5. \A a \in Side : Other(a) \in Side /\ Other(a) # a /\ Other(Other(a)) = a
  BY DEF Side, Other
<1> QED BY <1>1, <1>2, <1>3, <1>4, <1>5

\* A queue is closed as a whole.
LEMMA OpenSides ==
  ASSUME NEW m, NEW o, OpenOK(m, o), NEW f \in Fifos, NEW a \in Side
  PROVE  IsOpen(m, f) <=> SemOf(f, a) \in m.live
BY DEF OpenOK, IsOpen, SemOf, Side

One(p) == IF p THEN 1 ELSE 0

\* Two sets of tasks that differ at most in t.
LEMMA CardOne ==
  ASSUME NEW A \in SUBSET Task, NEW B \in SUBSET Task, NEW t \in Task,
         \A u \in Task \ {t} : u \in A <=> u \in B
  PROVE  /\ Cardinality(A) \in Nat /\ Cardinality(B) \in Nat
         /\ Cardinality(B) = Cardinality(A) + One(t \in B) - One(t \in A)
<1> DEFINE C == A \ {t}
<1>1. IsFiniteSet(A) /\ IsFiniteSet(B) /\ IsFiniteSet(C)
  BY FiniteTasks, FS_Subset
<1>2. Cardinality(A) \in Nat /\ Cardinality(B) \in Nat /\ Cardinality(C) \in Nat
  BY <1>1, FS_CardinalityType
<1>3. t \notin C /\ C = B \ {t}
  OBVIOUS
<1>4. (t \in A => C \cup {t} = A) /\ (t \notin A => C = A) /\ (t \in B => C \cup {t} = B) /\ (t \notin B => C = B)
  BY <1>3
<1> HIDE DEF C
<1>5. Cardinality(C \cup {t}) = Cardinality(C) + 1
  BY <1>1, <1>3, FS_AddElement
<1>6. Cardinality(A) = Cardinality(C) + One(t \in A)
  <2>1. CASE t \in A
    <3>1. C \cup {t} = A /\ One(t \in A) = 1
      BY <1>4, <2>1 DEF One
    <3> QED BY <1>2, <1>5, <3>1
  <2>2. CASE t \notin A
    <3>1. C = A /\ One(t \in A) = 0
      BY <1>4, <2>2 DEF One
    <3> QED BY <1>2, <3>1
  <2> QED BY <2>1, <2>2
<1>7. Cardinality(B) = Cardinality(C) + One(t \in B)
  <2>1. CASE t \in B
    <3>1. C \cup {t} = B /\ One(t \in B) = 1
      BY <1>4, <2>1 DEF One
    <3> QED BY <1>2, <1>5, <3>1
  <2>2. CASE t \notin B
    <3>1. C = B /\ One(t \in B) = 0
      BY <1>4, <2>2 DEF One
    <3> QED BY <1>2, <3>1
  <2> QED BY <2>1, <2>2
<1>8. One(t \in A) \in Nat /\ One(t \in B) \in Nat
  BY DEF One
<1> QED BY <1>2, <1>6, <1>7, <1>8

\* The types of what SlotsOK speaks of.
LEMMA SlotTypes ==
  ASSUME NEW m, m.value \in [Sems -> Int], NEW r, RingOK(r), NEW o, NEW f \in Fifos, NEW a \in Side
  PROVE  /\ Slots(r, f, a) \in Nat /\ Tokens(m, SemOf(f, a)) \in Nat
         /\ Busy(m, o, f, a) \in SUBSET Task /\ Cardinality(Busy(m, o, f, a)) \in Nat
<1>1. Slots(r, f, a) \in Nat
  BY SemsOfQueues DEF RingOK, Slots
<1>2. Tokens(m, SemOf(f, a)) \in Nat
  BY SemsOfQueues DEF Tokens
<1>3. Busy(m, o, f, a) \in SUBSET Task
  BY DEF Busy
<1>4. Cardinality(Busy(m, o, f, a)) \in Nat
  BY <1>3, FiniteTasks, FS_Subset, FS_CardinalityType
<1> QED BY <1>1, <1>2, <1>3, <1>4

\* The balance of the slots when at most one thread moves on.
LEMMA Balance ==
  ASSUME NEW m, NEW r, NEW o, SlotsOK(m, r, o), RingOK(r), m.value \in [Sems -> Int],
         NEW n, NEW q, NEW p, n.value \in [Sems -> Int], NEW t \in Task,
         \A u \in Task \ {t} : (u \in n.grant <=> u \in m.grant) /\ p[u] = o[u],
         NEW f \in Fifos, NEW a \in Side, IsOpen(m, f),
         Slots(q, f, a) = Slots(r, f, a) + (Tokens(n, SemOf(f, a)) - Tokens(m, SemOf(f, a)))
                          + One(Works(t \in n.grant, p[t], f, a)) - One(Works(t \in m.grant, o[t], f, a))
  PROVE  Slots(q, f, a) = Tokens(n, SemOf(f, a)) + Cardinality(Busy(n, p, f, a))
<1> DEFINE A == Busy(m, o, f, a)
           B == Busy(n, p, f, a)
           x == Works(t \in n.grant, p[t], f, a)
           y == Works(t \in m.grant, o[t], f, a)
           S == Slots(r, f, a)
           T == Tokens(m, SemOf(f, a))
           U == Tokens(n, SemOf(f, a))
<1>1. A \in SUBSET Task /\ B \in SUBSET Task /\ S \in Nat /\ T \in Nat /\ U \in Nat
  <2>1. U \in Nat
    BY SemsOfQueues DEF Tokens
  <2>2. B \in SUBSET Task
    BY DEF Busy
  <2> QED BY <2>1, <2>2, SlotTypes
<1>2. \A u \in Task \ {t} : u \in A <=> u \in B
  BY DEF Busy
<1>3. (t \in A <=> y) /\ (t \in B <=> x)
  BY DEF Busy
<1>4. S = T + Cardinality(A)
  BY DEF SlotsOK
<1>5. Slots(q, f, a) = S + (U - T) + One(x) - One(y)
  OBVIOUS
<1>6. One(x) = One(t \in B) /\ One(y) = One(t \in A)
  BY <1>3 DEF One
<1>7. One(x) \in Nat /\ One(y) \in Nat
  BY DEF One
<1> HIDE DEF A, B, x, y, S, T, U
<1>8. /\ Cardinality(A) \in Nat /\ Cardinality(B) \in Nat
      /\ Cardinality(B) = Cardinality(A) + One(t \in B) - One(t \in A)
  BY <1>1, <1>2, CardOne
<1>9. Slots(q, f, a) = U + Cardinality(B)
  BY <1>1, <1>4, <1>5, <1>6, <1>7, <1>8
<1> QED BY <1>9 DEF U, B

\* Whoever has a slot, and every token, is one of the slots that are there.
LEMMA SlotThere ==
  ASSUME NEW m, NEW r, NEW o, SlotsOK(m, r, o), RingOK(r), m.value \in [Sems -> Int],
         NEW f \in Fifos, NEW a \in Side, IsOpen(m, f),
         Tokens(m, SemOf(f, a)) > 0 \/ \E t \in Task : Works(t \in m.grant, o[t], f, a)
  PROVE  Slots(r, f, a) > 0
<1>1. /\ Slots(r, f, a) = Tokens(m, SemOf(f, a)) + Cardinality(Busy(m, o, f, a))
  BY DEF SlotsOK
<1>2. /\ Slots(r, f, a) \in Nat /\ Tokens(m, SemOf(f, a)) \in Nat
      /\ Busy(m, o, f, a) \in SUBSET Task /\ Cardinality(Busy(m, o, f, a)) \in Nat
  BY SlotTypes
<1>3. CASE Tokens(m, SemOf(f, a)) > 0
  BY <1>1, <1>2, <1>3
<1>4. CASE \E t \in Task : Works(t \in m.grant, o[t], f, a)
  <2>1. Busy(m, o, f, a) # {}
    BY <1>4 DEF Busy
  <2>2. Cardinality(Busy(m, o, f, a)) # 0
    BY <1>2, <2>1, FiniteTasks, FS_Subset, FS_EmptySet
  <2> QED BY <1>1, <1>2, <2>2
<1> QED BY <1>3, <1>4

-----------------------------------------------------------------------------
\* A step of the current thread t: nobody else moves on in a queue operation,
\* and nobody else has the scheduler locked.
LEMMA ThreadStep ==
  ASSUME NEW m, NEW c, NEW r, NEW o, QueuesOK(m, c, r, o), NEW n, NEW d, NEW q, NEW p,
         NEW t \in Task, t = m.currp, n.currp = t,
         \A u \in Task \ {t} : d[u] = c[u] /\ p[u] = o[u],
         Place(d[t], p[t]), n.sched_lock = One(Locked(p[t])),
         GrantOK(n, d), OpenOK(n, p),
         (p[t].op = "destroy" /\ p[t].pc = "locked") => Closing(n, d, q, p, t, p[t].f),
         SlotsOK(n, q, p), DOMAIN p = Task, DOMAIN q = Fifos, RingOK(q)
  PROVE  QueuesOK(n, d, q, p)
<1>1. PlaceOK(d, p)
  BY DEF QueuesOK, PlaceOK
<1>2. \A u \in Task \ {t} : ~Locked(p[u])
  BY DEF QueuesOK, HeldOK
<1>3. HeldOK(n, p)
  <2>1. (Locked(p[t]) => n.sched_lock = 1) /\ (n.sched_lock # 0 => Locked(p[t]))
    BY DEF One
  <2> QED BY <1>2, <2>1 DEF HeldOK
<1>4. ClosingOK(n, d, q, p)
  <2> SUFFICES ASSUME NEW u \in Task, p[u].op = "destroy", p[u].pc = "locked"
               PROVE  Closing(n, d, q, p, u, p[u].f)
    BY DEF ClosingOK
  <2>1. Locked(p[u])
    BY DEF Locked
  <2>2. u = t
    BY <1>2, <2>1
  <2> QED BY <2>2
<1> QED BY <1>1, <1>3, <1>4 DEF QueuesOK

\* What the thread t does to the slots while it goes from o[t] to p[t].
Balanced(m, r, o, n, q, p, t) ==
  \A f \in Fifos, a \in Side : IsOpen(m, f) =>
    Slots(q, f, a) = Slots(r, f, a) + (Tokens(n, SemOf(f, a)) - Tokens(m, SemOf(f, a)))
                     + One(Works(t \in n.grant, p[t], f, a)) - One(Works(t \in m.grant, o[t], f, a))

\* Such a step when the queues stay and no other thread is handed a token.
LEMMA OwnStep ==
  ASSUME NEW m, NEW c, NEW r, NEW o, QueuesOK(m, c, r, o), NEW n, NEW d, NEW q, NEW p,
         NEW t \in Task, t = m.currp, n.currp = t, n.live = m.live,
         m.value \in [Sems -> Int], n.value \in [Sems -> Int],
         \A u \in Task \ {t} : d[u] = c[u] /\ p[u] = o[u] /\ (u \in n.grant <=> u \in m.grant),
         Place(d[t], p[t]), n.sched_lock = One(Locked(p[t])),
         n.grant \subseteq Task, t \in n.grant => d[t].op = "sem" /\ d[t].pc \in {"yield", "after"},
         \A u \in Task : ~n.wait_aborted[u], \A s \in Sems : n.evt[s] = Null,
         (p[t].op \in Side /\ (p[t].pc \notin {"wait", "end"} \/ t \in n.grant)) => IsOpen(m, p[t].f),
         (p[t].op = "destroy" /\ p[t].pc = "locked") => Closing(n, d, q, p, t, p[t].f),
         Balanced(m, r, o, n, q, p, t), DOMAIN p = Task, DOMAIN q = Fifos, RingOK(q)
  PROVE  QueuesOK(n, d, q, p)
<1>1. GrantOK(n, d)
  BY DEF QueuesOK, GrantOK
<1>2. OpenOK(n, p)
  <2>1. \A u \in Task \ {t} : (p[u].op \in Side /\ (p[u].pc \notin {"wait", "end"} \/ u \in n.grant))
                              => IsOpen(n, p[u].f)
    BY DEF QueuesOK, OpenOK, IsOpen
  <2>2. (p[t].op \in Side /\ (p[t].pc \notin {"wait", "end"} \/ t \in n.grant)) => IsOpen(n, p[t].f)
    BY DEF IsOpen
  <2>3. \A f \in Fifos : RxSem[f] \in n.live <=> TxSem[f] \in n.live
    BY DEF QueuesOK, OpenOK
  <2> QED BY <2>1, <2>2, <2>3 DEF OpenOK
<1>3. SlotsOK(n, q, p)
  <2> SUFFICES ASSUME NEW f \in Fifos, NEW a \in Side, IsOpen(n, f)
               PROVE  Slots(q, f, a) = Tokens(n, SemOf(f, a)) + Cardinality(Busy(n, p, f, a))
    BY DEF SlotsOK
  <2>1. IsOpen(m, f)
    BY DEF IsOpen
  <2>2. SlotsOK(m, r, o) /\ RingOK(r)
    BY DEF QueuesOK
  <2>3. \A u \in Task \ {t} : (u \in n.grant <=> u \in m.grant) /\ p[u] = o[u]
    OBVIOUS
  <2>4. Slots(q, f, a) = Slots(r, f, a) + (Tokens(n, SemOf(f, a)) - Tokens(m, SemOf(f, a)))
                     + One(Works(t \in n.grant, p[t], f, a)) - One(Works(t \in m.grant, o[t], f, a))
    BY <2>1 DEF Balanced
  <2> QED BY <2>1, <2>2, <2>3, <2>4, Balance
<1> QED BY <1>1, <1>2, <1>3, ThreadStep

\* A step outside of the threads: a tick, a switch, an interrupt handler.
LEMMA OutsideStep ==
  ASSUME NEW m, NEW c, NEW r, NEW o, QueuesOK(m, c, r, o), NEW n, NEW q,
         n.live = m.live, n.sched_lock = m.sched_lock, m.sched_lock # 0 => n.currp = m.currp,
         GrantOK(n, c), \A t \in n.grant \ m.grant : IsOpen(m, o[t].f),
         ClosingOK(n, c, q, o), SlotsOK(n, q, o), DOMAIN q = Fifos, RingOK(q)
  PROVE  QueuesOK(n, c, q, o)
<1>1. HeldOK(n, o)
  BY DEF QueuesOK, HeldOK
<1>2. OpenOK(n, o)
  BY DEF QueuesOK, OpenOK, IsOpen
<1> QED BY <1>1, <1>2 DEF QueuesOK

\* ... that leaves the rings alone and hands nobody a token.
LEMMA SilentStep ==
  ASSUME NEW m, NEW c, NEW r, NEW o, QueuesOK(m, c, r, o), NEW n,
         n.live = m.live, n.sched_lock = m.sched_lock, m.sched_lock # 0 => n.currp = m.currp,
         n.grant = m.grant, n.wait_aborted = m.wait_aborted, n.evt = m.evt, SameTokens(m, n),
         m.sched_lock # 0 => \A t \in Task : m.state[t] = "WTSEM" => n.state[t] = "WTSEM"
  PROVE  QueuesOK(n, c, r, o)
<1>1. GrantOK(n, c)
  BY DEF QueuesOK, GrantOK
<1>2. ClosingOK(n, c, r, o)
  <2> SUFFICES ASSUME NEW t \in Task, o[t].op = "destroy", o[t].pc = "locked"
               PROVE  Closing(n, c, r, o, t, o[t].f)
    BY DEF ClosingOK
  <2>1. Locked(o[t])
    BY DEF Locked
  <2>2. m.sched_lock # 0
    BY <2>1 DEF QueuesOK, HeldOK
  <2>3. Closing(m, c, r, o, t, o[t].f)
    BY DEF QueuesOK, ClosingOK
  <2> QED BY <2>2, <2>3 DEF Closing, IsOpen
<1>3. SlotsOK(n, r, o)
  <2> SUFFICES ASSUME NEW f \in Fifos, NEW a \in Side, IsOpen(n, f)
               PROVE  Slots(r, f, a) = Tokens(n, SemOf(f, a)) + Cardinality(Busy(n, o, f, a))
    BY DEF SlotsOK
  <2>1. SemOf(f, a) \in Sems \cap m.live /\ IsOpen(m, f)
    BY SemsOfQueues, OpenSides DEF QueuesOK, IsOpen
  <2>2. Tokens(n, SemOf(f, a)) = Tokens(m, SemOf(f, a))
    BY <2>1 DEF SameTokens
  <2>3. Busy(n, o, f, a) = Busy(m, o, f, a)
    BY DEF Busy
  <2> QED BY <2>1, <2>2, <2>3 DEF QueuesOK, SlotsOK
<1>4. DOMAIN r = Fifos /\ RingOK(r)
  BY DEF QueuesOK
<1>5. \A t \in n.grant \ m.grant : IsOpen(m, o[t].f)
  OBVIOUS
<1> QED BY <1>1, <1>2, <1>3, <1>4, <1>5, OutsideStep

\* The lock as the current thread sees it.
LEMMA HeldNow ==
  ASSUME NEW m, NEW o, HeldOK(m, o), m.currp \in Task
  PROVE  m.sched_lock = One(Locked(o[m.currp]))
BY DEF HeldOK, One

\* A step of the current thread that has nothing to do with tokens or locks;
\* a poller may forget that it found the queue empty.
LEMMA CalmThread ==
  ASSUME NEW m, NEW c, NEW r, NEW o, QueuesOK(m, c, r, o), NEW n, NEW d, NEW p,
         NEW t \in Task, t = m.currp, n.currp = t, n.live = m.live, n.sched_lock = m.sched_lock,
         m.value \in [Sems -> Int], n.value \in [Sems -> Int],
         n.grant = m.grant, m.grant \subseteq Task, SameTokens(m, n),
         \A u \in Task : ~n.wait_aborted[u], \A s \in Sems : n.evt[s] = Null,
         \A u \in Task \ {t} : d[u] = c[u],
         d[t].op = "sem" <=> c[t].op = "sem",
         c[t].op = "sem" => /\ d[t].o = c[t].o
                            /\ c[t].pc \in {"yield", "after"} => d[t].pc \in {"yield", "after"},
         ~Locked(o[t]),
         p = o \/ p = [o EXCEPT ![t] = [o[t] EXCEPT !.drained = FALSE]]
  PROVE  QueuesOK(n, d, r, p)
<1>0. /\ Place(c[t], o[t]) /\ HeldOK(m, o) /\ GrantOK(m, c) /\ OpenOK(m, o) /\ DOMAIN o = Task /\ DOMAIN r = Fifos
      /\ RingOK(r)
  BY DEF QueuesOK, PlaceOK
<1>1. /\ DOMAIN p = Task /\ \A u \in Task \ {t} : p[u] = o[u]
      /\ p[t] = o[t] \/ p[t] = [o[t] EXCEPT !.drained = FALSE]
  BY <1>0
<1> DEFINE b == p[t]
<1>2. b \in Fop /\ b.op = o[t].op /\ b.f = o[t].f /\ b.item = o[t].item /\ b.pc = o[t].pc
  BY <1>0, <1>1 DEF Place, Fop
<1>3. ~Locked(b)
  BY <1>2 DEF Locked
<1>4. Place(d[t], b)
  BY <1>0, <1>2, <1>3 DEF Place, Takes
<1>5. n.sched_lock = One(Locked(p[t]))
  BY <1>0, <1>3, HeldNow DEF One
<1>6. t \in n.grant => d[t].op = "sem" /\ d[t].pc \in {"yield", "after"}
  BY <1>0 DEF GrantOK
<1>7. (p[t].op \in Side /\ (p[t].pc \notin {"wait", "end"} \/ t \in n.grant)) => IsOpen(m, p[t].f)
  BY <1>0, <1>2 DEF OpenOK
<1>8. ~(p[t].op = "destroy" /\ p[t].pc = "locked")
  BY <1>3 DEF Locked
<1>9. Balanced(m, r, o, n, r, p, t)
  <2> SUFFICES ASSUME NEW f \in Fifos, NEW a \in Side, IsOpen(m, f)
               PROVE  Slots(r, f, a) = Slots(r, f, a) + (Tokens(n, SemOf(f, a)) - Tokens(m, SemOf(f, a)))
                     + One(Works(t \in n.grant, p[t], f, a)) - One(Works(t \in m.grant, o[t], f, a))
    BY DEF Balanced
  <2>1. Works(t \in n.grant, p[t], f, a) <=> Works(t \in m.grant, o[t], f, a)
    BY <1>2 DEF Works
  <2>2. One(Works(t \in n.grant, p[t], f, a)) = One(Works(t \in m.grant, o[t], f, a))
    BY <2>1 DEF One
  <2>3. One(Works(t \in m.grant, o[t], f, a)) \in Nat
    BY DEF One
  <2>4. Tokens(n, SemOf(f, a)) = Tokens(m, SemOf(f, a))
    BY <1>0, OpenSides, SemsOfQueues DEF SameTokens
  <2>5. Slots(r, f, a) \in Nat /\ Tokens(m, SemOf(f, a)) \in Nat
    BY <1>0, SlotTypes
  <2> QED BY <2>2, <2>3, <2>4, <2>5
<1> HIDE DEF b
<1>10. \A u \in Task \ {t} : d[u] = c[u] /\ p[u] = o[u] /\ (u \in n.grant <=> u \in m.grant)
  BY <1>1
<1>11. Place(d[t], p[t]) /\ n.grant \subseteq Task
  BY <1>4 DEF b
<1>12. (p[t].op = "destroy" /\ p[t].pc = "locked") => Closing(n, d, r, p, t, p[t].f)
  BY <1>8
<1> QED BY <1>0, <1>1, <1>5, <1>6, <1>7, <1>9, <1>10, <1>11, <1>12, OwnStep

\* A store that leaves semaphores, lock and tasks alone.
LEMMA SameTokensOnly ==
  ASSUME NEW m, NEW r, NEW F, Only(m, r, F), F \cap {"value"} = {}
  PROVE  SameTokens(m, r) /\ r.value = m.value
<1>1. r.value = m.value
  BY DEF Only, Fields
<1> QED BY <1>1 DEF SameTokens, Tokens

-----------------------------------------------------------------------------
\* The tick: who gives up its request for a token leaves the tokens alone, and
\* nothing happens under the scheduler lock.
LEMMA TickQueues ==
  ASSUME BaseOK(k, call), NEW r, NEW o, QueuesOK(k, call, r, o), SysTick
  PROVE  QueuesOK(k', call', r, o)
<1>1. PICK n, x : /\ KernelOK(n, call) /\ Only(k, n, {"left"}) /\ Passes(n, x) /\ KernelOK(x, call)
                  /\ Only(x, k', {"pendsv", "skipped"})
  BY SysTickPasses DEF BaseOK
<1>2. call' = call /\ (k.sched_lock # 0 => Only(k, k', {"left", "pendsv", "skipped"}))
  BY SysTickPasses DEF BaseOK
<1>3. /\ n.live = k.live /\ n.sched_lock = k.sched_lock /\ n.currp = k.currp /\ n.grant = k.grant
      /\ n.wait_aborted = k.wait_aborted /\ n.evt = k.evt /\ n.value = k.value /\ n.state = k.state /\ n.obj = k.obj
  BY <1>1 DEF Only, Fields
<1>4. /\ x.live = n.live /\ x.sched_lock = n.sched_lock /\ x.currp = n.currp /\ x.grant = n.grant
      /\ x.wait_aborted = n.wait_aborted /\ x.evt = n.evt
  BY <1>1 DEF Passes, Only, Timing, Fields
<1>5. /\ k'.live = x.live /\ k'.sched_lock = x.sched_lock /\ k'.currp = x.currp /\ k'.grant = x.grant
      /\ k'.wait_aborted = x.wait_aborted /\ k'.evt = x.evt /\ k'.value = x.value
  BY <1>1 DEF Only, Fields
<1>6. SemsOK(n)
  BY <1>3 DEF BaseOK, ServiceOK, SemsOK, TokenWaiters
<1>7. SameTokens(n, x)
  BY <1>1, <1>6 DEF Passes
<1>8. SameTokens(k, k')
  BY <1>3, <1>5, <1>7 DEF SameTokens, Tokens
<1>9. k.sched_lock # 0 => \A t \in Task : k.state[t] = "WTSEM" => k'.state[t] = "WTSEM"
  BY <1>2 DEF Only, Fields
<1> DEFINE l == k'
<1>10. /\ l.live = k.live /\ l.sched_lock = k.sched_lock /\ (k.sched_lock # 0 => l.currp = k.currp)
       /\ l.grant = k.grant /\ l.wait_aborted = k.wait_aborted /\ l.evt = k.evt /\ SameTokens(k, l)
       /\ k.sched_lock # 0 => \A t \in Task : k.state[t] = "WTSEM" => l.state[t] = "WTSEM"
  BY <1>3, <1>4, <1>5, <1>8, <1>9
<1> HIDE DEF l
<1>11. QueuesOK(l, call, r, o)
  BY <1>10, SilentStep
<1> QED BY <1>2, <1>11 DEF l

\* The context switch, which waits for the end of the scheduler lock.
LEMMA SwitchQueues ==
  ASSUME BaseOK(k, call), KernelOK(k', call'), NEW r, NEW o, QueuesOK(k, call, r, o), PendSV
  PROVE  QueuesOK(k', call', r, o)
<1> DEFINE l == k'
<1>1. /\ Only(k, l, {"bug", "ready", "state", "currp", "pendsv", "yield_pending"})
      /\ SameTasks(k, l, {}) /\ (k.sched_lock # 0 => l.currp = k.currp)
  BY PendSVEffect DEF BaseOK
<1>2. call' = call
  BY DEF PendSV
<1> HIDE DEF l
<1>3. /\ l.live = k.live /\ l.sched_lock = k.sched_lock
      /\ l.grant = k.grant /\ l.wait_aborted = k.wait_aborted /\ l.evt = k.evt
  BY <1>1 DEF Only, Fields
<1>4. SameTokens(k, l)
  BY <1>1, SameTokensOnly
<1>5. \A t \in Task : k.state[t] = "WTSEM" => l.state[t] = "WTSEM"
  BY <1>1 DEF SameTasks, Up
<1>6. QueuesOK(l, call, r, o)
  BY <1>1, <1>3, <1>4, <1>5, SilentStep
<1> QED BY <1>2, <1>6 DEF l

-----------------------------------------------------------------------------
(***************************************************************************)
(* Steps of a thread that have nothing to do with tokens.                  *)
(***************************************************************************)

\* Such a step, from the fields of the kernel memory it changes.
LEMMA CalmOnly ==
  ASSUME NEW m, NEW c, KernelOK(m, c), NEW r, NEW o, QueuesOK(m, c, r, o), NEW n, NEW d, NEW p,
         NEW F, Only(m, n, F), F \cap {"value", "live", "sched_lock", "currp"} = {},
         n.grant = m.grant, \A u \in Task : n.wait_aborted[u] => m.wait_aborted[u],
         \A s \in Sems : n.evt[s] = m.evt[s],
         NEW t \in Task, t = m.currp, \A u \in Task \ {t} : d[u] = c[u],
         d[t].op = "sem" <=> c[t].op = "sem",
         c[t].op = "sem" => /\ d[t].o = c[t].o
                            /\ c[t].pc \in {"yield", "after"} => d[t].pc \in {"yield", "after"},
         ~Locked(o[t]),
         p = o \/ p = [o EXCEPT ![t] = [o[t] EXCEPT !.drained = FALSE]]
  PROVE  QueuesOK(n, d, r, p)
<1>1. /\ n.value = m.value /\ n.live = m.live /\ n.sched_lock = m.sched_lock /\ n.currp = m.currp
  BY DEF Only, Fields
<1>2. m.value \in [Sems -> Int] /\ m.grant \subseteq Task
  <2>1. m \in Kernel
    BY KernelShape
  <2> QED BY <2>1 DEF Kernel
<1>3. SameTokens(m, n)
  BY <1>1 DEF SameTokens, Tokens
<1>4. (\A u \in Task : ~n.wait_aborted[u]) /\ \A s \in Sems : n.evt[s] = Null
  BY DEF QueuesOK, GrantOK
<1>5. n.currp = t /\ n.value \in [Sems -> Int]
  BY <1>1, <1>2
<1> QED BY <1>1, <1>2, <1>3, <1>4, <1>5, CalmThread

\* A thread in a call, or about to block, has not locked the scheduler.
LEMMA NotLocked ==
  ASSUME NEW m, NEW c, NEW r, NEW o, QueuesOK(m, c, r, o), NEW t \in Task,
         c[t].op # "none" \/ c[t].pc # "run" \/ m.sched_lock = 0
  PROVE  ~Locked(o[t])
<1>1. Place(c[t], o[t]) /\ HeldOK(m, o)
  BY DEF QueuesOK, PlaceOK
<1> QED BY <1>1 DEF Place, HeldOK

\* What leaving a call changes.
LEMMA LeaveFields ==
  ASSUME NEW m, NEW c, KernelOK(m, c), NEW t \in Task
  PROVE  /\ Only(m, leave(m, t), {"obj", "evbits", "wait_aborted", "grant"})
         /\ leave(m, t).grant = m.grant \ {t}
         /\ \A u \in Task : leave(m, t).wait_aborted[u] => m.wait_aborted[u]
<1>1. Shape(m)
  BY KernelShape
<1> QED BY <1>1 DEF leave, Shape, Only, Fields

\* What blocking for events changes.
LEMMA EventBlockFields ==
  ASSUME NEW m, NEW c, KernelOK(m, c), NEW t \in Task, t = m.currp, NEW e, NEW w, NEW tout, NEW r,
         r = event_block(m, e, w, tout)
  PROVE  /\ Only(m, r, {"wait_aborted", "ready", "state", "deadline", "left", "p_wait", "pov_wait",
                        "wait_list", "evbits"})
         /\ \A u \in Task : r.wait_aborted[u] => m.wait_aborted[u]
<1> DEFINE a == [m EXCEPT !.wait_aborted = [@ EXCEPT ![t] = FALSE]]
           b == set_sleep_timeout(a, "WTEVT", tout)
<1>0. Shape(m)
  BY KernelShape
<1>1. r = [b EXCEPT !.wait_list[e] = Append(@, t), !.evbits = [@ EXCEPT ![t] = w]]
  BY DEF event_block
<1>2. /\ Shape(a) /\ Only(m, a, {"wait_aborted"}) /\ a.currp = t
      /\ \A u \in Task : a.wait_aborted[u] => m.wait_aborted[u]
  BY <1>0 DEF Shape, Only, Fields
<1> HIDE DEF a
<1>3. Shape(b) /\ Only(a, b, {"ready", "state", "deadline", "left", "p_wait", "pov_wait"})
  <2> DEFINE st == "WTEVT"
  <2>1. st \in State /\ a.currp \in Task
    BY <1>2 DEF State
  <2> HIDE DEF st
  <2>2. LET z == set_sleep_timeout(a, st, tout) IN
        /\ Shape(z) /\ Only(a, z, {"ready", "state", "deadline", "left", "p_wait", "pov_wait"})
        /\ z.state = [a.state EXCEPT ![a.currp] = st]
    BY <1>2, <2>1, SleepFields
  <2> QED BY <2>2 DEF st
<1> HIDE DEF b
<1>4. Only(b, r, {"wait_list", "evbits"})
  BY <1>1, <1>3 DEF Shape, Only, Fields
<1>5. r.wait_aborted = a.wait_aborted
  BY <1>3, <1>4 DEF Only, Fields
<1>6. Only(m, r, {"wait_aborted", "ready", "state", "deadline", "left", "p_wait", "pov_wait",
                  "wait_list", "evbits"})
  BY <1>2, <1>3, <1>4 DEF Only
<1> QED BY <1>2, <1>5, <1>6

\* The yield of a blocking call, and the store of the bit number.
LEMMA PlainQueues ==
  ASSUME BaseOK(k, call), NEW r, NEW o, QueuesOK(k, call, r, o), NEW t \in Task,
         Yield(t) \/ EventStoreBit(t)
  PROVE  QueuesOK(k', call', r, o)
<1> DEFINE l == k'
           d == call'
<1>0. KernelOK(k, call) /\ call \in [Task -> Call] /\ Shape(k)
  BY KernelShape DEF BaseOK
<1>1. /\ t = k.currp /\ call[t].pc # "run" /\ \A u \in Task \ {t} : d[u] = call[u]
      /\ d[t].op = "sem" <=> call[t].op = "sem"
      /\ call[t].op = "sem" => d[t].o = call[t].o /\ d[t].pc \in {"yield", "after"}
  <2>1. CASE Yield(t)
    BY <1>0, <2>1 DEF Yield, Exec, NoCall, Call
  <2>2. CASE EventStoreBit(t)
    BY <1>0, <2>2 DEF EventStoreBit, Exec, NoCall
  <2> QED BY <2>1, <2>2
<1>2. Only(k, l, {"pendsv", "bitno"})
  BY <1>0 DEF Yield, EventStoreBit, port_yield, Only, Fields, Shape
<1>3. l.grant = k.grant /\ l.wait_aborted = k.wait_aborted /\ l.evt = k.evt
  BY <1>2 DEF Only, Fields
<1>4. ~Locked(o[t])
  BY <1>1, NotLocked
<1> HIDE DEF l, d
<1> DEFINE F == {"pendsv", "bitno"}
<1>5. Only(k, l, F) /\ F \cap {"value", "live", "sched_lock", "currp"} = {}
  BY <1>2
<1> HIDE DEF F
<1>6. QueuesOK(l, d, r, o)
  BY <1>0, <1>1, <1>3, <1>4, <1>5, CalmOnly
<1> QED BY <1>6 DEF l, d

\* The ticks an unlock replays.
LEMMA FlushQueues ==
  ASSUME BaseOK(k, call), NEW r, NEW o, QueuesOK(k, call, r, o), NEW t \in Task, UnlockFlush(t)
  PROVE  QueuesOK(k', call', r, o)
<1> DEFINE x == advance_jiffies(k, k.skipped)
           l == k'
           d == call'
<1>0. KernelOK(k, call) /\ k.skipped \in Tick /\ call \in [Task -> Call] /\ SemsOK(k) /\ k.value \in [Sems -> Int]
      /\ k.grant \subseteq Task /\ k.currp \in Task
  <2>1. KernelOK(k, call) /\ k \in Kernel /\ call \in [Task -> Call] /\ SemsOK(k)
    BY KernelShape DEF BaseOK, ServiceOK
  <2> QED BY <2>1 DEF Kernel
<1>1. Passes(k, x) /\ KernelOK(x, call)
  BY <1>0, AdvancePasses
<1>2. Shape(x) /\ x.value \in [Sems -> Int]
  <2>1. Shape(x) /\ x \in Kernel
    BY <1>1, KernelShape
  <2> QED BY <2>1 DEF Kernel
<1>3. Only(x, l, {"skipped", "pendsv", "yield_pending"})
  <2>1. l = [[x EXCEPT !.skipped = 0] EXCEPT !.pendsv = @ \/ [x EXCEPT !.skipped = 0].yield_pending, !.yield_pending = FALSE]
    BY DEF UnlockFlush, unlock_flush
  <2> HIDE DEF x, l
  <2> QED BY <1>2, <2>1 DEF Only, Fields, Shape
<1>4. /\ t = k.currp /\ call[t].op = "lock" /\ d[t].op = "none" /\ \A u \in Task \ {t} : d[u] = call[u]
  BY <1>0 DEF UnlockFlush, Exec, NoCall
<1> HIDE DEF x, l, d
<1>5. SameTokens(k, x)
  BY <1>0, <1>1 DEF Passes
<1>6. /\ x.live = k.live /\ x.sched_lock = k.sched_lock /\ x.currp = k.currp /\ x.grant = k.grant
      /\ x.wait_aborted = k.wait_aborted /\ x.evt = k.evt
  BY <1>1 DEF Passes, Only, Timing, Fields
<1>7. /\ l.live = k.live /\ l.sched_lock = k.sched_lock /\ l.currp = k.currp /\ l.grant = k.grant
      /\ l.wait_aborted = k.wait_aborted /\ l.evt = k.evt /\ l.value = x.value
  BY <1>3, <1>6 DEF Only, Fields
<1>8. SameTokens(k, l) /\ l.value \in [Sems -> Int]
  BY <1>2, <1>5, <1>7 DEF SameTokens, Tokens
<1>9. (\A u \in Task : ~l.wait_aborted[u]) /\ \A s \in Sems : l.evt[s] = Null
  BY <1>7 DEF QueuesOK, GrantOK
<1>10. ~Locked(o[t])
  BY <1>4, NotLocked
<1>11. /\ d[t].op = "sem" <=> call[t].op = "sem"
       /\ call[t].op = "sem" => /\ d[t].o = call[t].o
                                /\ call[t].pc \in {"yield", "after"} => d[t].pc \in {"yield", "after"}
  BY <1>4
<1>12. t = k.currp /\ l.currp = t /\ \A u \in Task \ {t} : d[u] = call[u]
  BY <1>4, <1>7
<1>13. QueuesOK(l, d, r, o)
  BY <1>0, <1>7, <1>8, <1>9, <1>10, <1>11, <1>12, CalmThread
<1> QED BY <1>13 DEF l, d

\* A poller in its wait for the event leaves it or blocks.
LEMMA PollWaitQueues ==
  ASSUME BaseOK(k, call), NEW r, NEW o, QueuesOK(k, call, r, o), NEW t \in Task,
         EventWaitEnter(t) \/ EventWaitReturn(t)
  PROVE  QueuesOK(k', call', r, o)
<1> DEFINE l == k'
           d == call'
           F == {"bitset", "obj", "evbits", "wait_aborted", "grant", "ready", "state", "deadline", "left",
                 "p_wait", "pov_wait", "wait_list"}
<1>0. KernelOK(k, call) /\ call \in [Task -> Call] /\ Shape(k) /\ CallsOK(call) /\ GrantOK(k, call)
  BY KernelShape DEF BaseOK, QueuesOK
<1>1. /\ t = k.currp /\ call[t].op = "evt" /\ \A u \in Task \ {t} : d[u] = call[u]
  BY <1>0 DEF EventWaitEnter, EventWaitReturn, Exec
<1>2. d[t].op # "sem"
  BY <1>0, <1>1 DEF EventWaitEnter, EventWaitReturn, NoCall, Call
<1>3. t \notin k.grant
  BY <1>0, <1>1 DEF GrantOK
<1>4. \/ l = k
      \/ l = leave(k, t)
      \/ l = leave(event_clear(k, call[t].o, call[t].w.bits), t)
      \/ l = event_block(k, call[t].o, call[t].w, TimeLeft(t))
  BY DEF EventWaitEnter, EventWaitReturn
<1> HIDE DEF l, d
<1>5. Only(k, l, F) /\ l.grant = k.grant /\ \A u \in Task : l.wait_aborted[u] => k.wait_aborted[u]
  <2>1. CASE l = k
    BY <2>1 DEF Only
  <2>2. CASE l = leave(k, t)
    <3>1. /\ Only(k, l, {"obj", "evbits", "wait_aborted", "grant"}) /\ l.grant = k.grant \ {t}
          /\ \A u \in Task : l.wait_aborted[u] => k.wait_aborted[u]
      BY <1>0, <2>2, LeaveFields
    <3> QED BY <1>3, <3>1 DEF Only
  <2>3. CASE l = leave(event_clear(k, call[t].o, call[t].w.bits), t)
    <3> DEFINE m == event_clear(k, call[t].o, call[t].w.bits)
    <3>1. Only(k, m, {"bitset"})
      BY <1>0 DEF event_clear, Only, Fields, Shape
    <3>2. KernelOK(m, call)
      <4>1. call[t].o \in Evts
        BY <1>0, <1>1 DEF CallsOK, CallKind
      <4> QED BY <1>0, <4>1, EventClearOK DEF KernelOK
    <3> HIDE DEF m
    <3>3. /\ Only(m, l, {"obj", "evbits", "wait_aborted", "grant"}) /\ l.grant = m.grant \ {t}
          /\ \A u \in Task : l.wait_aborted[u] => m.wait_aborted[u]
      BY <2>3, <3>2, LeaveFields DEF m
    <3>4. m.grant = k.grant /\ m.wait_aborted = k.wait_aborted
      BY <3>1 DEF Only, Fields
    <3>5. Only(k, l, F)
      BY <3>1, <3>3 DEF Only
    <3> QED BY <1>3, <3>3, <3>4, <3>5
  <2>4. CASE l = event_block(k, call[t].o, call[t].w, TimeLeft(t))
    <3>1. /\ Only(k, l, {"wait_aborted", "ready", "state", "deadline", "left", "p_wait", "pov_wait",
                         "wait_list", "evbits"})
          /\ \A u \in Task : l.wait_aborted[u] => k.wait_aborted[u]
      BY <1>0, <1>1, <2>4, EventBlockFields
    <3>2. l.grant = k.grant
      BY <3>1 DEF Only, Fields
    <3>3. Only(k, l, F)
      BY <3>1 DEF Only
    <3> QED BY <3>1, <3>2, <3>3
  <2> QED BY <1>4, <2>1, <2>2, <2>3, <2>4
<1>6. l.evt = k.evt
  BY <1>5 DEF Only, Fields
<1>7. F \cap {"value", "live", "sched_lock", "currp"} = {}
  OBVIOUS
<1> HIDE DEF F
<1>8. ~Locked(o[t])
  BY <1>1, NotLocked
<1>9. QueuesOK(l, d, r, o)
  BY <1>0, <1>1, <1>2, <1>5, <1>6, <1>7, <1>8, CalmOnly
<1> QED BY <1>9 DEF l, d

\* A poller connects a queue to an event bit, or begins to wait for it.
LEMMA PollBeginQueues ==
  ASSUME BaseOK(k, call), QueuesOK(k, call, ring, fop), NEW t \in Task, NEW f \in Fifos,
         NEW e, NEW bit, NEW w, NEW timeout, PollConnect(t, f, e, bit) \/ PollWait(t, f, w, timeout)
  PROVE  QueuesOK(k', call', ring', fop')
<1> DEFINE l == k'
           d == call'
           p == fop'
           F == {"evt"}
<1>0. KernelOK(k, call) /\ call \in [Task -> Call] /\ Shape(k) /\ HeldOK(k, fop)
  BY KernelShape DEF BaseOK, QueuesOK
<1>1. Running(t) /\ \A u \in Task \ {t} : d[u] = call[u]
  BY <1>0 DEF PollConnect, PollWait, EventConnect, EventWait, MayBlock
<1>2. t = k.currp /\ call[t].op = "none"
  BY <1>0, <1>1, RunningFree
<1>3. d[t].op # "sem"
  <2>1. CASE PollConnect(t, f, e, bit)
    BY <1>0, <2>1 DEF PollConnect, EventConnect, NoCall
  <2>2. CASE PollWait(t, f, w, timeout)
    BY <1>0, <2>2 DEF PollWait, EventWait, NoCall
  <2> QED BY <2>1, <2>2
<1>4. Only(k, l, F) /\ \A s \in Sems : l.evt[s] = k.evt[s]
  <2>1. CASE PollConnect(t, f, e, bit)
    <3>1. f \notin Sems
      BY TaskAssumption DEF Object
    <3>2. k \in Kernel
      BY <1>0, KernelShape
    <3>3. DOMAIN k.evt = Notifier
      BY <3>2 DEF Kernel
    <3>4. l = [k EXCEPT !.evt = [@ EXCEPT ![f] = e]]
      BY <2>1 DEF PollConnect, EventConnect
    <3> HIDE DEF l
    <3> QED BY <1>0, <3>1, <3>3, <3>4 DEF Only, Fields, Shape, Notifier
  <2>2. CASE PollWait(t, f, w, timeout)
    BY <2>2 DEF PollWait, EventWait, Only
  <2> QED BY <2>1, <2>2
<1>5. l.grant = k.grant /\ l.wait_aborted = k.wait_aborted
  BY <1>4 DEF Only, Fields
<1>6. ~Locked(fop[t])
  <2>1. CASE PollConnect(t, f, e, bit)
    BY <2>1 DEF PollConnect, Locked
  <2>2. CASE PollWait(t, f, w, timeout)
    BY <1>0, <2>2 DEF PollWait, EventWait, MayBlock, HeldOK
  <2> QED BY <2>1, <2>2
<1>7. p = [fop EXCEPT ![t] = [fop[t] EXCEPT !.drained = FALSE]] /\ ring' = ring
  BY DEF PollConnect, PollWait
<1> HIDE DEF l, d, p
<1>8. F \cap {"value", "live", "sched_lock", "currp"} = {}
  OBVIOUS
<1> HIDE DEF F
<1>9. QueuesOK(l, d, ring, p)
  BY <1>0, <1>1, <1>2, <1>3, <1>4, <1>5, <1>6, <1>7, <1>8, CalmOnly
<1> QED BY <1>7, <1>9 DEF l, d, p

-----------------------------------------------------------------------------
(***************************************************************************)
(* Steps of a thread inside of a queue operation.                          *)
(***************************************************************************)

\* Nobody but t moves on, and t is at b.
Goes(o, p, t, b) == DOMAIN p = Task /\ p[t] = b /\ \A u \in Task \ {t} : p[u] = o[u]

\* The current thread t goes on at b, from the fields of the kernel memory it
\* changes.
LEMMA OwnOnly ==
  ASSUME NEW m, NEW c, KernelOK(m, c), NEW r, NEW o, QueuesOK(m, c, r, o), NEW n, NEW d, NEW q, NEW b, NEW p,
         NEW F, Only(m, n, F), F \cap {"live", "currp", "evt"} = {}, n.value \in [Sems -> Int],
         \A u \in Task : n.wait_aborted[u] => m.wait_aborted[u], n.grant \subseteq Task,
         NEW t \in Task, t = m.currp, Goes(o, p, t, b),
         \A u \in Task \ {t} : d[u] = c[u], \A u \in Task \ {t} : u \in n.grant <=> u \in m.grant,
         Place(d[t], b), n.sched_lock = One(Locked(b)),
         t \in n.grant => d[t].op = "sem" /\ d[t].pc \in {"yield", "after"},
         (b.op \in Side /\ (b.pc \notin {"wait", "end"} \/ t \in n.grant)) => IsOpen(m, b.f),
         (b.op = "destroy" /\ b.pc = "locked") => Closing(n, d, q, p, t, b.f),
         Balanced(m, r, o, n, q, p, t), DOMAIN q = Fifos, RingOK(q)
  PROVE  QueuesOK(n, d, q, p)
<1>1. /\ n.live = m.live /\ n.currp = m.currp /\ n.evt = m.evt
  BY DEF Only, Fields
<1>2. m.value \in [Sems -> Int]
  <2>1. m \in Kernel
    BY KernelShape
  <2> QED BY <2>1 DEF Kernel
<1>3. GrantOK(m, c)
  BY DEF QueuesOK
<1>5. (\A u \in Task : ~n.wait_aborted[u]) /\ \A s \in Sems : n.evt[s] = Null
  BY <1>1, <1>3 DEF GrantOK
<1>6. DOMAIN p = Task /\ p[t] = b
  BY DEF Goes
<1>7. /\ n.currp = t /\ Place(d[t], p[t]) /\ n.sched_lock = One(Locked(p[t]))
      /\ \A u \in Task \ {t} : d[u] = c[u] /\ p[u] = o[u] /\ (u \in n.grant <=> u \in m.grant)
  BY <1>1, <1>6 DEF Goes
<1>8. /\ (p[t].op \in Side /\ (p[t].pc \notin {"wait", "end"} \/ t \in n.grant)) => IsOpen(m, p[t].f)
      /\ (p[t].op = "destroy" /\ p[t].pc = "locked") => Closing(n, d, q, p, t, p[t].f)
  BY <1>6
<1> QED BY <1>1, <1>2, <1>5, <1>6, <1>7, <1>8, OwnStep

\* Only the queue of t moves.
LEMMA BalancedAt ==
  ASSUME NEW m, m.value \in [Sems -> Int], NEW r, RingOK(r), NEW o, NEW n, NEW q, NEW p, NEW t,
         NEW g \in Fifos,
         \A f \in Fifos \ {g}, a \in Side :
           /\ Slots(q, f, a) = Slots(r, f, a) /\ Tokens(n, SemOf(f, a)) = Tokens(m, SemOf(f, a))
           /\ Works(t \in n.grant, p[t], f, a) <=> Works(t \in m.grant, o[t], f, a),
         NEW b \in Side,
         \A a \in {b, Other(b)} :
           Slots(q, g, a) = Slots(r, g, a) + (Tokens(n, SemOf(g, a)) - Tokens(m, SemOf(g, a)))
                            + One(Works(t \in n.grant, p[t], g, a)) - One(Works(t \in m.grant, o[t], g, a))
  PROVE  Balanced(m, r, o, n, q, p, t)
<1> SUFFICES ASSUME NEW f \in Fifos, NEW a \in Side
             PROVE  Slots(q, f, a) = Slots(r, f, a) + (Tokens(n, SemOf(f, a)) - Tokens(m, SemOf(f, a)))
                     + One(Works(t \in n.grant, p[t], f, a)) - One(Works(t \in m.grant, o[t], f, a))
  BY DEF Balanced
<1>1. CASE f = g
  <2>1. a \in {b, Other(b)}
    BY DEF Side, Other
  <2> QED BY <1>1, <2>1
<1>2. CASE f # g
  <2>1. /\ Slots(q, f, a) = Slots(r, f, a) /\ Tokens(n, SemOf(f, a)) = Tokens(m, SemOf(f, a))
        /\ Works(t \in n.grant, p[t], f, a) <=> Works(t \in m.grant, o[t], f, a)
    BY <1>2
  <2>2. One(Works(t \in n.grant, p[t], f, a)) = One(Works(t \in m.grant, o[t], f, a))
    BY <2>1 DEF One
  <2>3. Slots(r, f, a) \in Nat /\ Tokens(m, SemOf(f, a)) \in Nat /\ One(Works(t \in m.grant, o[t], f, a)) \in Nat
    BY SlotTypes DEF One
  <2> QED BY <2>1, <2>2, <2>3
<1> QED BY <1>1, <1>2

\* Nothing moves.
LEMMA BalancedSame ==
  ASSUME NEW m, m.value \in [Sems -> Int], NEW r, RingOK(r), NEW o, NEW n, NEW p, NEW t,
         \A f \in Fifos, a \in Side :
           /\ Tokens(n, SemOf(f, a)) = Tokens(m, SemOf(f, a))
           /\ Works(t \in n.grant, p[t], f, a) <=> Works(t \in m.grant, o[t], f, a)
  PROVE  Balanced(m, r, o, n, r, p, t)
<1> SUFFICES ASSUME NEW f \in Fifos, NEW a \in Side
             PROVE  Slots(r, f, a) = Slots(r, f, a) + (Tokens(n, SemOf(f, a)) - Tokens(m, SemOf(f, a)))
                     + One(Works(t \in n.grant, p[t], f, a)) - One(Works(t \in m.grant, o[t], f, a))
  BY DEF Balanced
<1>1. One(Works(t \in n.grant, p[t], f, a)) = One(Works(t \in m.grant, o[t], f, a))
  BY DEF One
<1>2. Slots(r, f, a) \in Nat /\ Tokens(m, SemOf(f, a)) \in Nat /\ One(Works(t \in m.grant, o[t], f, a)) \in Nat
  BY SlotTypes DEF One
<1> QED BY <1>1, <1>2

\* A thread takes a token of the side b of g from its semaphore.
LEMMA BalancedTake ==
  ASSUME NEW m, m.value \in [Sems -> Int], NEW r, RingOK(r), NEW o, NEW n, NEW p, NEW t,
         NEW g \in Fifos, NEW b \in Side, m.value[SemOf(g, b)] > 0,
         n.value = [m.value EXCEPT ![SemOf(g, b)] = @ - 1],
         \A f \in Fifos, a \in Side : /\ Works(t \in n.grant, p[t], f, a) <=> (f = g /\ a = b)
                                      /\ ~Works(t \in m.grant, o[t], f, a)
  PROVE  Balanced(m, r, o, n, r, p, t)
<1>1. SemOf(g, b) \in Sems
  BY SemsOfQueues
<1>2. \A f \in Fifos, a \in Side : ~(f = g /\ a = b) => Tokens(n, SemOf(f, a)) = Tokens(m, SemOf(f, a))
  <2> SUFFICES ASSUME NEW f \in Fifos, NEW a \in Side, ~(f = g /\ a = b)
               PROVE  Tokens(n, SemOf(f, a)) = Tokens(m, SemOf(f, a))
    OBVIOUS
  <2>1. SemOf(f, a) \in Sems /\ SemOf(f, a) # SemOf(g, b)
    BY SemsOfQueues
  <2> QED BY <1>1, <2>1 DEF Tokens
<1>3. Tokens(n, SemOf(g, b)) = Tokens(m, SemOf(g, b)) - 1 /\ Tokens(m, SemOf(g, b)) \in Nat
  BY <1>1 DEF Tokens
<1>4. \A f \in Fifos, a \in Side : Slots(r, f, a) \in Nat /\ Tokens(m, SemOf(f, a)) \in Nat
  BY SlotTypes
<1>5. Other(b) \in Side /\ Other(b) # b
  BY SemsOfQueues
<1>6. \A a \in {b, Other(b)} :
        Slots(r, g, a) = Slots(r, g, a) + (Tokens(n, SemOf(g, a)) - Tokens(m, SemOf(g, a)))
                            + One(Works(t \in n.grant, p[t], g, a)) - One(Works(t \in m.grant, o[t], g, a))
  <2>1. /\ One(Works(t \in n.grant, p[t], g, b)) = 1 /\ One(Works(t \in m.grant, o[t], g, b)) = 0
        /\ One(Works(t \in n.grant, p[t], g, Other(b))) = 0 /\ One(Works(t \in m.grant, o[t], g, Other(b))) = 0
    BY <1>5 DEF One
  <2>2. Slots(r, g, b) \in Nat /\ Slots(r, g, Other(b)) \in Nat /\ Tokens(m, SemOf(g, Other(b))) \in Nat
    BY <1>4, <1>5
  <2>3. Tokens(n, SemOf(g, Other(b))) = Tokens(m, SemOf(g, Other(b)))
    BY <1>2, <1>5
  <2>4. Slots(r, g, b) = Slots(r, g, b) + (Tokens(n, SemOf(g, b)) - Tokens(m, SemOf(g, b)))
                         + One(Works(t \in n.grant, p[t], g, b)) - One(Works(t \in m.grant, o[t], g, b))
    BY <1>3, <2>1, <2>2
  <2> DEFINE z == Other(b)
  <2>5. Slots(r, g, z) = Slots(r, g, z) + (Tokens(n, SemOf(g, z)) - Tokens(m, SemOf(g, z)))
                         + One(Works(t \in n.grant, p[t], g, z)) - One(Works(t \in m.grant, o[t], g, z))
    BY <2>1, <2>2, <2>3
  <2> QED BY <2>4, <2>5
<1>7. \A f \in Fifos \ {g}, a \in Side :
           /\ Slots(r, f, a) = Slots(r, f, a) /\ Tokens(n, SemOf(f, a)) = Tokens(m, SemOf(f, a))
           /\ Works(t \in n.grant, p[t], f, a) <=> Works(t \in m.grant, o[t], f, a)
  BY <1>2
<1> QED BY <1>6, <1>7, BalancedAt

\* A thread outside of queue operations.
Free(b) == b = NoFop \/ \E x \in BOOLEAN : b = [NoFop EXCEPT !.drained = x]

\* It has no slot, no lock, and may be in any other service.
LEMMA Nowhere ==
  ASSUME NEW b, Free(b)
  PROVE  /\ b \in Fop /\ b.op = "none" /\ b.pc = "run" /\ b.op \notin Side /\ ~Locked(b)
         /\ \A e : e.op # "sem" => Place(e, b)
         /\ \A g, f : \A a \in Side : ~Works(g, b, f, a)
<1>1. b \in Fop /\ b.op = "none" /\ b.pc = "run"
  <2>1. CASE b = NoFop
    BY <2>1 DEF NoFop, Fop
  <2>2. CASE \E x \in BOOLEAN : b = [NoFop EXCEPT !.drained = x]
    BY <2>2 DEF NoFop, Fop
  <2> QED BY <2>1, <2>2 DEF Free
<1>2. ~Locked(b) /\ b.op \notin Side
  BY <1>1 DEF Locked, Side
<1>3. \A e : e.op # "sem" => Place(e, b)
  BY <1>1, <1>2 DEF Place
<1>4. \A g, f : \A a \in Side : ~Works(g, b, f, a)
  BY <1>1 DEF Works, Side, Other
<1> QED BY <1>1, <1>2, <1>3, <1>4

\* The places outside of queue operations.
LEMMA FreePlaces ==
  /\ Free(NoFop)
  /\ \A x \in BOOLEAN : Free([NoFop EXCEPT !.drained = x])
BY DEF Free

\* The place a thread goes to in its operation.
LEMMA Moved ==
  ASSUME NEW c \in Fop, NEW x \in {"wait", "copy", "locked", "unlock", "lock", "signal", "raise", "end"},
         NEW b, b = [c EXCEPT !.pc = x]
  PROVE  /\ b \in Fop /\ b.op = c.op /\ b.f = c.f /\ b.item = c.item /\ b.pc = x
         /\ Takes(b) = Takes(c)
<1>1. b \in Fop /\ b.op = c.op /\ b.f = c.f /\ b.item = c.item /\ b.pc = x
  BY DEF Fop
<1> QED BY <1>1 DEF Takes

\* The slot a thread in an operation has, if any.
LEMMA WorksOf ==
  ASSUME NEW b, b.op \in Side, NEW g, NEW f, NEW a \in Side
  PROVE  Works(g, b, f, a) <=> /\ b.f = f
                               /\ IF a = b.op THEN b.pc \in {"copy", "locked"} \/ (b.pc = "wait" /\ g)
                                  ELSE b.pc \in {"unlock", "lock", "signal"}
BY DEF Works, Side, Other

\* What the invariant says of the current thread.
LEMMA ThreadFacts ==
  ASSUME NEW m, NEW c, NEW r, NEW o, QueuesOK(m, c, r, o), KernelOK(m, c), NEW t \in Task, t = m.currp
  PROVE  /\ Place(c[t], o[t]) /\ HeldOK(m, o) /\ GrantOK(m, c) /\ OpenOK(m, o) /\ SlotsOK(m, r, o)
         /\ DOMAIN o = Task /\ DOMAIN r = Fifos /\ RingOK(r)
         /\ m.value \in [Sems -> Int] /\ m.grant \subseteq Task /\ Shape(m)
         /\ m.sched_lock = One(Locked(o[t]))
<1>1. /\ Place(c[t], o[t]) /\ HeldOK(m, o) /\ GrantOK(m, c) /\ OpenOK(m, o) /\ SlotsOK(m, r, o)
      /\ DOMAIN o = Task /\ DOMAIN r = Fifos /\ RingOK(r)
  BY DEF QueuesOK, PlaceOK
<1>2. m \in Kernel /\ Shape(m)
  BY KernelShape
<1>3. m.value \in [Sems -> Int] /\ m.grant \subseteq Task
  BY <1>2 DEF Kernel
<1> QED BY <1>1, <1>2, <1>3, HeldNow

\* The current thread takes the token it asked for ...
LEMMA TokenTaken ==
  ASSUME NEW m, NEW c, KernelOK(m, c), NEW r, NEW o, QueuesOK(m, c, r, o), NEW n, NEW d, NEW b, NEW p,
         NEW t \in Task, t = m.currp, t \notin m.grant, m.sched_lock = 0,
         o[t].op = "none" \/ o[t].pc = "wait",
         NEW s \in Sems, m.value[s] > 0, Only(m, n, {"value"}), n.value = [m.value EXCEPT ![s] = @ - 1],
         b \in Fop, b.op \in Side, b.f \in Fifos, b.pc = "copy", b.op = "write" => b.item \in Item,
         s = Takes(b), IsOpen(m, b.f), Goes(o, p, t, b),
         d[t].op = "none", \A u \in Task \ {t} : d[u] = c[u]
  PROVE  QueuesOK(n, d, r, p)
<1>0. /\ Place(c[t], o[t]) /\ DOMAIN o = Task /\ DOMAIN r = Fifos /\ RingOK(r)
      /\ m.value \in [Sems -> Int] /\ m.grant \subseteq Task
  BY ThreadFacts
<1>1. n.grant = m.grant /\ n.wait_aborted = m.wait_aborted /\ n.sched_lock = 0
  BY DEF Only, Fields
<1>2. ~Locked(b) /\ Place(d[t], b)
  <2>1. ~Locked(b)
    BY DEF Locked
  <2> QED BY <2>1 DEF Place, Side
<1>3. \A f \in Fifos, x \in Side : /\ Works(t \in n.grant, p[t], f, x) <=> (f = b.f /\ x = b.op)
                                   /\ ~Works(t \in m.grant, o[t], f, x)
  <2> SUFFICES ASSUME NEW f \in Fifos, NEW x \in Side
               PROVE  /\ Works(t \in n.grant, p[t], f, x) <=> (f = b.f /\ x = b.op)
                      /\ ~Works(t \in m.grant, o[t], f, x)
    OBVIOUS
  <2>1. Works(t \in n.grant, b, f, x) <=> (f = b.f /\ x = b.op)
    BY DEF Works, Side, Other
  <2>2. ~Works(t \in m.grant, o[t], f, x)
    BY <1>0 DEF Works, Side, Other
  <2> QED BY <2>1, <2>2 DEF Goes
<1>4. Balanced(m, r, o, n, r, p, t)
  <2> DEFINE g == b.f
             y == b.op
             v == SemOf(g, y)
  <2>1. s = v
    BY SemsOfQueues
  <2>2. /\ g \in Fifos /\ y \in Side /\ m.value[v] > 0 /\ n.value = [m.value EXCEPT ![v] = @ - 1]
        /\ \A f \in Fifos, x \in Side : /\ Works(t \in n.grant, p[t], f, x) <=> (f = g /\ x = y)
                                        /\ ~Works(t \in m.grant, o[t], f, x)
    BY <1>3, <2>1
  <2> HIDE DEF g, y
  <2> QED BY <1>0, <2>2, BalancedTake
<1>5. n.value \in [Sems -> Int] /\ n.sched_lock = One(Locked(b)) /\ n.grant \subseteq Task
  BY <1>0, <1>1, <1>2 DEF One
<1>6. /\ (b.op = "destroy" /\ b.pc = "locked") => Closing(n, d, r, p, t, b.f)
      /\ t \in n.grant => d[t].op = "sem" /\ d[t].pc \in {"yield", "after"}
      /\ (b.op \in Side /\ (b.pc \notin {"wait", "end"} \/ t \in n.grant)) => IsOpen(m, b.f)
      /\ \A u \in Task \ {t} : u \in n.grant <=> u \in m.grant
  BY <1>1
<1> DEFINE F == {"value"}
<1>7. Only(m, n, F) /\ F \cap {"live", "currp", "evt"} = {} /\ \A u \in Task : n.wait_aborted[u] => m.wait_aborted[u]
  BY <1>1
<1> HIDE DEF F
<1> QED BY <1>0, <1>2, <1>4, <1>5, <1>6, <1>7, OwnOnly

\* ... or leaves the operation without one.
LEMMA NoToken ==
  ASSUME NEW m, NEW c, KernelOK(m, c), NEW r, NEW o, QueuesOK(m, c, r, o), NEW n, NEW d, NEW b, NEW p,
         NEW t \in Task, t = m.currp, t \notin m.grant, m.sched_lock = 0,
         o[t].op = "none" \/ o[t].pc = "wait",
         NEW F, Only(m, n, F), F \cap {"live", "currp", "evt", "sched_lock"} = {}, n.value = m.value,
         n.grant = m.grant, \A u \in Task : n.wait_aborted[u] => m.wait_aborted[u],
         Free(b), Goes(o, p, t, b),
         d[t].op = "none", \A u \in Task \ {t} : d[u] = c[u]
  PROVE  QueuesOK(n, d, r, p)
<1>0. /\ Place(c[t], o[t]) /\ DOMAIN o = Task /\ DOMAIN r = Fifos /\ RingOK(r)
      /\ m.value \in [Sems -> Int] /\ m.grant \subseteq Task
  BY ThreadFacts
<1>1. n.sched_lock = 0
  BY DEF Only, Fields
<1>2. /\ b \in Fop /\ b.op = "none" /\ b.pc = "run" /\ b.op \notin Side /\ ~Locked(b)
      /\ \A e : e.op # "sem" => Place(e, b)
      /\ \A g, f : \A a \in Side : ~Works(g, b, f, a)
  BY Nowhere
<1>4. \A f \in Fifos, a \in Side :
        /\ Tokens(n, SemOf(f, a)) = Tokens(m, SemOf(f, a))
        /\ Works(t \in n.grant, p[t], f, a) <=> Works(t \in m.grant, o[t], f, a)
  <2> SUFFICES ASSUME NEW f \in Fifos, NEW a \in Side
               PROVE  /\ Tokens(n, SemOf(f, a)) = Tokens(m, SemOf(f, a))
                      /\ Works(t \in n.grant, p[t], f, a) <=> Works(t \in m.grant, o[t], f, a)
    OBVIOUS
  <2>1. ~Works(t \in n.grant, p[t], f, a)
    BY <1>2 DEF Goes
  <2>2. ~Works(t \in m.grant, o[t], f, a)
    BY <1>0 DEF Works, Side, Other
  <2>3. Tokens(n, SemOf(f, a)) = Tokens(m, SemOf(f, a))
    BY DEF Tokens
  <2> QED BY <2>1, <2>2, <2>3
<1>5. Balanced(m, r, o, n, r, p, t)
  BY <1>0, <1>4, BalancedSame
<1>6. n.value \in [Sems -> Int] /\ n.sched_lock = One(Locked(b)) /\ n.grant \subseteq Task
  BY <1>0, <1>1, <1>2 DEF One
<1>7. /\ (b.op = "destroy" /\ b.pc = "locked") => Closing(n, d, r, p, t, b.f)
      /\ t \in n.grant => d[t].op = "sem" /\ d[t].pc \in {"yield", "after"}
      /\ (b.op \in Side /\ (b.pc \notin {"wait", "end"} \/ t \in n.grant)) => IsOpen(m, b.f)
      /\ Place(d[t], b)
  BY <1>2
<1>8. F \cap {"live", "currp", "evt"} = {} /\ \A u \in Task \ {t} : u \in n.grant <=> u \in m.grant
  OBVIOUS
<1> QED BY <1>0, <1>5, <1>6, <1>7, <1>8, OwnOnly

\* A step of fop to b.
LEMMA GoesTo ==
  ASSUME NEW o, DOMAIN o = Task, NEW t \in Task, NEW b
  PROVE  Goes(o, [o EXCEPT ![t] = b], t, b)
BY DEF Goes

\* A thread begins to wait for its token.
LEMMA BeginWait ==
  ASSUME NEW m, NEW c, KernelOK(m, c), NEW r, NEW o, QueuesOK(m, c, r, o), NEW d, NEW b, NEW p,
         NEW t \in Task, t = m.currp, t \notin m.grant, m.sched_lock = 0, o[t].op = "none",
         b \in Fop, b.op \in Side, b.f \in Fifos, b.pc = "wait", b.op = "write" => b.item \in Item,
         Goes(o, p, t, b), d[t].op = "sem", d[t].o = Takes(b), \A u \in Task \ {t} : d[u] = c[u]
  PROVE  QueuesOK(m, d, r, p)
<1>0. /\ DOMAIN r = Fifos /\ RingOK(r) /\ m.value \in [Sems -> Int] /\ m.grant \subseteq Task
  BY ThreadFacts
<1>1. ~Locked(b) /\ Place(d[t], b)
  <2>1. ~Locked(b)
    BY DEF Locked
  <2> QED BY <2>1 DEF Place, Side
<1>2. \A f \in Fifos, a \in Side :
        /\ Tokens(m, SemOf(f, a)) = Tokens(m, SemOf(f, a))
        /\ Works(t \in m.grant, p[t], f, a) <=> Works(t \in m.grant, o[t], f, a)
  <2> SUFFICES ASSUME NEW f \in Fifos, NEW a \in Side
               PROVE  Works(t \in m.grant, p[t], f, a) <=> Works(t \in m.grant, o[t], f, a)
    OBVIOUS
  <2>1. ~Works(t \in m.grant, b, f, a)
    BY DEF Works, Side, Other
  <2>2. ~Works(t \in m.grant, o[t], f, a)
    BY DEF Works, Side, Other
  <2> QED BY <2>1, <2>2 DEF Goes
<1>3. Balanced(m, r, o, m, r, p, t)
  BY <1>0, <1>2, BalancedSame
<1>4. /\ (b.op = "destroy" /\ b.pc = "locked") => Closing(m, d, r, p, t, b.f)
      /\ t \in m.grant => d[t].op = "sem" /\ d[t].pc \in {"yield", "after"}
      /\ (b.op \in Side /\ (b.pc \notin {"wait", "end"} \/ t \in m.grant)) => IsOpen(m, b.f)
      /\ m.sched_lock = One(Locked(b)) /\ \A u \in Task \ {t} : u \in m.grant <=> u \in m.grant
      /\ \A u \in Task : m.wait_aborted[u] => m.wait_aborted[u]
  BY <1>1 DEF One
<1> DEFINE F == {}
<1>5. Only(m, m, F) /\ F \cap {"live", "currp", "evt"} = {}
  BY DEF Only
<1> HIDE DEF F
<1> QED BY <1>0, <1>1, <1>3, <1>4, <1>5, OwnOnly

\* isix_fifo_write and isix_fifo_read begin.
LEMMA StartQueues ==
  ASSUME BaseOK(k, call), QueuesOK(k, call, ring, fop), NEW t \in Task, NEW a \in Fop, NEW timeout,
         a.op \in Side, a.f \in Fifos, a.op = "write" => a.item \in Item, FifoStart(t, a, timeout)
  PROVE  QueuesOK(k', call', ring', fop')
<1> DEFINE l == k'
           d == call'
           p == fop'
           s == Takes(a)
<1>0. KernelOK(k, call) /\ call \in [Task -> Call] /\ fop[t].op = "none" /\ IsOpen(k, a.f) /\ ring' = ring /\ s \in Sems
      /\ Running(t) /\ GrantOK(k, call)
  <2>1. KernelOK(k, call) /\ call \in [Task -> Call]
    BY KernelShape DEF BaseOK
  <2> QED BY <2>1, SemsOfQueues DEF FifoStart, SemWait, MayBlock, IsOpen, Open, QueuesOK
<1>1. t = k.currp /\ call[t].op = "none"
  BY <1>0, RunningFree
<1>2. /\ DOMAIN fop = Task /\ k.value \in [Sems -> Int] /\ Shape(k) /\ k.sched_lock = One(Locked(fop[t]))
  BY <1>0, <1>1, ThreadFacts
<1>3. k.sched_lock = 0 /\ t \notin k.grant
  <2>1. ~Locked(fop[t])
    BY <1>0 DEF Locked
  <2> QED BY <1>0, <1>1, <1>2, <2>1 DEF One, GrantOK
<1>4. CASE timeout # DontWait
  <2> DEFINE b == [a EXCEPT !.pc = "wait"]
  <2>1. SemWait(t, Takes(a), timeout) /\ p = [fop EXCEPT ![t] = b]
    BY <1>4 DEF FifoStart
  <2>2. Goes(fop, p, t, b)
    BY <1>2, <2>1, GoesTo
  <2>3. b \in Fop /\ b.op = a.op /\ b.f = a.f /\ b.item = a.item /\ b.pc = "wait" /\ Takes(b) = s
    BY Moved
  <2>4. l = k /\ d[t].op = "sem" /\ d[t].o = s /\ \A u \in Task \ {t} : d[u] = call[u]
    BY <1>0, <2>1 DEF SemWait, NoCall
  <2> HIDE DEF b, l, d, p, s
  <2>5. QueuesOK(k, d, ring, p)
    BY <1>0, <1>1, <1>3, <2>2, <2>3, <2>4, BeginWait
  <2> QED BY <1>0, <2>4, <2>5 DEF l, d, p
<1>5. CASE timeout = DontWait
  <2>1. /\ d = call /\ l = [k EXCEPT !.value[s] = sem_trydec(@)]
        /\ fop' = [fop EXCEPT ![t] = IF k.value[s] > 0 THEN [a EXCEPT !.pc = "copy"] ELSE [NoFop EXCEPT !.drained = t \in Poller]]
    BY <1>5 DEF FifoStart, SemTryWait, Taken
  <2>2. Only(k, l, {"value"}) /\ l.value = [k.value EXCEPT ![s] = sem_trydec(k.value[s])]
    <3> HIDE DEF l, s
    <3> QED BY <1>0, <1>2, <2>1 DEF Only, Fields, Shape
  <2>3. d[t].op = "none" /\ \A u \in Task \ {t} : d[u] = call[u]
    BY <1>1, <2>1
  <2>4. CASE k.value[s] > 0
    <3> DEFINE b == [a EXCEPT !.pc = "copy"]
    <3>1. Goes(fop, p, t, b)
      BY <1>2, <2>1, <2>4, GoesTo
    <3>2. b \in Fop /\ b.op = a.op /\ b.f = a.f /\ b.item = a.item /\ b.pc = "copy" /\ Takes(b) = s
      BY Moved
    <3>3. l.value = [k.value EXCEPT ![s] = @ - 1]
      BY <2>2, <2>4 DEF sem_trydec
    <3> HIDE DEF b, l, d, p, s
    <3>4. QueuesOK(l, d, ring, p)
      BY <1>0, <1>1, <1>3, <2>2, <2>3, <2>4, <3>1, <3>2, <3>3, TokenTaken
    <3> QED BY <1>0, <3>4 DEF l, d, p
  <2>5. CASE ~(k.value[s] > 0)
    <3> DEFINE b == [NoFop EXCEPT !.drained = t \in Poller]
               F == {"value"}
    <3>1. Goes(fop, p, t, b)
      BY <1>2, <2>1, <2>5, GoesTo
    <3>2. Free(b)
      <4> DEFINE x == t \in Poller
      <4>1. x \in BOOLEAN
        OBVIOUS
      <4> HIDE DEF x
      <4>2. Free([NoFop EXCEPT !.drained = x])
        BY <4>1, FreePlaces
      <4> QED BY <4>2 DEF x
    <3>3. l.value = k.value
      BY <1>0, <1>2, <2>2, <2>5 DEF sem_trydec
    <3>4. l.grant = k.grant /\ l.wait_aborted = k.wait_aborted
      BY <2>2 DEF Only, Fields
    <3>5. Only(k, l, F) /\ F \cap {"live", "currp", "evt", "sched_lock"} = {}
      BY <2>2
    <3> HIDE DEF b, l, d, p, s, F
    <3>6. QueuesOK(l, d, ring, p)
      BY <1>0, <1>1, <1>3, <2>3, <3>1, <3>2, <3>3, <3>4, <3>5, NoToken
    <3> QED BY <1>0, <3>6 DEF l, d, p
  <2> QED BY <2>4, <2>5
<1> QED BY <1>4, <1>5

\* What blocking for a token changes.
LEMMA SemBlockFields ==
  ASSUME NEW n, Shape(n), NEW t \in Task, t = n.currp, NEW s, NEW tout, NEW r, r = sem_block(n, s, tout)
  PROVE  /\ Only(n, r, {"obj", "wait_aborted", "grant", "ready", "state", "deadline", "left", "p_wait",
                        "pov_wait", "wait_list"})
         /\ r.grant = n.grant \ {t} /\ \A u \in Task : r.wait_aborted[u] => n.wait_aborted[u]
<1> DEFINE a == [n EXCEPT !.obj = [@ EXCEPT ![t] = s], !.wait_aborted = [@ EXCEPT ![t] = FALSE],
                          !.grant = @ \ {t}]
           b == set_sleep_timeout(a, "WTSEM", tout)
<1>1. r = add_to_prio_queue(b, s, t)
  BY DEF sem_block
<1>2. /\ Shape(a) /\ Only(n, a, {"obj", "wait_aborted", "grant"}) /\ a.currp = t
      /\ a.grant = n.grant \ {t} /\ \A u \in Task : a.wait_aborted[u] => n.wait_aborted[u]
  BY DEF Shape, Only, Fields
<1> HIDE DEF a
<1>3. Shape(b) /\ Only(a, b, {"ready", "state", "deadline", "left", "p_wait", "pov_wait"})
  <2> DEFINE st == "WTSEM"
  <2>1. st \in State /\ a.currp \in Task
    BY <1>2 DEF State
  <2> HIDE DEF st
  <2>2. LET z == set_sleep_timeout(a, st, tout) IN
        /\ Shape(z) /\ Only(a, z, {"ready", "state", "deadline", "left", "p_wait", "pov_wait"})
        /\ z.state = [a.state EXCEPT ![a.currp] = st]
    BY <1>2, <2>1, SleepFields
  <2> QED BY <2>2 DEF st
<1> HIDE DEF b
<1>4. Only(b, r, {"wait_list"})
  BY <1>1, <1>3, QueueFields
<1>5. r.wait_aborted = a.wait_aborted /\ r.grant = a.grant
  BY <1>3, <1>4 DEF Only, Fields
<1>6. Only(n, r, {"obj", "wait_aborted", "grant", "ready", "state", "deadline", "left", "p_wait",
                  "pov_wait", "wait_list"})
  BY <1>2, <1>3, <1>4 DEF Only
<1> QED BY <1>2, <1>5, <1>6

\* In isix_sem_wait: the token is there, the time is over, or the thread blocks.
LEMMA WaitEnterQueues ==
  ASSUME BaseOK(k, call), QueuesOK(k, call, ring, fop), NEW t \in Task, FifoWaitEnter(t)
  PROVE  QueuesOK(k', call', ring', fop')
<1> DEFINE l == k'
           d == call'
           p == fop'
           a == fop[t]
           s == Takes(a)
           m == [k EXCEPT !.value[s] = @ - 1]
<1>0. /\ KernelOK(k, call) /\ a.op # "none" /\ a.pc = "wait" /\ SemWaitEnter(t) /\ ring' = ring
      /\ Exec(t) /\ call[t].op = "sem" /\ call[t].pc = "enter"
  BY DEF BaseOK, FifoWaitEnter, At, SemWaitEnter
<1>1. /\ t = k.currp /\ k.sched_lock = 0 /\ call \in [Task -> Call] /\ (call[t].o \in Object => call[t].o \in k.live)
  BY <1>0, EnterUp DEF Blocking
<1>2. /\ DOMAIN fop = Task /\ k.value \in [Sems -> Int] /\ Shape(k) /\ Place(call[t], a) /\ GrantOK(k, call)
      /\ OpenOK(k, fop)
  BY <1>0, <1>1, ThreadFacts
<1>3. a \in Fop /\ a.op \in Side /\ a.f \in Fifos /\ (a.op = "write" => a.item \in Item) /\ call[t].o = s
  BY <1>0, <1>2 DEF Place
<1>4. s \in Sems /\ s = SemOf(a.f, a.op) /\ SemLimit[s] = 0
  BY <1>3, SemsOfQueues
<1>5. s \in k.live /\ IsOpen(k, a.f)
  <2>1. s \in k.live
    BY <1>1, <1>3, <1>4, SyncObjects
  <2> QED BY <1>2, <1>3, <1>4, <2>1, OpenSides
<1>6. t \notin k.grant
  BY <1>0, <1>2 DEF GrantOK
<1>7. /\ Shape(m) /\ Only(k, m, {"value"}) /\ m.value = [k.value EXCEPT ![s] = k.value[s] - 1]
      /\ m.value[s] = k.value[s] - 1 /\ m.currp = k.currp
  <2> HIDE DEF s
  <2> QED BY <1>2, <1>4 DEF Only, Fields, Shape
<1> HIDE DEF m
<1>8. CASE m.value[s] >= 0 /\ l = m /\ d = [call EXCEPT ![t] = NoCall]
  <2> DEFINE b == [a EXCEPT !.pc = "copy"]
  <2>1. d[t].op = "none" /\ \A u \in Task \ {t} : d[u] = call[u]
    BY <1>1, <1>8 DEF NoCall
  <2>2. k.value[s] > 0
    BY <1>2, <1>4, <1>7, <1>8
  <2>3. p = [fop EXCEPT ![t] = b]
    BY <2>1, <2>2 DEF FifoWaitEnter, Taken
  <2>4. Goes(fop, p, t, b)
    BY <1>2, <2>3, GoesTo
  <2>5. b \in Fop /\ b.op = a.op /\ b.f = a.f /\ b.item = a.item /\ b.pc = "copy" /\ Takes(b) = s
    BY <1>3, Moved
  <2>6. a.op = "none" \/ a.pc = "wait"
    BY <1>0
  <2>7. l.value = [k.value EXCEPT ![s] = @ - 1] /\ Only(k, l, {"value"})
    BY <1>7, <1>8
  <2> HIDE DEF b, l, d, p, s
  <2>8. QueuesOK(l, d, ring, p)
    BY <1>0, <1>1, <1>3, <1>4, <1>5, <1>6, <2>1, <2>2, <2>4, <2>5, <2>6, <2>7, TokenTaken
  <2> QED BY <1>0, <2>8 DEF l, d, p
<1>9. CASE m.value[s] < 0 /\ l = sem_fast_signal(m, s) /\ d = [call EXCEPT ![t] = NoCall]
  <2> DEFINE b == [NoFop EXCEPT !.drained = t \in Poller]
             F == {"value"}
  <2>1. d[t].op = "none" /\ \A u \in Task \ {t} : d[u] = call[u]
    BY <1>1, <1>9 DEF NoCall
  <2>2. ~(k.value[s] > 0)
    BY <1>2, <1>4, <1>7, <1>9
  <2>3. p = [fop EXCEPT ![t] = b]
    BY <2>1, <2>2 DEF FifoWaitEnter, Taken
  <2>4. Goes(fop, p, t, b)
    BY <1>2, <2>3, GoesTo
  <2>5. Free(b)
    <3> DEFINE x == t \in Poller
    <3>1. x \in BOOLEAN
      OBVIOUS
    <3> HIDE DEF x
    <3>2. Free([NoFop EXCEPT !.drained = x])
      BY <3>1, FreePlaces
    <3> QED BY <3>2 DEF x
  <2> HIDE DEF s, l
  <2>6. Only(m, l, {"value"}) /\ l.value = [m.value EXCEPT ![s] = sem_inc(m.value[s], SemLimit[s], 1)]
    BY <1>7, <1>9 DEF sem_fast_signal, Only, Fields, Shape
  <2>7. sem_inc(m.value[s], SemLimit[s], 1) = k.value[s]
    BY <1>2, <1>4, <1>7 DEF sem_inc
  <2>8. l.value = k.value
    BY <1>2, <1>4, <1>7, <2>6, <2>7
  <2>9. Only(k, l, F) /\ F \cap {"live", "currp", "evt", "sched_lock"} = {}
    BY <1>7, <2>6 DEF Only
  <2>10. l.grant = k.grant /\ l.wait_aborted = k.wait_aborted
    BY <2>9 DEF Only, Fields
  <2>11. fop[t].op = "none" \/ fop[t].pc = "wait"
    BY <1>0
  <2> HIDE DEF b, l, d, p, s, F, a
  <2>12. QueuesOK(l, d, ring, p)
    BY <1>0, <1>1, <1>6, <2>1, <2>4, <2>5, <2>8, <2>9, <2>10, <2>11, NoToken
  <2> QED BY <1>0, <2>12 DEF l, d, p
<1>10. CASE m.value[s] < 0 /\ (\E tout : l = sem_block(m, s, tout)) /\ d = [call EXCEPT ![t].pc = "yield"]
  <2>1. d[t].op = "sem" /\ d[t].o = call[t].o /\ d[t].pc = "yield" /\ \A u \in Task \ {t} : d[u] = call[u]
    BY <1>0, <1>1, <1>10 DEF Call
  <2>2. p = fop
    BY <2>1 DEF FifoWaitEnter
  <2> DEFINE G == {"obj", "wait_aborted", "grant", "ready", "state", "deadline", "left", "p_wait",
                   "pov_wait", "wait_list"}
             F == G \cup {"value"}
  <2> HIDE DEF l, s
  <2>3. Only(m, l, G) /\ l.grant = m.grant \ {t} /\ \A u \in Task : l.wait_aborted[u] => m.wait_aborted[u]
    <3>1. PICK tout : l = sem_block(m, s, tout)
      BY <1>10
    <3> QED BY <1>1, <1>7, <3>1, SemBlockFields
  <2>4. l.value = m.value /\ m.grant = k.grant /\ m.wait_aborted = k.wait_aborted /\ l.live = k.live
        /\ l.sched_lock = k.sched_lock /\ l.currp = k.currp /\ l.evt = k.evt
    BY <1>7, <2>3 DEF Only, Fields
  <2>5. l.grant = k.grant
    BY <1>6, <2>3, <2>4
  <2>6. SameTokens(k, l)
    <3>1. \A v \in Sems \ {s} : l.value[v] = k.value[v]
      BY <1>2, <1>4, <1>7, <2>4
    <3>2. l.value[s] < 0 /\ ~(k.value[s] > 0)
      BY <1>2, <1>4, <1>7, <1>10, <2>4
    <3>3. Tokens(l, s) = 0 /\ Tokens(k, s) = 0
      BY <1>2, <1>4, <1>7, <2>4, <3>2 DEF Tokens
    <3> QED BY <3>1, <3>3 DEF SameTokens, Tokens
  <2>7. l.value \in [Sems -> Int] /\ k.grant \subseteq Task
    BY <1>0, <1>1, <1>2, <1>4, <1>7, <2>4, ThreadFacts
  <2>8. (\A u \in Task : ~l.wait_aborted[u]) /\ \A v \in Sems : l.evt[v] = Null
    BY <1>2, <2>3, <2>4 DEF GrantOK
  <2>9. ~Locked(fop[t])
    BY <1>0, NotLocked
  <2>10. /\ d[t].op = "sem" <=> call[t].op = "sem"
         /\ call[t].op = "sem" => /\ d[t].o = call[t].o
                                  /\ call[t].pc \in {"yield", "after"} => d[t].pc \in {"yield", "after"}
    BY <1>0, <2>1
  <2> HIDE DEF d, p, a
  <2>11. QueuesOK(l, d, ring, fop)
    BY <1>1, <1>2, <2>1, <2>4, <2>5, <2>6, <2>7, <2>8, <2>9, <2>10, CalmThread
  <2> QED BY <1>0, <2>2, <2>11 DEF l, d, p
<1> QED
  <2>1. \/ m.value[s] >= 0 /\ l = m /\ d = [call EXCEPT ![t] = NoCall]
        \/ m.value[s] < 0 /\ l = sem_fast_signal(m, s) /\ d = [call EXCEPT ![t] = NoCall]
        \/ m.value[s] < 0 /\ (\E tout : l = sem_block(m, s, tout)) /\ d = [call EXCEPT ![t].pc = "yield"]
    BY <1>0, <1>3 DEF SemWaitEnter, m
  <2> QED BY <1>8, <1>9, <1>10, <2>1

\* A thread that goes on in its operation, without tokens, slots or the lock.
LEMMA PlaceStep ==
  ASSUME NEW m, NEW c, KernelOK(m, c), NEW r, NEW o, QueuesOK(m, c, r, o), NEW n, NEW d, NEW b, NEW p,
         NEW F, Only(m, n, F), F \cap {"live", "currp", "evt"} = {}, n.value = m.value,
         \A u \in Task : n.wait_aborted[u] => m.wait_aborted[u],
         NEW t \in Task, t = m.currp, n.grant = m.grant \ {t}, Goes(o, p, t, b), \A u \in Task \ {t} : d[u] = c[u],
         Place(d[t], b), n.sched_lock = One(Locked(b)),
         (b.op \in Side /\ b.pc \notin {"wait", "end"}) => IsOpen(m, b.f),
         ~(b.op = "destroy" /\ b.pc = "locked"),
         \A f \in Fifos, a \in Side : Works(FALSE, b, f, a) <=> Works(t \in m.grant, o[t], f, a)
  PROVE  QueuesOK(n, d, r, p)
<1>0. /\ DOMAIN r = Fifos /\ RingOK(r) /\ m.value \in [Sems -> Int] /\ m.grant \subseteq Task
  BY ThreadFacts
<1>1. t \notin n.grant /\ n.grant \subseteq Task /\ \A u \in Task \ {t} : u \in n.grant <=> u \in m.grant
  BY <1>0
<1>2. \A f \in Fifos, a \in Side :
        /\ Tokens(n, SemOf(f, a)) = Tokens(m, SemOf(f, a))
        /\ Works(t \in n.grant, p[t], f, a) <=> Works(t \in m.grant, o[t], f, a)
  <2> SUFFICES ASSUME NEW f \in Fifos, NEW a \in Side
               PROVE  /\ Tokens(n, SemOf(f, a)) = Tokens(m, SemOf(f, a))
                      /\ Works(t \in n.grant, p[t], f, a) <=> Works(t \in m.grant, o[t], f, a)
    OBVIOUS
  <2>1. Tokens(n, SemOf(f, a)) = Tokens(m, SemOf(f, a))
    BY DEF Tokens
  <2>2. Works(t \in n.grant, p[t], f, a) <=> Works(FALSE, b, f, a)
    BY <1>1 DEF Goes, Works
  <2> QED BY <2>1, <2>2
<1>3. Balanced(m, r, o, n, r, p, t)
  BY <1>0, <1>2, BalancedSame
<1>4. /\ (b.op = "destroy" /\ b.pc = "locked") => Closing(n, d, r, p, t, b.f)
      /\ t \in n.grant => d[t].op = "sem" /\ d[t].pc \in {"yield", "after"}
      /\ (b.op \in Side /\ (b.pc \notin {"wait", "end"} \/ t \in n.grant)) => IsOpen(m, b.f)
  BY <1>1
<1> QED BY <1>0, <1>1, <1>3, <1>4, OwnOnly

\* Back from the wait: the thread has the token it was told of.
LEMMA WaitReturnQueues ==
  ASSUME BaseOK(k, call), QueuesOK(k, call, ring, fop), NEW t \in Task, FifoWaitReturn(t)
  PROVE  QueuesOK(k', call', ring', fop')
<1> DEFINE l == k'
           d == call'
           p == fop'
           a == fop[t]
           F == {"obj", "evbits", "wait_aborted", "grant"}
           b == IF k.obj[t] = EOK THEN [a EXCEPT !.pc = "copy"] ELSE [NoFop EXCEPT !.drained = t \in Poller]
<1>0. /\ KernelOK(k, call) /\ a.op # "none" /\ a.pc = "wait" /\ SemWaitReturn(t) /\ ring' = ring
      /\ Exec(t) /\ call[t].op = "sem" /\ call[t].pc = "after" /\ ToldOK(k, call)
  BY DEF BaseOK, FifoWaitReturn, At, SemWaitReturn
<1>1. /\ t = k.currp /\ call \in [Task -> Call] /\ k.state[t] # "WTSEM"
  BY <1>0, ExecUp DEF Up
<1>2. /\ DOMAIN fop = Task /\ Place(call[t], a) /\ GrantOK(k, call) /\ OpenOK(k, fop) /\ k.sched_lock = One(Locked(a))
  BY <1>0, <1>1, ThreadFacts
<1>3. a \in Fop /\ a.op \in Side /\ a.f \in Fifos /\ (a.op = "write" => a.item \in Item)
  BY <1>0, <1>2 DEF Place
<1>4. k.obj[t] = EOK <=> t \in k.grant
  BY <1>0, <1>1, <1>2 DEF ToldOK, Told, TokenTold, GrantOK
<1>5. l = leave(k, t) /\ d = [call EXCEPT ![t] = NoCall]
  BY <1>0, <1>2 DEF SemWaitReturn, GrantOK
<1>6. d[t].op = "none" /\ d[t].pc = "run" /\ \A u \in Task \ {t} : d[u] = call[u]
  BY <1>1, <1>5 DEF NoCall
<1>7. Goes(fop, p, t, b)
  <2>1. p = [fop EXCEPT ![t] = b]
    BY <1>6 DEF FifoWaitReturn, Taken
  <2> QED BY <1>2, <2>1, GoesTo
<1>8. /\ Only(k, l, F) /\ l.grant = k.grant \ {t} /\ \A u \in Task : l.wait_aborted[u] => k.wait_aborted[u]
  BY <1>0, <1>5, LeaveFields
<1>9. l.value = k.value /\ l.sched_lock = k.sched_lock
  BY <1>8 DEF Only, Fields
<1>10. l.sched_lock = 0
  <2>1. ~Locked(a)
    BY <1>0 DEF Locked
  <2> QED BY <1>2, <1>9, <2>1 DEF One
<1>11. /\ Place(d[t], b) /\ ~Locked(b)
       /\ (b.op \in Side /\ b.pc \notin {"wait", "end"}) => IsOpen(k, b.f)
       /\ ~(b.op = "destroy" /\ b.pc = "locked")
       /\ \A f \in Fifos, x \in Side : Works(FALSE, b, f, x) <=> Works(t \in k.grant, a, f, x)
  <2>1. CASE k.obj[t] = EOK
    <3>1. b = [a EXCEPT !.pc = "copy"] /\ t \in k.grant
      BY <1>4, <2>1
    <3> HIDE DEF b, a, l, d, p
    <3>2. b \in Fop /\ b.op = a.op /\ b.f = a.f /\ b.item = a.item /\ b.pc = "copy"
      BY <1>3, <3>1, Moved
    <3>3. ~Locked(b)
      BY <3>2 DEF Locked
    <3>4. Place(d[t], b)
      BY <1>3, <1>6, <3>2, <3>3 DEF Place, Side
    <3>5. IsOpen(k, b.f)
      BY <1>2, <1>3, <3>1, <3>2 DEF OpenOK, a
    <3>6. \A f \in Fifos, x \in Side : Works(FALSE, b, f, x) <=> Works(t \in k.grant, a, f, x)
      BY <1>0, <1>3, <3>1, <3>2 DEF Works, Side, Other
    <3> QED BY <3>2, <3>3, <3>4, <3>5, <3>6
  <2>2. CASE k.obj[t] # EOK
    <3>1. b = [NoFop EXCEPT !.drained = t \in Poller] /\ t \notin k.grant
      BY <1>4, <2>2
    <3>2. Free(b)
      <4> DEFINE x == t \in Poller
      <4>1. x \in BOOLEAN
        OBVIOUS
      <4> HIDE DEF x, b
      <4>2. Free([NoFop EXCEPT !.drained = x])
        BY <4>1, FreePlaces
      <4> QED BY <3>1, <4>2 DEF x
    <3> HIDE DEF b, a, l, d, p
    <3>3. /\ b.op = "none" /\ b.op \notin Side /\ ~Locked(b) /\ (\A e : e.op # "sem" => Place(e, b))
          /\ \A g, f : \A x \in Side : ~Works(g, b, f, x)
      BY <3>2, Nowhere
    <3>4. \A f \in Fifos, x \in Side : ~Works(t \in k.grant, a, f, x)
      BY <1>0, <1>3, <3>1 DEF Works, Side, Other
    <3> QED BY <1>6, <3>3, <3>4
  <2> QED BY <2>1, <2>2
<1>12. l.sched_lock = One(Locked(b)) /\ F \cap {"live", "currp", "evt"} = {}
  BY <1>10, <1>11 DEF One
<1> HIDE DEF b, l, d, p, a, F
<1>13. \A f \in Fifos, x \in Side : Works(FALSE, b, f, x) <=> Works(t \in k.grant, fop[t], f, x)
  BY <1>11 DEF a
<1>14. QueuesOK(l, d, ring, p)
  BY <1>0, <1>1, <1>6, <1>7, <1>8, <1>9, <1>11, <1>12, <1>13, PlaceStep
<1> QED BY <1>0, <1>14 DEF l, d, p

\* The scheduler is locked for the work on the ring, or for the signal of a
\* writer.
LEMMA LockQueues ==
  ASSUME BaseOK(k, call), QueuesOK(k, call, ring, fop), NEW t \in Task, FifoLock(t)
  PROVE  QueuesOK(k', call', ring', fop')
<1> DEFINE l == k'
           d == call'
           p == fop'
           a == fop[t]
           F == {"sched_lock"}
           x == IF a.pc = "copy" THEN "locked" ELSE "signal"
           b == [a EXCEPT !.pc = x]
<1>0. /\ KernelOK(k, call) /\ a.op # "none" /\ a.pc \in {"copy", "lock"} /\ Running(t) /\ ring' = ring /\ d = call
      /\ l = [k EXCEPT !.sched_lock = @ + 1]
  BY DEF BaseOK, FifoLock, At, LockScheduler
<1>1. t = k.currp /\ call[t].op = "none" /\ call[t].pc = "run"
  BY <1>0, RunningFree DEF Running
<1>2. /\ DOMAIN fop = Task /\ Place(call[t], a) /\ GrantOK(k, call) /\ OpenOK(k, fop) /\ k.sched_lock = One(Locked(a))
      /\ Shape(k) /\ k.grant \subseteq Task
  BY <1>0, <1>1, ThreadFacts
<1>3. a \in Fop /\ a.op \in Side /\ a.f \in Fifos /\ (a.op = "write" => a.item \in Item) /\ (a.pc = "lock" => a.op = "write")
  BY <1>0, <1>2 DEF Place, Fop, Side
<1>4. p = [fop EXCEPT ![t] = b]
  BY <1>2 DEF FifoLock
<1>5. Goes(fop, p, t, b)
  BY <1>2, <1>4, GoesTo
<1>6. b \in Fop /\ b.op = a.op /\ b.f = a.f /\ b.item = a.item /\ b.pc = x
  <2>1. x \in {"wait", "copy", "locked", "unlock", "lock", "signal", "raise", "end"}
    OBVIOUS
  <2> HIDE DEF x
  <2> QED BY <1>3, <2>1, Moved
<1>7. Only(k, l, F) /\ l.sched_lock = k.sched_lock + 1
  BY <1>0, <1>2 DEF Only, Fields, Shape
<1>8. l.grant = k.grant /\ l.value = k.value /\ l.wait_aborted = k.wait_aborted
  BY <1>7 DEF Only, Fields
<1>9. l.grant = k.grant \ {t}
  BY <1>1, <1>2, <1>8 DEF GrantOK
<1> HIDE DEF l, d, p, b, a
<1>10. Locked(b) /\ ~Locked(a)
  BY <1>0, <1>3, <1>6 DEF Locked
<1>11. l.sched_lock = One(Locked(b))
  BY <1>2, <1>7, <1>10 DEF One
<1>12. Place(d[t], b)
  <2>1. d[t].op = "none" /\ d[t].pc = "run"
    BY <1>0, <1>1
  <2> QED BY <1>3, <1>6, <2>1 DEF Place, Side
<1>13. IsOpen(k, b.f)
  BY <1>0, <1>2, <1>3, <1>6 DEF OpenOK, a
<1>14. \A f \in Fifos, y \in Side : Works(FALSE, b, f, y) <=> Works(t \in k.grant, fop[t], f, y)
  <2>1. \A f \in Fifos, y \in Side : Works(FALSE, b, f, y) <=> Works(t \in k.grant, a, f, y)
    BY <1>0, <1>3, <1>6 DEF Works, Side, Other
  <2> QED BY <2>1 DEF a
<1>15. /\ ~(b.op = "destroy" /\ b.pc = "locked") /\ (\A u \in Task \ {t} : d[u] = call[u])
       /\ (b.op \in Side /\ b.pc \notin {"wait", "end"}) => IsOpen(k, b.f)
  BY <1>0, <1>3, <1>6, <1>13 DEF Side
<1>16. F \cap {"live", "currp", "evt"} = {} /\ \A u \in Task : l.wait_aborted[u] => k.wait_aborted[u]
  BY <1>8
<1> HIDE DEF F
<1>17. QueuesOK(l, d, ring, p)
  BY <1>0, <1>1, <1>5, <1>7, <1>8, <1>9, <1>11, <1>12, <1>14, <1>15, <1>16, PlaceStep
<1> QED BY <1>0, <1>17 DEF l, d, p

\* The scheduler is unlocked, and the operation goes on or is over.
LEMMA UnlockQueues ==
  ASSUME BaseOK(k, call), QueuesOK(k, call, ring, fop), NEW t \in Task, FifoUnlock(t)
  PROVE  QueuesOK(k', call', ring', fop')
<1> DEFINE l == k'
           d == call'
           p == fop'
           a == fop[t]
           F == {"sched_lock"}
           b == IF a.pc = "end" \/ a.op = "destroy" THEN NoFop ELSE [a EXCEPT !.pc = AfterCopy(a)]
<1>0. /\ KernelOK(k, call) /\ a.op # "none" /\ a.pc \in {"unlock", "end"} /\ Running(t) /\ ring' = ring
      /\ UnlockScheduler(t) /\ l = [k EXCEPT !.sched_lock = @ - 1]
  BY DEF BaseOK, FifoUnlock, At, UnlockScheduler
<1>1. t = k.currp /\ call[t].op = "none" /\ call[t].pc = "run" /\ call \in [Task -> Call]
  BY <1>0, RunningFree, KernelShape DEF Running
<1>2. /\ DOMAIN fop = Task /\ Place(call[t], a) /\ GrantOK(k, call) /\ OpenOK(k, fop) /\ k.sched_lock = One(Locked(a))
      /\ Shape(k) /\ k.grant \subseteq Task
  BY <1>0, <1>1, ThreadFacts
<1>3. a \in Fop /\ (a.op # "destroy" => a.op \in Side) /\ a.f \in Fifos /\ (a.op = "write" => a.item \in Item)
      /\ a.op \in {"write", "read", "destroy"}
  BY <1>0, <1>2 DEF Place, Fop, Side
<1>4. k.sched_lock = 1
  <2>1. Locked(a)
    BY <1>0 DEF Locked
  <2> QED BY <1>2, <2>1 DEF One
<1>5. p = [fop EXCEPT ![t] = b]
  BY <1>2 DEF FifoUnlock
<1>6. Goes(fop, p, t, b)
  BY <1>2, <1>5, GoesTo
<1>7. d[t].op = "lock" /\ \A u \in Task \ {t} : d[u] = call[u]
  BY <1>0, <1>1, <1>4 DEF UnlockScheduler, NoCall
<1>8. Only(k, l, F) /\ l.sched_lock = 0
  BY <1>0, <1>2, <1>4 DEF Only, Fields, Shape
<1>9. l.grant = k.grant /\ l.value = k.value /\ l.wait_aborted = k.wait_aborted
  BY <1>8 DEF Only, Fields
<1>10. l.grant = k.grant \ {t}
  BY <1>1, <1>2, <1>9 DEF GrantOK
<1>11. /\ Place(d[t], b) /\ ~Locked(b) /\ ~(b.op = "destroy" /\ b.pc = "locked")
       /\ (b.op \in Side /\ b.pc \notin {"wait", "end"}) => IsOpen(k, b.f)
       /\ \A f \in Fifos, y \in Side : Works(FALSE, b, f, y) <=> Works(t \in k.grant, a, f, y)
  <2>1. CASE a.pc = "end" \/ a.op = "destroy"
    <3>1. b = NoFop
      BY <2>1
    <3> HIDE DEF b, a, l, d, p
    <3>2. /\ b.op = "none" /\ b.op \notin Side /\ ~Locked(b) /\ (\A e : e.op # "sem" => Place(e, b))
          /\ \A g, f : \A y \in Side : ~Works(g, b, f, y)
      BY <3>1, FreePlaces, Nowhere
    <3>3. \A f \in Fifos, y \in Side : ~Works(t \in k.grant, a, f, y)
      BY <1>0, <2>1 DEF Works, Side, Other
    <3> QED BY <1>7, <3>2, <3>3
  <2>2. CASE a.pc # "end" /\ a.op # "destroy"
    <3> DEFINE x == AfterCopy(a)
    <3>1. b = [a EXCEPT !.pc = x]
      BY <2>2
    <3>2. x \in {"wait", "copy", "locked", "unlock", "lock", "signal", "raise", "end"} /\ x = IF a.op = "write" THEN "lock" ELSE "signal"
      BY DEF AfterCopy
    <3> HIDE DEF b, a, l, d, p, x
    <3>3. b \in Fop /\ b.op = a.op /\ b.f = a.f /\ b.item = a.item /\ b.pc = x
      BY <1>3, <3>1, <3>2, Moved
    <3>4. ~Locked(b)
      BY <1>0, <3>2, <3>3 DEF Locked
    <3>5. Place(d[t], b)
      BY <1>3, <1>7, <2>2, <3>2, <3>3, <3>4 DEF Place, Side
    <3>6. IsOpen(k, b.f)
      BY <1>0, <1>2, <1>3, <2>2, <3>3 DEF OpenOK, a
    <3>7. \A f \in Fifos, y \in Side : Works(FALSE, b, f, y) <=> Works(t \in k.grant, a, f, y)
      BY <1>0, <1>3, <2>2, <3>2, <3>3 DEF Works, Side, Other
    <3> QED BY <2>2, <3>3, <3>4, <3>5, <3>6, <3>7
  <2> QED BY <2>1, <2>2
<1> HIDE DEF b, l, d, p, a
<1>12. l.sched_lock = One(Locked(b)) /\ F \cap {"live", "currp", "evt"} = {}
  BY <1>8, <1>11 DEF One
<1> HIDE DEF F
<1>13. \A f \in Fifos, y \in Side : Works(FALSE, b, f, y) <=> Works(t \in k.grant, fop[t], f, y)
  BY <1>11 DEF a
<1>14. /\ KernelOK(k, call) /\ t = k.currp /\ Only(k, l, F) /\ (\A u \in Task \ {t} : d[u] = call[u])
       /\ Place(d[t], b) /\ ~(b.op = "destroy" /\ b.pc = "locked")
       /\ (b.op \in Side /\ b.pc \notin {"wait", "end"}) => IsOpen(k, b.f)
  BY <1>0, <1>1, <1>7, <1>8, <1>11
<1>15. l.value = k.value /\ \A u \in Task : l.wait_aborted[u] => k.wait_aborted[u]
  BY <1>9
<1>16. QueuesOK(l, d, ring, p)
  BY <1>6, <1>10, <1>12, <1>13, <1>14, <1>15, PlaceStep
<1> QED BY <1>0, <1>16 DEF l, d, p

\* What raising the event of a queue changes: nothing but waiters for events.
LEMMA RaiseFields ==
  ASSUME NEW m, NEW c, KernelOK(m, c), NEW f \in Fifos, NEW r, r = rxavail_event_raise(m, f)
  PROVE  /\ Only(m, r, Waking \cup {"bitset"})
         /\ \A t \in Task : m.state[t] = "WTSEM" => r.state[t] = "WTSEM"
         /\ BaseOK(m, c) => BaseOK(r, c)
<1>1. CASE Connected(m, f)
  <2> DEFINE e    == m.evt[f]
             bits == {m.bitno[f]}
             cur  == m.bitset[e] \cup bits
             S    == MetBy(m, e, cur)
  <2>1. e \in Evts /\ bits \in SUBSET Bits
    <3>1. m.evt[f] \in Evts \cup {Null} /\ m.bitno[f] \in Bits \cup {0, InvalidBit}
      <4>1. m \in Kernel
        BY KernelShape
      <4> QED BY <4>1 DEF Kernel, Notifier
    <3>2. 0 \in Bits
      <4>1. AliveOK(m, c)
        BY CoreParts DEF KernelOK
      <4> QED BY <1>1, <4>1 DEF AliveOK, Connected, Notifier
    <3> QED BY <1>1, <3>1, <3>2 DEF Connected
  <2>2. r = event_set(m, e, bits)
    BY <1>1 DEF rxavail_event_raise
  <2> HIDE DEF e, bits
  <2>3. SetWakes(m, event_set(m, e, bits), cur, S)
    BY <2>1, EventSetWakes
  <2>4. \A t \in S : t \in Task /\ m.state[t] = "WTEVT"
    <3>1. S \subseteq Task /\ \A t \in S : t \in Range(m.wait_list[e])
      BY <2>3 DEF SetWakes, MetBy
    <3> HIDE DEF S
    <3> QED BY <2>1, <3>1, EventWaiter
  <2> HIDE DEF cur, S
  <2>5. Only(m, r, Waking \cup {"bitset"}) /\ WakesWith(m, r, S, EOK)
    BY <2>2, <2>3 DEF SetWakes
  <2>6. \A t \in Task : m.state[t] = "WTSEM" => r.state[t] = "WTSEM"
    BY <2>4, <2>5 DEF WakesWith
  <2>7. BaseOK(m, c) => BaseOK(r, c)
    <3>1. KernelOK(event_set(m, e, bits), c)
      BY <2>1, EventSetOK DEF KernelOK
    <3>2. (ServiceOK(m, c) => ServiceOK(event_set(m, e, bits), c)) /\ (ToldOK(m, c) => ToldOK(event_set(m, e, bits), c))
      BY <2>1, EventSetService, EventSetTold
    <3> QED BY <2>2, <3>1, <3>2 DEF BaseOK
  <2> QED BY <2>5, <2>6, <2>7
<1>2. CASE ~Connected(m, f)
  BY <1>2 DEF rxavail_event_raise, Only
<1> QED BY <1>1, <1>2

\* A writer raises the event, under the scheduler lock.
LEMMA RaiseQueues ==
  ASSUME BaseOK(k, call), QueuesOK(k, call, ring, fop), NEW t \in Task, FifoRaise(t)
  PROVE  QueuesOK(k', call', ring', fop') /\ BaseOK(k', call')
<1> DEFINE l == k'
           d == call'
           p == fop'
           a == fop[t]
           F == Waking \cup {"bitset"}
           b == [a EXCEPT !.pc = "end"]
<1>0. /\ KernelOK(k, call) /\ a.op # "none" /\ a.pc = "raise" /\ Running(t) /\ ring' = ring /\ d = call
      /\ l = rxavail_event_raise(k, a.f)
  BY DEF BaseOK, FifoRaise, At
<1>1. t = k.currp /\ call[t].op = "none" /\ call[t].pc = "run"
  BY <1>0, RunningFree DEF Running
<1>2. /\ DOMAIN fop = Task /\ Place(call[t], a) /\ GrantOK(k, call) /\ OpenOK(k, fop) /\ k.sched_lock = One(Locked(a))
      /\ Shape(k) /\ k.grant \subseteq Task
  BY <1>0, <1>1, ThreadFacts
<1>3. a \in Fop /\ a.op = "write" /\ a.f \in Fifos /\ (a.op = "write" => a.item \in Item)
  BY <1>0, <1>2 DEF Place, Fop, Side
<1>4. p = [fop EXCEPT ![t] = b]
  BY <1>2 DEF FifoRaise
<1>5. Goes(fop, p, t, b)
  BY <1>2, <1>4, GoesTo
<1>6. b \in Fop /\ b.op = a.op /\ b.f = a.f /\ b.item = a.item /\ b.pc = "end"
  BY <1>3, Moved
<1>7. Only(k, l, F) /\ BaseOK(l, call)
  <2>1. Only(k, l, Waking \cup {"bitset"}) /\ (BaseOK(k, call) => BaseOK(l, call))
    BY <1>0, <1>3, RaiseFields
  <2> QED BY <2>1
<1>8. l.grant = k.grant /\ l.value = k.value /\ l.wait_aborted = k.wait_aborted /\ l.sched_lock = k.sched_lock
  BY <1>7 DEF Only, Fields, Waking
<1>9. l.grant = k.grant \ {t}
  BY <1>1, <1>2, <1>8 DEF GrantOK
<1> HIDE DEF l, p, b, a
<1>10. Locked(b) /\ Locked(a)
  BY <1>0, <1>3, <1>6 DEF Locked
<1>11. l.sched_lock = One(Locked(b))
  BY <1>2, <1>8, <1>10 DEF One
<1>12. Place(d[t], b)
  <2>1. d[t].op = "none" /\ d[t].pc = "run"
    BY <1>0, <1>1
  <2> HIDE DEF d
  <2> QED BY <1>3, <1>6, <2>1 DEF Place, Side
<1>13. \A f \in Fifos, y \in Side : Works(FALSE, b, f, y) <=> Works(t \in k.grant, fop[t], f, y)
  <2>1. \A f \in Fifos, y \in Side : Works(FALSE, b, f, y) <=> Works(t \in k.grant, a, f, y)
    BY <1>0, <1>3, <1>6 DEF Works, Side, Other
  <2> QED BY <2>1 DEF a
<1>14. /\ ~(b.op = "destroy" /\ b.pc = "locked") /\ (\A u \in Task \ {t} : d[u] = call[u])
       /\ (b.op \in Side /\ b.pc \notin {"wait", "end"}) => IsOpen(k, b.f)
  BY <1>0, <1>3, <1>6 DEF Side
<1>15. F \cap {"live", "currp", "evt"} = {} /\ \A u \in Task : l.wait_aborted[u] => k.wait_aborted[u]
  BY <1>8 DEF Waking
<1> HIDE DEF F, d
<1>16. QueuesOK(l, d, ring, p)
  BY <1>0, <1>1, <1>5, <1>7, <1>8, <1>9, <1>11, <1>12, <1>13, <1>14, <1>15, PlaceStep
<1> QED BY <1>0, <1>7, <1>16 DEF l, d, p

-----------------------------------------------------------------------------
\* The ring after a write ...
LEMMA CopyIn ==
  ASSUME NEW r, DOMAIN r = Fifos, RingOK(r), NEW f \in Fifos, r[f].used < Capacity(f), NEW x \in Item,
         NEW q, q = copy_in(r, f, x)
  PROVE  /\ DOMAIN q = Fifos /\ RingOK(q) /\ \A g \in Fifos \ {f} : q[g] = r[g]
         /\ q[f].mem = [r[f].mem EXCEPT ![r[f].tx_p] = x] /\ q[f].rx_p = r[f].rx_p /\ q[f].out = r[f].out
         /\ q[f].used = r[f].used + 1 /\ q[f].noirq = r[f].noirq
<1> DEFINE y == r[f]
           z == [y EXCEPT !.mem = [@ EXCEPT ![y.tx_p] = x], !.tx_p = advance(f, @), !.used = @ + 1]
<1>1. q = [r EXCEPT ![f] = z]
  BY DEF copy_in
<1>2. Capacity(f) \in Nat /\ Capacity(f) > 0
  BY SemsOfQueues
<1>3. y \in Ring(f) /\ y.used \in 0 .. Capacity(f) /\ y.tx_p = Ahead(f, y.rx_p, y.used)
  BY DEF RingOK
<1>4. DOMAIN q = Fifos /\ q[f] = z /\ \A g \in Fifos \ {f} : q[g] = r[g]
  BY <1>1
<1> HIDE DEF y
<1>5. /\ z.mem = [y.mem EXCEPT ![y.tx_p] = x] /\ z.tx_p = advance(f, y.tx_p) /\ z.used = y.used + 1
      /\ z.rx_p = y.rx_p /\ z.out = y.out /\ z.noirq = y.noirq
  BY <1>3 DEF Ring
<1>6. /\ y.mem \in [0 .. Capacity(f) - 1 -> Item \cup {Null}] /\ y.rx_p \in 0 .. Capacity(f) - 1
      /\ y.tx_p \in 0 .. Capacity(f) - 1
  BY <1>3 DEF Ring
<1>7. advance(f, y.tx_p) \in 0 .. Capacity(f) - 1 /\ y.used + 1 \in 0 .. Capacity(f) /\ y.used + 1 \in Int
  BY <1>2, <1>3, <1>6 DEF advance, y
<1>8. z \in Ring(f)
  <2>1. [y.mem EXCEPT ![y.tx_p] = x] \in [0 .. Capacity(f) - 1 -> Item \cup {Null}]
    BY <1>6
  <2> QED BY <1>3, <1>7, <2>1 DEF Ring
<1>9. z.tx_p = Ahead(f, z.rx_p, z.used)
  <2> DEFINE C == Capacity(f)
             a == y.rx_p
             n == y.used
  <2>1. C \in Nat /\ C > 0 /\ a \in 0 .. C - 1 /\ n \in 0 .. C - 1
    BY <1>2, <1>3, <1>6 DEF y
  <2>2. y.tx_p = IF a + n < C THEN a + n ELSE a + n - C
    BY <1>3 DEF Ahead
  <2>3. z.tx_p = (IF y.tx_p + 1 >= C THEN 0 ELSE y.tx_p + 1)
    BY <1>5 DEF advance
  <2>4. Ahead(f, z.rx_p, z.used) = IF a + (n + 1) < C THEN a + (n + 1) ELSE a + (n + 1) - C
    BY <1>5 DEF Ahead
  <2> HIDE DEF C, a, n, z
  <2> QED BY <2>1, <2>2, <2>3, <2>4
<1> HIDE DEF z
<1>10. RingOK(q)
  <2>1. \A g \in Fifos \ {f} : q[g] \in Ring(g) /\ q[g].used \in 0 .. Capacity(g) /\ q[g].tx_p = Ahead(g, q[g].rx_p, q[g].used)
    BY <1>4 DEF RingOK
  <2>2. q[f] \in Ring(f) /\ q[f].used \in 0 .. Capacity(f) /\ q[f].tx_p = Ahead(f, q[f].rx_p, q[f].used)
    BY <1>4, <1>5, <1>7, <1>8, <1>9
  <2> QED BY <2>1, <2>2 DEF RingOK
<1> QED BY <1>4, <1>5, <1>10 DEF y

\* ... and after a read.
LEMMA CopyOut ==
  ASSUME NEW r, DOMAIN r = Fifos, RingOK(r), NEW f \in Fifos, r[f].used > 0, NEW q, q = copy_out(r, f)
  PROVE  /\ DOMAIN q = Fifos /\ RingOK(q) /\ \A g \in Fifos \ {f} : q[g] = r[g]
         /\ q[f].mem = [r[f].mem EXCEPT ![r[f].rx_p] = Null] /\ q[f].rx_p = advance(f, r[f].rx_p)
         /\ q[f].out = r[f].mem[r[f].rx_p] /\ q[f].used = r[f].used - 1 /\ q[f].noirq = r[f].noirq
<1> DEFINE y == r[f]
           z == [y EXCEPT !.out = y.mem[y.rx_p], !.mem = [@ EXCEPT ![y.rx_p] = Null], !.rx_p = advance(f, @),
                          !.used = @ - 1]
<1>1. q = [r EXCEPT ![f] = z]
  BY DEF copy_out
<1>2. Capacity(f) \in Nat /\ Capacity(f) > 0
  BY SemsOfQueues
<1>3. y \in Ring(f) /\ y.used \in 0 .. Capacity(f) /\ y.tx_p = Ahead(f, y.rx_p, y.used)
  BY DEF RingOK
<1>4. DOMAIN q = Fifos /\ q[f] = z /\ \A g \in Fifos \ {f} : q[g] = r[g]
  BY <1>1
<1> HIDE DEF y
<1>5. /\ z.mem = [y.mem EXCEPT ![y.rx_p] = Null] /\ z.rx_p = advance(f, y.rx_p) /\ z.used = y.used - 1
      /\ z.tx_p = y.tx_p /\ z.out = y.mem[y.rx_p] /\ z.noirq = y.noirq
  BY <1>3 DEF Ring
<1>6. /\ y.mem \in [0 .. Capacity(f) - 1 -> Item \cup {Null}] /\ y.rx_p \in 0 .. Capacity(f) - 1
      /\ y.tx_p \in 0 .. Capacity(f) - 1
  BY <1>3 DEF Ring
<1>7. advance(f, y.rx_p) \in 0 .. Capacity(f) - 1 /\ y.used - 1 \in 0 .. Capacity(f) /\ y.used - 1 \in Int
  BY <1>2, <1>3, <1>6 DEF advance, y
<1>8. z \in Ring(f)
  <2>1. [y.mem EXCEPT ![y.rx_p] = Null] \in [0 .. Capacity(f) - 1 -> Item \cup {Null}] /\ y.mem[y.rx_p] \in Item \cup {Null}
    BY <1>6
  <2> QED BY <1>3, <1>7, <2>1 DEF Ring
<1>9. z.tx_p = Ahead(f, z.rx_p, z.used)
  <2> DEFINE C == Capacity(f)
             a == y.rx_p
             n == y.used
  <2>1. C \in Nat /\ C > 0 /\ a \in 0 .. C - 1 /\ n \in 1 .. C
    BY <1>2, <1>3, <1>6 DEF y
  <2>2. z.tx_p = IF a + n < C THEN a + n ELSE a + n - C
    BY <1>3, <1>5 DEF Ahead
  <2>3. z.rx_p = (IF a + 1 >= C THEN 0 ELSE a + 1) /\ z.used = n - 1
    BY <1>5 DEF advance
  <2>4. Ahead(f, z.rx_p, z.used) = IF z.rx_p + z.used < C THEN z.rx_p + z.used ELSE z.rx_p + z.used - C
    BY DEF Ahead
  <2> HIDE DEF C, a, n, z
  <2> QED BY <2>1, <2>2, <2>3, <2>4
<1> HIDE DEF z
<1>10. RingOK(q)
  <2>1. \A g \in Fifos \ {f} : q[g] \in Ring(g) /\ q[g].used \in 0 .. Capacity(g) /\ q[g].tx_p = Ahead(g, q[g].rx_p, q[g].used)
    BY <1>4 DEF RingOK
  <2>2. q[f] \in Ring(f) /\ q[f].used \in 0 .. Capacity(f) /\ q[f].tx_p = Ahead(f, q[f].rx_p, q[f].used)
    BY <1>4, <1>5, <1>7, <1>8, <1>9
  <2> QED BY <2>1, <2>2 DEF RingOK
<1> QED BY <1>4, <1>5, <1>10 DEF y

\* The copy of a thread in an operation on the side a: a slot of that side
\* becomes one of the other.
Copied(r, q, f, a) ==
  /\ DOMAIN q = Fifos /\ RingOK(q) /\ (\A g \in Fifos \ {f} : q[g] = r[g]) /\ q[f].noirq = r[f].noirq
  /\ Slots(q, f, a) = Slots(r, f, a) - 1 /\ Slots(q, f, Other(a)) = Slots(r, f, Other(a)) + 1

\* A copy needs a slot.
LEMMA CopySlots ==
  ASSUME NEW r, DOMAIN r = Fifos, RingOK(r), NEW f \in Fifos, NEW q
  PROVE  /\ \A x \in Item : (Slots(r, f, "write") > 0 /\ q = copy_in(r, f, x)) => Copied(r, q, f, "write")
         /\ (Slots(r, f, "read") > 0 /\ q = copy_out(r, f)) => Copied(r, q, f, "read")
<1>0. Capacity(f) \in Nat /\ r[f].used \in Nat
  BY SemsOfQueues DEF RingOK
<1>1. ASSUME NEW x \in Item, Slots(r, f, "write") > 0, q = copy_in(r, f, x)
      PROVE  Copied(r, q, f, "write")
  <2>1. r[f].used < Capacity(f)
    BY <1>0, <1>1 DEF Slots
  <2>2. /\ DOMAIN q = Fifos /\ RingOK(q) /\ \A g \in Fifos \ {f} : q[g] = r[g]
        /\ q[f].mem = [r[f].mem EXCEPT ![r[f].tx_p] = x] /\ q[f].rx_p = r[f].rx_p /\ q[f].out = r[f].out
        /\ q[f].used = r[f].used + 1 /\ q[f].noirq = r[f].noirq
    BY <1>1, <2>1, CopyIn
  <2> QED BY <1>0, <2>2 DEF Copied, Slots, Other
<1>2. ASSUME Slots(r, f, "read") > 0, q = copy_out(r, f)
      PROVE  Copied(r, q, f, "read")
  <2>1. r[f].used > 0
    BY <1>0, <1>2 DEF Slots
  <2>2. /\ DOMAIN q = Fifos /\ RingOK(q) /\ \A g \in Fifos \ {f} : q[g] = r[g]
        /\ q[f].mem = [r[f].mem EXCEPT ![r[f].rx_p] = Null] /\ q[f].rx_p = advance(f, r[f].rx_p)
        /\ q[f].out = r[f].mem[r[f].rx_p] /\ q[f].used = r[f].used - 1 /\ q[f].noirq = r[f].noirq
    BY <1>2, <2>1, CopyOut
  <2> QED BY <1>0, <2>2 DEF Copied, Slots, Other
<1> QED BY <1>1, <1>2


\* The work on the ring: the thread has a slot of its side, which becomes one
\* of the other side.
LEMMA CopyQueues ==
  ASSUME BaseOK(k, call), QueuesOK(k, call, ring, fop), NEW t \in Task, FifoCopy(t)
  PROVE  /\ QueuesOK(k', call', ring', fop')
         /\ fop[t].f \in Fifos /\ Slots(ring, fop[t].f, fop[t].op) > 0
         /\ fop[t].op = "write" => fop[t].item \in Item
<1> DEFINE q == ring'
           p == fop'
           a == fop[t]
           g == a.f
           F == {}
           x == IF a.pc = "copy" THEN AfterCopy(a) ELSE "unlock"
           b == [a EXCEPT !.pc = x]
<1>0. /\ KernelOK(k, call) /\ a.op \in Side /\ a.pc \in {"copy", "locked"} /\ Running(t) /\ k' = k /\ call' = call
      /\ q = IF a.op = "write" THEN copy_in(ring, g, a.item) ELSE copy_out(ring, g)
  BY DEF BaseOK, FifoCopy, At, Side
<1>1. t = k.currp /\ call[t].op = "none" /\ call[t].pc = "run"
  BY <1>0, RunningFree DEF Running
<1>2. /\ DOMAIN fop = Task /\ Place(call[t], a) /\ GrantOK(k, call) /\ OpenOK(k, fop) /\ k.sched_lock = One(Locked(a))
      /\ Shape(k) /\ k.grant \subseteq Task /\ DOMAIN ring = Fifos /\ RingOK(ring) /\ SlotsOK(k, ring, fop)
      /\ k.value \in [Sems -> Int]
  BY <1>0, <1>1, ThreadFacts
<1>3. a \in Fop /\ g \in Fifos /\ (a.op = "write" => a.item \in Item)
  BY <1>0, <1>2 DEF Place, Fop, Side
<1>4. p = [fop EXCEPT ![t] = b]
  <2>1. CASE At(t, "copy") /\ p = [fop EXCEPT ![t].pc = AfterCopy(fop[t])]
    BY <2>1, <1>2 DEF At
  <2>2. CASE At(t, "locked") /\ p = [fop EXCEPT ![t].pc = "unlock"]
    BY <2>2, <1>2 DEF At
  <2> QED BY <2>1, <2>2 DEF FifoCopy
<1>5. Goes(fop, p, t, b)
  BY <1>2, <1>4, GoesTo
<1>6. /\ x \in {"wait", "copy", "locked", "unlock", "lock", "signal", "raise", "end"}
      /\ x = IF a.pc = "copy" THEN IF a.op = "write" THEN "lock" ELSE "signal" ELSE "unlock"
  BY DEF AfterCopy
<1>7. b \in Fop /\ b.op = a.op /\ b.f = a.f /\ b.item = a.item /\ b.pc = x
  <2> HIDE DEF x
  <2> QED BY <1>3, <1>6, Moved
<1> HIDE DEF q, p, b, a, x, g
<1>8. IsOpen(k, g) /\ b.f = g
  BY <1>0, <1>2, <1>7 DEF OpenOK, a, g
<1>9. Works(t \in k.grant, fop[t], g, a.op)
  <2>1. Works(t \in k.grant, a, g, a.op)
    BY <1>0 DEF Works, g
  <2> QED BY <2>1 DEF a
<1>10. Slots(ring, g, a.op) > 0
  BY <1>0, <1>2, <1>3, <1>8, <1>9, SlotThere
<1>11. Copied(ring, q, g, a.op)
  <2>1. CASE a.op = "write"
    BY <1>0, <1>2, <1>3, <1>10, <2>1, CopySlots
  <2>2. CASE a.op = "read"
    BY <1>0, <1>2, <1>3, <1>10, <2>2, CopySlots
  <2> QED BY <1>0, <2>1, <2>2 DEF Side
<1>12. \A f \in Fifos, y \in Side :
         /\ Works(t \in k.grant, fop[t], f, y) <=> (f = g /\ y = a.op)
         /\ Works(t \in k.grant, p[t], f, y) <=> (f = g /\ y = Other(a.op))
  <2>1. \A f \in Fifos, y \in Side : Works(t \in k.grant, a, f, y) <=> (f = g /\ y = a.op)
    BY <1>0 DEF Works, Side, Other, g
  <2>2. \A f \in Fifos, y \in Side : Works(t \in k.grant, b, f, y) <=> (f = g /\ y = Other(a.op))
    BY <1>0, <1>6, <1>7, <1>8 DEF Works, Side, Other
  <2> QED BY <1>5, <2>1, <2>2 DEF a, Goes
<1>13. Balanced(k, ring, fop, k, q, p, t)
  <2> DEFINE y == a.op
             z == Other(y)
  <2>1. y \in Side /\ z \in Side /\ z # y
    BY <1>0, SemsOfQueues
  <2>2. \A f \in Fifos \ {g}, w \in Side :
           /\ Slots(q, f, w) = Slots(ring, f, w) /\ Tokens(k, SemOf(f, w)) = Tokens(k, SemOf(f, w))
           /\ Works(t \in k.grant, p[t], f, w) <=> Works(t \in k.grant, fop[t], f, w)
    BY <1>11, <1>12 DEF Copied, Slots
  <2>3. /\ One(Works(t \in k.grant, p[t], g, y)) = 0 /\ One(Works(t \in k.grant, fop[t], g, y)) = 1
        /\ One(Works(t \in k.grant, p[t], g, z)) = 1 /\ One(Works(t \in k.grant, fop[t], g, z)) = 0
    BY <1>3, <1>12, <2>1 DEF One
  <2>4. Slots(q, g, y) = Slots(ring, g, y) - 1 /\ Slots(q, g, z) = Slots(ring, g, z) + 1
    BY <1>11 DEF Copied
  <2>5. /\ Slots(ring, g, y) \in Nat /\ Slots(ring, g, z) \in Nat
        /\ Tokens(k, SemOf(g, y)) \in Nat /\ Tokens(k, SemOf(g, z)) \in Nat
    BY <1>2, <1>3, <2>1, SlotTypes
  <2> HIDE DEF y, z
  <2>6. \A w \in {y, z} :
           Slots(q, g, w) = Slots(ring, g, w) + (Tokens(k, SemOf(g, w)) - Tokens(k, SemOf(g, w)))
                            + One(Works(t \in k.grant, p[t], g, w)) - One(Works(t \in k.grant, fop[t], g, w))
    BY <2>3, <2>4, <2>5
  <2>7. \A w \in {y, Other(y)} :
           Slots(q, g, w) = Slots(ring, g, w) + (Tokens(k, SemOf(g, w)) - Tokens(k, SemOf(g, w)))
                            + One(Works(t \in k.grant, p[t], g, w)) - One(Works(t \in k.grant, fop[t], g, w))
    BY <2>6 DEF z
  <2> QED BY <1>2, <1>3, <2>1, <2>2, <2>7, BalancedAt
<1>14. Locked(b) <=> Locked(a)
  BY <1>0, <1>6, <1>7 DEF Locked, Side
<1>15. k.sched_lock = One(Locked(b))
  BY <1>2, <1>14 DEF One
<1>16. Place(call[t], b)
  BY <1>0, <1>1, <1>3, <1>6, <1>7, <1>8 DEF Place, Side
<1>17. /\ Only(k, k, F) /\ F \cap {"live", "currp", "evt"} = {} /\ \A u \in Task : k.wait_aborted[u] => k.wait_aborted[u]
       /\ (\A u \in Task \ {t} : call[u] = call[u]) /\ \A u \in Task \ {t} : u \in k.grant <=> u \in k.grant
  BY DEF Only
<1>18. /\ t \in k.grant => call[t].op = "sem" /\ call[t].pc \in {"yield", "after"}
       /\ (b.op \in Side /\ (b.pc \notin {"wait", "end"} \/ t \in k.grant)) => IsOpen(k, b.f)
       /\ (b.op = "destroy" /\ b.pc = "locked") => Closing(k, call, q, p, t, b.f)
  BY <1>0, <1>2, <1>7, <1>8 DEF GrantOK, Side
<1>19. DOMAIN q = Fifos /\ RingOK(q)
  BY <1>11 DEF Copied
<1> HIDE DEF F
<1>20. QueuesOK(k, call, q, p)
  BY <1>0, <1>1, <1>2, <1>5, <1>13, <1>15, <1>16, <1>17, <1>18, <1>19, OwnOnly
<1> QED BY <1>0, <1>3, <1>10, <1>20 DEF q, p, a, g


-----------------------------------------------------------------------------
\* Whoever is inside of a call on a semaphore that may be destroyed is asleep.
LEMMA AllAsleep ==
  ASSUME KernelOK(k, call), NEW s \in Sems, Quiescent(s), NEW t \in Task, call[t].o = s
  PROVE  k.state[t] = "WTSEM"
<1>1. BlockedOK(k, call, {}) /\ CallsOK(call)
  BY CoreParts DEF KernelOK
<1>2. k.state[t] \in Waiting \ {"WTCOND"}
  BY DEF Quiescent
<1>3. Blocked(k.state[t], call[t], k.obj[t], k.wait_aborted[t]) /\ CallKind(call[t])
  BY <1>1 DEF BlockedOK, CallsOK
<1>4. s \notin Mtxs /\ s \notin Evts /\ s \notin Tasks
  BY SyncObjects DEF Task
<1> QED BY <1>2, <1>3, <1>4 DEF Blocked, CallKind, Waiting

\* A queue that a thread outside of the queues may destroy: the others that are
\* inside of a call on it are asleep in it.
LEMMA MayClose ==
  ASSUME KernelOK(k, call), QueuesOK(k, call, ring, fop), NEW t \in Task, t = k.currp, fop[t].op = "none",
         NEW f \in Fifos, MayDestroy(f)
  PROVE  /\ \A u \in Task : call[u].o \in {RxSem[f], TxSem[f]} => k.state[u] = "WTSEM"
         /\ \A u \in Task : (fop[u].op # "none" /\ fop[u].f = f) => fop[u].pc = "wait"
<1>1. RxSem[f] \in Sems /\ TxSem[f] \in Sems
  BY FifoAssumption
<1>2. Quiescent(RxSem[f]) /\ Quiescent(TxSem[f]) /\ \A u \in Task : fop[u].f = f => fop[u].pc \in {"wait", "raise", "end"}
  BY DEF MayDestroy
<1>3. \A u \in Task : call[u].o \in {RxSem[f], TxSem[f]} => k.state[u] = "WTSEM"
  BY <1>1, <1>2, AllAsleep
<1>4. ASSUME NEW u \in Task, fop[u].op # "none", fop[u].f = f, fop[u].pc # "wait"
      PROVE  FALSE
  <2>1. Locked(fop[u])
    BY <1>2, <1>4 DEF Locked
  <2>2. u = t
    BY <2>1 DEF QueuesOK, HeldOK
  <2> QED BY <1>4, <2>2
<1> QED BY <1>3, <1>4

\* A thread locks the scheduler to destroy a queue.
LEMMA DestroyLockQueues ==
  ASSUME BaseOK(k, call), QueuesOK(k, call, ring, fop), NEW t \in Task, NEW f \in Fifos, FifoDestroy(t, f),
         ring[f].noirq
  PROVE  QueuesOK(k', call', ring', fop') /\ ring' = ring
<1> DEFINE l == k'
           p == fop'
           a == fop[t]
           F == {"sched_lock"}
           b == [NoFop EXCEPT !.op = "destroy", !.f = f, !.pc = "locked"]
<1>0. /\ KernelOK(k, call) /\ a.op = "none" /\ Running(t) /\ ring' = ring /\ call' = call
      /\ l = [k EXCEPT !.sched_lock = @ + 1] /\ IsOpen(k, f) /\ MayDestroy(f) /\ p = [fop EXCEPT ![t] = b]
  BY DEF BaseOK, FifoDestroy, LockScheduler, Open, IsOpen
<1>1. t = k.currp /\ call[t].op = "none" /\ call[t].pc = "run"
  BY <1>0, RunningFree DEF Running
<1>2. /\ DOMAIN fop = Task /\ Place(call[t], a) /\ GrantOK(k, call) /\ k.sched_lock = One(Locked(a))
      /\ Shape(k) /\ k.grant \subseteq Task /\ DOMAIN ring = Fifos /\ RingOK(ring) /\ k.value \in [Sems -> Int]
  BY <1>0, <1>1, ThreadFacts
<1>3. Goes(fop, p, t, b)
  BY <1>0, <1>2, GoesTo
<1>4. b \in Fop /\ b.op = "destroy" /\ b.f = f /\ b.pc = "locked"
  BY DEF NoFop, Fop
<1>5. Only(k, l, F) /\ l.sched_lock = k.sched_lock + 1
  BY <1>0, <1>2 DEF Only, Fields, Shape
<1>6. /\ l.grant = k.grant /\ l.value = k.value /\ l.wait_aborted = k.wait_aborted /\ l.live = k.live
      /\ l.state = k.state
  BY <1>5 DEF Only, Fields
<1> HIDE DEF l, p, b, a
<1>7. Locked(b) /\ ~Locked(a) /\ b.op \notin Side
  BY <1>0, <1>4 DEF Locked, Side
<1>8. l.sched_lock = One(Locked(b))
  BY <1>2, <1>5, <1>7 DEF One
<1>9. Place(call[t], b)
  BY <1>1, <1>4 DEF Place, Locked
<1>10. Closing(l, call, ring, p, t, f)
  <2>1. /\ \A u \in Task : call[u].o \in {RxSem[f], TxSem[f]} => k.state[u] = "WTSEM"
        /\ \A u \in Task : (fop[u].op # "none" /\ fop[u].f = f) => fop[u].pc = "wait"
    BY <1>0, <1>1, MayClose DEF a
  <2>2. \A u \in Task \ {t} : p[u] = fop[u]
    BY <1>3 DEF Goes
  <2> QED BY <1>0, <1>6, <2>1, <2>2 DEF Closing, IsOpen
<1>11. \A g \in Fifos, y \in Side : /\ Tokens(l, SemOf(g, y)) = Tokens(k, SemOf(g, y))
                                    /\ Works(t \in l.grant, p[t], g, y) <=> Works(t \in k.grant, fop[t], g, y)
  <2>1. \A g \in Fifos, y \in Side : ~Works(t \in l.grant, b, g, y) /\ ~Works(t \in k.grant, a, g, y)
    BY <1>0, <1>4 DEF Works, Side, Other
  <2> QED BY <1>3, <1>6, <2>1 DEF Tokens, Goes, a
<1>12. Balanced(k, ring, fop, l, ring, p, t)
  BY <1>2, <1>11, BalancedSame
<1>13. /\ (\A u \in Task \ {t} : call[u] = call[u]) /\ (\A u \in Task \ {t} : u \in l.grant <=> u \in k.grant)
       /\ l.grant \subseteq Task /\ l.value \in [Sems -> Int] /\ \A u \in Task : l.wait_aborted[u] => k.wait_aborted[u]
  BY <1>2, <1>6
<1>14. /\ t \in l.grant => call[t].op = "sem" /\ call[t].pc \in {"yield", "after"}
       /\ (b.op \in Side /\ (b.pc \notin {"wait", "end"} \/ t \in l.grant)) => IsOpen(k, b.f)
       /\ (b.op = "destroy" /\ b.pc = "locked") => Closing(l, call, ring, p, t, b.f)
  BY <1>2, <1>4, <1>6, <1>7, <1>10 DEF GrantOK
<1>15. F \cap {"live", "currp", "evt"} = {}
  OBVIOUS
<1> HIDE DEF F
<1>16. KernelOK(k, call) /\ t = k.currp /\ Only(k, l, F) /\ DOMAIN ring = Fifos /\ RingOK(ring)
  BY <1>0, <1>1, <1>2, <1>5
<1>17. QueuesOK(l, call, ring, p)
  BY <1>3, <1>8, <1>9, <1>12, <1>13, <1>14, <1>15, <1>16, OwnOnly
<1> QED BY <1>0, <1>17 DEF l, p


-----------------------------------------------------------------------------
\* A token is stored, or handed to a waiter.
Signals(m, r, s) ==
  /\ Only(m, r, Waking \cup {"value", "grant"}) /\ r.value = [m.value EXCEPT ![s] = @ + 1]
  /\ m.value[s] >= 0 => Only(m, r, {"value"})
  /\ m.value[s] < 0 => \E h \in TokenWaiters(m, s) : /\ r.grant = m.grant \cup {h}
                                                     /\ \A t \in Task \ {h} : r.state[t] = m.state[t]

\* That is what a signal of a semaphore without a limit does.
LEMMA SignalEffect ==
  ASSUME NEW m, NEW c, KernelOK(m, c), SemsOK(m), NEW s \in Sems, s \in m.live, SemLimit[s] = 0
  PROVE  Signals(m, sem_signal(m, s), s)
<1> DEFINE ws == m.wait_list[s]
           h  == Head(ws)
           m1 == sem_fast_signal(m, s)
           a  == unlink(m1, {h})
           q  == [a EXCEPT !.grant = @ \cup {h}]
           w  == wakeup(q, <<h>>, EOK)
           z  == do_reschedule(w, h)
           r  == sem_signal(m, s)
           A  == {"p_wait", "pov_wait", "deadline", "left", "obj", "evbits", "bug", "state", "ready"}
<1> SUFFICES Signals(m, r, s)
  OBVIOUS
<1>0. Shape(m) /\ m.value \in [Sems -> Int]
  BY CoreParts, KernelShape, KernelTypes DEF KernelOK
<1>1. Shape(m1) /\ Only(m, m1, {"value"}) /\ m1.value = [m.value EXCEPT ![s] = @ + 1]
  <2>1. sem_inc(m.value[s], SemLimit[s], 1) = m.value[s] + 1
    BY DEF sem_inc
  <2> QED BY <1>0, <2>1 DEF sem_fast_signal, Shape, Only, Fields
<1>2. r = IF m1.value[s] > 0 \/ ws = <<>> THEN m1 ELSE z
  BY DEF sem_signal
<1>3. CASE m.value[s] >= 0
  <2>1. m1.value[s] > 0
    BY <1>0, <1>1, <1>3
  <2>2. r = m1
    BY <1>2, <2>1
  <2> HIDE DEF m1
  <2>3. Only(m, r, {"value"}) /\ r.value = [m.value EXCEPT ![s] = @ + 1]
    BY <1>1, <2>2
  <2>4. Only(m, r, Waking \cup {"value", "grant"})
    BY <2>3 DEF Only
  <2> HIDE DEF r
  <2> QED BY <1>0, <1>3, <2>3, <2>4 DEF Signals
<1>4. CASE m.value[s] < 0
  <2>1. TokenWaiters(m, s) # {}
    <3>1. Cardinality(TokenWaiters(m, s)) = -m.value[s]
      BY <1>4 DEF SemsOK
    <3>2. Cardinality(TokenWaiters(m, s)) # 0
      BY <1>0, <1>4, <3>1
    <3> QED BY <3>2, FS_EmptySet
  <2>2. ws # <<>> /\ h \in TokenWaiters(m, s) /\ h \in Task
    <3>1. ws # <<>> /\ h \in TokenWaiters(m, s)
      BY <2>1, SemWaiters
    <3> QED BY <3>1 DEF TokenWaiters
  <2>3. r = z
    <3>1. ~(m1.value[s] > 0)
      BY <1>0, <1>1, <1>4
    <3> QED BY <1>2, <2>2, <3>1
  <2> HIDE DEF h, ws, m1, r
  <2>4. Shape(a) /\ Only(m1, a, {"wait_list"})
    BY <1>1, UnlinkFields
  <2> HIDE DEF a
  <2>5. Shape(q) /\ Only(a, q, {"grant"}) /\ q.grant = a.grant \cup {h}
    BY <2>4 DEF Shape, Only, Fields
  <2> HIDE DEF q
  <2> DEFINE ts == <<h>>
  <2>7. w = wakeup(q, ts, EOK) /\ Range(ts) = {h}
    BY OneElement
  <2> HIDE DEF ts, w
  <2>8. Shape(w) /\ Only(q, w, A) /\ w.state = [t \in Task |-> IF t \in Range(ts) THEN "READY" ELSE q.state[t]]
    <3> DEFINE x == wakeup(q, ts, EOK)
    <3>1. /\ Shape(x) /\ Only(q, x, {"p_wait", "pov_wait", "deadline", "left", "obj", "evbits", "bug", "state", "ready"})
          /\ x.state = [t \in Task |-> IF t \in Range(ts) THEN "READY" ELSE q.state[t]]
          /\ x.obj = [t \in Task |-> IF t \in Range(ts) THEN EOK ELSE q.obj[t]]
          /\ x.evbits = [t \in Task |-> IF t \in Range(ts) THEN NoBits ELSE q.evbits[t]]
      BY <2>5, WakeupFields
    <3> HIDE DEF x
    <3>2. w = x
      BY <2>7 DEF x
    <3> QED BY <3>1, <3>2
  <2>9. Only(w, z, {"pendsv"})
    BY <2>8, RescheduleFields
  <2> HIDE DEF z
  <2>10. Only(m, z, Waking \cup {"value", "grant"})
    BY <1>1, <2>4, <2>5, <2>8, <2>9 DEF Only, Waking
  <2> HIDE DEF A
  <2>11. a.grant = m1.grant /\ m1.grant = m.grant /\ a.state = m1.state /\ m1.state = m.state
         /\ a.value = m1.value /\ q.value = a.value /\ q.state = a.state
    BY <1>1, <2>4, <2>5 DEF Only, Fields
  <2>12. w.grant = q.grant /\ w.value = q.value /\ z.grant = w.grant /\ z.value = w.value /\ z.state = w.state
    BY <2>8, <2>9 DEF Only, Fields, A
  <2>13. z.grant = m.grant \cup {h} /\ z.value = m1.value
    BY <2>5, <2>11, <2>12
  <2>14. \A t \in Task \ {h} : z.state[t] = m.state[t]
    BY <2>7, <2>8, <2>11, <2>12
  <2>15. ~(m.value[s] >= 0)
    BY <1>0, <1>4
  <2> QED BY <1>1, <2>2, <2>3, <2>10, <2>13, <2>14, <2>15 DEF Signals
<1> QED BY <1>0, <1>3, <1>4

\* The side a of the queue f gets a slot, in the counter or in the hands of a
\* thread that waits for one.
Given(m, c, r, o, f, a) ==
  /\ Only(m, r, Waking \cup {"value", "grant"}) /\ r.value \in [Sems -> Int] /\ BaseOK(r, c) /\ GrantOK(r, c)
  /\ \A g \in Fifos, b \in Side :
       Tokens(r, SemOf(g, b)) + Cardinality(Busy(r, o, g, b)) =
         Tokens(m, SemOf(g, b)) + Cardinality(Busy(m, o, g, b)) + One(g = f /\ b = a)
  /\ m.grant \subseteq r.grant
  /\ \A t \in r.grant \ m.grant : o[t].op = a /\ o[t].f = f /\ o[t].pc = "wait"
  /\ \A t \in Task : (m.state[t] = "WTSEM" /\ (t \in r.grant => t \in m.grant)) => r.state[t] = "WTSEM"


\* What a signal of the semaphore of a side does.
LEMMA GiveToken ==
  ASSUME NEW m, NEW c, BaseOK(m, c), NEW o, PlaceOK(c, o), GrantOK(m, c), NEW f \in Fifos, NEW a \in Side,
         SemOf(f, a) \in m.live, NEW r, r = sem_signal(m, SemOf(f, a))
  PROVE  Given(m, c, r, o, f, a)
<1> DEFINE s == SemOf(f, a)
<1>0. s \in Sems /\ SemLimit[s] = 0 /\ KernelOK(m, c) /\ ServiceOK(m, c) /\ ToldOK(m, c) /\ SemsOK(m)
  BY SemsOfQueues DEF BaseOK, ServiceOK
<1>1. m.value \in [Sems -> Int] /\ Shape(m) /\ m.grant \subseteq Task /\ BlockedOK(m, c, {})
  <2>1. m \in Kernel /\ Shape(m) /\ BlockedOK(m, c, {})
    BY <1>0, KernelShape, CoreParts DEF KernelOK
  <2> QED BY <2>1, KernelTypes DEF Kernel
<1>2. \A g \in Fifos, b \in Side : SemOf(g, b) \in Sems /\ (SemOf(g, b) = s <=> g = f /\ b = a)
  BY SemsOfQueues
<1>3. s \in m.live
  OBVIOUS
<1>4. BaseOK(r, c)
  <2>1. KernelOK(sem_signal(m, s), c)
    BY <1>0, SemSignalFunOK DEF KernelOK
  <2>2. ServiceOK(sem_signal(m, s), c)
    BY <1>0, <1>3, SemSignalFunService
  <2>3. ToldOK(sem_signal(m, s), c)
    BY <1>0, SemSignalTold
  <2> QED BY <2>1, <2>2, <2>3 DEF BaseOK
<1>5. r = sem_signal(m, s)
  OBVIOUS
<1> HIDE DEF s
<1>50. Signals(m, r, s)
  BY <1>0, <1>3, <1>5, SignalEffect
<1>6. /\ Only(m, r, Waking \cup {"value", "grant"}) /\ r.value = [m.value EXCEPT ![s] = @ + 1]
      /\ m.value[s] >= 0 => Only(m, r, {"value"})
      /\ m.value[s] < 0 => \E h \in TokenWaiters(m, s) :
                                /\ r.grant = m.grant \cup {h}
                                /\ \A t \in Task \ {h} : r.state[t] = m.state[t]
  BY <1>50 DEF Signals
<1>7. r.value \in [Sems -> Int]
  BY <1>0, <1>1, <1>6
<1>8. r.evt = m.evt /\ r.wait_aborted = m.wait_aborted
  BY <1>6 DEF Only, Fields, Waking
<1>9. \A g \in Fifos, b \in Side : /\ Busy(m, o, g, b) \in SUBSET Task /\ Cardinality(Busy(m, o, g, b)) \in Nat
                                   /\ Busy(r, o, g, b) \in SUBSET Task
  <2>1. \A g \in Fifos, b \in Side : Busy(m, o, g, b) \in SUBSET Task /\ Busy(r, o, g, b) \in SUBSET Task
    BY DEF Busy
  <2> QED BY <2>1, FiniteTasks, FS_Subset, FS_CardinalityType
<1>10. CASE m.value[s] >= 0
  <2>1. r.grant = m.grant /\ r.state = m.state
    BY <1>6, <1>10 DEF Only, Fields
  <2>2. GrantOK(r, c)
    BY <1>8, <2>1 DEF GrantOK
  <2>3. \A g \in Fifos, b \in Side : Busy(r, o, g, b) = Busy(m, o, g, b)
    BY <2>1 DEF Busy
  <2>4. ASSUME NEW g \in Fifos, NEW b \in Side
        PROVE  Tokens(r, SemOf(g, b)) = Tokens(m, SemOf(g, b)) + One(g = f /\ b = a) /\ Tokens(m, SemOf(g, b)) \in Nat
    <3>1. CASE g = f /\ b = a
      <4>1. SemOf(g, b) = s /\ One(g = f /\ b = a) = 1
        BY <1>2, <3>1 DEF One
      <4>2. r.value[s] = m.value[s] + 1 /\ m.value[s] \in Int
        BY <1>0, <1>1, <1>6
      <4> QED BY <1>10, <4>1, <4>2 DEF Tokens
    <3>2. CASE ~(g = f /\ b = a)
      <4>1. SemOf(g, b) # s /\ One(g = f /\ b = a) = 0 /\ SemOf(g, b) \in Sems
        BY <1>2, <3>2 DEF One
      <4>2. r.value[SemOf(g, b)] = m.value[SemOf(g, b)] /\ m.value[SemOf(g, b)] \in Int
        BY <1>0, <1>1, <1>6, <4>1
      <4> QED BY <4>1, <4>2 DEF Tokens
    <3> QED BY <3>1, <3>2
  <2>5. \A g \in Fifos, b \in Side :
          Tokens(r, SemOf(g, b)) + Cardinality(Busy(r, o, g, b)) =
            Tokens(m, SemOf(g, b)) + Cardinality(Busy(m, o, g, b)) + One(g = f /\ b = a)
    <3> SUFFICES ASSUME NEW g \in Fifos, NEW b \in Side
                 PROVE  Tokens(r, SemOf(g, b)) + Cardinality(Busy(r, o, g, b)) =
                          Tokens(m, SemOf(g, b)) + Cardinality(Busy(m, o, g, b)) + One(g = f /\ b = a)
      OBVIOUS
    <3>1. One(g = f /\ b = a) \in Nat
      BY DEF One
    <3> QED BY <1>9, <2>3, <2>4, <3>1
  <2> QED BY <1>4, <1>6, <1>7, <2>1, <2>2, <2>5 DEF Given
<1>11. CASE m.value[s] < 0
  <2>1. PICK h \in TokenWaiters(m, s) : r.grant = m.grant \cup {h} /\ \A t \in Task \ {h} : r.state[t] = m.state[t]
    BY <1>6, <1>11
  <2>2. h \in Task /\ m.state[h] = "WTSEM" /\ m.obj[h] = s
    BY DEF TokenWaiters
  <2>3. c[h].op = "sem" /\ c[h].o = s /\ c[h].pc \in {"yield", "after"}
    BY <1>1, <2>2 DEF BlockedOK, Blocked, Waiting
  <2>4. h \notin m.grant
    BY <1>0, <2>2, <2>3 DEF ToldOK, Told, TokenTold
  <2>5. o[h].op = a /\ o[h].f = f /\ o[h].pc = "wait"
    <3>1. Place(c[h], o[h])
      BY <2>2 DEF PlaceOK
    <3>2. o[h].op \in Side /\ o[h].pc = "wait" /\ o[h].f \in Fifos /\ Takes(o[h]) = s
      BY <2>3, <3>1 DEF Place
    <3>3. SemOf(o[h].f, o[h].op) = s
      BY <3>2, SemsOfQueues
    <3> QED BY <1>2, <3>2, <3>3
  <2>6. GrantOK(r, c)
    BY <1>8, <2>1, <2>3 DEF GrantOK
  <2>7. \A t \in Task : (m.state[t] = "WTSEM" /\ (t \in r.grant => t \in m.grant)) => r.state[t] = "WTSEM"
    BY <2>1, <2>4
  <2>8. ASSUME NEW g \in Fifos, NEW b \in Side PROVE Tokens(r, SemOf(g, b)) = Tokens(m, SemOf(g, b)) /\ Tokens(m, SemOf(g, b)) \in Nat
    <3>1. CASE SemOf(g, b) = s
      <4>1. r.value[s] = m.value[s] + 1 /\ m.value[s] \in Int
        BY <1>0, <1>1, <1>6
      <4> QED BY <1>11, <3>1, <4>1 DEF Tokens
    <3>2. CASE SemOf(g, b) # s
      <4>1. SemOf(g, b) \in Sems
        BY <1>2
      <4>2. r.value[SemOf(g, b)] = m.value[SemOf(g, b)] /\ m.value[SemOf(g, b)] \in Int
        BY <1>0, <1>1, <1>6, <3>2, <4>1
      <4> QED BY <4>2 DEF Tokens
    <3> QED BY <3>1, <3>2
  <2>9. ASSUME NEW g \in Fifos, NEW b \in Side
        PROVE  Cardinality(Busy(r, o, g, b)) = Cardinality(Busy(m, o, g, b)) + One(g = f /\ b = a)
    <3> DEFINE A == Busy(m, o, g, b)
               B == Busy(r, o, g, b)
    <3>1. A \in SUBSET Task /\ B \in SUBSET Task /\ Cardinality(A) \in Nat
      BY <1>9
    <3>2. \A u \in Task \ {h} : u \in A <=> u \in B
      BY <2>1 DEF Busy
    <3>3. h \notin A
      <4>1. ~Works(FALSE, o[h], g, b)
        BY <2>5 DEF Works, Side, Other
      <4>2. (h \in m.grant) = FALSE
        BY <2>4
      <4> QED BY <4>1, <4>2 DEF Busy
    <3>4. h \in B <=> (g = f /\ b = a)
      <4>1. Works(TRUE, o[h], g, b) <=> (g = f /\ b = a)
        BY <2>5 DEF Works, Side, Other
      <4>2. (h \in r.grant) = TRUE
        BY <2>1
      <4> QED BY <2>2, <4>1, <4>2 DEF Busy
    <3> HIDE DEF A, B
    <3>5. /\ Cardinality(A) \in Nat /\ Cardinality(B) \in Nat
          /\ Cardinality(B) = Cardinality(A) + One(h \in B) - One(h \in A)
      BY <2>2, <3>1, <3>2, CardOne
    <3>6. One(h \in B) = One(g = f /\ b = a) /\ One(h \in A) = 0 /\ One(g = f /\ b = a) \in Nat
      BY <3>3, <3>4 DEF One
    <3>7. Cardinality(B) = Cardinality(A) + One(g = f /\ b = a)
      BY <3>5, <3>6
    <3> QED BY <3>7 DEF A, B
  <2>10. \A g \in Fifos, b \in Side :
          Tokens(r, SemOf(g, b)) + Cardinality(Busy(r, o, g, b)) =
            Tokens(m, SemOf(g, b)) + Cardinality(Busy(m, o, g, b)) + One(g = f /\ b = a)
    <3> SUFFICES ASSUME NEW g \in Fifos, NEW b \in Side
                 PROVE  Tokens(r, SemOf(g, b)) + Cardinality(Busy(r, o, g, b)) =
                          Tokens(m, SemOf(g, b)) + Cardinality(Busy(m, o, g, b)) + One(g = f /\ b = a)
      OBVIOUS
    <3>1. One(g = f /\ b = a) \in Nat
      BY DEF One
    <3> QED BY <1>9, <2>8, <2>9, <3>1
  <2>11. \A t \in r.grant \ m.grant : o[t].op = a /\ o[t].f = f /\ o[t].pc = "wait"
    BY <2>1, <2>5
  <2> QED BY <1>4, <1>6, <1>7, <2>1, <2>6, <2>7, <2>10, <2>11 DEF Given
<1> QED BY <1>0, <1>1, <1>10, <1>11


\* The thread gives the slot it made to the other side, and has none itself.
LEMMA SlotGiven ==
  ASSUME NEW m, NEW c, NEW r, NEW o, SlotsOK(m, r, o), RingOK(r), m.value \in [Sems -> Int],
         NEW n, NEW f \in Fifos, NEW a \in Side, Given(m, c, n, o, f, a), n.live = m.live,
         NEW p, NEW t \in Task, NEW b, Goes(o, p, t, b),
         \A g \in Fifos, y \in Side : /\ Works(t \in n.grant, o[t], g, y) <=> (g = f /\ y = a)
                                      /\ ~Works(t \in n.grant, b, g, y)
  PROVE  SlotsOK(n, r, p)
<1> SUFFICES ASSUME NEW g \in Fifos, NEW y \in Side, IsOpen(n, g)
             PROVE  Slots(r, g, y) = Tokens(n, SemOf(g, y)) + Cardinality(Busy(n, p, g, y))
  BY DEF SlotsOK
<1> DEFINE A == Busy(n, o, g, y)
           B == Busy(n, p, g, y)
           C == Busy(m, o, g, y)
           S == Slots(r, g, y)
           T == Tokens(m, SemOf(g, y))
           U == Tokens(n, SemOf(g, y))
           e == One(g = f /\ y = a)
<1>1. S = T + Cardinality(C) /\ S \in Nat /\ T \in Nat /\ Cardinality(C) \in Nat
  <2>1. IsOpen(m, g)
    BY DEF IsOpen
  <2>2. S \in Nat /\ T \in Nat /\ Cardinality(C) \in Nat
    BY SlotTypes
  <2> QED BY <2>1, <2>2 DEF SlotsOK
<1>2. U + Cardinality(A) = T + Cardinality(C) + e
  BY DEF Given
<1>3. U \in Nat
  BY SemsOfQueues DEF Given, Tokens
<1>4. A \in SUBSET Task /\ B \in SUBSET Task
  BY DEF Busy
<1>5. \A u \in Task \ {t} : u \in A <=> u \in B
  BY DEF Busy, Goes
<1>6. (t \in A <=> (g = f /\ y = a)) /\ t \notin B
  BY DEF Busy, Goes
<1>7. One(t \in A) = e /\ One(t \in B) = 0 /\ e \in Nat
  BY <1>6 DEF One
<1> HIDE DEF A, B, C, S, T, U, e
<1>8. /\ Cardinality(A) \in Nat /\ Cardinality(B) \in Nat
      /\ Cardinality(B) = Cardinality(A) + One(t \in B) - One(t \in A)
  BY <1>4, <1>5, CardOne
<1>9. S = U + Cardinality(B)
  <2> DEFINE cA == Cardinality(A)
             cB == Cardinality(B)
             cC == Cardinality(C)
  <2>1. cB = cA - e
    BY <1>7, <1>8
  <2>2. S = T + cC /\ U + cA = T + cC + e
    BY <1>1, <1>2
  <2>3. S \in Nat /\ T \in Nat /\ U \in Nat /\ e \in Nat /\ cA \in Nat /\ cB \in Nat /\ cC \in Nat
    BY <1>1, <1>3, <1>7, <1>8
  <2> HIDE DEF cA, cB, cC
  <2>4. S = U + cB
    BY <2>1, <2>2, <2>3
  <2> QED BY <2>4 DEF cB
<1> QED BY <1>9 DEF S, U, B

\* The other side gets its token.
LEMMA SignalQueues ==
  ASSUME BaseOK(k, call), QueuesOK(k, call, ring, fop), NEW t \in Task, FifoSignal(t)
  PROVE  QueuesOK(k', call', ring', fop')
<1> DEFINE l == k'
           p == fop'
           a == fop[t]
           g == a.f
           y == Other(a.op)
           b == IF a.op = "write" THEN [a EXCEPT !.pc = "raise"] ELSE NoFop
<1>0. /\ KernelOK(k, call) /\ a.op # "none" /\ a.pc = "signal" /\ Running(t) /\ ring' = ring
      /\ SemSignal(t, Gives(a)) /\ l = sem_signal(k, Gives(a))
  BY DEF BaseOK, FifoSignal, At, SemSignal
<1>1. t = k.currp /\ call[t].op = "none" /\ call[t].pc = "run"
  BY <1>0, RunningFree DEF Running
<1>2. /\ DOMAIN fop = Task /\ Place(call[t], a) /\ GrantOK(k, call) /\ OpenOK(k, fop) /\ k.sched_lock = One(Locked(a))
      /\ Shape(k) /\ k.grant \subseteq Task /\ DOMAIN ring = Fifos /\ RingOK(ring) /\ SlotsOK(k, ring, fop)
      /\ k.value \in [Sems -> Int]
  BY <1>0, <1>1, ThreadFacts
<1>3. a \in Fop /\ a.op \in Side /\ g \in Fifos /\ (a.op = "write" => a.item \in Item)
  BY <1>0, <1>2 DEF Place, Fop, Side
<1>4. p = [fop EXCEPT ![t] = b]
  BY <1>2 DEF FifoSignal
<1>5. Goes(fop, p, t, b)
  BY <1>2, <1>4, GoesTo
<1>6. y \in Side /\ Gives(a) = SemOf(g, y) /\ SemOf(g, y) \in Sems
  BY <1>3, SemsOfQueues
<1>7. SemOf(g, y) \in k.live
  BY <1>0, <1>6 DEF SemSignal
<1>8. Given(k, call, l, fop, g, y)
  <2>1. PlaceOK(call, fop)
    BY DEF QueuesOK
  <2> HIDE DEF l, y, g
  <2> QED BY <1>0, <1>2, <1>3, <1>6, <1>7, <2>1, GiveToken DEF g
<1>9. call' = call
  <2>1. k.evt[Gives(a)] = Null
    BY <1>2, <1>6 DEF GrantOK
  <2>2. ~Notifies(Gives(a))
    BY <2>1 DEF Notifies, Connected
  <2> QED BY <1>0, <2>2 DEF SemSignal
<1>10. l.currp = k.currp /\ l.sched_lock = k.sched_lock /\ l.live = k.live
  BY <1>8 DEF Given, Only, Fields, Waking
<1>11. /\ Place(call[t], b) /\ (Locked(b) <=> Locked(a)) /\ b.op # "destroy"
       /\ b.op \in Side => b.f = g
       /\ \A f \in Fifos, z \in Side : ~Works(t \in l.grant, b, f, z)
  <2>1. CASE a.op = "write"
    <3>1. b = [a EXCEPT !.pc = "raise"]
      BY <2>1
    <3> HIDE DEF b, a, l, p, g, y
    <3>2. b \in Fop /\ b.op = a.op /\ b.f = a.f /\ b.item = a.item /\ b.pc = "raise"
      BY <1>3, <3>1, Moved
    <3>3. Locked(b) /\ Locked(a)
      BY <1>0, <2>1, <3>2 DEF Locked
    <3>4. Place(call[t], b)
      BY <1>1, <1>3, <2>1, <3>2 DEF Place, Side, g
    <3>5. \A f \in Fifos, z \in Side : ~Works(t \in l.grant, b, f, z)
      BY <3>2 DEF Works
    <3> QED BY <2>1, <3>2, <3>3, <3>4, <3>5 DEF g
  <2>2. CASE a.op # "write"
    <3>1. b = NoFop
      BY <2>2
    <3> HIDE DEF b, a, l, p, g, y
    <3>2. /\ b.op = "none" /\ b.op \notin Side /\ ~Locked(b) /\ (\A e : e.op # "sem" => Place(e, b))
          /\ \A x, f : \A z \in Side : ~Works(x, b, f, z)
      BY <3>1, FreePlaces, Nowhere
    <3>3. ~Locked(a)
      BY <1>0, <2>2 DEF Locked
    <3> QED BY <1>1, <3>2, <3>3
  <2> QED BY <2>1, <2>2
<1> HIDE DEF b, l, p
<1>12. \A f \in Fifos, z \in Side : /\ Works(t \in l.grant, fop[t], f, z) <=> (f = g /\ z = y)
                                    /\ ~Works(t \in l.grant, b, f, z)
  <2> HIDE DEF a
  <2>1. \A f \in Fifos, z \in Side : Works(t \in l.grant, a, f, z) <=> (f = g /\ z = y)
    BY <1>0, <1>3 DEF Works, Side, Other
  <2> QED BY <1>11, <2>1 DEF a
<1> HIDE DEF a, g, y
<1>13. SlotsOK(l, ring, p)
  BY <1>2, <1>3, <1>5, <1>6, <1>8, <1>10, <1>12, SlotGiven
<1>14. l.sched_lock = One(Locked(p[t]))
  BY <1>2, <1>5, <1>10, <1>11 DEF One, Goes
<1>15. IsOpen(k, g)
  BY <1>0, <1>2, <1>3 DEF OpenOK, a, g
<1>16. OpenOK(l, p)
  <2>1. ASSUME NEW u \in Task, p[u].op \in Side /\ (p[u].pc \notin {"wait", "end"} \/ u \in l.grant)
        PROVE  IsOpen(l, p[u].f)
    <3>1. CASE u = t
      BY <1>5, <1>10, <1>11, <1>15, <2>1, <3>1 DEF Goes, IsOpen
    <3>2. CASE u # t
      <4>1. p[u] = fop[u]
        BY <1>5, <3>2 DEF Goes
      <4>2. CASE u \in l.grant \ k.grant
        BY <1>8, <1>10, <1>15, <4>1, <4>2 DEF Given, IsOpen
      <4>3. CASE u \notin l.grant \ k.grant
        BY <1>2, <1>10, <2>1, <4>1, <4>3 DEF OpenOK, IsOpen
      <4> QED BY <4>2, <4>3
    <3> QED BY <3>1, <3>2
  <2> QED BY <1>2, <1>10, <2>1 DEF OpenOK
<1>17. GrantOK(l, call)
  BY <1>8 DEF Given
<1>18. /\ Place(call[t], p[t]) /\ (\A u \in Task \ {t} : call[u] = call[u] /\ p[u] = fop[u])
       /\ (p[t].op = "destroy" /\ p[t].pc = "locked") => Closing(l, call, ring, p, t, p[t].f)
       /\ DOMAIN p = Task /\ t = k.currp /\ l.currp = t /\ DOMAIN ring = Fifos /\ RingOK(ring)
  BY <1>1, <1>2, <1>5, <1>10, <1>11 DEF Goes
<1>19. QueuesOK(l, call, ring, p)
  BY <1>13, <1>14, <1>16, <1>17, <1>18, ThreadStep
<1> QED BY <1>0, <1>9, <1>19 DEF l, p


-----------------------------------------------------------------------------
\* A token of the side a of the queue f is taken out of the counter.
Took(m, c, n, f, a) ==
  /\ BaseOK(n, c) /\ Only(m, n, {"value"}) /\ n.value \in [Sems -> Int]
  /\ \A g \in Fifos, b \in Side : Tokens(n, SemOf(g, b)) = Tokens(m, SemOf(g, b)) - One(g = f /\ b = a)

\* That is what _isix_port_atomic_sem_trydec does for an interrupt handler.
LEMMA TakeToken ==
  ASSUME NEW m, NEW c, BaseOK(m, c), NEW f \in Fifos, NEW a \in Side, SemOf(f, a) \in m.live, m.value[SemOf(f, a)] > 0
  PROVE  Took(m, c, [m EXCEPT !.value = [m.value EXCEPT ![SemOf(f, a)] = @ - 1]], f, a)
<1> DEFINE s == SemOf(f, a)
           v == m.value[s] - 1
           n == [m EXCEPT !.value = [m.value EXCEPT ![SemOf(f, a)] = @ - 1]]
<1>0. s \in Sems /\ KernelOK(m, c) /\ ServiceOK(m, c) /\ ToldOK(m, c) /\ SemsOK(m) /\ m.value \in [Sems -> Int]
  <2>1. KernelOK(m, c) /\ ServiceOK(m, c) /\ ToldOK(m, c) /\ SemsOK(m)
    BY DEF BaseOK, ServiceOK
  <2> QED BY <2>1, SemsOfQueues, KernelShape, KernelTypes
<1>1. v \in Int /\ v >= 0 /\ n = [m EXCEPT !.value = [m.value EXCEPT ![s] = v]] /\ m.value[s] > 0 /\ s \in m.live
  BY <1>0
<1>2. \A g \in Fifos, b \in Side : SemOf(g, b) \in Sems /\ (SemOf(g, b) = s <=> g = f /\ b = a)
  BY SemsOfQueues
<1> SUFFICES Took(m, c, n, f, a)
  OBVIOUS
<1> HIDE DEF s, n
<1>3. Cardinality(TokenWaiters(m, s)) = (IF v < 0 THEN -v ELSE 0)
  <2>1. Cardinality(TokenWaiters(m, s)) = 0
    BY <1>0, <1>1 DEF SemsOK
  <2> QED BY <1>1, <2>1
<1>31. m.value[s] = v + 1
  BY <1>0
<1> HIDE DEF v
<1>4. ServiceOK(n, c) /\ KernelOK(n, c)
  BY <1>0, <1>1, <1>3, CounterService
<1>5. ToldOK(n, c) /\ Only(m, n, {"value"})
  <2> DEFINE w == [m.value EXCEPT ![s] = v]
  <2>1. n = [m EXCEPT !.value = w]
    BY <1>1
  <2> HIDE DEF w
  <2> QED BY <1>0, <2>1, CounterTold
<1>6. n.value = [m.value EXCEPT ![s] = v]
  <2>1. Shape(m)
    BY <1>0, KernelShape
  <2> QED BY <1>1, <2>1 DEF Shape, Fields
<1>7. ASSUME NEW g \in Fifos, NEW b \in Side
      PROVE  Tokens(n, SemOf(g, b)) = Tokens(m, SemOf(g, b)) - One(g = f /\ b = a)
  <2>1. CASE g = f /\ b = a
    <3>1. SemOf(g, b) = s /\ One(g = f /\ b = a) = 1
      BY <1>2, <2>1 DEF One
    <3>2. n.value[s] = v
      BY <1>0, <1>6
    <3> QED BY <1>1, <1>31, <3>1, <3>2 DEF Tokens
  <2>2. CASE ~(g = f /\ b = a)
    <3>1. SemOf(g, b) # s /\ One(g = f /\ b = a) = 0 /\ SemOf(g, b) \in Sems
      BY <1>2, <2>2 DEF One
    <3>2. n.value[SemOf(g, b)] = m.value[SemOf(g, b)] /\ m.value[SemOf(g, b)] \in Int
      BY <1>0, <1>6, <3>1
    <3> QED BY <3>1, <3>2 DEF Tokens
  <2> QED BY <2>1, <2>2
<1>8. n.value \in [Sems -> Int]
  BY <1>0, <1>1, <1>6
<1> QED BY <1>4, <1>5, <1>7, <1>8 DEF BaseOK, Took

\* An interrupt handler takes a token of one side, copies, gives one to the
\* other side and may raise the event.
LEMMA HandlerQueues ==
  ASSUME BaseOK(k, call), QueuesOK(k, call, ring, fop), NEW f \in Fifos, NEW a \in Side,
         ~ring[f].noirq, IsOpen(k, f), k.value[SemOf(f, a)] > 0,
         NEW m, Took(k, call, m, f, a), NEW r, r = sem_signal(m, SemOf(f, Other(a))),
         NEW n, Only(r, n, Waking \cup {"bitset"}),
         \A t \in Task : r.state[t] = "WTSEM" => n.state[t] = "WTSEM",
         NEW q, Copied(ring, q, f, a)
  PROVE  QueuesOK(n, call, q, fop)
<1> DEFINE y == Other(a)
<1>0. /\ PlaceOK(call, fop) /\ GrantOK(k, call) /\ OpenOK(k, fop) /\ SlotsOK(k, ring, fop) /\ RingOK(ring)
      /\ ClosingOK(k, call, ring, fop) /\ KernelOK(k, call)
  BY DEF QueuesOK, BaseOK
<1>1. k.value \in [Sems -> Int] /\ k.grant \subseteq Task
  BY <1>0, KernelShape, KernelTypes
<1>2. y \in Side /\ y # a /\ SemOf(f, a) \in k.live /\ SemOf(f, y) \in k.live
  BY <1>0, SemsOfQueues, OpenSides
<1>3. /\ BaseOK(m, call) /\ Only(k, m, {"value"}) /\ m.value \in [Sems -> Int]
      /\ \A g \in Fifos, b \in Side : Tokens(m, SemOf(g, b)) = Tokens(k, SemOf(g, b)) - One(g = f /\ b = a)
  BY DEF Took
<1>4. /\ m.live = k.live /\ m.grant = k.grant /\ m.evt = k.evt /\ m.wait_aborted = k.wait_aborted
      /\ m.state = k.state /\ m.sched_lock = k.sched_lock /\ m.currp = k.currp
  BY <1>3 DEF Only, Fields
<1>5. GrantOK(m, call)
  BY <1>0, <1>4 DEF GrantOK
<1>6. Given(m, call, r, fop, f, y)
  <2>1. r = sem_signal(m, SemOf(f, y)) /\ SemOf(f, y) \in m.live
    BY <1>2, <1>4
  <2> HIDE DEF y
  <2> QED BY <1>0, <1>2, <1>3, <1>5, <2>1, GiveToken
<1> HIDE DEF y
<1>7. /\ r.live = m.live /\ r.sched_lock = m.sched_lock /\ r.currp = m.currp
      /\ n.live = r.live /\ n.sched_lock = r.sched_lock /\ n.currp = r.currp /\ n.grant = r.grant
      /\ n.value = r.value /\ n.evt = r.evt /\ n.wait_aborted = r.wait_aborted
  <2>1. Only(m, r, Waking \cup {"value", "grant"})
    BY <1>6 DEF Given
  <2>2. r.live = m.live /\ r.sched_lock = m.sched_lock /\ r.currp = m.currp
    BY <2>1 DEF Only, Fields, Waking
  <2>3. /\ n.live = r.live /\ n.sched_lock = r.sched_lock /\ n.currp = r.currp /\ n.grant = r.grant
        /\ n.value = r.value /\ n.evt = r.evt /\ n.wait_aborted = r.wait_aborted
    BY DEF Only, Fields, Waking
  <2> QED BY <2>2, <2>3
<1>8. GrantOK(n, call)
  BY <1>6, <1>7 DEF Given, GrantOK
<1>9. \A t \in n.grant \ k.grant : fop[t].op = y /\ fop[t].f = f /\ fop[t].pc = "wait"
  BY <1>4, <1>6, <1>7 DEF Given
<1>10. ClosingOK(n, call, q, fop)
  <2> SUFFICES ASSUME NEW t \in Task, fop[t].op = "destroy", fop[t].pc = "locked"
               PROVE  Closing(n, call, q, fop, t, fop[t].f)
    BY DEF ClosingOK
  <2> DEFINE h == fop[t].f
  <2>1. Closing(k, call, ring, fop, t, h) /\ h \in Fifos
    BY <1>0 DEF ClosingOK, PlaceOK, Place
  <2>2. h # f /\ q[h] = ring[h]
    BY <2>1 DEF Closing, Copied
  <2> HIDE DEF h
  <2>3. ASSUME NEW u \in Task, call[u].o \in {RxSem[h], TxSem[h]} PROVE n.state[u] = "WTSEM"
    <3>1. k.state[u] = "WTSEM"
      BY <2>1, <2>3 DEF Closing
    <3>2. CASE u \in n.grant \ k.grant
      <4>1. fop[u].op = y /\ fop[u].f = f /\ fop[u].pc = "wait" /\ Place(call[u], fop[u])
        BY <1>0, <1>9, <3>2 DEF PlaceOK
      <4>2. call[u].o = Takes(fop[u]) /\ fop[u].op \in Side /\ fop[u].op # "none"
        BY <1>2, <4>1 DEF Place, Side
      <4>3. call[u].o = SemOf(f, y)
        BY <4>1, <4>2, SemsOfQueues
      <4>4. PICK b \in Side : call[u].o = SemOf(h, b)
        BY <2>3 DEF SemOf, Side
      <4>5. SemOf(h, b) = SemOf(f, y)
        BY <4>3, <4>4
      <4>6. h = f
        BY <1>2, <2>1, <4>5, SemsOfQueues
      <4> QED BY <2>2, <4>6
    <3>3. CASE u \notin n.grant \ k.grant
      BY <1>4, <1>6, <1>7, <3>1, <3>3 DEF Given
    <3> QED BY <3>2, <3>3
  <2>4. Closing(n, call, q, fop, t, h)
    BY <1>4, <1>7, <2>1, <2>2, <2>3 DEF Closing, IsOpen
  <2> QED BY <2>4 DEF h
<1>11. SlotsOK(n, q, fop)
  <2> SUFFICES ASSUME NEW g \in Fifos, NEW b \in Side, IsOpen(n, g)
               PROVE  Slots(q, g, b) = Tokens(n, SemOf(g, b)) + Cardinality(Busy(n, fop, g, b))
    BY DEF SlotsOK
  <2> DEFINE A == Busy(k, fop, g, b)
             B == Busy(n, fop, g, b)
             S == Slots(ring, g, b)
             R == Slots(q, g, b)
             T == Tokens(k, SemOf(g, b))
             V == Tokens(m, SemOf(g, b))
             U == Tokens(n, SemOf(g, b))
             x == One(g = f /\ b = a)
             z == One(g = f /\ b = y)
             cA == Cardinality(A)
             cB == Cardinality(B)
  <2>1. IsOpen(k, g)
    BY <1>4, <1>7 DEF IsOpen
  <2>2. S = T + cA /\ S \in Nat /\ T \in Nat /\ cA \in Nat
    <3>1. S \in Nat /\ T \in Nat /\ cA \in Nat
      BY <1>0, <1>1, SlotTypes
    <3> QED BY <1>0, <2>1, <3>1 DEF SlotsOK
  <2>3. V = T - x
    BY <1>3
  <2>4. U + cB = V + cA + z
    <3>1. Busy(m, fop, g, b) = A /\ Busy(r, fop, g, b) = B /\ Tokens(r, SemOf(g, b)) = U
      BY <1>4, <1>7 DEF Busy, Tokens
    <3> HIDE DEF A, B, U, V, z
    <3> QED BY <1>6, <3>1 DEF Given, V, z
  <2>5. U \in Nat /\ cB \in Nat
    <3>1. n.value \in [Sems -> Int]
      BY <1>6, <1>7 DEF Given
    <3>2. RingOK(q)
      BY DEF Copied
    <3> QED BY <3>1, <3>2, SlotTypes
  <2>6. R = S - x + z /\ x \in Nat /\ z \in Nat
    <3>1. CASE g # f
      <4>1. x = 0 /\ z = 0
        BY <3>1 DEF One
      <4>2. R = S
        BY <3>1 DEF Copied, Slots
      <4> HIDE DEF x, z, R, S
      <4> QED BY <2>2, <4>1, <4>2
    <3>2. CASE g = f /\ b = a
      <4>1. x = 1 /\ z = 0
        BY <1>2, <3>2 DEF One
      <4>2. R = S - 1
        BY <3>2 DEF Copied
      <4> HIDE DEF x, z, R, S
      <4> QED BY <2>2, <4>1, <4>2
    <3>3. CASE g = f /\ b = y
      <4>1. x = 0 /\ z = 1
        BY <1>2, <3>3 DEF One
      <4>2. R = S + 1
        BY <3>3 DEF Copied, y
      <4> HIDE DEF x, z, R, S
      <4> QED BY <2>2, <4>1, <4>2
    <3>4. b = a \/ b = y
      BY <1>2 DEF Side
    <3> QED BY <3>1, <3>2, <3>3, <3>4
  <2> HIDE DEF A, B, S, R, T, V, U, x, z, cA, cB
  <2>7. R = U + cB
    BY <2>2, <2>3, <2>4, <2>5, <2>6
  <2> QED BY <2>7 DEF R, U, cB, B
<1>12. /\ n.live = k.live /\ n.sched_lock = k.sched_lock /\ (k.sched_lock # 0 => n.currp = k.currp)
       /\ (\A t \in n.grant \ k.grant : IsOpen(k, fop[t].f)) /\ DOMAIN q = Fifos /\ RingOK(q)
  BY <1>4, <1>7, <1>9 DEF Copied
<1> QED BY <1>8, <1>10, <1>11, <1>12, OutsideStep


\* An interrupt handler writes an item, which needs a free slot, ...
LEMMA WriteIsrQueues ==
  ASSUME BaseOK(k, call), QueuesOK(k, call, ring, fop), NEW f \in Fifos, NEW x \in Item, FifoWriteIsr(f, x)
  PROVE  QueuesOK(k', call', ring', fop') /\ BaseOK(k', call') /\ Slots(ring, f, "write") > 0
<1> DEFINE a == "write"
           s == TxSem[f]
           m == [k EXCEPT !.value[s] = sem_trydec(@)]
           r == sem_signal(m, RxSem[f])
           l == rxavail_event_raise(r, f)
           q == ring'
<1>0. /\ ~ring[f].noirq /\ IsOpen(k, f) /\ k.value[s] > 0 /\ k' = l /\ q = copy_in(ring, f, x)
      /\ call' = call /\ fop' = fop
  BY DEF FifoWriteIsr, Open, IsOpen
<1>1. /\ PlaceOK(call, fop) /\ GrantOK(k, call) /\ OpenOK(k, fop) /\ SlotsOK(k, ring, fop) /\ RingOK(ring)
      /\ DOMAIN ring = Fifos /\ KernelOK(k, call)
  BY DEF QueuesOK, BaseOK
<1>2. k.value \in [Sems -> Int] /\ s \in Sems /\ SemOf(f, "write") = s /\ SemOf(f, "read") = RxSem[f]
      /\ "write" \in Side /\ "read" \in Side /\ Other("write") = "read"
  BY <1>1, KernelShape, KernelTypes, FifoAssumption DEF SemOf, Side, Other
<1>3. s \in k.live /\ RxSem[f] \in k.live
  BY <1>0, <1>1 DEF OpenOK, IsOpen
<1>4. m = [k EXCEPT !.value = [k.value EXCEPT ![SemOf(f, "write")] = @ - 1]]
  BY <1>0, <1>2 DEF sem_trydec
<1>5. Took(k, call, m, f, "write")
  <2>1. Took(k, call, [k EXCEPT !.value = [k.value EXCEPT ![SemOf(f, "write")] = @ - 1]], f, "write")
    BY <1>0, <1>2, <1>3, TakeToken
  <2> QED BY <1>4, <2>1
<1>6. r = sem_signal(m, SemOf(f, Other("write")))
  BY <1>2
<1> HIDE DEF m
<1>7. /\ BaseOK(m, call) /\ m.live = k.live /\ GrantOK(m, call)
  <2>1. Only(k, m, {"value"}) /\ BaseOK(m, call)
    BY <1>5 DEF Took
  <2>2. m.live = k.live /\ m.grant = k.grant /\ m.evt = k.evt /\ m.wait_aborted = k.wait_aborted
    BY <2>1 DEF Only, Fields
  <2> QED BY <1>1, <2>1, <2>2 DEF GrantOK
<1>8. BaseOK(r, call)
  <2>1. r = sem_signal(m, SemOf(f, "read")) /\ SemOf(f, "read") \in m.live
    BY <1>2, <1>3, <1>7
  <2> HIDE DEF r
  <2>2. Given(m, call, r, fop, f, "read")
    BY <1>1, <1>2, <1>7, <2>1, GiveToken
  <2> QED BY <2>2 DEF Given
<1> HIDE DEF r
<1>9. /\ Only(r, l, Waking \cup {"bitset"}) /\ \A t \in Task : r.state[t] = "WTSEM" => l.state[t] = "WTSEM"
      /\ BaseOK(r, call) => BaseOK(l, call)
  <2>1. KernelOK(r, call)
    BY <1>8 DEF BaseOK
  <2> QED BY <2>1, RaiseFields
<1> HIDE DEF l, q
<1>10. Slots(ring, f, "write") > 0
  <2>1. Tokens(k, SemOf(f, "write")) > 0
    BY <1>0, <1>2 DEF Tokens
  <2> QED BY <1>0, <1>1, <1>2, <2>1, SlotThere
<1>11. Copied(ring, q, f, "write")
  BY <1>0, <1>1, <1>10, CopySlots
<1>12. k.value[SemOf(f, a)] > 0 /\ a \in Side /\ Took(k, call, m, f, a) /\ r = sem_signal(m, SemOf(f, Other(a)))
       /\ Copied(ring, q, f, a)
  BY <1>0, <1>2, <1>5, <1>6, <1>11
<1> HIDE DEF a, s
<1>13. QueuesOK(l, call, q, fop)
  BY <1>0, <1>9, <1>12, HandlerQueues
<1> QED BY <1>0, <1>8, <1>9, <1>10, <1>13 DEF q

\* ... and another one reads an item.
LEMMA ReadIsrQueues ==
  ASSUME BaseOK(k, call), QueuesOK(k, call, ring, fop), NEW f \in Fifos, FifoReadIsr(f)
  PROVE  QueuesOK(k', call', ring', fop') /\ BaseOK(k', call') /\ Slots(ring, f, "read") > 0
<1> DEFINE a == "read"
           s == RxSem[f]
           m == [k EXCEPT !.value[s] = sem_trydec(@)]
           r == sem_signal(m, TxSem[f])
           q == ring'
<1>0. /\ ~ring[f].noirq /\ IsOpen(k, f) /\ k.value[s] > 0 /\ k' = r /\ q = copy_out(ring, f)
      /\ call' = call /\ fop' = fop
  BY DEF FifoReadIsr, Open, IsOpen
<1>1. /\ PlaceOK(call, fop) /\ GrantOK(k, call) /\ OpenOK(k, fop) /\ SlotsOK(k, ring, fop) /\ RingOK(ring)
      /\ DOMAIN ring = Fifos /\ KernelOK(k, call)
  BY DEF QueuesOK, BaseOK
<1>2. k.value \in [Sems -> Int] /\ s \in Sems /\ SemOf(f, "read") = s /\ SemOf(f, "write") = TxSem[f]
      /\ "write" \in Side /\ "read" \in Side /\ Other("read") = "write"
  BY <1>1, KernelShape, KernelTypes, FifoAssumption DEF SemOf, Side, Other
<1>3. s \in k.live /\ TxSem[f] \in k.live
  BY <1>0, <1>1 DEF OpenOK, IsOpen
<1>4. m = [k EXCEPT !.value = [k.value EXCEPT ![SemOf(f, "read")] = @ - 1]]
  BY <1>0, <1>2 DEF sem_trydec
<1>5. Took(k, call, m, f, "read")
  <2>1. Took(k, call, [k EXCEPT !.value = [k.value EXCEPT ![SemOf(f, "read")] = @ - 1]], f, "read")
    BY <1>0, <1>2, <1>3, TakeToken
  <2> QED BY <1>4, <2>1
<1>6. r = sem_signal(m, SemOf(f, Other("read")))
  BY <1>2
<1> HIDE DEF m
<1>7. /\ BaseOK(m, call) /\ m.live = k.live /\ GrantOK(m, call)
  <2>1. Only(k, m, {"value"}) /\ BaseOK(m, call)
    BY <1>5 DEF Took
  <2>2. m.live = k.live /\ m.grant = k.grant /\ m.evt = k.evt /\ m.wait_aborted = k.wait_aborted
    BY <2>1 DEF Only, Fields
  <2> QED BY <1>1, <2>1, <2>2 DEF GrantOK
<1>8. BaseOK(r, call)
  <2>1. r = sem_signal(m, SemOf(f, "write")) /\ SemOf(f, "write") \in m.live
    BY <1>2, <1>3, <1>7
  <2> HIDE DEF r
  <2>2. Given(m, call, r, fop, f, "write")
    BY <1>1, <1>2, <1>7, <2>1, GiveToken
  <2> QED BY <2>2 DEF Given
<1> HIDE DEF r, q
<1>9. Only(r, r, Waking \cup {"bitset"}) /\ \A t \in Task : r.state[t] = "WTSEM" => r.state[t] = "WTSEM"
  BY DEF Only
<1>10. Slots(ring, f, "read") > 0
  <2>1. Tokens(k, SemOf(f, "read")) > 0
    BY <1>0, <1>2 DEF Tokens
  <2> QED BY <1>0, <1>1, <1>2, <2>1, SlotThere
<1>11. Copied(ring, q, f, "read")
  BY <1>0, <1>1, <1>10, CopySlots
<1>12. k.value[SemOf(f, a)] > 0 /\ a \in Side /\ Took(k, call, m, f, a) /\ r = sem_signal(m, SemOf(f, Other(a)))
       /\ Copied(ring, q, f, a)
  BY <1>0, <1>2, <1>5, <1>6, <1>11
<1> HIDE DEF a, s
<1>13. QueuesOK(r, call, q, fop)
  BY <1>0, <1>9, <1>12, HandlerQueues
<1> QED BY <1>0, <1>8, <1>10, <1>13 DEF q


-----------------------------------------------------------------------------
\* The fields isix_sem_destroy changes, for one semaphore or for two.
Destroying == Waking \cup {"live", "evt", "bitno"}

\* The semaphores of S are gone, and nothing else has happened to the queues.
AreGone(m, c, r, S) ==
  /\ BaseOK(r, c) /\ Only(m, r, Destroying) /\ r.live = m.live \ S
  /\ \A x \in Sems : m.evt[x] = Null => r.evt[x] = Null

\* One semaphore that nobody looks at again is destroyed.
LEMMA DestroyOne ==
  ASSUME NEW m, NEW c, BaseOK(m, c), NEW s \in Sems,
         \A u \in Task : c[u].o = s => Harmless(c[u], m.wait_aborted[u])
  PROVE  AreGone(m, c, sem_destroy(m, s), {s})
<1> DEFINE ws == m.wait_list[s]
           n  == sem_wakeup_all(m, s, EDESTROY)
           r  == sem_destroy(m, s)
           E  == [n.evt EXCEPT ![s] = Null]
           B  == [n.bitno EXCEPT ![s] = 0]
<1>0. KernelOK(m, c) /\ ServiceOK(m, c) /\ ToldOK(m, c)
  BY DEF BaseOK
<1>1. BaseOK(r, c)
  BY <1>0, SemDestroyFunOK, SemDestroyFunService, SemDestroyFunTold DEF BaseOK
<1>2. Shape(m) /\ ws \in Seq(Task) /\ m.evt \in [Notifier -> Evts \cup {Null}] /\ s \in Notifier /\ Sems \subseteq Notifier
  BY <1>0, KernelShape, KernelTypes, SemWaiters, SyncObjects
<1>3. Shape(n) /\ Only(m, n, Waking)
  <2> DEFINE z == IF ws = <<>> THEN m ELSE do_reschedule(wakeup(unlink(m, Range(ws)), ws, EDESTROY), Head(ws))
  <2>1. n = z
    BY DEF sem_wakeup_all
  <2>2. Shape(z) /\ Only(m, z, Waking) /\ WakesWith(m, z, Range(ws), EDESTROY)
    BY <1>2, BroadcastEffect
  <2> QED BY <2>1, <2>2
<1>4. r = [n EXCEPT !.live = @ \ {s}, !.evt = E, !.bitno = B]
  BY DEF sem_destroy
<1> SUFFICES AreGone(m, c, r, {s})
  OBVIOUS
<1> HIDE DEF n, r, ws
<1>5. Only(n, r, {"live", "evt", "bitno"}) /\ r.live = n.live \ {s} /\ r.evt = E
  BY <1>3, <1>4 DEF Shape, Only, Fields
<1>6. Only(m, r, Destroying)
  BY <1>3, <1>5 DEF Only, Destroying
<1>7. n.live = m.live /\ n.evt = m.evt
  BY <1>3 DEF Only, Fields, Waking
<1>8. \A x \in Sems : m.evt[x] = Null => r.evt[x] = Null
  BY <1>2, <1>5, <1>7
<1> QED BY <1>1, <1>5, <1>6, <1>7, <1>8 DEF AreGone

\* Who sleeps in a wait does not look at the semaphore again.
LEMMA AsleepHarmless ==
  ASSUME NEW m, NEW c, KernelOK(m, c), NEW t \in Task, m.state[t] = "WTSEM"
  PROVE  Harmless(c[t], m.wait_aborted[t])
<1>1. Blocked(m.state[t], c[t], m.obj[t], m.wait_aborted[t])
  BY CoreParts DEF KernelOK, BlockedOK
<1> QED BY <1>1 DEF Blocked, Harmless, Waiting

\* Both semaphores of a queue are destroyed.
LEMMA CloseBoth ==
  ASSUME BaseOK(k, call), NEW f \in Fifos,
         \A u \in Task : call[u].o \in {RxSem[f], TxSem[f]} => k.state[u] = "WTSEM"
  PROVE  AreGone(k, call, fifo_close(k, f), {RxSem[f], TxSem[f]})
<1> DEFINE x == RxSem[f]
           y == TxSem[f]
           m == sem_destroy(k, x)
           l == sem_destroy(m, y)
<1>0. x \in Sems /\ y \in Sems /\ KernelOK(k, call)
  BY FifoAssumption DEF BaseOK
<1>1. \A u \in Task : call[u].o \in {x, y} => Harmless(call[u], k.wait_aborted[u])
  BY <1>0, AsleepHarmless
<1>2. AreGone(k, call, m, {x})
  <2> HIDE DEF x, y
  <2> QED BY <1>0, <1>1, DestroyOne
<1>3. fifo_close(k, f) = l
  BY DEF fifo_close
<1> HIDE DEF m, x, y
<1>4. m.wait_aborted = k.wait_aborted /\ BaseOK(m, call)
  BY <1>2 DEF AreGone, Only, Fields, Destroying, Waking
<1>5. AreGone(m, call, l, {y})
  BY <1>0, <1>1, <1>4, DestroyOne
<1> HIDE DEF l
<1>6. AreGone(k, call, l, {x, y})
  <2>1. Only(k, m, Destroying) /\ Only(m, l, Destroying)
    BY <1>2, <1>5 DEF AreGone
  <2>2. Only(k, l, Destroying)
    BY <2>1 DEF Only
  <2>3. m.live = k.live \ {x} /\ l.live = m.live \ {y}
    BY <1>2, <1>5 DEF AreGone
  <2>4. l.live = k.live \ {x, y}
    BY <2>3
  <2> QED BY <1>2, <1>5, <2>2, <2>4 DEF AreGone
<1> QED BY <1>3, <1>6 DEF x, y

\* An empty ring.
LEMMA NewRingOK ==
  ASSUME NEW r, DOMAIN r = Fifos, RingOK(r), NEW f \in Fifos, NEW flag \in BOOLEAN
  PROVE  LET q == [r EXCEPT ![f] = NewRing(f, flag)] IN
         /\ DOMAIN q = Fifos /\ RingOK(q) /\ (\A g \in Fifos \ {f} : q[g] = r[g])
         /\ q[f].used = 0 /\ q[f].out = Null
<1> DEFINE q == [r EXCEPT ![f] = NewRing(f, flag)]
           z == NewRing(f, flag)
<1> SUFFICES /\ DOMAIN q = Fifos /\ RingOK(q) /\ (\A g \in Fifos \ {f} : q[g] = r[g])
             /\ q[f].used = 0 /\ q[f].out = Null
  OBVIOUS
<1>1. DOMAIN q = Fifos /\ q[f] = z /\ \A g \in Fifos \ {f} : q[g] = r[g]
  OBVIOUS
<1>2. Capacity(f) \in Nat /\ Capacity(f) > 0
  BY SemsOfQueues
<1>3. /\ z \in Ring(f) /\ z.used = 0 /\ z.tx_p = 0 /\ z.rx_p = 0 /\ z.out = Null
  BY <1>2 DEF NewRing, Ring
<1> HIDE DEF q, z
<1>4. z.tx_p = Ahead(f, z.rx_p, z.used) /\ z.used \in 0 .. Capacity(f)
  BY <1>2, <1>3 DEF Ahead
<1>5. RingOK(q)
  <2>1. \A g \in Fifos \ {f} : q[g] \in Ring(g) /\ q[g].used \in 0 .. Capacity(g) /\ q[g].tx_p = Ahead(g, q[g].rx_p, q[g].used)
    BY <1>1 DEF RingOK
  <2>2. q[f] \in Ring(f) /\ q[f].used \in 0 .. Capacity(f) /\ q[f].tx_p = Ahead(f, q[f].rx_p, q[f].used)
    BY <1>1, <1>3, <1>4
  <2> QED BY <2>1, <2>2 DEF RingOK
<1> QED BY <1>1, <1>3, <1>5


\* The queue f is gone: the current thread t, which has no slot and no token,
\* goes on at b; the others inside of a call on f are asleep in their waits.
LEMMA CloseStep ==
  ASSUME NEW m, NEW c, BaseOK(m, c), NEW r, NEW o, QueuesOK(m, c, r, o), NEW f \in Fifos,
         NEW n, AreGone(m, c, n, {RxSem[f], TxSem[f]}),
         \A u \in Task : c[u].o \in {RxSem[f], TxSem[f]} => m.state[u] = "WTSEM",
         NEW t \in Task, t = m.currp, o[t].op \notin Side,
         \A u \in Task \ {t} : (o[u].op # "none" /\ o[u].f = f) => o[u].pc = "wait",
         NEW b, NEW p, Goes(o, p, t, b), b.op \notin Side, ~(b.op = "destroy" /\ b.pc = "locked"),
         Place(c[t], b), m.sched_lock = One(Locked(b)),
         NEW q, DOMAIN q = Fifos, RingOK(q), \A g \in Fifos \ {f} : q[g] = r[g]
  PROVE  QueuesOK(n, c, q, p)
<1>0. /\ PlaceOK(c, o) /\ GrantOK(m, c) /\ OpenOK(m, o) /\ SlotsOK(m, r, o) /\ ToldOK(m, c)
  BY DEF QueuesOK, BaseOK
<1>1. /\ n.live = m.live \ {RxSem[f], TxSem[f]} /\ n.currp = m.currp /\ n.sched_lock = m.sched_lock
      /\ n.grant = m.grant /\ n.value = m.value /\ n.wait_aborted = m.wait_aborted
      /\ \A x \in Sems : m.evt[x] = Null => n.evt[x] = Null
  BY DEF AreGone, Only, Fields, Destroying, Waking
<1>2. GrantOK(n, c)
  BY <1>0, <1>1 DEF GrantOK
<1>3. \A g \in Fifos : IsOpen(n, g) <=> (IsOpen(m, g) /\ g # f)
  BY <1>1, FifoAssumption DEF IsOpen
<1>4. p[t] = b /\ DOMAIN p = Task /\ \A u \in Task \ {t} : p[u] = o[u]
  BY DEF Goes
<1>5. ASSUME NEW u \in Task, p[u].op \in Side, p[u].pc \notin {"wait", "end"} \/ u \in n.grant
      PROVE  IsOpen(n, p[u].f)
  <2>1. u # t /\ p[u] = o[u]
    BY <1>4, <1>5
  <2>2. IsOpen(m, o[u].f) /\ Place(c[u], o[u])
    BY <1>0, <1>1, <1>5, <2>1 DEF OpenOK, PlaceOK
  <2>3. ASSUME o[u].f = f PROVE FALSE
    <3>1. o[u].pc = "wait" /\ u \in m.grant /\ o[u].op \in Side /\ o[u].op # "none"
      BY <1>1, <1>5, <2>1, <2>3 DEF Side
    <3>2. c[u].op = "sem" /\ c[u].pc \in {"yield", "after"} /\ c[u].o = Takes(o[u])
      BY <1>0, <2>2, <3>1 DEF GrantOK, Place
    <3>3. c[u].o \in {RxSem[f], TxSem[f]}
      BY <2>3, <3>2 DEF Takes
    <3>4. m.state[u] = "WTSEM"
      BY <3>3
    <3> QED BY <1>0, <3>1, <3>2, <3>4 DEF ToldOK, Told, TokenTold
  <2>4. o[u].f \in Fifos
    BY <1>5, <2>1, <2>2 DEF Place, Side
  <2> QED BY <1>3, <2>1, <2>2, <2>3, <2>4
<1>6. OpenOK(n, p)
  <2>1. \A g \in Fifos : RxSem[g] \in n.live <=> TxSem[g] \in n.live
    BY <1>0, <1>1, FifoAssumption DEF OpenOK
  <2> QED BY <1>5, <2>1 DEF OpenOK
<1>7. SlotsOK(n, q, p)
  <2> SUFFICES ASSUME NEW g \in Fifos, NEW a \in Side, IsOpen(n, g)
               PROVE  Slots(q, g, a) = Tokens(n, SemOf(g, a)) + Cardinality(Busy(n, p, g, a))
    BY DEF SlotsOK
  <2>1. IsOpen(m, g) /\ g # f
    BY <1>3
  <2>2. Slots(q, g, a) = Slots(r, g, a)
    BY <2>1 DEF Slots
  <2>3. Tokens(n, SemOf(g, a)) = Tokens(m, SemOf(g, a))
    BY <1>1 DEF Tokens
  <2>4. ~Works(t \in m.grant, o[t], g, a) /\ ~Works(t \in n.grant, b, g, a)
    BY DEF Works, Side, Other
  <2>5. Busy(n, p, g, a) = Busy(m, o, g, a)
    BY <1>1, <1>4, <2>4 DEF Busy
  <2> QED BY <1>0, <2>1, <2>2, <2>3, <2>5 DEF SlotsOK
<1>8. /\ n.currp = t /\ (\A u \in Task \ {t} : c[u] = c[u] /\ p[u] = o[u])
      /\ Place(c[t], p[t]) /\ n.sched_lock = One(Locked(p[t])) /\ DOMAIN p = Task
      /\ (p[t].op = "destroy" /\ p[t].pc = "locked") => Closing(n, c, q, p, t, p[t].f)
  BY <1>1, <1>4
<1> QED BY <1>2, <1>6, <1>7, <1>8, ThreadStep

\* isix_fifo_destroy in one critical section ...
LEMMA DestroyQueues ==
  ASSUME BaseOK(k, call), QueuesOK(k, call, ring, fop), NEW t \in Task, NEW f \in Fifos, FifoDestroy(t, f),
         ~ring[f].noirq
  PROVE  /\ QueuesOK(k', call', ring', fop') /\ BaseOK(k', call')
         /\ ring' = [ring EXCEPT ![f] = NewRing(f, FALSE)]
<1> DEFINE l == k'
           q == ring'
<1>0. /\ KernelOK(k, call) /\ fop[t].op = "none" /\ Running(t) /\ call' = call /\ fop' = fop
      /\ l = fifo_close(k, f) /\ MayDestroy(f) /\ q = [ring EXCEPT ![f] = NewRing(f, FALSE)]
  BY DEF BaseOK, FifoDestroy
<1>1. t = k.currp
  BY <1>0, RunningFree
<1>2. /\ DOMAIN fop = Task /\ Place(call[t], fop[t]) /\ k.sched_lock = One(Locked(fop[t]))
      /\ DOMAIN ring = Fifos /\ RingOK(ring)
  BY <1>0, <1>1, ThreadFacts
<1>3. /\ \A u \in Task : call[u].o \in {RxSem[f], TxSem[f]} => k.state[u] = "WTSEM"
      /\ \A u \in Task : (fop[u].op # "none" /\ fop[u].f = f) => fop[u].pc = "wait"
  BY <1>0, <1>1, MayClose
<1>4. AreGone(k, call, l, {RxSem[f], TxSem[f]})
  BY <1>0, <1>3, CloseBoth
<1>5. DOMAIN q = Fifos /\ RingOK(q) /\ \A g \in Fifos \ {f} : q[g] = ring[g]
  <2>1. FALSE \in BOOLEAN
    OBVIOUS
  <2> QED BY <1>0, <1>2, <2>1, NewRingOK
<1> DEFINE b == fop[t]
<1>6. Goes(fop, fop, t, b) /\ b.op \notin Side /\ b.op # "destroy"
  BY <1>0, <1>2 DEF Goes, Side
<1>7. /\ fop[t].op \notin Side /\ (\A u \in Task \ {t} : (fop[u].op # "none" /\ fop[u].f = f) => fop[u].pc = "wait")
      /\ ~(b.op = "destroy" /\ b.pc = "locked") /\ Place(call[t], b) /\ k.sched_lock = One(Locked(b))
  BY <1>2, <1>3, <1>6
<1> HIDE DEF l, q, b
<1>8. QueuesOK(l, call, q, fop)
  BY <1>1, <1>3, <1>4, <1>5, <1>6, <1>7, CloseStep
<1> QED BY <1>0, <1>4, <1>8 DEF l, q, AreGone

\* ... and under the scheduler lock.
LEMMA CloseQueues ==
  ASSUME BaseOK(k, call), QueuesOK(k, call, ring, fop), NEW t \in Task, FifoClose(t)
  PROVE  /\ QueuesOK(k', call', ring', fop') /\ BaseOK(k', call')
         /\ fop[t].f \in Fifos /\ ring' = [ring EXCEPT ![fop[t].f] = NewRing(fop[t].f, FALSE)]
<1> DEFINE l == k'
           q == ring'
           p == fop'
           a == fop[t]
           f == a.f
           b == [a EXCEPT !.pc = "unlock"]
<1>0. /\ KernelOK(k, call) /\ a.op = "destroy" /\ a.pc = "locked" /\ Running(t) /\ call' = call
      /\ l = fifo_close(k, f) /\ q = [ring EXCEPT ![f] = NewRing(f, FALSE)]
  BY DEF BaseOK, FifoClose, At
<1>1. t = k.currp /\ call[t].op = "none" /\ call[t].pc = "run"
  BY <1>0, RunningFree DEF Running
<1>2. /\ DOMAIN fop = Task /\ Place(call[t], a) /\ k.sched_lock = One(Locked(a))
      /\ DOMAIN ring = Fifos /\ RingOK(ring)
  BY <1>0, <1>1, ThreadFacts
<1>3. a \in Fop /\ f \in Fifos
  BY <1>0, <1>2 DEF Place
<1>4. p = [fop EXCEPT ![t] = b]
  BY <1>2 DEF FifoClose
<1>5. Goes(fop, p, t, b)
  BY <1>2, <1>4, GoesTo
<1>6. b \in Fop /\ b.op = a.op /\ b.f = a.f /\ b.item = a.item /\ b.pc = "unlock"
  BY <1>3, Moved
<1>7. Closing(k, call, ring, fop, t, f)
  BY <1>0 DEF QueuesOK, ClosingOK
<1> HIDE DEF f, a, b, p, l, q
<1>8. /\ \A u \in Task : call[u].o \in {RxSem[f], TxSem[f]} => k.state[u] = "WTSEM"
      /\ \A u \in Task \ {t} : (fop[u].op # "none" /\ fop[u].f = f) => fop[u].pc = "wait"
  BY <1>7 DEF Closing
<1>9. AreGone(k, call, l, {RxSem[f], TxSem[f]})
  BY <1>0, <1>3, <1>8, CloseBoth
<1>10. DOMAIN q = Fifos /\ RingOK(q) /\ \A g \in Fifos \ {f} : q[g] = ring[g]
  <2>1. FALSE \in BOOLEAN
    OBVIOUS
  <2> QED BY <1>0, <1>2, <1>3, <2>1, NewRingOK
<1>11. Locked(b) /\ Locked(a) /\ b.op \notin Side /\ a.op \notin Side /\ ~(b.op = "destroy" /\ b.pc = "locked")
  BY <1>0, <1>6 DEF Locked, Side
<1>12. k.sched_lock = One(Locked(b))
  BY <1>2, <1>11 DEF One
<1>13. Place(call[t], b)
  BY <1>0, <1>1, <1>3, <1>6 DEF Place, f
<1>14. /\ fop[t].op \notin Side /\ b.op \notin Side /\ ~(b.op = "destroy" /\ b.pc = "locked")
       /\ t = k.currp /\ f \in Fifos
  BY <1>1, <1>3, <1>11 DEF a
<1>15. QueuesOK(l, call, q, p)
  BY <1>5, <1>8, <1>9, <1>10, <1>12, <1>13, <1>14, CloseStep
<1> QED BY <1>0, <1>3, <1>9, <1>15 DEF l, q, p, f, a, AreGone


-----------------------------------------------------------------------------
\* The links from objects to event groups are replaced.
relink(m, E, B) == [m EXCEPT !.evt = E, !.bitno = B]

\* That is harmless as long as all of those groups are there.
LEMMA Reconnected ==
  ASSUME NEW m, NEW c, BaseOK(m, c), NEW E \in [Notifier -> Evts \cup {Null}],
         NEW B \in [Notifier -> Bits \cup {0, InvalidBit}],
         \A x \in Notifier : E[x] # Null => E[x] \in m.live /\ 0 \in Bits
  PROVE  /\ BaseOK(relink(m, E, B), c) /\ Only(m, relink(m, E, B), {"evt", "bitno"})
         /\ relink(m, E, B).evt = E
<1> DEFINE r == [m EXCEPT !.evt = E, !.bitno = B]
<1> SUFFICES BaseOK(r, c) /\ Only(m, r, {"evt", "bitno"}) /\ r.evt = E
  BY DEF relink
<1>0. KernelOK(m, c) /\ ServiceOK(m, c) /\ ToldOK(m, c) /\ CoreInv(m, c, {}) /\ OwnersOK(m) /\ m \in Kernel /\ AliveOK(m, c)
      /\ Shape(m)
  BY CoreParts, KernelShape DEF BaseOK, KernelOK
<1>4. /\ r \in Kernel /\ SameLinks(m, r) /\ r.live = m.live /\ r.currp = m.currp
      /\ r.sched_lock = m.sched_lock /\ r.refcnt = m.refcnt /\ r.bug = m.bug
      /\ r.pendsv = m.pendsv /\ r.prio = m.prio /\ r.obj = m.obj /\ r.wait_aborted = m.wait_aborted
      /\ r.evt = E /\ r.owner = m.owner /\ r.count = m.count /\ r.owned = m.owned
  BY <1>0 DEF Kernel, SameLinks
<1>5. Only(m, r, {"evt", "bitno"})
  BY <1>0 DEF Only, Fields, Shape
<1> HIDE DEF r
<1>6. /\ \A o \in Object \ r.live : m.wait_list[o] = <<>>
      /\ \A t \in Task : c[t].o \in Object \ r.live => Harmless(c[t], m.wait_aborted[t])
      /\ \A n \in Notifier : r.evt[n] # Null => r.evt[n] \in r.live /\ 0 \in Bits
  BY <1>0, <1>4 DEF AliveOK
<1>7. CoreInv(r, c, {})
  BY <1>0, <1>4, <1>6, LiveOK
<1>8. OwnersOK(r)
  BY <1>0, <1>4 DEF OwnersOK, SameLinks
<1>9. /\ r.value = m.value /\ r.bitset = m.bitset /\ r.evbits = m.evbits /\ r.refcnt = m.refcnt /\ r.state = m.state
      /\ r.obj = m.obj /\ r.live = m.live /\ r.wait_aborted = m.wait_aborted /\ r.grant = m.grant
  BY <1>5 DEF Only, Fields
<1>10. ServiceOK(r, c)
  <2>1. SemsOK(r)
    BY <1>0, <1>9 DEF ServiceOK, SemsOK, TokenWaiters
  <2>2. EventsOK(r, c) /\ ExitsOK(r, c) /\ RefsOK(r, c)
    BY <1>0, <1>9 DEF ServiceOK, EventsOK, ExitsOK, Returned, RefsOK
  <2> QED BY <2>1, <2>2 DEF ServiceOK
<1>11. ToldOK(r, c)
  BY <1>0, <1>9 DEF ToldOK, Told, TokenTold, BitsTold
<1> QED BY <1>4, <1>5, <1>7, <1>8, <1>10, <1>11 DEF BaseOK, KernelOK

\* One semaphore is created.
LEMMA CreateOne ==
  ASSUME NEW m, NEW c, BaseOK(m, c), NEW s \in Sems, s \notin m.live
  PROVE  LET r == sem_create(m, s) IN
         /\ BaseOK(r, c) /\ Only(m, r, {"live", "value", "wait_list"}) /\ r.live = m.live \cup {s}
         /\ r.value = [m.value EXCEPT ![s] = SemInit[s]]
<1> DEFINE r == sem_create(m, s)
<1>0. KernelOK(m, c) /\ ServiceOK(m, c) /\ ToldOK(m, c) /\ DOMAIN m = Fields
  BY KernelShape DEF BaseOK
<1>1. KernelOK(r, c) /\ ServiceOK(r, c) /\ ToldOK(r, c)
  BY <1>0, SemCreateFunOK, SemCreateFunService, SemCreateFunTold
<1>2. /\ Only(m, r, {"live", "value", "wait_list"}) /\ r.live = m.live \cup {s}
      /\ r.value = [m.value EXCEPT ![s] = SemInit[s]]
  BY <1>0 DEF sem_create, Only, Fields
<1> HIDE DEF r
<1>3. /\ BaseOK(r, c) /\ Only(m, r, {"live", "value", "wait_list"}) /\ r.live = m.live \cup {s}
      /\ r.value = [m.value EXCEPT ![s] = SemInit[s]]
  BY <1>1, <1>2 DEF BaseOK
<1> QED BY <1>3 DEF r

\* isix_fifo_create_ex.
LEMMA CreateQueues ==
  ASSUME BaseOK(k, call), QueuesOK(k, call, ring, fop), NEW t \in Task, NEW f \in Fifos, NEW flag \in BOOLEAN,
         FifoCreate(t, f, flag)
  PROVE  /\ QueuesOK(k', call', ring', fop') /\ BaseOK(k', call')
         /\ ring' = [ring EXCEPT ![f] = NewRing(f, flag)]
<1> DEFINE x == RxSem[f]
           y == TxSem[f]
           m == sem_create(k, x)
           n == sem_create(m, y)
           E == [n.evt EXCEPT ![f] = Null]
           B == [n.bitno EXCEPT ![f] = 0]
           l == [n EXCEPT !.evt = E, !.bitno = B]
           q == ring'
<1>0. /\ KernelOK(k, call) /\ fop[t].op = "none" /\ Running(t) /\ call' = call /\ fop' = fop
      /\ k' = l /\ ~IsOpen(k, f) /\ q = [ring EXCEPT ![f] = NewRing(f, flag)]
  BY DEF BaseOK, FifoCreate, Open, IsOpen
<1>1. t = k.currp
  BY <1>0, RunningFree
<1>2. /\ DOMAIN fop = Task /\ Place(call[t], fop[t]) /\ k.sched_lock = One(Locked(fop[t])) /\ GrantOK(k, call)
      /\ DOMAIN ring = Fifos /\ RingOK(ring) /\ OpenOK(k, fop) /\ SlotsOK(k, ring, fop) /\ k.value \in [Sems -> Int]
  BY <1>0, <1>1, ThreadFacts
<1>3. x \in Sems /\ y \in Sems /\ x # y /\ x \notin k.live /\ y \notin k.live
  BY <1>0, <1>2, FifoAssumption DEF OpenOK, IsOpen
<1>4. SemInit[x] = 0 /\ SemInit[y] = Capacity(f) /\ Capacity(f) \in Nat
  BY FifoAssumption, SemsOfQueues DEF Capacity
<1>5. /\ BaseOK(m, call) /\ Only(k, m, {"live", "value", "wait_list"}) /\ m.live = k.live \cup {x}
      /\ m.value = [k.value EXCEPT ![x] = SemInit[x]]
  <2> HIDE DEF x
  <2> QED BY <1>3, CreateOne
<1> HIDE DEF m
<1>6. /\ BaseOK(n, call) /\ Only(m, n, {"live", "value", "wait_list"}) /\ n.live = m.live \cup {y}
      /\ n.value = [m.value EXCEPT ![y] = SemInit[y]]
  <2>1. y \notin m.live
    BY <1>3, <1>5
  <2> HIDE DEF y
  <2> QED BY <1>3, <1>5, <2>1, CreateOne
<1> HIDE DEF n
<1>7. BaseOK(l, call) /\ Only(n, l, {"evt", "bitno"}) /\ l.evt = E
  <2>1. AliveOK(n, call) /\ n \in Kernel
    BY <1>6, CoreParts DEF BaseOK, KernelOK
  <2>2. f \in Notifier /\ n.evt \in [Notifier -> Evts \cup {Null}] /\ n.bitno \in [Notifier -> Bits \cup {0, InvalidBit}]
    BY <2>1, KernelTypes DEF Notifier
  <2>3. E \in [Notifier -> Evts \cup {Null}] /\ B \in [Notifier -> Bits \cup {0, InvalidBit}]
    BY <2>2
  <2>4. E[f] = Null /\ \A s \in Notifier \ {f} : E[s] = n.evt[s]
    BY <2>2
  <2> HIDE DEF E, B
  <2>5. \A s \in Notifier : E[s] # Null => E[s] \in n.live /\ 0 \in Bits
    BY <2>1, <2>4 DEF AliveOK
  <2>6. /\ BaseOK(relink(n, E, B), call) /\ Only(n, relink(n, E, B), {"evt", "bitno"})
        /\ relink(n, E, B).evt = E
    BY <1>6, <2>3, <2>5, Reconnected
  <2> QED BY <2>6 DEF relink
<1> HIDE DEF l
<1>8. /\ l.live = k.live \cup {x, y} /\ l.currp = k.currp /\ l.sched_lock = k.sched_lock
      /\ l.grant = k.grant /\ l.wait_aborted = k.wait_aborted
  <2>1. /\ m.currp = k.currp /\ m.sched_lock = k.sched_lock /\ m.grant = k.grant /\ m.wait_aborted = k.wait_aborted
        /\ n.currp = m.currp /\ n.sched_lock = m.sched_lock /\ n.grant = m.grant /\ n.wait_aborted = m.wait_aborted
        /\ l.currp = n.currp /\ l.sched_lock = n.sched_lock /\ l.grant = n.grant /\ l.wait_aborted = n.wait_aborted
        /\ l.live = n.live
    BY <1>5, <1>6, <1>7 DEF Only, Fields
  <2>2. l.live = k.live \cup {x, y}
    BY <1>5, <1>6, <2>1
  <2> QED BY <2>1, <2>2
<1>9. \A s \in Sems : l.evt[s] = Null
  <2>1. n.evt = k.evt
    BY <1>5, <1>6 DEF Only, Fields
  <2>2. k.evt \in [Notifier -> Evts \cup {Null}] /\ Sems \subseteq Notifier
    BY <1>0, KernelShape, KernelTypes, SyncObjects
  <2>3. \A s \in Sems : k.evt[s] = Null
    BY <1>2 DEF GrantOK
  <2> QED BY <1>7, <2>1, <2>2, <2>3
<1>10. l.value[x] = 0 /\ l.value[y] = Capacity(f) /\ \A s \in Sems \ {x, y} : l.value[s] = k.value[s]
  <2>1. l.value = n.value
    BY <1>7 DEF Only, Fields
  <2>2. m.value \in [Sems -> Int] /\ m.value[x] = 0 /\ \A s \in Sems \ {x} : m.value[s] = k.value[s]
    BY <1>2, <1>3, <1>4, <1>5
  <2>3. n.value[y] = Capacity(f) /\ \A s \in Sems \ {y} : n.value[s] = m.value[s]
    BY <1>3, <1>4, <1>6, <2>2
  <2> QED BY <1>3, <2>1, <2>2, <2>3
<1>11. GrantOK(l, call)
  BY <1>2, <1>8, <1>9 DEF GrantOK
<1>12. \A g \in Fifos \ {f} : {RxSem[g], TxSem[g]} \cap {x, y} = {}
  BY FifoAssumption
<1>13. DOMAIN q = Fifos /\ RingOK(q) /\ (\A g \in Fifos \ {f} : q[g] = ring[g]) /\ q[f].used = 0
  BY <1>0, <1>2, NewRingOK
<1> HIDE DEF q
<1>14. OpenOK(l, fop)
  <2>1. \A g \in Fifos : RxSem[g] \in l.live <=> TxSem[g] \in l.live
    BY <1>2, <1>8, <1>12 DEF OpenOK
  <2>2. \A u \in Task : (fop[u].op \in Side /\ (fop[u].pc \notin {"wait", "end"} \/ u \in l.grant))
                        => IsOpen(l, fop[u].f)
    BY <1>2, <1>8 DEF OpenOK, IsOpen
  <2> QED BY <2>1, <2>2 DEF OpenOK
<1>15. SlotsOK(l, q, fop)
  <2> SUFFICES ASSUME NEW g \in Fifos, NEW a \in Side, IsOpen(l, g)
               PROVE  Slots(q, g, a) = Tokens(l, SemOf(g, a)) + Cardinality(Busy(l, fop, g, a))
    BY DEF SlotsOK
  <2>1. Busy(l, fop, g, a) = Busy(k, fop, g, a)
    BY <1>8 DEF Busy
  <2>2. CASE g # f
    <3>1. IsOpen(k, g)
      BY <1>8, <1>12, <2>2 DEF IsOpen
    <3>2. SemOf(g, a) \in Sems \ {x, y}
      BY <1>12, <2>2, SemsOfQueues DEF SemOf
    <3>3. Slots(q, g, a) = Slots(ring, g, a) /\ Tokens(l, SemOf(g, a)) = Tokens(k, SemOf(g, a))
      BY <1>10, <1>13, <2>2, <3>2 DEF Slots, Tokens
    <3> QED BY <1>2, <2>1, <3>1, <3>3 DEF SlotsOK
  <2>3. CASE g = f
    <3>1. ASSUME NEW u \in Task, Works(u \in k.grant, fop[u], g, a) PROVE FALSE
      <4>1. fop[u].f = f /\ fop[u].op \in Side /\ (fop[u].pc \notin {"wait", "end"} \/ u \in k.grant)
        BY <2>3, <3>1 DEF Works, Side, Other
      <4>2. IsOpen(k, f)
        BY <1>2, <4>1 DEF OpenOK
      <4> QED BY <1>0, <4>2
    <3>2. Busy(k, fop, g, a) = {}
      BY <3>1 DEF Busy
    <3>3. Cardinality(Busy(l, fop, g, a)) = 0
      BY <2>1, <3>2, FS_EmptySet
    <3>4. Slots(q, g, a) = Tokens(l, SemOf(g, a)) /\ Slots(q, g, a) \in Int
      BY <1>4, <1>10, <1>13, <2>3 DEF Slots, Tokens, SemOf, Side
    <3> QED BY <3>3, <3>4
  <2> QED BY <2>2, <2>3
<1>16. /\ l.currp = t /\ (\A u \in Task \ {t} : call[u] = call[u] /\ fop[u] = fop[u])
       /\ l.sched_lock = One(Locked(fop[t]))
       /\ (fop[t].op = "destroy" /\ fop[t].pc = "locked") => Closing(l, call, q, fop, t, fop[t].f)
  BY <1>0, <1>1, <1>2, <1>8
<1>17. QueuesOK(l, call, q, fop)
  BY <1>1, <1>2, <1>11, <1>13, <1>14, <1>15, <1>16, ThreadStep
<1> QED BY <1>0, <1>7, <1>17 DEF q

-----------------------------------------------------------------------------
\* The steps of the queues that are steps of the kernel keep its invariant ...
LEMMA BaseStep ==
  ASSUME BaseOK(k, call), [TalkNext]_vars
  PROVE  BaseOK(k', call')
<1>1. KernelOK(k, call) /\ ServiceOK(k, call) /\ TalkOK
  BY DEF BaseOK, TalkOK
<1>2. [Next]_vars
  BY DEF TalkNext, Next
<1>3. TalkOK'
  BY <1>1, TalkStep
<1>4. KernelOK(k', call') /\ ToldOK(k', call')
  BY <1>3 DEF TalkOK
<1>5. ServiceOK(k', call')
  BY <1>1, <1>2, <1>4, NextService
<1> QED BY <1>4, <1>5 DEF BaseOK

\* ... a wait for a token ...
LEMMA StartBase ==
  ASSUME BaseOK(k, call), NEW t \in Task, NEW a, a.op \in Side, a.f \in Fifos,
         NEW timeout \in Timeouts \cup {DontWait}, FifoStart(t, a, timeout)
  PROVE  BaseOK(k', call')
<1> DEFINE s == Takes(a)
<1>1. s \in Sems
  BY SemsOfQueues
<1>2. SemWait(t, s, timeout) \/ SemTryWait(s)
  BY DEF FifoStart
<1>3. SemWait(t, s, timeout) => timeout \in Timeouts
  BY DEF SemWait
<1> HIDE DEF s
<1>4. SemOps
  BY <1>1, <1>2, <1>3 DEF SemOps
<1> QED BY <1>4, BaseStep DEF TalkNext

LEMMA WaitBase ==
  ASSUME BaseOK(k, call), NEW t \in Task, FifoWaitEnter(t) \/ FifoWaitReturn(t)
  PROVE  BaseOK(k', call')
<1>1. SemWaitEnter(t) \/ SemWaitReturn(t)
  BY DEF FifoWaitEnter, FifoWaitReturn
<1>2. SemOps
  BY <1>1 DEF SemOps
<1> QED BY <1>2, BaseStep DEF TalkNext

\* ... the lock of the scheduler ...
LEMMA LockBase ==
  ASSUME BaseOK(k, call), NEW t \in Task,
         LockScheduler(t) \/ UnlockScheduler(t) \/ UnlockFlush(t)
  PROVE  BaseOK(k', call')
<1>1. SchedOps
  BY DEF SchedOps, ShareOps
<1> QED BY <1>1, BaseStep DEF TalkNext

\* ... a signal ...
LEMMA SignalBase ==
  ASSUME BaseOK(k, call), QueuesOK(k, call, ring, fop), NEW t \in Task, FifoSignal(t)
  PROVE  BaseOK(k', call')
<1> DEFINE s == Gives(fop[t])
<1>1. fop[t].op # "none" /\ fop[t].pc = "signal" /\ SemSignal(t, s)
  BY DEF FifoSignal, At
<1>2. Place(call[t], fop[t])
  BY DEF QueuesOK, PlaceOK
<1>3. fop[t].op \in Side /\ fop[t].f \in Fifos
  BY <1>1, <1>2 DEF Place, Fop, Side
<1>4. s \in Sems
  BY <1>3, SemsOfQueues
<1> HIDE DEF s
<1>5. SemOps
  BY <1>1, <1>4 DEF SemOps
<1> QED BY <1>5, BaseStep DEF TalkNext

\* ... and the waits of a poller.
LEMMA PollBase ==
  ASSUME BaseOK(k, call), NEW t \in Task, PollSteps(t)
  PROVE  BaseOK(k', call')
<1>1. EventStoreBit(t) \/ EventWaitEnter(t) \/ EventWaitReturn(t)
  BY DEF PollSteps
<1>2. EventOps \/ ConnectOps
  BY <1>1 DEF EventOps, ConnectOps
<1> QED BY <1>2, BaseStep DEF TalkNext

LEMMA PollBeginBase ==
  ASSUME BaseOK(k, call), NEW t \in Task, NEW f \in Fifos, NEW e \in Evts, NEW bit \in Bits,
         PollConnect(t, f, e, bit)
  PROVE  BaseOK(k', call')
<1>1. EventConnect(t, f, e, bit) /\ f \in Notifier
  BY DEF PollConnect, Notifier
<1>2. ConnectOps
  BY <1>1 DEF ConnectOps
<1> QED BY <1>2, BaseStep DEF TalkNext

LEMMA PollWaitBase ==
  ASSUME BaseOK(k, call), NEW t \in Task, NEW f \in Fifos, NEW w \in EvWaits, NEW timeout \in Timeouts,
         PollWait(t, f, w, timeout)
  PROVE  BaseOK(k', call')
<1> DEFINE e == k.evt[f]
<1>1. EventWait(t, e, w, timeout) /\ e # Null
  BY DEF PollWait, Connected
<1>2. k \in Kernel
  BY DEF BaseOK, KernelOK, CoreInv
<1>3. e \in Evts
  BY <1>1, <1>2 DEF Kernel, Notifier
<1> HIDE DEF e
<1>4. EventOps
  BY <1>1, <1>3 DEF EventOps
<1> QED BY <1>4, BaseStep DEF TalkNext

-----------------------------------------------------------------------------
\* The invariant holds at the start ...
LEMMA InitFifo ==
  ASSUME FifoInit
  PROVE  FifoOK
<1>1. Init /\ (\A t \in Task : fop[t] = NoFop) /\ DOMAIN fop = Task
  BY DEF FifoInit
<1>2. PICK flags \in [Fifos -> BOOLEAN] : ring = [f \in Fifos |-> NewRing(f, flags[f])]
  BY DEF FifoInit
<1>3. BaseOK(k, call)
  BY <1>1, InitOK, InitService, InitTold DEF BaseOK, TalkOK
<1>4. /\ k.grant = {} /\ (\A t \in Task : ~k.wait_aborted[t]) /\ (\A s \in Sems : k.evt[s] = Null)
      /\ k.sched_lock = 0 /\ k.live = Object /\ k.value = SemInit
      /\ \A t \in Task : call[t] = NoCall
  BY <1>1 DEF Init, InitKernel, Notifier
<1>5. Free(NoFop) /\ NoCall.op = "none"
  BY FreePlaces DEF NoCall
<1>6. /\ \A e : e.op # "sem" => Place(e, NoFop)
      /\ \A g, f : \A a \in Side : ~Works(g, NoFop, f, a)
      /\ NoFop.op \notin Side /\ NoFop.op = "none" /\ ~Locked(NoFop)
  BY <1>5, Nowhere
<1>7. PlaceOK(call, fop) /\ HeldOK(k, fop) /\ GrantOK(k, call) /\ ClosingOK(k, call, ring, fop)
  BY <1>1, <1>4, <1>5, <1>6 DEF PlaceOK, HeldOK, GrantOK, ClosingOK
<1>8. OpenOK(k, fop)
  <2>1. \A f \in Fifos : RxSem[f] \in k.live /\ TxSem[f] \in k.live
    BY <1>4, FifoAssumption DEF Object
  <2> QED BY <1>1, <1>6, <2>1 DEF OpenOK
<1>9. RingOK(ring) /\ DOMAIN ring = Fifos /\ \A f \in Fifos : ring[f].used = 0
  <2>1. DOMAIN ring = Fifos /\ \A f \in Fifos : ring[f] = NewRing(f, flags[f]) /\ flags[f] \in BOOLEAN
    BY <1>2
  <2>2. \A f \in Fifos : NewRing(f, flags[f]) \in Ring(f)
    BY <2>1, SemsOfQueues DEF NewRing, Ring
  <2>3. \A f \in Fifos : ring[f].used = 0 /\ ring[f].tx_p = 0 /\ ring[f].rx_p = 0
    BY <2>1 DEF NewRing
  <2>4. \A f \in Fifos : 0 = Ahead(f, 0, 0) /\ 0 \in 0 .. Capacity(f)
    BY SemsOfQueues DEF Ahead
  <2> QED BY <2>1, <2>2, <2>3, <2>4 DEF RingOK
<1>10. SlotsOK(k, ring, fop)
  <2> SUFFICES ASSUME NEW f \in Fifos, NEW a \in Side
               PROVE  Slots(ring, f, a) = Tokens(k, SemOf(f, a)) + Cardinality(Busy(k, fop, f, a))
    BY DEF SlotsOK
  <2>1. Busy(k, fop, f, a) = {}
    BY <1>1, <1>6 DEF Busy
  <2>2. Cardinality(Busy(k, fop, f, a)) = 0
    BY <2>1, FS_EmptySet
  <2>3. Slots(ring, f, a) = SemInit[SemOf(f, a)] /\ SemInit[SemOf(f, a)] \in Nat
    <3>1. CASE a = "read"
      BY <1>9, <3>1, FifoAssumption DEF Slots, SemOf
    <3>2. CASE a = "write"
      BY <1>9, <3>2, SemsOfQueues DEF Slots, SemOf, Capacity
    <3> QED BY <3>1, <3>2 DEF Side
  <2>4. Tokens(k, SemOf(f, a)) = SemInit[SemOf(f, a)]
    BY <1>4, <2>3 DEF Tokens
  <2> QED BY <2>2, <2>3, <2>4
<1> QED BY <1>1, <1>3, <1>7, <1>8, <1>9, <1>10 DEF FifoOK, QueuesOK

\* What one step does to the rings: nothing, a copy into a ring with a free
\* slot, a copy out of one with an item, or a ring that starts anew.
Moves(r, q) ==
  \/ q = r
  \/ \E f \in Fifos : \/ \E x \in Item : r[f].used < Capacity(f) /\ q = copy_in(r, f, x)
                      \/ r[f].used > 0 /\ q = copy_out(r, f)
                      \/ \E flag \in BOOLEAN : q = [r EXCEPT ![f] = NewRing(f, flag)]

\* A slot of a side is room for a copy.
LEMMA RoomForCopy ==
  ASSUME NEW r, RingOK(r), NEW f \in Fifos
  PROVE  /\ Slots(r, f, "write") > 0 => r[f].used < Capacity(f)
         /\ Slots(r, f, "read") > 0 => r[f].used > 0
<1>1. r[f].used \in Int /\ Capacity(f) \in Nat
  BY SemsOfQueues DEF RingOK
<1>2. Slots(r, f, "write") = Capacity(f) - r[f].used /\ Slots(r, f, "read") = r[f].used
  BY DEF Slots
<1> HIDE DEF Slots
<1> QED BY <1>1, <1>2

\* ... and is kept by every step of a thread in a queue operation, ...
LEMMA CallStep ==
  ASSUME FifoOK, NEW t \in Task,
         \/ FifoWaitEnter(t) \/ FifoWaitReturn(t)
         \/ FifoLock(t) \/ FifoCopy(t) \/ FifoUnlock(t)
         \/ FifoSignal(t) \/ FifoRaise(t) \/ FifoClose(t)
  PROVE  FifoOK' /\ Moves(ring, ring')
<1>0. BaseOK(k, call) /\ QueuesOK(k, call, ring, fop)
  BY DEF FifoOK
<1> SUFFICES QueuesOK(k', call', ring', fop') /\ BaseOK(k', call') /\ Moves(ring, ring')
  BY DEF FifoOK
<1>1. CASE FifoWaitEnter(t)
  <2>1. ring' = ring
    BY <1>1 DEF FifoWaitEnter
  <2> QED BY <1>0, <1>1, <2>1, WaitEnterQueues, WaitBase DEF Moves
<1>2. CASE FifoWaitReturn(t)
  <2>1. ring' = ring
    BY <1>2 DEF FifoWaitReturn
  <2> QED BY <1>0, <1>2, <2>1, WaitReturnQueues, WaitBase DEF Moves
<1>3. CASE FifoLock(t)
  <2>1. ring' = ring /\ LockScheduler(t)
    BY <1>3 DEF FifoLock
  <2> QED BY <1>0, <1>3, <2>1, LockQueues, LockBase DEF Moves
<1>4. CASE FifoCopy(t)
  <2> DEFINE f == fop[t].f
             a == fop[t].op
  <2>1. /\ QueuesOK(k', call', ring', fop') /\ f \in Fifos /\ Slots(ring, f, a) > 0
        /\ a = "write" => fop[t].item \in Item
    BY <1>0, <1>4, CopyQueues
  <2>2. /\ k' = k /\ call' = call /\ a \in {"write", "read"}
        /\ ring' = IF a = "write" THEN copy_in(ring, f, fop[t].item) ELSE copy_out(ring, f)
    BY <1>4 DEF FifoCopy
  <2>3. BaseOK(k', call')
    BY <1>0, <2>2
  <2>4. RingOK(ring)
    BY <1>0 DEF QueuesOK
  <2> HIDE DEF f, a
  <2>5. CASE a = "write"
    <3>1. ring[f].used < Capacity(f)
      BY <2>1, <2>4, <2>5, RoomForCopy
    <3> QED BY <2>1, <2>2, <2>3, <2>5, <3>1 DEF Moves
  <2>6. CASE a = "read"
    <3>1. ring[f].used > 0
      BY <2>1, <2>4, <2>6, RoomForCopy
    <3> QED BY <2>1, <2>2, <2>3, <2>6, <3>1 DEF Moves
  <2> QED BY <2>2, <2>5, <2>6
<1>5. CASE FifoUnlock(t)
  <2>1. ring' = ring /\ UnlockScheduler(t)
    BY <1>5 DEF FifoUnlock
  <2> QED BY <1>0, <1>5, <2>1, UnlockQueues, LockBase DEF Moves
<1>6. CASE FifoSignal(t)
  <2>1. ring' = ring
    BY <1>6 DEF FifoSignal
  <2> QED BY <1>0, <1>6, <2>1, SignalQueues, SignalBase DEF Moves
<1>7. CASE FifoRaise(t)
  <2>1. ring' = ring
    BY <1>7 DEF FifoRaise
  <2> QED BY <1>0, <1>7, <2>1, RaiseQueues DEF Moves
<1>8. CASE FifoClose(t)
  BY <1>0, <1>8, CloseQueues DEF Moves
<1> QED BY <1>1, <1>2, <1>3, <1>4, <1>5, <1>6, <1>7, <1>8

\* ... every call of a thread and every handler ...
LEMMA StartStep ==
  ASSUME FifoOK, NEW t \in Task, NEW f \in Fifos, NEW timeout \in Timeouts \cup {DontWait},
         FifoRead(t, f, timeout) \/ \E x \in Item : FifoWrite(t, f, x, timeout)
  PROVE  FifoOK' /\ Moves(ring, ring')
<1>1. PICK a \in Fop : /\ FifoStart(t, a, timeout) /\ a.op \in Side /\ a.f \in Fifos
                       /\ a.op = "write" => a.item \in Item
  <2>1. CASE FifoRead(t, f, timeout)
    <3> DEFINE a == [NoFop EXCEPT !.op = "read", !.f = f]
    <3>1. a \in Fop /\ a.op = "read" /\ a.f = f
      BY DEF NoFop, Fop
    <3>2. FifoStart(t, a, timeout)
      BY <2>1 DEF FifoRead
    <3> HIDE DEF a
    <3> QED BY <3>1, <3>2 DEF Side
  <2>2. ASSUME NEW x \in Item, FifoWrite(t, f, x, timeout)
        PROVE  \E a \in Fop : /\ FifoStart(t, a, timeout) /\ a.op \in Side /\ a.f \in Fifos
                              /\ a.op = "write" => a.item \in Item
    <3> DEFINE a == [NoFop EXCEPT !.op = "write", !.f = f, !.item = x]
    <3>1. a \in Fop /\ a.op = "write" /\ a.f = f /\ a.item = x
      BY DEF NoFop, Fop
    <3>2. FifoWrite(t, f, x, timeout) = FifoStart(t, a, timeout)
      BY Zenon DEF FifoWrite
    <3>3. FifoStart(t, a, timeout)
      BY <2>2, <3>2
    <3> HIDE DEF a
    <3> QED BY <3>1, <3>3 DEF Side
  <2> QED BY <2>1, <2>2
<1>2. BaseOK(k, call) /\ QueuesOK(k, call, ring, fop)
  BY DEF FifoOK
<1>3. QueuesOK(k', call', ring', fop')
  BY <1>1, <1>2, StartQueues
<1>4. BaseOK(k', call')
  BY <1>1, <1>2, StartBase
<1>5. ring' = ring
  BY <1>1 DEF FifoStart
<1> QED BY <1>3, <1>4, <1>5 DEF FifoOK, Moves

LEMMA HandlerStep ==
  ASSUME FifoOK, NEW f \in Fifos, FifoReadIsr(f) \/ \E x \in Item : FifoWriteIsr(f, x)
  PROVE  FifoOK' /\ Moves(ring, ring')
<1>0. BaseOK(k, call) /\ QueuesOK(k, call, ring, fop) /\ RingOK(ring)
  BY DEF FifoOK, QueuesOK
<1>1. CASE FifoReadIsr(f)
  <2>1. QueuesOK(k', call', ring', fop') /\ BaseOK(k', call') /\ Slots(ring, f, "read") > 0
    BY <1>0, <1>1, ReadIsrQueues
  <2>2. ring[f].used > 0 /\ ring' = copy_out(ring, f)
    BY <1>0, <1>1, <2>1, RoomForCopy DEF FifoReadIsr
  <2> QED BY <2>1, <2>2 DEF FifoOK, Moves
<1>2. ASSUME NEW x \in Item, FifoWriteIsr(f, x)
      PROVE  FifoOK' /\ Moves(ring, ring')
  <2>1. QueuesOK(k', call', ring', fop') /\ BaseOK(k', call') /\ Slots(ring, f, "write") > 0
    BY <1>0, <1>2, WriteIsrQueues
  <2>2. ring[f].used < Capacity(f) /\ ring' = copy_in(ring, f, x)
    BY <1>0, <1>2, <2>1, RoomForCopy DEF FifoWriteIsr
  <2> QED BY <2>1, <2>2 DEF FifoOK, Moves
<1> QED BY <1>1, <1>2

LEMMA LifeStep ==
  ASSUME FifoOK, NEW t \in Task, NEW f \in Fifos,
         FifoDestroy(t, f) \/ \E noirq \in BOOLEAN : FifoCreate(t, f, noirq)
  PROVE  FifoOK' /\ Moves(ring, ring')
<1>0. BaseOK(k, call) /\ QueuesOK(k, call, ring, fop)
  BY DEF FifoOK
<1>1. CASE FifoDestroy(t, f) /\ ring[f].noirq
  <2>1. QueuesOK(k', call', ring', fop') /\ ring' = ring
    BY <1>0, <1>1, DestroyLockQueues
  <2>2. LockScheduler(t)
    BY <1>1 DEF FifoDestroy
  <2> QED BY <1>0, <2>1, <2>2, LockBase DEF FifoOK, Moves
<1>2. CASE FifoDestroy(t, f) /\ ~ring[f].noirq
  BY <1>0, <1>2, DestroyQueues DEF FifoOK, Moves
<1>3. ASSUME NEW flag \in BOOLEAN, FifoCreate(t, f, flag)
      PROVE  FifoOK' /\ Moves(ring, ring')
  BY <1>0, <1>3, CreateQueues DEF FifoOK, Moves
<1> QED BY <1>1, <1>2, <1>3

\* ... every step of a poller and of the machine ...
LEMMA PollStep ==
  ASSUME FifoOK, PollOps
  PROVE  FifoOK' /\ Moves(ring, ring')
<1>0. BaseOK(k, call) /\ QueuesOK(k, call, ring, fop)
  BY DEF FifoOK
<1>1. PICK t \in Poller :
        \/ PollSteps(t)
        \/ \E f \in Fifos : FifoRead(t, f, DontWait)
        \/ \E f \in Fifos, e \in Evts, bit \in Bits : PollConnect(t, f, e, bit)
        \/ \E f \in Fifos, w \in EvWaits, timeout \in Timeouts : PollWait(t, f, w, timeout)
  BY DEF PollOps
<1>2. t \in Task
  BY FifoAssumption DEF Task
<1>3. CASE PollSteps(t)
  <2>1. ring' = ring /\ fop' = fop /\ (EventStoreBit(t) \/ EventWaitEnter(t) \/ EventWaitReturn(t))
    BY <1>3 DEF PollSteps
  <2>2. QueuesOK(k', call', ring, fop)
    BY <1>0, <1>2, <2>1, PlainQueues, PollWaitQueues
  <2> QED BY <1>0, <1>2, <1>3, <2>1, <2>2, PollBase DEF FifoOK, Moves
<1>4. CASE \E f \in Fifos : FifoRead(t, f, DontWait)
  BY <1>2, <1>4, StartStep
<1>5. ASSUME NEW f \in Fifos, NEW e \in Evts, NEW bit \in Bits, PollConnect(t, f, e, bit)
      PROVE  FifoOK' /\ Moves(ring, ring')
  <2>1. ring' = ring
    BY <1>5 DEF PollConnect
  <2>2. QueuesOK(k', call', ring', fop')
    BY <1>0, <1>2, <1>5, PollBeginQueues
  <2> QED BY <1>0, <1>2, <1>5, <2>1, <2>2, PollBeginBase DEF FifoOK, Moves
<1>6. ASSUME NEW f \in Fifos, NEW w \in EvWaits, NEW timeout \in Timeouts, PollWait(t, f, w, timeout)
      PROVE  FifoOK' /\ Moves(ring, ring')
  <2>1. ring' = ring
    BY <1>6 DEF PollWait
  <2>2. QueuesOK(k', call', ring', fop')
    BY <1>0, <1>2, <1>6, PollBeginQueues
  <2> QED BY <1>0, <1>2, <1>6, <2>1, <2>2, PollWaitBase DEF FifoOK, Moves
<1> QED BY <1>1, <1>3, <1>4, <1>5, <1>6

LEMMA MachineStep ==
  ASSUME FifoOK, Machine \/ \E t \in Tasks : UnlockFlush(t), UNCHANGED <<ring, fop>>
  PROVE  FifoOK' /\ Moves(ring, ring')
<1>0. BaseOK(k, call) /\ QueuesOK(k, call, ring, fop) /\ ring' = ring /\ fop' = fop
  BY DEF FifoOK
<1>1. CASE Machine
  <2>1. BaseOK(k', call')
    BY <1>0, <1>1, BaseStep DEF TalkNext
  <2>2. KernelOK(k', call')
    BY <2>1 DEF BaseOK
  <2>3. QueuesOK(k', call', ring, fop)
    BY <1>0, <1>1, <2>2, TickQueues, SwitchQueues, PlainQueues DEF Machine
  <2> QED BY <1>0, <2>1, <2>3 DEF FifoOK, Moves
<1>2. ASSUME NEW t \in Tasks, UnlockFlush(t)
      PROVE  FifoOK' /\ Moves(ring, ring')
  <2>1. t \in Task
    BY DEF Task
  <2>2. QueuesOK(k', call', ring, fop)
    BY <1>0, <1>2, <2>1, FlushQueues
  <2> QED BY <1>0, <1>2, <2>1, <2>2, LockBase DEF FifoOK, Moves
<1> QED BY <1>1, <1>2

\* ... so that every step keeps it.
LEMMA FifoStep ==
  ASSUME FifoOK, [FifoNext]_fvars
  PROVE  FifoOK' /\ Moves(ring, ring')
<1>1. CASE FifoOps
  <2>1. \A t \in Tasks : t \in Task
    BY DEF Task
  <2> QED BY <1>1, <2>1, CallStep, StartStep, HandlerStep, LifeStep DEF FifoOps
<1>2. CASE PollOps
  BY <1>2, PollStep
<1>3. CASE (Machine \/ \E t \in Tasks : UnlockFlush(t)) /\ UNCHANGED <<ring, fop>>
  BY <1>3, MachineStep
<1>4. CASE UNCHANGED fvars
  BY <1>4 DEF fvars, FifoOK, Moves
<1> QED BY <1>1, <1>2, <1>3, <1>4 DEF FifoNext

-----------------------------------------------------------------------------
\* The places of the threads stay a function: every step changes at most one.
Placed(o) == o \in [Task -> Fop]

LEMMA PlacedStep ==
  ASSUME Placed(fop), FifoOK', [FifoNext]_fvars
  PROVE  Placed(fop')
<1>1. \A t \in Task : fop'[t] \in Fop
  BY DEF FifoOK, QueuesOK, PlaceOK, Place
<1>2. \A t, b : fop' = [fop EXCEPT ![t] = b] => Placed(fop')
  BY <1>1 DEF Placed
<1>3. fop' = fop => Placed(fop')
  OBVIOUS
<1>4. \A t, c, ok : Taken(t, c, ok) => Placed(fop')
  BY <1>2 DEF Taken
<1>5. \A t, c, timeout : FifoStart(t, c, timeout) => Placed(fop')
  BY <1>2, <1>4 DEF FifoStart
<1>6. \A t, f, timeout : FifoRead(t, f, timeout) => Placed(fop')
  BY <1>5, Zenon DEF FifoRead
<1>7. \A t, f, x, timeout : FifoWrite(t, f, x, timeout) => Placed(fop')
  BY <1>5, Zenon DEF FifoWrite
<1>8. \A t : FifoWaitEnter(t) \/ FifoWaitReturn(t) => Placed(fop')
  BY <1>3, <1>4 DEF FifoWaitEnter, FifoWaitReturn
<1>9. \A t : FifoLock(t) => Placed(fop')
  BY <1>2 DEF FifoLock
<1>10. \A t : FifoCopy(t) => Placed(fop')
  BY <1>2 DEF FifoCopy
<1>11. \A t : FifoUnlock(t) => Placed(fop')
  BY <1>2 DEF FifoUnlock
<1>12. \A t : FifoSignal(t) => Placed(fop')
  BY <1>2 DEF FifoSignal
<1>13. \A t : FifoRaise(t) \/ FifoClose(t) => Placed(fop')
  BY <1>2 DEF FifoRaise, FifoClose
<1>14. \A f : FifoReadIsr(f) \/ (\E x \in Item : FifoWriteIsr(f, x)) => Placed(fop')
  BY <1>3 DEF FifoReadIsr, FifoWriteIsr
<1>15. \A t, f : FifoDestroy(t, f) \/ (\E noirq \in BOOLEAN : FifoCreate(t, f, noirq)) => Placed(fop')
  BY <1>2, <1>3 DEF FifoDestroy, FifoCreate
<1>16. \A t, f, e, bit, w, timeout : PollConnect(t, f, e, bit) \/ PollWait(t, f, w, timeout) => Placed(fop')
  BY <1>2 DEF PollConnect, PollWait
<1>17. CASE FifoOps
  BY <1>8, <1>9, <1>10, <1>11, <1>12, <1>13, <1>14, <1>15, <1>17, <1>6, <1>7 DEF FifoOps
<1>18. CASE PollOps
  BY <1>3, <1>16, <1>18, <1>6 DEF PollOps, PollSteps
<1> QED BY <1>3, <1>17, <1>18 DEF FifoNext, fvars

(***************************************************************************)
(* The positions of a ring stay inside of it, and what a thread inside of  *)
(* isix_fifo_write, isix_fifo_read or isix_fifo_destroy remembers is well  *)
(* formed, in whatever order threads, interrupt handlers and ticks go on.  *)
(***************************************************************************)
THEOREM QueuesTyped == FifoSpec => []FifoTypeOK
<1>1. FifoInit => FifoOK /\ Placed(fop)
  <2>1. FifoInit => Placed(fop)
    <3>1. NoFop \in Fop
      BY DEF NoFop, Fop
    <3> QED BY <3>1 DEF FifoInit, Placed
  <2> QED BY <2>1, InitFifo
<1>2. FifoOK /\ Placed(fop) /\ [FifoNext]_fvars => FifoOK' /\ Placed(fop)'
  BY FifoStep, PlacedStep
<1>3. FifoOK /\ Placed(fop) => FifoTypeOK
  <2>1. FifoOK => TypeOK
    BY DEF FifoOK, BaseOK, KernelOK, CoreInv, TypeOK
  <2>2. FifoOK => \A f \in Fifos : ring[f] \in Ring(f)
    BY DEF FifoOK, QueuesOK, RingOK
  <2> QED BY <2>1, <2>2 DEF Placed, FifoTypeOK
<1> QED BY <1>1, <1>2, <1>3, PTL DEF FifoSpec

(***************************************************************************)
(* fifo.c keeps the items and the free slots of a queue in two semaphores, *)
(* and copies between the wait for one and the signal of the other.  No    *)
(* slot and no item gets lost on the way: for every number of threads,     *)
(* handlers, queues and slots, the items of an open queue are those its    *)
(* read semaphore counts, those a reader holds the token of and those a    *)
(* writer is about to signal, and the free slots likewise.                 *)
(***************************************************************************)
THEOREM NoSlotIsLost == FifoSpec => []SlotsConserved
<1>1. FifoInit => FifoOK
  BY InitFifo
<1>2. FifoOK /\ [FifoNext]_fvars => FifoOK'
  BY FifoStep
<1>3. FifoOK => SlotsConserved
  <2> SUFFICES ASSUME FifoOK, NEW f \in Fifos, Open(f)
               PROVE  /\ ring[f].used = Tokens(k, RxSem[f]) + Cardinality(Holding(f, "read") \cup Owing(f, "write"))
                      /\ Capacity(f) - ring[f].used =
                           Tokens(k, TxSem[f]) + Cardinality(Holding(f, "write") \cup Owing(f, "read"))
    BY DEF SlotsConserved, Tokens
  <2>1. PlaceOK(call, fop) /\ SlotsOK(k, ring, fop) /\ IsOpen(k, f)
    BY DEF FifoOK, QueuesOK, Open, IsOpen
  <2>2. Busy(k, fop, f, "read") = Holding(f, "read") \cup Owing(f, "write")
    <3> SUFFICES ASSUME NEW t \in Task
                 PROVE  Works(t \in k.grant, fop[t], f, "read") <=> t \in Holding(f, "read") \cup Owing(f, "write")
      BY DEF Busy, Holding, Owing
    <3> QED BY DEF Works, Holding, Owing, At, Other
  <2>3. Busy(k, fop, f, "write") = Holding(f, "write") \cup Owing(f, "read")
    <3> SUFFICES ASSUME NEW t \in Task
                 PROVE  Works(t \in k.grant, fop[t], f, "write") <=> t \in Holding(f, "write") \cup Owing(f, "read")
      BY DEF Busy, Holding, Owing
    <3> QED BY DEF Works, Holding, Owing, At, Other
  <2>4. \A a \in Side : Slots(ring, f, a) = Tokens(k, SemOf(f, a)) + Cardinality(Busy(k, fop, f, a))
    BY <2>1 DEF SlotsOK
  <2>5. ring[f].used = Tokens(k, RxSem[f]) + Cardinality(Busy(k, fop, f, "read"))
    BY <2>4 DEF Side, Slots, SemOf
  <2>6. Capacity(f) - ring[f].used = Tokens(k, TxSem[f]) + Cardinality(Busy(k, fop, f, "write"))
    BY <2>4 DEF Side, Slots, SemOf
  <2> QED BY <2>2, <2>3, <2>5, <2>6
<1> QED BY <1>1, <1>2, <1>3, PTL DEF FifoSpec

(***************************************************************************)
(* fifo.c: "The scheduler is locked so a woken reader cannot destroy the   *)
(* fifo before the event is raised".  No thread copies, signals or raises  *)
(* the event of a queue that is gone: the lock, the tokens and the waits   *)
(* of the others keep the queue until the last access to it.               *)
(***************************************************************************)
THEOREM QueueOutlivesItsUsers == FifoSpec => []NotUsedAfterDestroy
<1>1. FifoInit => FifoOK
  BY InitFifo
<1>2. FifoOK /\ [FifoNext]_fvars => FifoOK'
  BY FifoStep
<1>3. FifoOK => NotUsedAfterDestroy
  <2> SUFFICES ASSUME FifoOK, NEW t \in Task, fop[t].pc \in {"copy", "locked", "lock", "signal", "raise"}
               PROVE  Open(fop[t].f)
    BY DEF NotUsedAfterDestroy
  <2>1. Place(call[t], fop[t]) /\ OpenOK(k, fop) /\ ClosingOK(k, call, ring, fop)
    BY DEF FifoOK, QueuesOK, PlaceOK
  <2>2. fop[t].op \in Side \/ (fop[t].op = "destroy" /\ fop[t].pc = "locked")
    BY <2>1 DEF Place, Fop, Side
  <2>3. IsOpen(k, fop[t].f)
    BY <2>1, <2>2 DEF OpenOK, ClosingOK, Closing
  <2> QED BY <2>3 DEF Open, IsOpen
<1> QED BY <1>1, <1>2, <1>3, PTL DEF FifoSpec

-----------------------------------------------------------------------------
(***************************************************************************)
(* The ring as a sequence.                                                 *)
(***************************************************************************)

\* The items of the queue f in the rings r, the oldest first.
Items(r, f) == [i \in 1 .. r[f].used |-> r[f].mem[(r[f].rx_p + i - 1) % Capacity(f)]]

\* A position of the ring, n slots after p.
LEMMA AheadIsMod ==
  ASSUME NEW f \in Fifos, NEW p \in 0 .. Capacity(f) - 1, NEW i \in Int, i - 1 \in 0 .. Capacity(f)
  PROVE  /\ (p + i - 1) % Capacity(f) = Ahead(f, p, i - 1)
         /\ Ahead(f, p, i - 1) \in 0 .. Capacity(f) - 1
<1> DEFINE C == Capacity(f)
           x == p + i - 1
<1>0. C \in Nat \ {0} /\ x \in Nat /\ x < C + C /\ x = p + (i - 1)
  BY SemsOfQueues
<1>1. Ahead(f, p, i - 1) = IF x < C THEN x ELSE x - C
  BY <1>0 DEF Ahead
<1> SUFFICES x % C = Ahead(f, p, i - 1) /\ Ahead(f, p, i - 1) \in 0 .. C - 1
  OBVIOUS
<1> HIDE DEF C, x
<1>2. CASE x < C
  <2>1. x % C = x
    BY <1>0, <1>2
  <2> QED BY <1>0, <1>1, <1>2, <2>1
<1>3. CASE x >= C
  <2>1. x = 1 * C + (x - C) /\ x - C \in 0 .. C - 1
    BY <1>0, <1>3
  <2>2. x % C = x - C
    BY <1>0, <1>3, <2>1
  <2> QED BY <1>0, <1>1, <1>3, <2>1, <2>2
<1> QED BY <1>0, <1>2, <1>3

\* The items are a sequence, read from the slots behind the reading position.
LEMMA ItemsAt ==
  ASSUME NEW r, RingOK(r), NEW f \in Fifos
  PROVE  /\ Items(r, f) \in Seq(Item \cup {Null}) /\ Len(Items(r, f)) = r[f].used
         /\ \A i \in 1 .. r[f].used : Items(r, f)[i] = r[f].mem[Ahead(f, r[f].rx_p, i - 1)]
<1> DEFINE C == Capacity(f)
           n == r[f].used
           p == r[f].rx_p
           M == r[f].mem
           s == Items(r, f)
<1>1. C \in Nat \ {0} /\ n \in 0 .. C /\ p \in 0 .. C - 1 /\ M \in [0 .. C - 1 -> Item \cup {Null}]
  BY SemsOfQueues DEF RingOK, Ring
<1>2. s = [i \in 1 .. n |-> M[(p + i - 1) % C]]
  BY DEF Items
<1>3. \A i \in 1 .. n : (p + i - 1) % C = Ahead(f, p, i - 1) /\ Ahead(f, p, i - 1) \in 0 .. C - 1
  <2> SUFFICES ASSUME NEW i \in 1 .. n
               PROVE  (p + i - 1) % C = Ahead(f, p, i - 1) /\ Ahead(f, p, i - 1) \in 0 .. C - 1
    OBVIOUS
  <2>1. i \in Int /\ i - 1 \in 0 .. C
    BY <1>1
  <2> QED BY <1>1, <2>1, AheadIsMod
<1> SUFFICES /\ s \in Seq(Item \cup {Null}) /\ Len(s) = n
             /\ \A i \in 1 .. n : s[i] = M[Ahead(f, p, i - 1)]
  OBVIOUS
<1> HIDE DEF C, n, p, M, s
<1>4. \A i \in 1 .. n : s[i] = M[Ahead(f, p, i - 1)] /\ s[i] \in Item \cup {Null}
  BY <1>1, <1>2, <1>3
<1>5. s \in [1 .. n -> Item \cup {Null}]
  BY <1>2, <1>4
<1>6. s \in Seq(Item \cup {Null}) /\ Len(s) = n
  BY <1>1, <1>5
<1> QED BY <1>4, <1>6

\* A copy into the ring appends, ...
LEMMA PutItem ==
  ASSUME NEW r, DOMAIN r = Fifos, RingOK(r), NEW f \in Fifos, r[f].used < Capacity(f), NEW x \in Item
  PROVE  Items(copy_in(r, f, x), f) = Append(Items(r, f), x)
<1> DEFINE q == copy_in(r, f, x)
           C == Capacity(f)
           n == r[f].used
           p == r[f].rx_p
           w == r[f].tx_p
           M == r[f].mem
           s == Items(r, f)
           z == Items(q, f)
           S == Item \cup {Null}
           at(i) == Ahead(f, p, i - 1)
<1>1. /\ RingOK(q) /\ q[f].mem = [M EXCEPT ![w] = x] /\ q[f].rx_p = p /\ q[f].used = n + 1
  BY CopyIn
<1>2. C \in Nat \ {0} /\ n \in Nat /\ n < C /\ p \in 0 .. C - 1 /\ M \in [0 .. C - 1 -> S] /\ w = Ahead(f, p, n)
  BY SemsOfQueues DEF RingOK, Ring
<1>3. s \in Seq(S) /\ Len(s) = n /\ \A i \in 1 .. n : s[i] = M[at(i)]
  BY ItemsAt
<1> HIDE DEF q
<1>4. z \in Seq(S) /\ Len(z) = n + 1 /\ \A i \in 1 .. n + 1 : z[i] = [M EXCEPT ![w] = x][at(i)]
  <2>0. RingOK(q)
    BY <1>1
  <2>1. /\ z \in Seq(S) /\ Len(z) = q[f].used
        /\ \A i \in 1 .. q[f].used : z[i] = q[f].mem[Ahead(f, q[f].rx_p, i - 1)]
    BY <2>0, ItemsAt
  <2> HIDE DEF n, p, w, M, z, S
  <2> QED BY <1>1, <2>1
<1> SUFFICES z = Append(s, x)
  BY DEF q
<1>5. \A i \in 1 .. n + 1 : at(i) \in 0 .. C - 1 /\ (at(i) = w <=> i = n + 1)
  <2>1. \A i : at(i) = IF p + (i - 1) < C THEN p + (i - 1) ELSE p + (i - 1) - C
    BY DEF Ahead
  <2>2. w = IF p + n < C THEN p + n ELSE p + n - C
    BY <1>2 DEF Ahead
  <2> HIDE DEF C, n, p, w, at
  <2> QED BY <1>2, <2>1, <2>2
<1> HIDE DEF C, n, p, w, M, s, z, S, at
<1>6. \A i \in 1 .. n : z[i] = s[i]
  BY <1>2, <1>3, <1>4, <1>5
<1>7. z[n + 1] = x
  BY <1>2, <1>4, <1>5
<1>8. x \in S
  BY DEF S
<1>9. /\ Append(s, x) \in Seq(S) /\ Len(Append(s, x)) = n + 1
      /\ (\A i \in 1 .. n : Append(s, x)[i] = s[i]) /\ Append(s, x)[n + 1] = x
  BY <1>3, <1>8, AppendProperties
<1>10. \A i \in 1 .. n + 1 : i \in 1 .. n \/ i = n + 1
  BY <1>2
<1>11. \A i \in 1 .. Len(z) : z[i] = Append(s, x)[i]
  BY <1>4, <1>6, <1>7, <1>9, <1>10
<1> QED BY <1>4, <1>9, <1>11, SeqEqual

\* ... a copy out of it takes the head, ...
LEMMA GetItem ==
  ASSUME NEW r, DOMAIN r = Fifos, RingOK(r), NEW f \in Fifos, r[f].used > 0
  PROVE  /\ Items(r, f) # <<>> /\ Items(copy_out(r, f), f) = Tail(Items(r, f))
         /\ copy_out(r, f)[f].out = Head(Items(r, f))
<1> DEFINE q == copy_out(r, f)
           C == Capacity(f)
           n == r[f].used
           p == r[f].rx_p
           M == r[f].mem
           s == Items(r, f)
           z == Items(q, f)
           S == Item \cup {Null}
           at(i) == Ahead(f, p, i - 1)
           o == q[f].out
           v == advance(f, p)
<1>1. /\ RingOK(q) /\ q[f].mem = [M EXCEPT ![p] = Null] /\ q[f].rx_p = v /\ q[f].used = n - 1
      /\ o = M[p]
  BY CopyOut
<1>2. C \in Nat \ {0} /\ n \in Nat /\ n > 0 /\ n <= C /\ p \in 0 .. C - 1 /\ M \in [0 .. C - 1 -> S]
  BY SemsOfQueues DEF RingOK, Ring
<1>3. s \in Seq(S) /\ Len(s) = n /\ \A i \in 1 .. n : s[i] = M[at(i)]
  BY ItemsAt
<1> HIDE DEF q
<1>4. z \in Seq(S) /\ Len(z) = n - 1 /\ \A i \in 1 .. n - 1 : z[i] = [M EXCEPT ![p] = Null][Ahead(f, v, i - 1)]
  <2>0. RingOK(q)
    BY <1>1
  <2>1. /\ z \in Seq(S) /\ Len(z) = q[f].used
        /\ \A i \in 1 .. q[f].used : z[i] = q[f].mem[Ahead(f, q[f].rx_p, i - 1)]
    BY <2>0, ItemsAt
  <2> HIDE DEF n, p, v, M, z, S
  <2> QED BY <1>1, <2>1
<1> SUFFICES s # <<>> /\ z = Tail(s) /\ o = Head(s)
  BY DEF q
<1>5. \A i \in 1 .. n - 1 : /\ Ahead(f, v, i - 1) = at(i + 1) /\ at(i + 1) \in 0 .. C - 1 /\ at(i + 1) # p
                            /\ i + 1 \in 1 .. n
  <2>1. \A i : /\ at(i) = IF p + (i - 1) < C THEN p + (i - 1) ELSE p + (i - 1) - C
               /\ Ahead(f, v, i - 1) = IF v + (i - 1) < C THEN v + (i - 1) ELSE v + (i - 1) - C
    BY DEF Ahead
  <2>2. v = IF p + 1 >= C THEN 0 ELSE p + 1
    BY DEF advance
  <2> SUFFICES ASSUME NEW i \in 1 .. n - 1
               PROVE  /\ Ahead(f, v, i - 1) = at(i + 1) /\ at(i + 1) \in 0 .. C - 1 /\ at(i + 1) # p
                      /\ i + 1 \in 1 .. n
    OBVIOUS
  <2> DEFINE b == at(i + 1)
             e == Ahead(f, v, i - 1)
  <2>3. i \in Int /\ (i + 1) - 1 = i
    OBVIOUS
  <2>4. b = IF p + i < C THEN p + i ELSE p + i - C
    BY <2>1, <2>3
  <2>5. e = IF v + (i - 1) < C THEN v + (i - 1) ELSE v + (i - 1) - C
    BY <2>1
  <2> HIDE DEF C, n, p, v, at, b, e
  <2>6. e = b /\ b \in 0 .. C - 1 /\ b # p /\ i + 1 \in 1 .. n
    BY <1>2, <2>2, <2>4, <2>5
  <2> QED BY <2>6 DEF b, e
<1>6. at(1) = p /\ 1 \in 1 .. n
  BY <1>2 DEF Ahead
<1> HIDE DEF C, n, p, M, s, z, S, at, o, v
<1>7. \A i \in 1 .. n - 1 : z[i] = s[i + 1]
  BY <1>2, <1>3, <1>4, <1>5
<1>8. s # <<>>
  BY <1>2, <1>3
<1>9. o = Head(s)
  <2>1. o = s[1]
    BY <1>1, <1>3, <1>6
  <2> QED BY <2>1
<1>10. Tail(s) \in Seq(S) /\ Len(Tail(s)) = n - 1 /\ \A i \in 1 .. n - 1 : Tail(s)[i] = s[i + 1]
  BY <1>3, <1>8, HeadTailProperties
<1>11. \A i \in 1 .. Len(z) : z[i] = Tail(s)[i]
  BY <1>4, <1>7, <1>10
<1>12. z = Tail(s)
  BY <1>4, <1>10, <1>11, SeqEqual
<1> QED BY <1>8, <1>9, <1>12

\* ... and a new ring is empty.
LEMMA NoItems ==
  ASSUME NEW r, NEW f, r[f].used = 0
  PROVE  Items(r, f) = <<>>
BY DEF Items

\* What BoundedFifo sees of the rings: the items and what was read last.
Seen(r) == [f \in Fifos |-> Items(r, f)]
Read(r) == [f \in Fifos |-> r[f].out]

LEMMA ContentsSeen == Contents = Seen(ring) /\ Contents' = Seen(ring')
BY DEF Contents, Seen, Items, Capacity

\* One queue changes, and the others are seen as before.
LEMMA SeenOne ==
  ASSUME NEW r, NEW q, NEW f \in Fifos, \A g \in Fifos \ {f} : q[g] = r[g], NEW z, z = Items(q, f), NEW o, o = q[f].out
  PROVE  Seen(q) = [Seen(r) EXCEPT ![f] = z] /\ Read(q) = [Read(r) EXCEPT ![f] = o]
<1>1. \A g \in Fifos \ {f} : Items(q, g) = Items(r, g)
  BY DEF Items
<1>2. Seen(q) = [Seen(r) EXCEPT ![f] = z]
  BY <1>1 DEF Seen
<1>3. Read(q) = [Read(r) EXCEPT ![f] = o]
  BY DEF Read
<1> QED BY <1>2, <1>3

\* Every move of the rings is a step of the bounded queues, or none.
LEMMA MovesRefine ==
  ASSUME DOMAIN ring = Fifos, RingOK(ring), Moves(ring, ring')
  PROVE  [Abstract!Next]_<<Contents, Read(ring)>>
<1>0. /\ Contents = Seen(ring) /\ Contents' = Seen(ring')
      /\ \A f \in Fifos : Seen(ring)[f] = Items(ring, f) /\ Read(ring)[f] = ring[f].out
  BY ContentsSeen DEF Seen, Read
<1>1. CASE ring' = ring
  BY <1>0, <1>1
<1>2. ASSUME NEW f \in Fifos, \A g \in Fifos \ {f} : ring'[g] = ring[g]
      PROVE  /\ Seen(ring') = [Seen(ring) EXCEPT ![f] = Items(ring', f)]
             /\ Read(ring') = [Read(ring) EXCEPT ![f] = ring'[f].out]
  BY <1>2, SeenOne
<1>3. ASSUME NEW f \in Fifos, NEW x \in Item, ring[f].used < Capacity(f), ring' = copy_in(ring, f, x)
      PROVE  Abstract!Put(f, x)
  <2>0. /\ DOMAIN ring' = Fifos /\ RingOK(ring') /\ \A g \in Fifos \ {f} : ring'[g] = ring[g]
        /\ ring'[f].mem = [ring[f].mem EXCEPT ![ring[f].tx_p] = x] /\ ring'[f].rx_p = ring[f].rx_p
        /\ ring'[f].out = ring[f].out
        /\ ring'[f].used = ring[f].used + 1 /\ ring'[f].noirq = ring[f].noirq
    BY <1>3, CopyIn
  <2>1. \A g \in Fifos \ {f} : ring'[g] = ring[g]
    BY <2>0
  <2>2. Items(ring', f) = Append(Items(ring, f), x)
    BY <1>3, PutItem
  <2>3. Len(Items(ring, f)) < Capacity(f)
    BY <1>3, ItemsAt
  <2>4. /\ Seen(ring') = [Seen(ring) EXCEPT ![f] = Items(ring', f)]
        /\ Read(ring') = [Read(ring) EXCEPT ![f] = ring'[f].out]
    BY <1>2, <2>1
  <2>5. Read(ring') = Read(ring)
    BY <2>0, <2>1, <2>4 DEF Read
  <2> QED BY <1>0, <2>2, <2>3, <2>4, <2>5 DEF Abstract!Put, Read
<1>4. ASSUME NEW f \in Fifos, ring[f].used > 0, ring' = copy_out(ring, f)
      PROVE  Abstract!Get(f)
  <2>0. /\ DOMAIN ring' = Fifos /\ RingOK(ring') /\ \A g \in Fifos \ {f} : ring'[g] = ring[g]
        /\ ring'[f].mem = [ring[f].mem EXCEPT ![ring[f].rx_p] = Null] /\ ring'[f].rx_p = advance(f, ring[f].rx_p)
        /\ ring'[f].out = ring[f].mem[ring[f].rx_p] /\ ring'[f].used = ring[f].used - 1
        /\ ring'[f].noirq = ring[f].noirq
    BY <1>4, CopyOut
  <2>1. \A g \in Fifos \ {f} : ring'[g] = ring[g]
    BY <2>0
  <2>2. /\ Items(ring, f) # <<>> /\ Items(ring', f) = Tail(Items(ring, f))
        /\ ring'[f].out = Head(Items(ring, f))
    BY <1>4, GetItem
  <2>3. /\ Seen(ring') = [Seen(ring) EXCEPT ![f] = Items(ring', f)]
        /\ Read(ring') = [Read(ring) EXCEPT ![f] = ring'[f].out]
    BY <1>2, <2>1
  <2> QED BY <1>0, <2>2, <2>3 DEF Abstract!Get, Read
<1>5. ASSUME NEW f \in Fifos, NEW flag \in BOOLEAN, ring' = [ring EXCEPT ![f] = NewRing(f, flag)]
      PROVE  Abstract!Drop(f)
  <2>0. (\A g \in Fifos \ {f} : ring'[g] = ring[g]) /\ ring'[f].used = 0 /\ ring'[f].out = Null
    BY <1>5, NewRingOK
  <2>1. \A g \in Fifos \ {f} : ring'[g] = ring[g]
    BY <2>0
  <2>2. Items(ring', f) = <<>>
    BY <2>0, NoItems
  <2>3. /\ Seen(ring') = [Seen(ring) EXCEPT ![f] = Items(ring', f)]
        /\ Read(ring') = [Read(ring) EXCEPT ![f] = ring'[f].out]
    BY <1>2, <2>1
  <2> QED BY <1>0, <2>0, <2>2, <2>3 DEF Abstract!Drop, Read
<1> QED BY <1>1, <1>3, <1>4, <1>5 DEF Moves, Abstract!Next

(***************************************************************************)
(* What fifo.h promises: for every number of threads, handlers, queues,    *)
(* slots and items, each queue is a bounded first-in first-out queue.  The *)
(* copies are made in separate steps, between a token taken and a token    *)
(* given, by whoever runs; still no item is overwritten before it is read, *)
(* none is read twice or before it is there, none is lost while the queue  *)
(* lives, and a reader gets the oldest one.                                *)
(***************************************************************************)
THEOREM QueuesAreFifos == FifoSpec => IsBoundedFifo
<1>1. FifoInit => FifoOK
  BY InitFifo
<1>2. FifoOK /\ [FifoNext]_fvars => FifoOK'
  BY FifoStep
<1>3. FifoInit => Abstract!Init
  <2> SUFFICES ASSUME FifoInit PROVE Abstract!Init
    OBVIOUS
  <2>1. \A f \in Fifos : ring[f].used = 0 /\ ring[f].out = Null
    BY DEF FifoInit, NewRing
  <2>2. \A f \in Fifos : Items(ring, f) = <<>>
    BY <2>1, NoItems
  <2>3. Contents = [f \in Fifos |-> <<>>]
    BY <2>2, ContentsSeen DEF Seen
  <2> QED BY <2>1, <2>3 DEF Abstract!Init
<1>4. FifoOK /\ [FifoNext]_fvars => [Abstract!Next]_<<Contents, [f \in Fifos |-> ring[f].out]>>
  <2> SUFFICES ASSUME FifoOK, [FifoNext]_fvars
               PROVE  [Abstract!Next]_<<Contents, Read(ring)>>
    BY DEF Read
  <2>1. Moves(ring, ring')
    BY FifoStep
  <2>2. DOMAIN ring = Fifos /\ RingOK(ring)
    BY DEF FifoOK, QueuesOK
  <2> QED BY <2>1, <2>2, MovesRefine
<1> QED BY <1>1, <1>2, <1>3, <1>4, PTL DEF FifoSpec, IsBoundedFifo, Abstract!Spec
=============================================================================
