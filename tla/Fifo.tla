-------------------------------- MODULE Fifo --------------------------------
(***************************************************************************)
(* Message queues (libisix/kernel/fifo.c and fifo_event.c): a ring of      *)
(* slots over two semaphores of the kernel, one that counts the items and  *)
(* one that counts the free slots.  The steps of the semaphores are the    *)
(* ones of the module Semaphore; a thread inside of a call on a queue also *)
(* has a place in that call.                                               *)
(*                                                                         *)
(* A poller is a thread that waits for the event bit of a queue and then   *)
(* reads without waiting until the queue is empty.                         *)
(***************************************************************************)
EXTENDS Semaphore

CONSTANTS
  Item,      \* the items
  RxSem,     \* the semaphore of each queue that counts its items
  TxSem,     \* the semaphore of each queue that counts its free slots
  Poller     \* the threads that poll

VARIABLES
  ring,      \* per queue: the slots, the two positions in them, and history
  fop        \* per task: the queue operation it is inside of

fvars == <<k, call, ring, fop>>

Capacity(f) == SemInit[TxSem[f]]

ASSUME FifoAssumption ==
  /\ RxSem \in [Fifos -> Sems] /\ TxSem \in [Fifos -> Sems]
  /\ \A f, g \in Fifos : /\ RxSem[f] # TxSem[g]
                         /\ RxSem[f] = RxSem[g] \/ TxSem[f] = TxSem[g] => f = g
  /\ \A f \in Fifos : /\ SemInit[RxSem[f]] = 0 /\ Capacity(f) > 0
                      /\ SemLimit[RxSem[f]] = 0 /\ SemLimit[TxSem[f]] = 0
  /\ Poller \subseteq Tasks /\ Item # {}

\* noirq is the flag isix_fifo_f_noirq.  What was never written or was read
\* is forgotten (Null).  History: the number of the items written and not yet
\* read, and the item the last reader copied.
Ring(f) == [mem : [0 .. Capacity(f) - 1 -> Item \cup {Null}], rx_p : 0 .. Capacity(f) - 1,
            tx_p : 0 .. Capacity(f) - 1, noirq : BOOLEAN, used : Int, out : Item \cup {Null}]

\* isix_fifo_create_ex.
NewRing(f, noirq) == [mem |-> [i \in 0 .. Capacity(f) - 1 |-> Null], rx_p |-> 0, tx_p |-> 0,
                      noirq |-> noirq, used |-> 0, out |-> Null]

\* Where a thread is: in isix_sem_wait ("wait"), before its work on the ring
\* ("copy", or "locked" with the scheduler locked), before it unlocks the
\* scheduler ("unlock"), before the signal ("lock", "signal"), before it raises
\* the event ("raise") and before the last unlock ("end").  drained: the last
\* read of a poller found the queue empty.
Fop == [op : {"none", "write", "read", "destroy"}, f : Fifos \cup {Null}, item : Item \cup {Null},
        pc : {"run", "wait", "copy", "locked", "unlock", "lock", "signal", "raise", "end"},
        drained : BOOLEAN]

NoFop == [op |-> "none", f |-> Null, item |-> Null, pc |-> "run", drained |-> FALSE]

\* The semaphore an operation waits for, and the one it signals.
Takes(c) == IF c.op = "write" THEN TxSem[c.f] ELSE RxSem[c.f]
Gives(c) == IF c.op = "write" THEN RxSem[c.f] ELSE TxSem[c.f]

\* The thread t is inside of a queue operation, at pc.
At(t, pc) == fop[t].op # "none" /\ fop[t].pc = pc

Open(f) == RxSem[f] \in k.live

Mut_advance_past(f, p) == p + 1

Mut_advance(f, p) == IF p + 1 > Capacity(f) - 1 THEN Capacity(f) - 1 ELSE p + 1

\* The position after p, which wraps at the end of the ring.
advance(f, p) == IF p + 1 >= Capacity(f) THEN 0 ELSE p + 1

\* memcpy of an item into the ring, and out of it, and the step of the position.
copy_in(r, f, x) ==
  [r EXCEPT ![f].mem[r[f].tx_p] = x, ![f].tx_p = advance(f, @), ![f].used = @ + 1]

copy_out(r, f) ==
  [r EXCEPT ![f].out = r[f].mem[r[f].rx_p], ![f].mem[r[f].rx_p] = Null,
            ![f].rx_p = advance(f, @), ![f].used = @ - 1]

Mut_rxavail_event_raise(m, f) ==
  IF Connected(m, f) /\ m.value[RxSem[f]] = 1 THEN event_set(m, m.evt[f], {m.bitno[f]}) ELSE m

\* _isixp_fifo_rxavail_event_raise.
rxavail_event_raise(m, f) ==
  IF Connected(m, f) THEN event_set(m, m.evt[f], {m.bitno[f]}) ELSE m

\* isix_sem_destroy of both semaphores.
fifo_close(m, f) == sem_destroy(sem_destroy(m, RxSem[f]), TxSem[f])

-----------------------------------------------------------------------------
\* The thread t has the token, or its operation returns an error.
Taken(t, c, ok) ==
  fop' = [fop EXCEPT ![t] = IF ok THEN [c EXCEPT !.pc = "copy"]
                            ELSE [NoFop EXCEPT !.drained = t \in Poller]]

\* isix_fifo_write and isix_fifo_read begin with isix_sem_wait ...
FifoStart(t, c, timeout) ==
  /\ fop[t].op = "none" /\ Open(c.f)
  /\ \/ /\ timeout # DontWait
        /\ SemWait(t, Takes(c), timeout)
        /\ fop' = [fop EXCEPT ![t] = [c EXCEPT !.pc = "wait"]]
     \/ /\ timeout = DontWait /\ Running(t)
        /\ SemTryWait(Takes(c))
        /\ Taken(t, c, k.value[Takes(c)] > 0)
  /\ UNCHANGED ring

FifoWrite(t, f, x, timeout) ==
  FifoStart(t, [NoFop EXCEPT !.op = "write", !.f = f, !.item = x], timeout)

FifoRead(t, f, timeout) ==
  FifoStart(t, [NoFop EXCEPT !.op = "read", !.f = f], timeout)

FifoWaitEnter(t) ==
  /\ At(t, "wait") /\ SemWaitEnter(t)
  /\ IF call'[t].op = "sem" THEN UNCHANGED fop
     ELSE Taken(t, fop[t], k.value[Takes(fop[t])] > 0)
  /\ UNCHANGED ring

FifoWaitReturn(t) ==
  /\ At(t, "wait") /\ SemWaitReturn(t)
  /\ IF call'[t].op = "sem" THEN UNCHANGED fop ELSE Taken(t, fop[t], k.obj[t] = EOK)
  /\ UNCHANGED ring

Mut_FifoLock(t) ==
  \/ /\ At(t, "copy") /\ ring[fop[t].f].noirq /\ LockScheduler(t)
     /\ fop' = [fop EXCEPT ![t].pc = "locked"]
     /\ UNCHANGED ring
  \/ /\ At(t, "lock") /\ Running(t)
     /\ fop' = [fop EXCEPT ![t].pc = "signal"]
     /\ UNCHANGED <<k, call, ring>>

\* ... a queue with isix_fifo_f_noirq is guarded by the scheduler lock, and so
\* is every signal of a writer ...
FifoLock(t) ==
  /\ \/ At(t, "copy") /\ ring[fop[t].f].noirq
     \/ At(t, "lock")
  /\ LockScheduler(t)
  /\ fop' = [fop EXCEPT ![t].pc = IF @ = "copy" THEN "locked" ELSE "signal"]
  /\ UNCHANGED ring

\* Where an operation goes on after its work on the ring.
AfterCopy(c) == IF c.op = "write" THEN "lock" ELSE "signal"

\* ... the copy is made in a critical section or under the scheduler lock ...
FifoCopy(t) ==
  /\ fop[t].op \in {"write", "read"} /\ Running(t)
  /\ \/ /\ At(t, "copy") /\ ~ring[fop[t].f].noirq
        /\ fop' = [fop EXCEPT ![t].pc = AfterCopy(fop[t])]
     \/ /\ At(t, "locked")
        /\ fop' = [fop EXCEPT ![t].pc = "unlock"]
  /\ ring' = IF fop[t].op = "write" THEN copy_in(ring, fop[t].f, fop[t].item)
                                    ELSE copy_out(ring, fop[t].f)
  /\ UNCHANGED <<k, call>>

\* ... after which the scheduler is unlocked ...
FifoUnlock(t) ==
  /\ At(t, "unlock") \/ At(t, "end")
  /\ UnlockScheduler(t)
  /\ fop' = [fop EXCEPT ![t] = IF @.pc = "end" \/ @.op = "destroy" THEN NoFop
                               ELSE [@ EXCEPT !.pc = AfterCopy(fop[t])]]
  /\ UNCHANGED ring

\* ... the other side gets its token ...
FifoSignal(t) ==
  /\ At(t, "signal") /\ SemSignal(t, Gives(fop[t]))
  /\ fop' = [fop EXCEPT ![t] = IF @.op = "write" THEN [@ EXCEPT !.pc = "raise"] ELSE NoFop]
  /\ UNCHANGED ring

\* ... and a writer raises the event, still under the scheduler lock.
FifoRaise(t) ==
  /\ At(t, "raise") /\ Running(t)
  /\ k' = rxavail_event_raise(k, fop[t].f)
  /\ fop' = [fop EXCEPT ![t].pc = "end"]
  /\ UNCHANGED <<call, ring>>

\* isix_fifo_write_isr and isix_fifo_read_isr; otherwise they return an error.
FifoWriteIsr(f, x) ==
  /\ ~ring[f].noirq /\ Open(f) /\ k.value[TxSem[f]] > 0
  /\ LET m == [k EXCEPT !.value[TxSem[f]] = sem_trydec(@)]
     IN k' = rxavail_event_raise(sem_signal(m, RxSem[f]), f)
  /\ ring' = copy_in(ring, f, x)
  /\ UNCHANGED <<call, fop>>

Mut_FifoReadIsr(f) ==
  /\ ~ring[f].noirq /\ Open(f) /\ k.value[RxSem[f]] > 0
  /\ k' = [k EXCEPT !.value[RxSem[f]] = sem_trydec(@)]
  /\ ring' = copy_out(ring, f)
  /\ UNCHANGED <<call, fop>>

FifoReadIsr(f) ==
  /\ ~ring[f].noirq /\ Open(f) /\ k.value[RxSem[f]] > 0
  /\ LET m == [k EXCEPT !.value[RxSem[f]] = sem_trydec(@)]
     IN k' = sem_signal(m, TxSem[f])
  /\ ring' = copy_out(ring, f)
  /\ UNCHANGED <<call, fop>>

\* A queue may be destroyed while threads wait for it and while a writer is
\* still in the call whose item was read; anything else is a usage error.
MayDestroy(f) ==
  /\ Quiescent(f) /\ Quiescent(RxSem[f]) /\ Quiescent(TxSem[f])
  /\ \A t \in Task : fop[t].f = f => fop[t].pc \in {"wait", "raise", "end"}

\* isix_fifo_destroy, whose queue is gone after its critical section, or after
\* what it does under the scheduler lock.
FifoDestroy(t, f) ==
  /\ fop[t].op = "none" /\ Open(f) /\ MayDestroy(f)
  /\ \/ /\ ~ring[f].noirq /\ Running(t)
        /\ k' = fifo_close(k, f)
        /\ ring' = [ring EXCEPT ![f] = NewRing(f, FALSE)]
        /\ UNCHANGED <<call, fop>>
     \/ /\ ring[f].noirq /\ LockScheduler(t)
        /\ fop' = [fop EXCEPT ![t] = [NoFop EXCEPT !.op = "destroy", !.f = f, !.pc = "locked"]]
        /\ UNCHANGED ring

FifoClose(t) ==
  /\ At(t, "locked") /\ fop[t].op = "destroy" /\ Running(t)
  /\ k' = fifo_close(k, fop[t].f)
  /\ ring' = [ring EXCEPT ![fop[t].f] = NewRing(fop[t].f, FALSE)]
  /\ fop' = [fop EXCEPT ![t].pc = "unlock"]
  /\ UNCHANGED call

\* isix_fifo_create_ex; a failed allocation changes nothing.
FifoCreate(t, f, noirq) ==
  /\ fop[t].op = "none" /\ Running(t) /\ ~Open(f)
  /\ k' = [sem_create(sem_create(k, RxSem[f]), TxSem[f]) EXCEPT
             !.evt = [@ EXCEPT ![f] = Null], !.bitno = [@ EXCEPT ![f] = 0]]
  /\ ring' = [ring EXCEPT ![f] = NewRing(f, noirq)]
  /\ UNCHANGED <<call, fop>>

-----------------------------------------------------------------------------
(***************************************************************************)
(* The poller: it connects the queue to an event bit, reads until nothing  *)
(* is left, waits for the bit and reads again.                             *)
(***************************************************************************)

PollConnect(t, f, e, bit) ==
  /\ fop[t].op = "none" /\ Open(f) /\ EventConnect(t, f, e, bit)
  /\ fop' = [fop EXCEPT ![t].drained = FALSE]
  /\ UNCHANGED ring

PollWait(t, f, w, timeout) ==
  /\ fop[t].drained /\ Connected(k, f) /\ w.bits = {k.bitno[f]}
  /\ EventWait(t, k.evt[f], w, timeout)
  /\ fop' = [fop EXCEPT ![t].drained = FALSE]
  /\ UNCHANGED ring

PollSteps(t) ==
  /\ EventStoreBit(t) \/ EventWaitEnter(t) \/ EventWaitReturn(t)
  /\ UNCHANGED <<ring, fop>>

PollOps ==
  \E t \in Poller :
    \/ PollSteps(t)
    \/ \E f \in Fifos : FifoRead(t, f, DontWait)
    \/ \E f \in Fifos, e \in Evts, bit \in Bits : PollConnect(t, f, e, bit)
    \/ \E f \in Fifos, w \in EvWaits, timeout \in Timeouts : PollWait(t, f, w, timeout)

FifoOps ==
  \/ \E t \in Tasks \ Poller, f \in Fifos, timeout \in Timeouts \cup {DontWait} :
       FifoRead(t, f, timeout) \/ \E x \in Item : FifoWrite(t, f, x, timeout)
  \/ \E t \in Tasks : \/ FifoWaitEnter(t) \/ FifoWaitReturn(t)
                      \/ FifoLock(t) \/ FifoCopy(t) \/ FifoUnlock(t)
                      \/ FifoSignal(t) \/ FifoRaise(t) \/ FifoClose(t)
  \/ \E f \in Fifos : FifoReadIsr(f) \/ \E x \in Item : FifoWriteIsr(f, x)
  \/ \E t \in Tasks \ Poller, f \in Fifos : 
       FifoDestroy(t, f) \/ \E noirq \in BOOLEAN : FifoCreate(t, f, noirq)

FifoInit ==
  /\ Init
  /\ fop = [t \in Task |-> NoFop]
  /\ \E flags \in [Fifos -> BOOLEAN] : ring = [f \in Fifos |-> NewRing(f, flags[f])]

FifoNext ==
  \/ FifoOps \/ PollOps
  \/ /\ Machine \/ \E t \in Tasks : UnlockFlush(t)
     /\ UNCHANGED <<ring, fop>>

FifoSpec == FifoInit /\ [][FifoNext]_fvars

-----------------------------------------------------------------------------
\* The kernel, the rings and the threads in queue operations are well formed.
FifoTypeOK == TypeOK /\ (\A f \in Fifos : ring[f] \in Ring(f)) /\ fop \in [Task -> Fop]

\* The items in the ring of each queue, the oldest first.
Contents ==
  [f \in Fifos |-> [i \in 1 .. ring[f].used |->
                     ring[f].mem[(ring[f].rx_p + i - 1) % Capacity(f)]]]

Abstract == INSTANCE BoundedFifo WITH Size <- [f \in Fifos |-> Capacity(f)], q <- Contents,
                                      out <- [f \in Fifos |-> ring[f].out]

\* Each queue is a bounded first-in first-out queue, although threads and
\* interrupt handlers take their tokens, copy and signal in separate steps and
\* overtake one another: no item is overwritten, read twice or read before it
\* is there, none is lost, and the oldest one is read.
IsBoundedFifo == Abstract!Spec

\* The threads in an operation op that hold its token and have not made their
\* copy, and those that made it and have not signalled it.
Holding(f, op) ==
  {t \in Task : /\ fop[t].op = op /\ fop[t].f = f
                /\ At(t, "wait") => t \in k.grant
                /\ fop[t].pc \in {"wait", "copy", "locked"}}
Owing(f, op) ==
  {t \in Task : fop[t].op = op /\ fop[t].f = f /\ fop[t].pc \in {"unlock", "lock", "signal"}}

\* No slot and no item gets lost between the two semaphores: every item is
\* counted by one, held by a reader or about to be signalled, and so is every
\* free slot, whoever timed out, was preempted or was woken meanwhile.
SlotsConserved ==
  \A f \in Fifos : Open(f) =>
    LET tokens(s) == IF k.value[s] > 0 THEN k.value[s] ELSE 0 IN
    /\ ring[f].used = tokens(RxSem[f]) + Cardinality(Holding(f, "read") \cup Owing(f, "write"))
    /\ Capacity(f) - ring[f].used =
         tokens(TxSem[f]) + Cardinality(Holding(f, "write") \cup Owing(f, "read"))

\* fifo.c: "The scheduler is locked so a woken reader cannot destroy the fifo
\* before the event is raised": no thread works on a queue that is gone.
NotUsedAfterDestroy ==
  \A t \in Task :
    fop[t].pc \in {"copy", "locked", "lock", "signal", "raise"} => Open(fop[t].f)

\* fifo.c: "notify the event only after the item is counted": a poller never
\* sleeps while there are items that it could read, unless a writer is still
\* about to raise the event.
PollerAwakeForItems ==
  \A t \in Poller, f \in Fifos :
    (k.state[t] = "WTEVT" /\ Connected(k, f) /\ k.value[RxSem[f]] > 0)
    => \E u \in Task : fop[u].op = "write" /\ fop[u].f = f /\ fop[u].pc = "raise"
=============================================================================
