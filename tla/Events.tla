------------------------------- MODULE Events -------------------------------
(***************************************************************************)
(* Event groups (libisix/kernel/events.c): sets of bits that threads wait  *)
(* for, singly or together, that are set by threads and interrupt          *)
(* handlers, and that meet at a rendezvous (isix_event_sync).  A semaphore *)
(* or a message queue may be connected to a bit, which it raises when it   *)
(* has something to take.                                                  *)
(***************************************************************************)
EXTENDS Scheduler

CONSTANTS
  EvWaits,    \* what threads wait for: bits, all or any, and cleared on exit
  SyncBits,   \* the bits of a rendezvous
  SetBits     \* the sets of bits threads and handlers set and clear

ASSUME EventAssumption == EvWaits \subseteq EvBits /\ {SyncBits} \cup SetBits \subseteq SUBSET Bits

\* check_cond: any or all of the awaited bits are there.
check_cond(curr, w) ==
  IF w.all THEN w.bits \subseteq curr ELSE w.bits \cap curr # {}

Mut_event_set_first(m, e, bits) ==
  LET cur == m.bitset[e] \cup bits
      ok  == Keep(m.wait_list[e], {t \in Task : check_cond(cur, m.evbits[t])})
      ws  == IF ok = <<>> THEN ok ELSE <<Head(ok)>>
      clr == UNION {m.evbits[t].bits : t \in {u \in Range(ws) : m.evbits[u].clear}}
      m1  == wakeup(unlink(m, Range(ws)), ws, EOK)
  IN [m1 EXCEPT
       !.evbits = [t \in Task |-> IF t \in Range(ws) THEN [NoBits EXCEPT !.bits = cur] ELSE @[t]],
       !.bitset = [@ EXCEPT ![e] = cur \ clr],
       !.pendsv = @ \/ \E t \in Range(ws) : prio_gt(m.prio[t], m.prio[m.currp])]

Mut_event_set(m, e, bits) ==
  LET cur == m.bitset[e] \cup bits
      ws  == Keep(m.wait_list[e], {t \in Task : check_cond(cur, [m.evbits[t] EXCEPT !.all = FALSE])})
      clr == UNION {m.evbits[t].bits : t \in {u \in Range(ws) : m.evbits[u].clear}}
      m1  == wakeup(unlink(m, Range(ws)), ws, EOK)
  IN [m1 EXCEPT
       !.evbits = [t \in Task |-> IF t \in Range(ws) THEN [NoBits EXCEPT !.bits = cur] ELSE @[t]],
       !.bitset = [@ EXCEPT ![e] = cur \ clr],
       !.pendsv = @ \/ \E t \in Range(ws) : prio_gt(m.prio[t], m.prio[m.currp])]

\* event_set and the switch to the most urgent of the woken tasks.  All whose
\* condition the new bits meet are woken with these bits; what one of them
\* clears on its exit is still there for the others.
event_set(m, e, bits) ==
  LET cur == m.bitset[e] \cup bits
      ws  == Keep(m.wait_list[e], {t \in Task : check_cond(cur, m.evbits[t])})
      clr == UNION {m.evbits[t].bits : t \in {u \in Range(ws) : m.evbits[u].clear}}
      m1  == wakeup(unlink(m, Range(ws)), ws, EOK)
  IN [m1 EXCEPT
       !.evbits = [t \in Task |-> IF t \in Range(ws) THEN [NoBits EXCEPT !.bits = cur] ELSE @[t]],
       !.bitset = [@ EXCEPT ![e] = cur \ clr],
       !.pendsv = @ \/ \E t \in Range(ws) : prio_gt(m.prio[t], m.prio[m.currp])]

event_clear(m, e, bits) == [m EXCEPT !.bitset[e] = @ \ bits]

\* The blocking end of isix_event_wait and isix_event_sync.
event_block(m, e, w, tout) ==
  LET t  == m.currp
      m1 == set_sleep_timeout([m EXCEPT !.wait_aborted = [@ EXCEPT ![t] = FALSE]], "WTEVT", tout)
  IN [m1 EXCEPT !.wait_list[e] = Append(@, t),
                !.evbits    = [@ EXCEPT ![t] = w]]

\* isix_event_destroy: everyone leaves with ISIX_EDESTROY.
event_destroy(m, e) ==
  LET ws == m.wait_list[e]
      m1 == wakeup(unlink(m, Range(ws)), ws, EDESTROY)
  IN [m1 EXCEPT !.live   = @ \ {e},
                !.pendsv = @ \/ \E t \in Range(ws) : prio_gt(m.prio[t], m.prio[m.currp])]

Elapsed(t) == (k.jiffies - call[t].start) % (MaxTick + 1)

\* The time of the call of t is over, and what is left of it.
TimeOver(t) == call[t].tmo # Infinite /\ Elapsed(t) >= call[t].tmo
TimeLeft(t) == IF call[t].tmo = Infinite THEN Infinite ELSE call[t].tmo - Elapsed(t)

-----------------------------------------------------------------------------
\* isix_event_wait with ISIX_TIME_DONTWAIT.
EventPoll(t, e, w) ==
  /\ Running(t) /\ e \in k.live
  /\ k' = IF check_cond(k.bitset[e], w) /\ w.clear THEN event_clear(k, e, w.bits) ELSE k
  /\ UNCHANGED call

\* isix_event_wait reads the clock before its critical section ...
EventWait(t, e, w, timeout) ==
  /\ MayBlock(t) /\ e \in k.live /\ timeout # DontWait
  /\ call' = [call EXCEPT ![t] =
               [NoCall EXCEPT !.op = "evt", !.pc = "enter", !.o = e, !.w = w, !.tmo = timeout,
                              !.start = IF timeout = Infinite THEN 0 ELSE k.jiffies]]
  /\ UNCHANGED k

\* ... in which the bits are there, the time is over, or it blocks.
EventWaitEnter(t) ==
  /\ Exec(t) /\ call[t].op = "evt" /\ call[t].pc = "enter"
  /\ LET e   == call[t].o
         w   == call[t].w
         met == check_cond(k.bitset[e], w)
     IN \/ /\ met
           /\ k' = leave(IF w.clear THEN event_clear(k, e, w.bits) ELSE k, t)
           /\ call' = [call EXCEPT ![t] = NoCall]
        \/ /\ ~met /\ TimeOver(t)
           /\ k' = leave(k, t)
           /\ call' = [call EXCEPT ![t] = NoCall]
        \/ /\ ~met /\ ~TimeOver(t)
           /\ k' = event_block(k, e, w, TimeLeft(t))
           /\ call' = [call EXCEPT ![t].pc = "yield"]

\* Back from the wait: wait again when a suspend cut it short.
EventWaitReturn(t) ==
  /\ Exec(t) /\ call[t].op = "evt" /\ call[t].pc = "after"
  /\ \/ /\ k.wait_aborted[t]
        /\ call' = [call EXCEPT ![t].pc = "enter"]
        /\ UNCHANGED k
     \/ /\ ~k.wait_aborted[t]
        /\ call' = [call EXCEPT ![t] = NoCall]
        /\ k' = leave(k, t)

\* isix_event_sync reads the clock ...
EventSync(t, e, bits, wait, timeout) ==
  /\ MayBlock(t) /\ e \in k.live
  /\ call' = [call EXCEPT ![t] =
               [NoCall EXCEPT !.op = "sync", !.pc = "enter", !.o = e, !.set = bits,
                              !.w = [bits |-> wait, all |-> TRUE, clear |-> TRUE],
                              !.tmo = timeout,
                              !.start = IF timeout = Infinite THEN 0 ELSE k.jiffies]]
  /\ UNCHANGED k

\* ... sets its bits, wakes who waits for them, and goes on when everything it
\* waits for was there, although those it woke may have cleared it; otherwise
\* it blocks.  A switch to a woken task is its yield.
EventSyncEnter(t) ==
  /\ Exec(t) /\ call[t].op = "sync" /\ call[t].pc = "enter"
  /\ LET e    == call[t].o
         wait == call[t].w.bits
         m    == event_set(k, e, call[t].set)
         met  == wait \subseteq k.bitset[e] \cup call[t].set
     IN \/ /\ met
           /\ k' = event_clear(m, e, wait)
           /\ call' = [call EXCEPT ![t] = NoCall]
        \/ /\ ~met /\ call[t].tmo = DontWait
           /\ k' = m
           /\ call' = [call EXCEPT ![t] = NoCall]
        \/ /\ ~met /\ call[t].tmo # DontWait
           /\ k' = event_block(m, e, call[t].w, call[t].tmo)
           /\ call' = [call EXCEPT ![t].pc = IF m.pendsv THEN "after" ELSE "yield"]

\* Back from the rendezvous: after a suspend the bits are already set, and the
\* rest of the time is spent in isix_event_wait.
EventSyncReturn(t) ==
  /\ Exec(t) /\ call[t].op = "sync" /\ call[t].pc = "after"
  /\ \/ /\ k.wait_aborted[t] /\ ~TimeOver(t)
        /\ call' = [call EXCEPT ![t] = [@ EXCEPT !.op = "evt", !.pc = "enter", !.set = {},
                                                 !.tmo = TimeLeft(t),
                                                 !.start = IF call[t].tmo = Infinite THEN 0 ELSE k.jiffies]]
        /\ UNCHANGED k
     \/ /\ k.wait_aborted[t] => TimeOver(t)
        /\ call' = [call EXCEPT ![t] = NoCall]
        /\ k' = leave(k, t)

\* isix_event_set by a thread, and isix_event_set_isr by a handler.
EventSet(t, e, bits) ==
  /\ Running(t) /\ e \in k.live
  /\ k' = event_set(k, e, bits)
  /\ UNCHANGED call

EventSetIsr(e, bits) ==
  /\ e \in k.live
  /\ k' = event_set(k, e, bits)
  /\ UNCHANGED call

\* isix_event_clear and isix_event_clear_isr.
EventClear(e, bits) ==
  /\ e \in k.live
  /\ k' = event_clear(k, e, bits)
  /\ UNCHANGED call

\* Destroying a group that is connected to a notifier is a usage error.
EventDestroy(t, e) ==
  /\ Running(t) /\ e \in k.live /\ Quiescent(e) /\ \A n \in Notifier : k.evt[n] # e
  /\ k' = event_destroy(k, e)
  /\ UNCHANGED call

EventCreate(t, e) ==
  /\ Running(t) /\ e \notin k.live
  /\ k' = [k EXCEPT !.live = @ \cup {e}, !.bitset = [@ EXCEPT ![e] = {}],
                    !.wait_list = [@ EXCEPT ![e] = <<>>]]
  /\ UNCHANGED call

-----------------------------------------------------------------------------
\* The group and the bit n is connected to, as a notification reads them.
Connected(m, n) == m.evt[n] # Null /\ m.bitno[n] # InvalidBit

\* A notifier has something to take: the thread t is about to raise the bit
\* it read, outside of the critical section ...
Raise(t, e, bit) == [NoCall EXCEPT !.op = "notify", !.pc = "enter", !.o = e, !.set = {bit}]

\* ... and raises it.
Notify(t) ==
  /\ Exec(t) /\ call[t].op = "notify" /\ call[t].pc = "enter"
  /\ k' = event_set(k, call[t].o, call[t].set)
  /\ call' = [call EXCEPT ![t] = NoCall]

\* isix_sem_event_connect and isix_fifo_event_connect: a compare-and-swap of
\* the group ...
EventConnect(t, n, e, bit) ==
  /\ Running(t) /\ e \in k.live /\ n \in k.live \cup Fifos /\ k.evt[n] = Null
  /\ k' = [k EXCEPT !.evt = [@ EXCEPT ![n] = e]]
  /\ call' = [call EXCEPT ![t] = [NoCall EXCEPT !.op = "connect", !.pc = "enter", !.o = n,
                                                !.set = {bit}]]

\* isix_sem_event_disconnect and isix_fifo_event_disconnect.
EventDisconnect(t, n, e) ==
  /\ Running(t) /\ n \in k.live \cup Fifos /\ k.evt[n] = e
  /\ k' = [k EXCEPT !.evt = [@ EXCEPT ![n] = Null]]
  /\ call' = [call EXCEPT ![t] = [NoCall EXCEPT !.op = "disconnect", !.pc = "enter", !.o = n]]

\* ... and then the store of the bit number.
EventStoreBit(t) ==
  /\ Exec(t) /\ call[t].op \in {"connect", "disconnect"} /\ call[t].pc = "enter"
  /\ k' = [k EXCEPT !.bitno = [@ EXCEPT ![call[t].o] =
                                 IF call[t].op = "connect" THEN CHOOSE b \in call[t].set : TRUE
                                 ELSE InvalidBit]]
  /\ call' = [call EXCEPT ![t] = NoCall]

EventOps ==
  \/ \E t \in Task, e \in Evts :
       \/ \E w \in EvWaits : EventPoll(t, e, w) \/ \E timeout \in Timeouts : EventWait(t, e, w, timeout)
       \/ \E bits \in SetBits, timeout \in Timeouts : EventSync(t, e, bits, SyncBits, timeout)
       \/ \E bits \in SetBits : EventSet(t, e, bits)
       \/ EventDestroy(t, e) \/ EventCreate(t, e)
  \/ \E e \in Evts, bits \in SetBits : EventSetIsr(e, bits) \/ EventClear(e, bits)
  \/ \E t \in Task : EventWaitEnter(t) \/ EventWaitReturn(t) \/ EventSyncEnter(t) \/ EventSyncReturn(t)

ConnectOps ==
  \/ \E t \in Task, n \in Notifier, e \in Evts :
       EventDisconnect(t, n, e) \/ \E bit \in Bits : EventConnect(t, n, e, bit)
  \/ \E t \in Task : EventStoreBit(t) \/ Notify(t)

EvtNext == Machine \/ EventOps

EvtSpec == Init /\ [][EvtNext]_vars

-----------------------------------------------------------------------------
\* No wake-up is lost: nobody waits for bits that are there, however sets,
\* clears, rendezvous and clears on exit of others interleave.
NoMissedEvent ==
  \A e \in Evts : \A t \in Range(k.wait_list[e]) : ~check_cond(k.bitset[e], k.evbits[t])

\* events.h, isix_event_wait: "Return: Bits which are set": a wait or a
\* rendezvous that does not end with an error was woken with bits that meet
\* its condition, although these may be cleared or set again meanwhile.
EventOkMeansBits ==
  \A t \in Task :
    (/\ call[t].op \in {"evt", "sync"} /\ call[t].pc = "after" /\ Linked(t)
     /\ ~k.wait_aborted[t] /\ k.obj[t] = EOK)
    => check_cond(k.evbits[t].bits, call[t].w)
=============================================================================
