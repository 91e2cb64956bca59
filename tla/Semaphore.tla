------------------------------ MODULE Semaphore ------------------------------
(***************************************************************************)
(* Counting semaphores (libisix/kernel/semaphore.c over the LDREX/STREX    *)
(* counter of arch/sem_atomic.h).  A negative value counts the waiters.    *)
(* A token that is stored because nobody waits raises the bit of an event  *)
(* group the semaphore is connected to.                                    *)
(***************************************************************************)
EXTENDS Events

CONSTANTS
  MaxValue,     \* bound on the tokens of a semaphore without a limit
  ResetValues   \* the values semaphores are reset to

ASSUME ResetAssumption == ResetValues \subseteq Int

\* _isix_port_atomic_sem_trydec: the new value, unchanged unless positive.
sem_trydec(v) == IF v > 0 THEN v - 1 ELSE v

\* _isix_port_atomic_sem_write_val.
sem_write_val(v, limit) ==
  LET w == IF limit > 0 /\ v > limit THEN limit ELSE v IN IF w < 0 THEN 0 ELSE w

\* _isixp_sem_fast_signal.
sem_fast_signal(m, s) == [m EXCEPT !.value[s] = sem_inc(@, SemLimit[s], 1)]

Mut_sem_block(m, s, tout) ==
  add_to_prio_queue(
    set_sleep_timeout([m EXCEPT !.wait_aborted = [@ EXCEPT ![m.currp] = FALSE]], "WTSEM", tout),
    s, m.currp)

\* The blocking half of the critical section of isix_sem_wait.
sem_block(m, s, tout) ==
  LET t == m.currp IN
  add_to_prio_queue(
    set_sleep_timeout(
      [m EXCEPT !.obj = [@ EXCEPT ![t] = s],
                !.wait_aborted = [@ EXCEPT ![t] = FALSE],
                !.grant = @ \ {t}], "WTSEM", tout),
    s, t)

\* _isixp_sem_signal: hand the token to the first waiter, or store it.
sem_signal(m, s) ==
  LET m1 == sem_fast_signal(m, s)
      ws == m.wait_list[s]
  IN IF m1.value[s] > 0 \/ ws = <<>> THEN m1
     ELSE do_reschedule(
            wakeup([unlink(m1, {Head(ws)}) EXCEPT !.grant = @ \cup {Head(ws)}],
                   <<Head(ws)>>, EOK),
            Head(ws))

\* sem_wakeup_all: everyone leaves the wait list with the message msg, and
\* the first, the most urgent one, decides on the switch.
sem_wakeup_all(m, s, msg) ==
  LET ws == m.wait_list[s] IN
  IF ws = <<>> THEN m
  ELSE do_reschedule(wakeup(unlink(m, Range(ws)), ws, msg), Head(ws))

\* The critical section of isix_sem_destroy.
sem_destroy(m, s) ==
  [sem_wakeup_all(m, s, EDESTROY) EXCEPT
    !.live = @ \ {s}, !.evt = [@ EXCEPT ![s] = Null], !.bitno = [@ EXCEPT ![s] = 0]]

\* What isix_sem_create_limited stores.
sem_create(m, s) ==
  [m EXCEPT !.live = @ \cup {s}, !.value = [@ EXCEPT ![s] = SemInit[s]],
            !.wait_list = [@ EXCEPT ![s] = <<>>]]

-----------------------------------------------------------------------------
\* isix_sem_wait with ISIX_TIME_DONTWAIT and isix_sem_trywait, by a thread or
\* by an interrupt handler: the decrement itself is atomic.
SemTryWait(s) ==
  /\ s \in k.live
  /\ k' = [k EXCEPT !.value[s] = sem_trydec(@)]
  /\ UNCHANGED call

\* isix_sem_wait reads the clock before its critical section ...
SemWait(t, s, timeout) ==
  /\ MayBlock(t) /\ s \in k.live /\ timeout # DontWait
  /\ call' = [call EXCEPT ![t] =
               [NoCall EXCEPT !.op = "sem", !.pc = "enter", !.o = s, !.tmo = timeout,
                              !.start = IF timeout = Infinite THEN 0 ELSE k.jiffies]]
  /\ UNCHANGED k

Mut_SemWaitEnter(t) ==
  /\ Exec(t) /\ call[t].op = "sem" /\ call[t].pc = "enter"
  /\ LET s       == call[t].o
         m       == [k EXCEPT !.value[s] = @ - 1]
         elapsed == (k.jiffies - call[t].start) % (MaxTick + 1)
         rest    == call[t].tmo - elapsed
     IN IF m.value[s] >= 0
        THEN k' = m /\ call' = [call EXCEPT ![t] = NoCall]
        ELSE /\ k' = sem_block(m, s, IF rest > 0 THEN rest ELSE Infinite)
             /\ call' = [call EXCEPT ![t].pc = "yield"]

\* ... takes a token, gives up because its time is over, or blocks for the
\* rest of the time.
SemWaitEnter(t) ==
  /\ Exec(t) /\ call[t].op = "sem" /\ call[t].pc = "enter"
  /\ LET s       == call[t].o
         timeout == call[t].tmo
         m       == [k EXCEPT !.value[s] = @ - 1]
         elapsed == (k.jiffies - call[t].start) % (MaxTick + 1)
     IN \/ /\ m.value[s] >= 0
           /\ k' = m
           /\ call' = [call EXCEPT ![t] = NoCall]
        \/ /\ m.value[s] < 0 /\ timeout # Infinite /\ elapsed >= timeout
           /\ k' = sem_fast_signal(m, s)
           /\ call' = [call EXCEPT ![t] = NoCall]
        \/ /\ m.value[s] < 0 /\ (timeout # Infinite => elapsed < timeout)
           /\ k' = sem_block(m, s, IF timeout = Infinite THEN Infinite ELSE timeout - elapsed)
           /\ call' = [call EXCEPT ![t].pc = "yield"]

\* Back from the wait: return the message, or wait again when the wait was
\* cut short by a suspend.
SemWaitReturn(t) ==
  /\ Exec(t) /\ call[t].op = "sem" /\ call[t].pc = "after"
  /\ \/ /\ k.wait_aborted[t]
        /\ call' = [call EXCEPT ![t].pc = "enter"]
        /\ UNCHANGED k
     \/ /\ ~k.wait_aborted[t]
        /\ call' = [call EXCEPT ![t] = NoCall]
        /\ k' = leave(k, t)

\* A signal on s stores its token, and s is connected to an event group.
Notifies(s) == k.value[s] >= 0 /\ Connected(k, s)

\* isix_sem_signal by a thread: the group is read inside of the critical
\* section, its bit is raised after it (Notify).
SemSignal(t, s) ==
  /\ Running(t) /\ s \in k.live /\ k.value[s] < MaxValue
  /\ k' = sem_signal(k, s)
  /\ call' = IF Notifies(s) THEN [call EXCEPT ![t] = Raise(t, k.evt[s], k.bitno[s])] ELSE call

\* isix_sem_signal_isr by an interrupt handler.
SemSignalIsr(s) ==
  /\ s \in k.live /\ k.value[s] < MaxValue
  /\ k' = IF Notifies(s) THEN event_set(sem_signal(k, s), k.evt[s], {k.bitno[s]}) ELSE sem_signal(k, s)
  /\ UNCHANGED call

\* isix_sem_reset, by a thread or by an interrupt handler.
SemReset(s, v) ==
  /\ s \in k.live
  /\ k' = sem_wakeup_all([k EXCEPT !.value = [@ EXCEPT ![s] = sem_write_val(v, SemLimit[s])]],
                         s, ERESET)
  /\ UNCHANGED call

\* isix_sem_destroy.
SemDestroy(t, s) ==
  /\ Running(t) /\ s \in k.live /\ Quiescent(s)
  /\ k' = sem_destroy(k, s)
  /\ UNCHANGED call

\* isix_sem_create_limited on the same storage.
SemCreate(t, s) ==
  /\ Running(t) /\ s \notin k.live
  /\ k' = sem_create(k, s)
  /\ UNCHANGED call

SemOps ==
  \/ \E t \in Task, s \in Sems : SemSignal(t, s)
  \/ \E t \in Task, s \in Sems : SemDestroy(t, s) \/ SemCreate(t, s)
  \/ \E t \in Task, s \in Sems, timeout \in Timeouts : SemWait(t, s, timeout)
  \/ \E t \in Task : SemWaitEnter(t) \/ SemWaitReturn(t)
  \/ \E s \in Sems : SemTryWait(s) \/ SemSignalIsr(s)
  \/ \E s \in Sems, v \in ResetValues : SemReset(s, v)

SemNext == Machine \/ ShareOps \/ SemOps

SemSpec == Init /\ [][SemNext]_vars

\* The hardware ticks and takes the pended switch, and a thread that is given
\* the processor again and again gets on with the call it is in.
FairSemSpec ==
  /\ SemSpec /\ WF_vars(SysTick) /\ WF_vars(PendSV)
  /\ \A t \in Tasks : SF_vars(InCall(t) \/ SemWaitEnter(t) \/ SemWaitReturn(t))

-----------------------------------------------------------------------------
\* The counter and the wait list of a semaphore agree although timeouts,
\* suspends and kills remove waiters behind the back of the semaphore: a
\* negative value is exactly the number of the waiters.
SemCountsWaiters ==
  \A s \in Sems \cap k.live : Len(k.wait_list[s]) = (IF k.value[s] < 0 THEN -k.value[s] ELSE 0)

\* semaphore.h, isix_sem_wait: "ISIX_EOK if the token was taken": a wait that
\* returns ISIX_EOK was handed a token, and a token that was handed over is
\* not reported as an error.
SemOkMeansToken ==
  \A t \in Task :
    (call[t].op = "sem" /\ call[t].pc = "after" /\ Linked(t) /\ ~k.wait_aborted[t])
    => (k.obj[t] = EOK <=> t \in k.grant)

\* isix_sem_wait of a most urgent task returns when it has a timeout, whatever
\* signals, resets, destroys and ticks arrive between its steps; in particular
\* when the time is over before its critical section is entered.
TimedSemWaitReturns ==
  \A t \in Tasks : (MostUrgent(t) /\ call[t].op = "sem" /\ call[t].tmo # Infinite)
                     ~> (call[t].op = "none")
=============================================================================
