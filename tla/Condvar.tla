------------------------------- MODULE Condvar -------------------------------
(***************************************************************************)
(* Condition variables (libisix/kernel/condvar.c).  A wait releases the    *)
(* oldest mutex the caller owns and queues the caller on the variable in   *)
(* one critical section, and locks that mutex again when it was signalled. *)
(***************************************************************************)
EXTENDS Mutex

\* _isixp_get_top_currt_mutex: list_insert_first keeps the oldest one first.
top_mutex(m) == Head(m.owned[m.currp])

Mut_cond_block(m, c, timeout) ==
  LET t  == m.currp
      m1 == set_sleep_timeout(m, "WTCOND", timeout)
  IN [add_to_prio_queue(m1, c, t) EXCEPT !.obj = [@ EXCEPT ![t] = c]]

Mut_cond_order(m, c, timeout) ==
  LET t  == m.currp
      x  == top_mutex(m)
      m1 == add_to_prio_queue(m, c, t)
      m2 == set_sleep_timeout(mutex_unlock(m1, x), "WTCOND", timeout)
  IN [m2 EXCEPT !.obj = [@ EXCEPT ![t] = c]]

\* The critical section of isix_condvar_wait, the unlock nested into it: the
\* caller is queued at the priority it has without the mutex.
cond_block(m, c, timeout) ==
  LET t  == m.currp
      m1 == set_sleep_timeout(mutex_unlock(m, top_mutex(m)), "WTCOND", timeout)
  IN [add_to_prio_queue(m1, c, t) EXCEPT !.obj = [@ EXCEPT ![t] = c]]

\* _isixp_condvar_signal: the most urgent waiter goes.
condvar_signal(m, c) ==
  LET t == Head(m.wait_list[c]) IN
  IF m.wait_list[c] = <<>> THEN m
  ELSE do_reschedule(wakeup([unlink(m, {t}) EXCEPT !.bug = @ \/ m.state[t] # "WTCOND"], <<t>>, EOK), t)

\* condvar_broadcast_msg: everyone goes, the first decides on the switch.
condvar_broadcast_msg(m, c, msg) ==
  LET ws == m.wait_list[c] IN
  IF ws = <<>> THEN m
  ELSE do_reschedule(wakeup(unlink(m, Range(ws)), ws, msg), Head(ws))

-----------------------------------------------------------------------------
CondWait(t, c, timeout) ==
  /\ MayBlock(t) /\ c \in k.live /\ timeout # DontWait /\ k.owned[t] # <<>>
  /\ k' = cond_block(k, c, timeout)
  /\ call' = [call EXCEPT ![t] = [NoCall EXCEPT !.op = "cond", !.pc = "yield", !.o = top_mutex(k)]]

Mut_CondWaitReturn(t) ==
  /\ Exec(t) /\ call[t].op = "cond" /\ call[t].pc = "after"
  /\ call' = [call EXCEPT ![t] = [NoCall EXCEPT !.op = "mtx", !.pc = "after", !.o = call[t].o]]
  /\ UNCHANGED k

\* Back from the wait: isix_mutex_lock of the mutex when signalled (or resumed
\* after a suspend), otherwise return the error without it.
CondWaitReturn(t) ==
  /\ Exec(t) /\ call[t].op = "cond" /\ call[t].pc = "after"
  /\ k' = leave(k, t)
  /\ call' = [call EXCEPT ![t] = IF k.obj[t] = EOK
                                 THEN [NoCall EXCEPT !.op = "mtx", !.pc = "enter", !.o = call[t].o]
                                 ELSE NoCall]

\* isix_condvar_signal and isix_condvar_broadcast, with their _isr variants.
CondSignal(c) ==
  /\ c \in k.live
  /\ k' = condvar_signal(k, c)
  /\ UNCHANGED call

CondBroadcast(c) ==
  /\ c \in k.live
  /\ k' = condvar_broadcast_msg(k, c, EOK)
  /\ UNCHANGED call

CondDestroy(t, c) ==
  /\ Running(t) /\ c \in k.live
  /\ k' = [condvar_broadcast_msg(k, c, EDESTROY) EXCEPT !.live = @ \ {c}]
  /\ UNCHANGED call

CondCreate(t, c) ==
  /\ Running(t) /\ c \notin k.live
  /\ k' = [k EXCEPT !.live = @ \cup {c}, !.wait_list = [@ EXCEPT ![c] = <<>>]]
  /\ UNCHANGED call

CondOps ==
  \/ \E t \in Task, c \in Cvs :
       CondDestroy(t, c) \/ CondCreate(t, c) \/ \E timeout \in Timeouts : CondWait(t, c, timeout)
  \/ \E c \in Cvs : CondSignal(c) \/ CondBroadcast(c)
  \/ \E t \in Task : CondWaitReturn(t)

CondNext == Machine \/ SleepOps \/ MtxOps \/ CondOps

CondSpec == Init /\ [][CondNext]_vars

-----------------------------------------------------------------------------
\* condvar.h, isix_condvar_wait: the mutex is released while the caller waits,
\* and "The mutex ownership is lost" when the wait ends with an error: nobody
\* between its wait for a condition and the new lock owns the mutex, so that
\* somebody else can make the condition true.
CondWaiterReleased ==
  \A t \in Task : call[t].op = "cond" => k.owner[call[t].o] # t
=============================================================================
