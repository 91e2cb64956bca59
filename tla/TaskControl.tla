----------------------------- MODULE TaskControl -----------------------------
(***************************************************************************)
(* The life of a task (libisix/kernel/task.c and the reclaiming of dead    *)
(* tasks by the idle task, scheduler.c): creation, priority change,        *)
(* suspend and resume, kill, waiting for exit, references and the release  *)
(* of the control block.  Suspend and kill reach into the objects a task   *)
(* waits for or owns, so this module composes them.                        *)
(***************************************************************************)
EXTENDS Semaphore, Condvar

CONSTANTS
  NewPrios,   \* the priorities tasks are changed to
  MaxRef      \* bound on the references to one task

\* isix_task_change_prio refuses a priority below the lowest one of a task.
ASSUME ControlAssumption == NewPrios \subseteq 0 .. NumPrio - 1 /\ MaxRef \in Nat

Dead == {"ZOMBIE", "EXITED"}

Mut_no_token_back(m, t, suspend) ==
  LET m1 == unlink(delete_from_ready_list(time_unlink(m, {t}), t), {t}) IN
  IF suspend
  THEN [m1 EXCEPT !.state = [@ EXCEPT ![t] = "SUSPEND"], !.wait_aborted = [@ EXCEPT ![t] = TRUE]]
  ELSE [m1 EXCEPT !.state = [@ EXCEPT ![t] = "ZOMBIE"], !.zombie = Append(@, t)]

Mut_left_on_condvar(m, t, suspend) ==
  LET m1 == delete_from_ready_list(time_unlink(m, {t}), t)
      m2 == IF m.state[t] = "WTCOND" THEN m1 ELSE unlink(m1, {t})
  IN IF suspend
     THEN [m2 EXCEPT !.state = [@ EXCEPT ![t] = "SUSPEND"]]
     ELSE [m2 EXCEPT !.state = [@ EXCEPT ![t] = "ZOMBIE"], !.zombie = Append(@, t)]

Mut_kill_or_suspend(m, t, suspend) ==
  LET m1 == unlink(delete_from_ready_list(time_unlink(m, {t}), t), {t}) IN
  IF suspend
  THEN [m1 EXCEPT !.state = [@ EXCEPT ![t] = "SUSPEND"]]
  ELSE [m1 EXCEPT !.state = [@ EXCEPT ![t] = "ZOMBIE"], !.zombie = Append(@, t)]

\* _isixp_add_kill_or_set_suspend: take t off whatever list it is on.
kill_or_suspend(m, t, suspend) ==
  LET st == m.state[t]
      m1 == time_unlink(m, {t})
      m2 == CASE st \in {"READY", "RUNNING"} -> delete_from_ready_list(m1, t)
              [] st = "WTSEM" -> unlink(sem_fast_signal(m1, m.obj[t]), {t})
              [] st = "WTMTX" -> mutex_waiter_removed(unlink(m1, {t}), m.obj[t])
              [] st \in {"WTEVT", "WTCOND", "WTEXIT"} -> unlink(m1, {t})
              [] OTHER -> m1
      m3 == IF st \in Waiting \ {"WTCOND"}
            THEN [m2 EXCEPT !.wait_aborted = [@ EXCEPT ![t] = suspend]] ELSE m2
  IN IF suspend
     THEN [m3 EXCEPT !.state = [@ EXCEPT ![t] = "SUSPEND"]]
     ELSE [m3 EXCEPT !.state = [@ EXCEPT ![t] = "ZOMBIE"], !.zombie = Append(@, t)]

\* wake_exit_waiters and the switch for the most urgent of them.
wake_exit_waiters(m, u, msg) ==
  LET ws == m.wait_list[u] IN wakeup(unlink(m, Range(ws)), ws, msg)

Mut_task_kill(m, u) ==
  leave(kill_or_suspend(wake_exit_waiters(m, u, EOK), u, FALSE), u)

\* isix_task_kill of u, by itself or by another task.
task_kill(m, u) ==
  LET self == u = m.currp
      ws   == m.wait_list[u]
      m1   == mutex_unlock_all_in_task(m, u)
      m2   == wake_exit_waiters(m1, u, IF self THEN EOK ELSE EDESTROY)
      m3   == leave(kill_or_suspend(m2, u, FALSE), u)
  IN [m3 EXCEPT !.pendsv = @ \/ (~self /\ \E w \in Range(ws) : prio_gt(m3.prio[w], m3.prio[m.currp]))]

-----------------------------------------------------------------------------
\* The caller may pass the handle of u: u exists, and either lives or is kept
\* by a reference.
Handle(u) == k.state[u] \notin {"NONE"} \cup Dead \/ (k.state[u] \in Dead /\ k.refcnt[u] > 0)

\* isix_task_create, with the flags for a suspended and for a referenced task.
TaskCreate(t, u, suspended, ref) ==
  /\ Running(t) /\ k.state[u] = "NONE" /\ ref <= MaxRef
  /\ LET m == [k EXCEPT
                !.prio      = [@ EXCEPT ![u] = BasePrio[u]],
                !.real_prio = [@ EXCEPT ![u] = BasePrio[u]],
                !.refcnt    = [@ EXCEPT ![u] = ref],
                !.owned     = [@ EXCEPT ![u] = <<>>],
                !.wait_list = [@ EXCEPT ![u] = <<>>]]
     IN k' = IF suspended THEN [m EXCEPT !.state = [@ EXCEPT ![u] = "SUSPEND"]]
             ELSE do_reschedule(wakeup(m, <<u>>, EOK), u)
  /\ call' = [call EXCEPT ![u] = NoCall]

\* isix_task_change_prio.
TaskChangePrio(t, u, p) ==
  /\ Running(t) /\ Handle(u) /\ k.real_prio[u] # p
  /\ LET m == [k EXCEPT !.real_prio = [@ EXCEPT ![u] = p]]
     IN k' = IF k.prio[u] = k.real_prio[u] \/ prio_gt(p, k.prio[u])
             THEN port_yield(reallocate_priority(m, u, p)) ELSE m
  /\ UNCHANGED call

TaskSuspend(t, u) ==
  /\ Running(t) /\ Handle(u) /\ k.state[u] \notin Dead \cup {"SUSPEND"}
  /\ u = t => MayBlock(t)
  /\ k' = kill_or_suspend(k, u, TRUE)
  /\ call' = IF u = t THEN [call EXCEPT ![t] = [NoCall EXCEPT !.op = "suspend", !.pc = "yield"]]
             ELSE call

\* The wake-up of a suspended task, whatever its last wake-up message was.
task_resume(m, u) == do_reschedule(wakeup(m, <<u>>, EOK), u)

TaskResume(t, u) ==
  /\ Running(t) /\ u # t /\ k.state[u] = "SUSPEND"
  /\ k' = task_resume(k, u)
  /\ UNCHANGED call

\* isix_task_kill, also the end of a task function (_isixp_task_terminator).
TaskKill(t, u) ==
  /\ Running(t) /\ Handle(u) /\ k.state[u] \notin Dead
  /\ u = t => MayBlock(t)
  /\ k' = task_kill(k, u)
  /\ call' = [call EXCEPT ![u] = IF u = t THEN [NoCall EXCEPT !.op = "kill", !.pc = "yield"]
                                 ELSE NoCall]

TaskRef(t, u) ==
  /\ Running(t) /\ Handle(u) /\ k.refcnt[u] < MaxRef
  /\ k' = [k EXCEPT !.refcnt[u] = @ + 1]
  /\ UNCHANGED call

\* The threads inside isix_task_wait_for(u): each must hold a reference.
ExitWaiters(u) == {t \in Task : call[t].op = "exit" /\ call[t].o = u}

\* isix_task_unref decides under the critical section ...
TaskUnref(t, u) ==
  /\ Running(t) /\ k.refcnt[u] > Cardinality(ExitWaiters(u))
  /\ k' = [k EXCEPT !.refcnt[u] = @ - 1]
  /\ call' = IF k'.refcnt[u] = 0 /\ k.state[u] = "EXITED"
             THEN [call EXCEPT ![t] = [NoCall EXCEPT !.op = "unref", !.pc = "enter", !.o = u]]
             ELSE call

\* isix_task_wait_for: its critical section, entered by the call or again
\* after a suspend cut the wait short.
TaskWaitFor(t, u) ==
  /\ \/ MayBlock(t) /\ u # t /\ Handle(u) /\ k.refcnt[u] > Cardinality(ExitWaiters(u))
     \/ Exec(t) /\ call[t].op = "exit" /\ call[t].pc = "enter" /\ call[t].o = u
  /\ \/ /\ k.refcnt[u] = 0 \/ k.state[u] \in Dead
        /\ call' = [call EXCEPT ![t] = NoCall]
        /\ k' = leave(k, t)
     \/ /\ k.refcnt[u] > 0 /\ k.state[u] \notin Dead
        /\ LET m == set_sleep([k EXCEPT !.wait_aborted = [@ EXCEPT ![t] = FALSE]], "WTEXIT")
           IN k' = [m EXCEPT !.wait_list[u] = Append(@, t)]
        /\ call' = [call EXCEPT ![t] = [NoCall EXCEPT !.op = "exit", !.pc = "yield", !.o = u]]

TaskWaitForReturn(t) ==
  /\ Exec(t) /\ call[t].op = "exit" /\ call[t].pc = "after"
  /\ \/ /\ k.wait_aborted[t]
        /\ call' = [call EXCEPT ![t].pc = "enter"]
        /\ UNCHANGED k
     \/ /\ ~k.wait_aborted[t]
        /\ call' = [call EXCEPT ![t] = NoCall]
        /\ k' = leave(k, t)

Mut_Cleanup ==
  /\ Exec(Idle) /\ call[Idle].pc = "run" /\ k.zombie # <<>>
  /\ LET u == Head(k.zombie) IN
     /\ k' = [k EXCEPT !.zombie = Tail(@), !.state = [@ EXCEPT ![u] = "EXITED"]]
     /\ call' = [call EXCEPT ![Idle] = [NoCall EXCEPT !.op = "cleanup", !.pc = "enter", !.o = u]]

\* cleanup_tasks by the idle task: one zombie leaves the list under the
\* critical section ...
Cleanup ==
  /\ Exec(Idle) /\ call[Idle].pc = "run" /\ k.zombie # <<>>
  /\ LET u == Head(k.zombie) IN
     /\ k' = [k EXCEPT !.zombie = Tail(@), !.state = [@ EXCEPT ![u] = "EXITED"]]
     /\ call' = IF k.refcnt[u] = 0
                THEN [call EXCEPT ![Idle] = [NoCall EXCEPT !.op = "cleanup", !.pc = "enter", !.o = u]]
                ELSE call

\* ... and the control block is freed after it, here and in isix_task_unref.
FreeTcb(t) ==
  /\ Exec(t) /\ call[t].op \in {"cleanup", "unref"} /\ call[t].pc = "enter"
  /\ LET u == call[t].o IN
     k' = [k EXCEPT !.bug   = @ \/ k.state[u] = "NONE",
                    !.state = [@ EXCEPT ![u] = "NONE"],
                    !.prio  = [@ EXCEPT ![u] = BasePrio[u]],
                    !.real_prio = [@ EXCEPT ![u] = BasePrio[u]]]
  /\ call' = [call EXCEPT ![t] = NoCall, ![call[t].o] = NoCall]

TaskOps ==
  \/ \E t \in Task, u \in Tasks :
       \/ \E suspended \in BOOLEAN, ref \in 0 .. 1 : TaskCreate(t, u, suspended, ref)
       \/ \E p \in NewPrios : TaskChangePrio(t, u, p)
       \/ TaskSuspend(t, u) \/ TaskResume(t, u) \/ TaskKill(t, u)
       \/ TaskRef(t, u) \/ TaskUnref(t, u) \/ TaskWaitFor(t, u)
  \/ \E t \in Task : TaskWaitForReturn(t) \/ FreeTcb(t)
  \/ Cleanup

TaskNext == Machine \/ MtxOps \/ CondOps \/ TaskOps

TaskSpec == Init /\ [][TaskNext]_vars

-----------------------------------------------------------------------------
\* A control block is freed once, and when nobody can reach it any more: it
\* has exited, nobody holds a reference or waits for its exit, and only one
\* of the idle task and the last isix_task_unref is about to free it.
FreedOnceUnreachable ==
  \A t \in Task :
    call[t].op \in {"cleanup", "unref"} =>
      LET u == call[t].o IN
      /\ k.state[u] = "EXITED" /\ k.refcnt[u] = 0 /\ k.wait_list[u] = <<>>
      /\ \A v \in Task \ {t} : call[v].op \in {"cleanup", "unref"} => call[v].o # u

\* task.h, isix_task_wait_for: a wait for the exit of a task ends when the
\* task is finished, also when the waiting task is suspended and resumed.
ExitWaitEndsAtExit ==
  \A t \in Task :
    (call[t].op = "exit" /\ call[t].pc = "after" /\ Linked(t) /\ ~k.wait_aborted[t])
      => k.state[call[t].o] \in Dead \cup {"NONE"}
=============================================================================
