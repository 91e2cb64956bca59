-------------------------------- MODULE Mutex --------------------------------
(***************************************************************************)
(* Recursive mutexes with priority inheritance (libisix/kernel/mutex.c).   *)
(***************************************************************************)
EXTENDS Scheduler

CONSTANT MaxCount   \* bound on the recursion of one mutex

\* calc_inherited_priority: the priority of t with what it inherits from the
\* first waiter of every mutex it owns.
calc_inherited_priority(m, t) ==
  Min({m.real_prio[t]} \cup
      {m.prio[Head(m.wait_list[x])] : x \in {y \in Range(m.owned[t]) : m.wait_list[y] # <<>>}})

inherit(m, t) ==
  LET newprio == calc_inherited_priority(m, t) IN
  IF newprio = m.prio[t] THEN m ELSE reallocate_priority(m, t, newprio)

Mut_mutex_waiter_removed(m, x) == m

\* _isixp_mutex_waiter_removed.
mutex_waiter_removed(m, x) ==
  IF m.owner[x] = Null THEN m ELSE inherit(m, m.owner[x])

\* set_ownership_to_current; it panics on a counted mutex without owner.
set_ownership_to_current(m, x) ==
  [m EXCEPT !.bug   = @ \/ m.count[x] # 0,
            !.count[x] = @ + 1,
            !.owner = [@ EXCEPT ![x] = m.currp],
            !.owned[m.currp] = InsertFirst(@, x)]

Mut_mtx_block(m, x) ==
  LET t  == m.currp
      m1 == set_sleep([m EXCEPT !.wait_aborted = [@ EXCEPT ![t] = FALSE]], "WTMTX")
  IN [add_to_prio_queue(m1, x, t) EXCEPT !.obj = [@ EXCEPT ![t] = x]]

\* The blocking branch of isix_mutex_lock: lend the priority, then queue.
mtx_block(m, x) ==
  LET t  == m.currp
      o  == m.owner[x]
      m1 == IF prio_gt(m.prio[t], m.prio[o]) THEN reallocate_priority(m, o, m.prio[t]) ELSE m
      m2 == set_sleep([m1 EXCEPT !.wait_aborted = [@ EXCEPT ![t] = FALSE]], "WTMTX")
  IN [add_to_prio_queue(m2, x, t) EXCEPT !.obj = [@ EXCEPT ![t] = x]]

Mut_transfer(m, x) ==
  LET t == Head(m.wait_list[x]) IN
  [unlink(m, {t}) EXCEPT !.count = [@ EXCEPT ![x] = 1],
                         !.owned[t] = InsertFirst(@, x)]

\* transfer_mtx_ownership_to_next_waiting_task.
transfer(m, x) ==
  LET t == Head(m.wait_list[x]) IN
  [unlink(m, {t}) EXCEPT
    !.count = [@ EXCEPT ![x] = 1],
    !.owner = [@ EXCEPT ![x] = t],
    !.owned = [u \in Task |-> IF u = t THEN InsertFirst(@[u], x) ELSE Without(@[u], {x})]]

Mut_mtx_release(m, x) ==
  LET t  == m.currp
      m1 == [m EXCEPT !.owned[t] = Without(@, {x})]
      w  == Head(m.wait_list[x])
  IN IF m.wait_list[x] = <<>>
     THEN [m1 EXCEPT !.count = [@ EXCEPT ![x] = 0], !.owner = [@ EXCEPT ![x] = Null]]
     ELSE do_reschedule(wakeup(transfer(m1, x), <<w>>, EOK), w)

\* The last isix_mutex_unlock: the priority lent through this mutex goes back
\* and the first waiter becomes the owner, if there is one.
mtx_release(m, x) ==
  LET t  == m.currp
      m1 == [m EXCEPT !.bug   = @ \/ x \notin Range(m.owned[t]),
                      !.owned[t] = Without(@, {x})]
      m2 == reallocate_priority(m1, t, calc_inherited_priority(m1, t))
      w  == Head(m.wait_list[x])
  IN IF m.wait_list[x] = <<>>
     THEN [m1 EXCEPT !.count = [@ EXCEPT ![x] = 0], !.owner = [@ EXCEPT ![x] = Null]]
     ELSE do_reschedule(wakeup(transfer(m2, x), <<w>>, EOK), w)

Mut_mutex_unlock(m, x) ==
  IF m.count[x] > 1
  THEN [m EXCEPT !.count[x] = @ - 1,
                 !.owned[m.currp] = Without(@, {x})]
  ELSE mtx_release(m, x)

\* isix_mutex_unlock by the owner.
mutex_unlock(m, x) ==
  IF m.count[x] > 1 THEN [m EXCEPT !.count[x] = @ - 1] ELSE mtx_release(m, x)

\* _isixp_mutex_unlock_all_in_task: every mutex of u goes to its first waiter
\* or becomes free; the waiter of the first contended one decides on the
\* switch.
mutex_unlock_all_in_task(m, u) ==
  LET ms == m.owned[u]
      hs == Keep(ms, {x \in Mtxs : m.wait_list[x] # <<>>})
      ws == [i \in 1 .. Len(hs) |-> Head(m.wait_list[hs[i]])]
      m1 == wakeup(
              [unlink(m, Range(ws)) EXCEPT
                !.count = [x \in Mtxs |-> CASE x \in Range(hs) -> 1
                                            [] x \in Range(ms) \ Range(hs) -> 0
                                            [] OTHER -> @[x]],
                !.owner = [x \in Mtxs |-> CASE x \in Range(hs) -> Head(m.wait_list[x])
                                            [] x \in Range(ms) \ Range(hs) -> Null
                                            [] OTHER -> @[x]],
                !.owned = [t \in Task |->
                            CASE t = u -> <<>>
                              [] t \in Range(ws) -> InsertFirst(@[t], m.obj[t])
                              [] OTHER -> @[t]]], ws, EOK)
      m2 == IF u = m.currp THEN inherit(m1, u) ELSE m1
  IN IF ws = <<>> THEN m2 ELSE do_reschedule(m2, ws[1])

\* isix_mutex_destroy: the waiters leave with ISIX_EDESTROY at the priority
\* they have without this mutex, and so does the owner.
mutex_destroy(m, x) ==
  LET o  == m.owner[x]
      ws == m.wait_list[x]
      m1 == [unlink(m, Range(ws)) EXCEPT
              !.owned = [t \in Task |-> Without(@[t], {x})],
              !.owner = [@ EXCEPT ![x] = Null],
              !.count = [@ EXCEPT ![x] = 0]]
      m2 == wakeup(
              [m1 EXCEPT !.prio = [t \in Task |-> IF t \in Range(ws)
                                    THEN calc_inherited_priority(m1, t) ELSE @[t]]],
              ws, EDESTROY)
      m3 == IF o = Null THEN m2 ELSE inherit(m2, o)
  IN IF ws = <<>> THEN m3 ELSE do_reschedule(m3, Head(ws))

-----------------------------------------------------------------------------
\* isix_mutex_lock: its critical section, entered by the call or again after
\* a suspend cut the wait short.
MtxLock(t, x) ==
  /\ \/ MayBlock(t) /\ x \in k.live
     \/ Exec(t) /\ call[t].op = "mtx" /\ call[t].pc = "enter" /\ call[t].o = x
  /\ \/ /\ k.owner[x] = Null
        /\ k' = set_ownership_to_current(k, x)
        /\ call' = [call EXCEPT ![t] = NoCall]
     \/ /\ k.owner[x] = t /\ k.count[x] < MaxCount
        /\ k' = [k EXCEPT !.count[x] = @ + 1]
        /\ call' = [call EXCEPT ![t] = NoCall]
     \/ /\ k.owner[x] \notin {Null, t}
        /\ k' = mtx_block(k, x)
        /\ call' = [call EXCEPT ![t] = [NoCall EXCEPT !.op = "mtx", !.pc = "yield", !.o = x]]

\* Back from the wait.
MtxLockReturn(t) ==
  /\ Exec(t) /\ call[t].op = "mtx" /\ call[t].pc = "after"
  /\ \/ /\ k.wait_aborted[t]
        /\ call' = [call EXCEPT ![t].pc = "enter"]
        /\ UNCHANGED k
     \/ /\ ~k.wait_aborted[t]
        /\ call' = [call EXCEPT ![t] = NoCall]
        /\ k' = leave(k, t)

\* isix_mutex_trylock, when it does not fail.
MtxTryLock(t, x) ==
  /\ Running(t) /\ x \in k.live
  /\ \/ k.owner[x] = Null /\ k' = set_ownership_to_current(k, x)
     \/ /\ k.owner[x] = t /\ k.count[x] < MaxCount
        /\ k' = [k EXCEPT !.count[x] = @ + 1]
  /\ UNCHANGED call

MtxUnlock(t, x) ==
  /\ Running(t) /\ x \in k.live /\ k.owner[x] = t
  /\ k' = mutex_unlock(k, x)
  /\ UNCHANGED call

\* isix_mutex_unlock_all.
MtxUnlockAll(t) ==
  /\ Running(t)
  /\ k' = mutex_unlock_all_in_task(k, t)
  /\ UNCHANGED call

MtxDestroy(t, x) ==
  /\ Running(t) /\ x \in k.live /\ Quiescent(x)
  /\ k' = [mutex_destroy(k, x) EXCEPT !.live = @ \ {x}]
  /\ UNCHANGED call

\* isix_mutex_create on the same storage.
MtxCreate(t, x) ==
  /\ Running(t) /\ x \notin k.live
  /\ k' = [k EXCEPT !.live = @ \cup {x}, !.owner = [@ EXCEPT ![x] = Null],
                    !.count = [@ EXCEPT ![x] = 0], !.wait_list = [@ EXCEPT ![x] = <<>>]]
  /\ UNCHANGED call

MtxOps ==
  \/ \E t \in Task, x \in Mtxs :
       MtxLock(t, x) \/ MtxTryLock(t, x) \/ MtxUnlock(t, x) \/ MtxDestroy(t, x) \/ MtxCreate(t, x)
  \/ \E t \in Task : MtxLockReturn(t) \/ MtxUnlockAll(t)

MtxNext == Machine \/ SleepOps \/ MtxOps

MtxSpec == Init /\ [][MtxNext]_vars

-----------------------------------------------------------------------------
\* The owner, the recursion count and the owner's list of mutexes agree, and
\* nobody waits for a mutex that is free: a hand-over, a kill or a destroy
\* that forgot one of them would strand the waiters.
OwnershipConsistent ==
  /\ \A x \in Mtxs : /\ k.owner[x] = Null <=> k.count[x] = 0
                     /\ k.wait_list[x] # <<>> => k.owner[x] # Null
                     /\ k.owner[x] # Null => k.state[k.owner[x]] \notin {"NONE", "ZOMBIE", "EXITED"}
  /\ \A t \in Task : /\ Distinct(k.owned[t])
                     /\ Range(k.owned[t]) = {x \in Mtxs : k.owner[x] = t}

\* A lock that returns ISIX_EOK after waiting has the mutex.
LockOkMeansOwner ==
  \A t \in Task :
    (/\ call[t].op = "mtx" /\ call[t].pc = "after" /\ Linked(t)
     /\ ~k.wait_aborted[t] /\ k.obj[t] = EOK) => k.owner[call[t].o] = t

\* Inherited priority is given back: a task runs above (or below) its own
\* priority only while somebody waits for a mutex it owns.
InheritanceReturned ==
  \A t \in Task :
    k.state[t] \notin {"NONE", "ZOMBIE", "EXITED"} /\ k.prio[t] # k.real_prio[t]
      => \E x \in Mtxs : k.owner[x] = t /\ k.wait_list[x] # <<>>

\* Priority inheritance: the owner of a mutex is at least as urgent as every
\* waiter that owns nothing itself (inheritance is not passed on along a
\* chain of owners).
OwnerInherits ==
  \A x \in Mtxs, w \in Task :
    (w \in Range(k.wait_list[x]) /\ k.owned[w] = <<>>) => k.prio[k.owner[x]] <= k.prio[w]
=============================================================================
