------------------------------ MODULE Scheduler ------------------------------
(***************************************************************************)
(* The ISIX scheduler (libisix/kernel/scheduler.c, ostime.c and the        *)
(* context switch of the Cortex-M port): the ready list, the two time      *)
(* lists around the wrap of the tick counter, priority reallocation, the   *)
(* scheduler lock and the preemption request.                              *)
(*                                                                         *)
(* The kernel runs on one core.  A critical section masks the kernel's     *)
(* interrupts (BASEPRI), so each critical section is one atomic step; the  *)
(* tick interrupt, interrupt handlers that call the *_isr services and     *)
(* the PendSV context switch happen between steps.  A thread runs only     *)
(* while no context switch is pending.                                     *)
(*                                                                         *)
(* The kernel memory is the record k: the task control blocks, struct      *)
(* isix_system and the synchronisation objects.  Every function of the     *)
(* kernel that changes it is an operator from k to k, so that the services *)
(* (Semaphore, Mutex, TaskControl) compose them the way the C code does.   *)
(***************************************************************************)
EXTENDS Integers, Queues

CONSTANTS
  Tasks,        \* the application's task control blocks
  Idle,         \* the idle task
  Null,         \* the NULL pointer
  Sems,         \* the semaphores
  Mtxs,         \* the mutexes
  Cvs,          \* the condition variables
  Evts,         \* the event groups
  Fifos,        \* the message queues
  Bits,         \* the bits of an event group
  Boot,         \* the tasks created before the scheduler starts, in order
  BasePrio,     \* priority each task is created with
  NumPrio,      \* CONFIG_ISIX_NUMBER_OF_PRIORITIES
  MaxTick,      \* ISIX_TIME_MAX_TICK: the tick counter wraps after it
  Timeouts,     \* the timeouts threads ask for
  SemInit,      \* initial value of each semaphore
  SemLimit,     \* limit_val of each semaphore, 0 for none
  MaxLock,      \* bound on the nesting of the scheduler lock
  MaxSkipped    \* bound on the ticks skipped under the scheduler lock

Task == Tasks \cup {Idle}

Prio == 0 .. NumPrio

Tick == 0 .. MaxTick

\* The values of enum isix_error the kernel delivers to a blocked task.
EOK      == 0
ETIMEOUT == -3
ERESET   == -9
EDESTROY == -10
Msg      == {EOK, ETIMEOUT, ERESET, EDESTROY}

\* ISIX_TIME_INFINITE and ISIX_TIME_DONTWAIT.
Infinite == 0
DontWait == MaxTick

\* What a task can be queued on: an object, or the waiting_tasks list of the
\* task whose exit it awaits.
Object == Sems \cup Mtxs \cup Cvs \cup Evts
Obj    == Object \cup Task

\* What can raise a bit of an event group when it has something to take.
Notifier == Sems \cup Fifos

\* ISIX_SEM_EVENT_INVALID_BITS and ISIX_FIFO_EVENT_INVALID_BITS.
InvalidBit == 255

\* obj.evbits of a task: the bits it waits for with the two control flags, or
\* the bits it was woken with.
EvBits == [bits : SUBSET Bits, all : BOOLEAN, clear : BOOLEAN]
NoBits == [bits |-> {}, all |-> FALSE, clear |-> FALSE]

ASSUME TaskAssumption ==
  /\ Idle \notin Tasks /\ Null \notin Task
  /\ Sems \cap Mtxs = {} /\ Object \cap (Task \cup Fifos \cup {Null}) = {}
  /\ (Sems \cup Mtxs) \cap (Cvs \cup Evts) = {} /\ Cvs \cap Evts = {}
  /\ Bits \subseteq Nat /\ InvalidBit \notin Bits /\ (Bits # {} => 0 \in Bits)
  /\ IsFiniteSet(Tasks)
  /\ Boot \in Seq(Tasks) /\ Distinct(Boot)

ASSUME PrioAssumption ==
  /\ NumPrio \in Nat \ {0}
  /\ BasePrio \in [Tasks -> 0 .. NumPrio - 1]

ASSUME TimeAssumption ==
  /\ MaxTick \in Nat \ {0}
  /\ Timeouts \subseteq Tick
  /\ MaxLock \in Nat /\ MaxSkipped \in Tick

ASSUME SemAssumption ==
  /\ SemInit \in [Sems -> Nat] /\ SemLimit \in [Sems -> Nat]
  /\ \A s \in Sems : SemLimit[s] > 0 => SemInit[s] <= SemLimit[s]

\* enum osthr_state; NONE is a control block that is not allocated.
State == {"NONE", "READY", "RUNNING", "SLEEPING", "WTSEM", "WTMTX", "WTCOND",
          "WTEVT", "WTEXIT", "SUSPEND", "ZOMBIE", "EXITED", "SCHEDULE"}

Waiting == {"WTSEM", "WTMTX", "WTCOND", "WTEVT", "WTEXIT"}

VARIABLES
  k,      \* the kernel memory
  call    \* per task: the service it is inside of, and how far it is

vars == <<k, call>>

\* The kernel memory.  The last two fields are history: the ticks a task on a
\* time list still has to wait by the wall clock, and the tasks that were
\* handed a semaphore token by the signal that woke them.
Kernel ==
  [ state        : [Task -> State],
    prio         : [Task -> Prio],
    real_prio    : [Task -> Prio],
    refcnt       : [Task -> Nat],
    wait_aborted : [Task -> BOOLEAN],
    deadline     : [Task -> Tick],
    obj          : [Task -> Msg \cup Sems \cup Mtxs \cup Cvs],
    evbits       : [Task -> EvBits],
    owned        : [Task -> Seq(Mtxs)],
    ready        : [Prio -> Seq(Task)],
    p_wait       : Seq(Task),
    pov_wait     : Seq(Task),
    zombie       : Seq(Task),
    wait_list    : [Obj -> Seq(Task)],
    jiffies      : Tick,
    skipped      : Tick,
    sched_lock   : Nat,
    yield_pending: BOOLEAN,
    currp        : Task,
    pendsv       : BOOLEAN,
    value        : [Sems -> Int],
    owner        : [Mtxs -> Task \cup {Null}],
    count        : [Mtxs -> Nat],
    bitset       : [Evts -> SUBSET Bits],
    evt          : [Notifier -> Evts \cup {Null}],
    bitno        : [Notifier -> Bits \cup {0, InvalidBit}],
    live         : SUBSET Object,
    bug          : BOOLEAN,
    left         : [Task -> Tick],
    grant        : SUBSET Task ]

\* A thread is between calls ("run"), before a critical section it still has
\* to enter ("enter"), before the isix_yield of a blocking call ("yield"), or
\* past it ("after").
Ops == {"none", "sleep", "sem", "mtx", "cond", "evt", "sync", "notify",
        "connect", "disconnect", "exit", "lock", "suspend", "kill", "unref", "cleanup"}
Pcs == {"run", "enter", "yield", "after"}

\* The service, the object it works on, its timeout with the time the call
\* began, and the bits it sets and waits for.
Call == [op : Ops, pc : Pcs, o : Obj \cup Fifos \cup {Null}, tmo : Tick, start : Tick,
         set : SUBSET Bits, w : EvBits]

NoCall == [op |-> "none", pc |-> "run", o |-> Null, tmo |-> 0, start |-> 0,
           set |-> {}, w |-> NoBits]

-----------------------------------------------------------------------------
(***************************************************************************)
(* The ready list.                                                         *)
(***************************************************************************)

\* _isixp_prio_gt: a lower number is a higher priority.
prio_gt(p, q) == p < q

\* add_ready_list of the tasks of ts, one after the other.  It panics for a
\* task that is already queued or gone.
add_ready_list(m, ts) ==
  [m EXCEPT
    !.bug   = @ \/ \E t \in Range(ts) : m.state[t] \in {"READY", "ZOMBIE"},
    !.state = [t \in Task |-> IF t \in Range(ts) THEN "READY" ELSE @[t]],
    !.ready = [p \in Prio |-> @[p] \o Keep(ts, {t \in Task : m.prio[t] = p})]]

delete_from_ready_list(m, t) ==
  [m EXCEPT !.ready = [p \in Prio |-> Without(@[p], {t})]]

\* list_delete of the inode of each task of S from the object it waits on.
unlink(m, S) ==
  [m EXCEPT !.wait_list = [o \in Obj |-> Without(@[o], S)]]

\* The first non-empty priority of the ready list.
top_prio(m) ==
  CHOOSE p \in Prio : m.ready[p] # <<>> /\ \A q \in Prio : q < p => m.ready[q] = <<>>

Mut_rotate(m) == m

\* The running task goes to the end of its priority.
rotate(m) ==
  IF m.state[m.currp] # "RUNNING" THEN m ELSE
  [m EXCEPT
    !.bug   = @ \/ \A p \in Prio : m.currp \notin Range(m.ready[p]),
    !.ready = [p \in Prio |-> IF m.currp \in Range(@[p])
                              THEN Append(Without(@[p], {m.currp}), m.currp)
                              ELSE @[p]],
    !.state = [@ EXCEPT ![m.currp] = "READY"]]

\* _isixp_schedule: the body of the PendSV handler.
schedule(m) ==
  IF m.sched_lock # 0 THEN [m EXCEPT !.yield_pending = TRUE] ELSE
  LET m1 == rotate(m)
      p  == top_prio(m1)
      t  == Head(m1.ready[p])
  IN [m1 EXCEPT
       !.bug   = @ \/ m1.state[t] # "READY" \/ m1.prio[t] # p,
       !.currp = t,
       !.state = [@ EXCEPT ![t] = "RUNNING"]]

\* _isix_port_yield.
port_yield(m) == [m EXCEPT !.pendsv = TRUE]

\* _isixp_do_reschedule and, with the periodic tick, _isixp_exit_critical_isr:
\* request a switch when the woken task t is more urgent than the current one.
do_reschedule(m, t) ==
  [m EXCEPT !.pendsv = @ \/ prio_gt(m.prio[t], m.prio[m.currp])]

-----------------------------------------------------------------------------
(***************************************************************************)
(* Blocking and waking.                                                    *)
(***************************************************************************)

Mut_time_unlink(m, S) == [m EXCEPT !.deadline = [t \in Task |-> IF t \in S THEN 0 ELSE @[t]]]

\* list_delete of the inode_time of each task of S.  The deadline is not read
\* again before the next timed wait stores a new one: the model forgets it.
time_unlink(m, S) ==
  [m EXCEPT
    !.p_wait   = Without(@, S),
    !.pov_wait = Without(@, S),
    !.deadline = [t \in Task |-> IF t \in S THEN 0 ELSE @[t]],
    !.left     = [t \in Task |-> IF t \in S THEN 0 ELSE @[t]]]

\* wakeup_task of each task of ts in order, with the message msg.
wakeup(m, ts, msg) ==
  LET m1 == time_unlink(m, Range(ts)) IN
  add_ready_list(
    [m1 EXCEPT !.obj    = [t \in Task |-> IF t \in Range(ts) THEN msg ELSE @[t]],
               !.evbits = [t \in Task |-> IF t \in Range(ts) THEN NoBits ELSE @[t]]], ts)

\* A service of t returns: obj and wait_aborted are not read again before the
\* next blocking call of t sets them, and the model forgets them.
leave(m, t) ==
  [m EXCEPT !.obj = [@ EXCEPT ![t] = EOK],
            !.evbits = [@ EXCEPT ![t] = NoBits],
            !.wait_aborted = [@ EXCEPT ![t] = FALSE],
            !.grant = @ \ {t}]

\* _isixp_set_sleep of the current task.
set_sleep(m, newstate) ==
  [delete_from_ready_list(m, m.currp) EXCEPT
    !.state = [@ EXCEPT ![m.currp] = newstate]]

Mut_no_wrap(m, t, timeout) ==
  LET dl == [m.deadline EXCEPT ![t] = m.jiffies + timeout] IN
  [m EXCEPT !.deadline = dl, !.left = [@ EXCEPT ![t] = timeout],
            !.p_wait = InsertSorted(@, t, dl)]

\* The 32-bit deadline may wrap: then the task belongs to the next turn of
\* the counter and goes to the overflow list.
add_task_to_waiting_list(m, t, timeout) ==
  LET at == (m.jiffies + timeout) % (MaxTick + 1)
      dl == [m.deadline EXCEPT ![t] = at]
      m1 == [m EXCEPT !.deadline = dl, !.left = [@ EXCEPT ![t] = timeout]]
  IN IF at < m.jiffies
     THEN [m1 EXCEPT !.pov_wait = InsertSorted(@, t, dl)]
     ELSE [m1 EXCEPT !.p_wait = InsertSorted(@, t, dl)]

set_sleep_timeout(m, newstate, timeout) ==
  LET m1 == set_sleep(m, newstate) IN
  IF timeout = Infinite THEN m1 ELSE add_task_to_waiting_list(m1, m.currp, timeout)

\* _isixp_add_to_prio_queue.
add_to_prio_queue(m, o, t) ==
  [m EXCEPT !.wait_list[o] = InsertSorted(@, t, m.prio)]

\* _isixp_reallocate_priority: a ready or running task moves to the end of
\* its new priority, a task waiting on a sorted list is queued again.
reallocate_priority(m, t, newprio) ==
  LET m1 == [m EXCEPT !.prio = [@ EXCEPT ![t] = newprio]] IN
  CASE m.state[t] \in {"READY", "RUNNING"} ->
         add_ready_list([delete_from_ready_list(m1, t) EXCEPT
                          !.state = [@ EXCEPT ![t] = "SCHEDULE"]], <<t>>)
    [] m.state[t] \in {"WTSEM", "WTMTX", "WTCOND"} ->
         add_to_prio_queue(unlink(m1, {t}), m.obj[t], t)
    [] OTHER -> m1

\* n times _isix_port_atomic_sem_inc, clamped to a positive limit.
sem_inc(v, limit, n) ==
  IF n > 0 /\ limit > 0 /\ v + n > limit THEN limit ELSE v + n

-----------------------------------------------------------------------------
(***************************************************************************)
(* Time.                                                                   *)
(***************************************************************************)

\* The tasks at the head of the near time list whose deadline is reached.
expired(m, now) ==
  LET n == CHOOSE i \in 0 .. Len(m.p_wait) :
             /\ \A j \in 1 .. i : m.deadline[m.p_wait[j]] <= now
             /\ i < Len(m.p_wait) => now < m.deadline[m.p_wait[i + 1]]
  IN SubSeq(m.p_wait, 1, n)

Mut_expire_waiting_tasks(m, now) ==
  LET ts == expired(m, now)
      W  == {t \in Range(ts) : m.state[t] = "WTSEM"}
      m1 == [time_unlink(unlink(m, W), Range(ts)) EXCEPT
              !.value = [s \in Sems |->
                          sem_inc(@[s], SemLimit[s], Cardinality({t \in W : m.obj[t] = s}))],
              !.obj   = [t \in Task |-> IF t \in W THEN EOK ELSE @[t]]]
  IN add_ready_list(m1, ts)

\* expire_waiting_tasks: who waits for an object leaves it with ISIX_ETIMEOUT,
\* a semaphore waiter gives its token request back; everyone becomes ready.
expire_waiting_tasks(m, now) ==
  LET ts == expired(m, now)
      S  == Range(ts)
      W  == {t \in S : m.state[t] \in {"WTSEM", "WTEVT", "WTCOND"}}
      m1 == [time_unlink(unlink(m, W), S) EXCEPT
              !.value  = [s \in Sems |->
                           sem_inc(@[s], SemLimit[s],
                                   Cardinality({t \in W : m.state[t] = "WTSEM" /\ m.obj[t] = s}))],
              !.evbits = [t \in Task |-> IF t \in W THEN NoBits ELSE @[t]],
              !.obj    = [t \in Task |-> IF t \in W THEN ETIMEOUT ELSE @[t]]]
  IN add_ready_list(m1, ts)

\* advance_jiffies by ticks steps that stay below the wrap.
advance_within(m, ticks) ==
  expire_waiting_tasks([m EXCEPT !.jiffies = @ + ticks], m.jiffies + ticks)

Mut_advance_to_wrap(m) ==
  expire_waiting_tasks([m EXCEPT !.jiffies = 0, !.p_wait = m.pov_wait, !.pov_wait = m.p_wait], 0)

\* advance_jiffies up to zero: everything due before the wrap expires at
\* ISIX_TIME_MAX_TICK, then the lists are exchanged.
advance_to_wrap(m) ==
  LET m1 == IF m.jiffies < MaxTick
            THEN expire_waiting_tasks([m EXCEPT !.jiffies = MaxTick], MaxTick)
            ELSE m
  IN expire_waiting_tasks(
       [m1 EXCEPT !.jiffies = 0, !.p_wait = m1.pov_wait, !.pov_wait = m1.p_wait], 0)

\* advance_jiffies: ticks is a 32-bit number, so the loop passes the wrap at
\* most once.
advance_jiffies(m, ticks) ==
  LET to_wrap == MaxTick - m.jiffies + 1
      m1      == advance_to_wrap(m)
  IN CASE ticks = 0      -> m
       [] ticks > 0 /\ ticks < to_wrap -> advance_within(m, ticks)
       [] ticks = to_wrap -> m1
       [] ticks > to_wrap -> advance_within(m1, ticks - to_wrap)

\* _isixp_systimer_announce of one tick.
systimer_announce(m) ==
  IF m.sched_lock # 0 THEN [m EXCEPT !.skipped = @ + 1] ELSE advance_jiffies(m, 1)

Mut_unlock_flush(m) == [advance_jiffies(m, m.skipped) EXCEPT !.skipped = 0]

\* The critical section of _isixp_unlock_scheduler.
unlock_flush(m) ==
  LET m1 == [advance_jiffies(m, m.skipped) EXCEPT !.skipped = 0] IN
  [m1 EXCEPT !.pendsv = @ \/ m1.yield_pending, !.yield_pending = FALSE]

-----------------------------------------------------------------------------
(***************************************************************************)
(* Steps.                                                                  *)
(***************************************************************************)

\* The thread of t executes: it is the current task and no switch is due.
Exec(t) == k.currp = t /\ ~k.pendsv

\* ... between two calls.  The idle task calls no service.
Running(t) == Exec(t) /\ call[t].pc = "run" /\ t # Idle

\* ... and may block: blocking under the scheduler lock is a usage error.
MayBlock(t) == Running(t) /\ k.sched_lock = 0

\* Whoever is inside a call on the object o is queued on it (who waits for a
\* condition comes back to the mutex o).  Destroying an object under a thread
\* that still has to look at it is a usage error.
Quiescent(o) == \A t \in Task : call[t].o = o => k.state[t] \in Waiting \ {"WTCOND"}

OnTimeList(m) == Range(m.p_wait) \cup Range(m.pov_wait)

\* One tick passes for everybody on a time list, by the wall clock.
pass(m) ==
  [m EXCEPT !.left = [t \in Task |-> IF t \in OnTimeList(m) /\ @[t] > 0 THEN @[t] - 1 ELSE @[t]]]

\* systick_isr_vector: one tick, then a switch is always requested.
SysTick ==
  /\ k.sched_lock # 0 => k.skipped < MaxSkipped
  /\ k' = port_yield(systimer_announce(pass(k)))
  /\ UNCHANGED call

\* pend_svc_isr_vector.
PendSV ==
  /\ k.pendsv
  /\ k' = [schedule(k) EXCEPT !.pendsv = FALSE]
  /\ UNCHANGED call

\* isix_yield by a thread, of its own accord.
YieldCall(t) ==
  /\ Running(t)
  /\ k' = port_yield(k)
  /\ UNCHANGED call

\* The isix_yield that ends the blocking part of a service.
Yield(t) ==
  /\ Exec(t) /\ call[t].pc = "yield"
  /\ k' = port_yield(k)
  /\ call' = [call EXCEPT ![t] = IF @.op \in {"sleep", "suspend"}
                                 THEN NoCall ELSE [@ EXCEPT !.pc = "after"]]

\* isix_wait.
Wait(t, timeout) ==
  /\ MayBlock(t)
  /\ k' = set_sleep_timeout(k, "SLEEPING", timeout)
  /\ call' = [call EXCEPT ![t] = [NoCall EXCEPT !.op = "sleep", !.pc = "yield"]]

\* _isixp_lock_scheduler.
LockScheduler(t) ==
  /\ Running(t) /\ k.sched_lock < MaxLock
  /\ k' = [k EXCEPT !.sched_lock = @ + 1]
  /\ UNCHANGED call

\* _isixp_unlock_scheduler drops the lock outside of the critical section ...
UnlockScheduler(t) ==
  /\ Running(t) /\ k.sched_lock > 0
  /\ k' = [k EXCEPT !.sched_lock = @ - 1]
  /\ call' = [call EXCEPT ![t] = IF k.sched_lock = 1
                                 THEN [NoCall EXCEPT !.op = "lock", !.pc = "enter"]
                                 ELSE @]

\* ... and replays the skipped ticks inside.
UnlockFlush(t) ==
  /\ Exec(t) /\ call[t].op = "lock" /\ call[t].pc = "enter"
  /\ k' = unlock_flush(k)
  /\ call' = [call EXCEPT ![t] = NoCall]

-----------------------------------------------------------------------------
\* The state after isix_start_scheduler: the idle task and the tasks of Boot
\* are ready, the first of the highest priority runs.
InitReady == [p \in Prio |-> IF p = NumPrio THEN <<Idle>>
                             ELSE Keep(Boot, {t \in Tasks : BasePrio[t] = p})]

InitPrio == [t \in Task |-> IF t = Idle THEN NumPrio ELSE BasePrio[t]]

InitCurrp == LET p == CHOOSE p \in Prio : /\ InitReady[p] # <<>>
                                          /\ \A q \in Prio : q < p => InitReady[q] = <<>>
             IN Head(InitReady[p])

InitKernel ==
  [ state        |-> [t \in Task |-> CASE t = InitCurrp -> "RUNNING"
                                       [] t # InitCurrp /\ t \in Range(Boot) \cup {Idle} -> "READY"
                                       [] OTHER -> "NONE"],
    prio         |-> InitPrio,
    real_prio    |-> InitPrio,
    refcnt       |-> [t \in Task |-> 0],
    wait_aborted |-> [t \in Task |-> FALSE],
    deadline     |-> [t \in Task |-> 0],
    obj          |-> [t \in Task |-> EOK],
    evbits       |-> [t \in Task |-> NoBits],
    owned        |-> [t \in Task |-> <<>>],
    ready        |-> InitReady,
    p_wait       |-> <<>>,
    pov_wait     |-> <<>>,
    zombie       |-> <<>>,
    wait_list    |-> [o \in Obj |-> <<>>],
    jiffies      |-> 0,
    skipped      |-> 0,
    sched_lock   |-> 0,
    yield_pending|-> FALSE,
    currp        |-> InitCurrp,
    pendsv       |-> FALSE,
    value        |-> SemInit,
    owner        |-> [x \in Mtxs |-> Null],
    count        |-> [x \in Mtxs |-> 0],
    bitset       |-> [e \in Evts |-> {}],
    evt          |-> [n \in Notifier |-> Null],
    bitno        |-> [n \in Notifier |-> 0],
    live         |-> Object,
    bug          |-> FALSE,
    left         |-> [t \in Task |-> 0],
    grant        |-> {} ]

Init == k = InitKernel /\ call = [t \in Task |-> NoCall]

\* What goes on under every service: the tick, the context switch, and the
\* yield that ends the blocking half of a call.
Machine == SysTick \/ PendSV \/ \E t \in Task : Yield(t)

\* The services of the scheduler itself.
SleepOps == \E t \in Task, timeout \in Timeouts : Wait(t, timeout)

ShareOps ==
  \/ \E t \in Task : YieldCall(t)
  \/ \E t \in Task : LockScheduler(t) \/ UnlockScheduler(t) \/ UnlockFlush(t)

SchedOps == SleepOps \/ ShareOps

SchedNext == Machine \/ SchedOps

SchedSpec == Init /\ [][SchedNext]_vars

\* A thread gets on with the call it is in, or leaves the section it locked the
\* scheduler for.
InCall(t) == Yield(t) \/ UnlockScheduler(t) \/ UnlockFlush(t)

-----------------------------------------------------------------------------
(***************************************************************************)
(* Properties.                                                             *)
(***************************************************************************)

\* The kernel memory and the threads are well formed.
TypeOK == k \in Kernel /\ call \in [Task -> Call]

\* No isix_bug() condition of the kernel is ever met: no task is made ready
\* twice or after its death, the task the scheduler picks is READY and its
\* priority is the one of the ready-list node it was found under.
NoPanic == ~k.bug

Linked(t) == k.state[t] \in {"READY", "RUNNING"}

\* The object whose wait list the state of t says it is on.
Awaited(t) == IF k.state[t] \in {"WTEXIT", "WTEVT"} THEN call[t].o ELSE k.obj[t]

\* The single inode of a task is linked exactly where its state says: on the
\* ready list of its own priority, on the wait list of the object it awaits,
\* on the zombie list, or nowhere.  Every unlink by a bare list_delete (a
\* timeout, a kill, a suspend) relies on it.
InodeWhereStateSays ==
  /\ \A p \in Prio : /\ Distinct(k.ready[p])
                     /\ Range(k.ready[p]) = {t \in Task : Linked(t) /\ k.prio[t] = p}
  /\ \A o \in Obj  : /\ Distinct(k.wait_list[o])
                     /\ Range(k.wait_list[o]) =
                          {t \in Task : k.state[t] \in Waiting /\ Awaited(t) = o}
  /\ Distinct(k.zombie) /\ Range(k.zombie) = {t \in Task : k.state[t] = "ZOMBIE"}

\* The union obj of a waiting task really holds the object its state names:
\* the expiry of a semaphore wait and a priority change dereference it.
UnionMatchesState ==
  \A t \in Task : /\ k.state[t] = "WTSEM" => k.obj[t] \in Sems
                  /\ k.state[t] = "WTMTX" => k.obj[t] \in Mtxs
                  /\ k.state[t] = "WTCOND" => k.obj[t] \in Cvs

\* Around the wrap of the tick counter: the near list is sorted and holds
\* only deadlines of the current turn of the counter, the overflow list is
\* sorted and holds only those of the next turn, so that the exchange of the
\* lists at the wrap loses nobody.
TimeListsSplitAtWrap ==
  /\ SortedBy(k.p_wait, k.deadline) /\ SortedBy(k.pov_wait, k.deadline)
  /\ \A t \in Range(k.p_wait)   : k.jiffies < k.deadline[t]
  /\ \A t \in Range(k.pov_wait) : k.deadline[t] < k.jiffies

\* A timed wait ends exactly when it should, whatever the wrap: the ticks a
\* task still has to wait by the wall clock are the distance of its deadline
\* from the counter.
TimersExact ==
  \A t \in OnTimeList(k) :
    k.left[t] > 0 /\ k.left[t] = (k.deadline[t] - k.jiffies) % (MaxTick + 1)

\* The thread that executes is never less urgent than a ready task, unless
\* the scheduler is locked, is just being unlocked, or a switch is pending.
HighestPriorityRuns ==
  (/\ ~k.pendsv /\ k.sched_lock = 0 /\ call[k.currp].op # "lock"
   /\ k.state[k.currp] \in {"READY", "RUNNING"})
  => \A t \in Task : k.state[t] = "READY" => ~prio_gt(k.prio[t], k.prio[k.currp])

\* A wait list is sorted by the current priority of the waiters, so that the
\* most urgent one is served first, also after a priority change.
WaitListsSorted ==
  \A o \in Sems \cup Mtxs \cup Cvs : SortedBy(k.wait_list[o], k.prio)

\* No task is created with a higher priority than t.
MostUrgent(t) == \A u \in Tasks : BasePrio[t] <= BasePrio[u]

\* Round robin: a ready task of the highest priority gets the processor, also
\* when its peers never block, never yield, or lock the scheduler again and
\* again: the tick and the deferred yield of the lock see to it.
RoundRobin ==
  \A t \in Tasks : (MostUrgent(t) /\ k.state[t] = "READY") ~> (k.state[t] = "RUNNING")
=============================================================================
