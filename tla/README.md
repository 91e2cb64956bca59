# ISIX RTOS kernel: TLA+ models, model checking and proofs

ISIX is a preemptive real-time kernel for single-core Cortex-M processors
(`src/libisix`). This directory models the kernel: the scheduler with its tick
counter and time lists, semaphores, mutexes with priority inheritance, condition
variables, event groups, message queues, task control, software timers and the tickless
idle. TLC checks small instances of every module; TLAPS proves the consistency of the
whole kernel (every service composed), the order in which it serves waiters and the return of
inherited priorities, what semaphores, event groups, message queues and the wait for an exit
promise, and that the tickless idle loses no tick and delays no deadline beyond a stated bound,
for every instance.

## 1. Inventory

| component | source | state | operations |
|---|---|---|---|
| intrusive lists | `include/isix/prv/list.h` | links inside the objects | insert at the end / before / after the first, delete |
| scheduler, time | `kernel/scheduler.c`, `kernel/ostime.c` | ready list by priority, near and overflow time lists, `jiffies`, `jiffies_skipped`, `sched_lock`, `yield_pending`, `currp` | tick, context switch, `isix_wait`, `isix_yield`, lock and unlock of the scheduler, priority reallocation |
| Cortex-M port | `arch/arm/cortexm` | pending PendSV, the interrupt mask, the atomic counter, SysTick | SysTick and PendSV handlers, LDREX/STREX counter |
| semaphores | `kernel/semaphore.c` | counter, wait list, connected event bit | wait (timed), trywait, signal (thread, ISR), reset, destroy, create, connect |
| mutexes | `kernel/mutex.c` | owner, count, wait list; per task the owned mutexes and two priorities | lock, trylock, unlock, unlock all, destroy, create |
| condition variables | `kernel/condvar.c` | wait list sorted by priority | wait, signal, broadcast, destroy, create |
| event groups | `kernel/events.c` | bits, wait list | wait any/all, clear on exit, set, clear, rendezvous, destroy, create |
| message queues | `kernel/fifo.c`, `fifo_event.c` | ring, two semaphores, connected event bit | read, write, ISR variants, destroy, create, connect |
| task control | `kernel/task.c`, `cleanup_tasks` | task states, references, exit waiters, zombie list | create, change priority, suspend, resume, kill, ref, unref, wait for exit, reclaim |
| software timers | `kernel/softtimers.c` | worker thread, command queue, two timer lists around the wrap | start, cancel, destroy, create, work items, expiry, change of period |
| tickless idle | `kernel/scheduler.c`, `arch/arm/cortexm/kernel/systimer.c` | armed/sleeping timer, long period, wrap not accounted | arm, sleep, resynchronise, tick handler, microsecond clock |
| coroutine layer, wrappers | `include/isix/cpp`, `*.hpp` | executor queues | built on the services above |
| heap, pools, statistics, printk | `kernel/mm`, `mempool.c`, `osstats.c` | sequential | under one lock each |

**How they interact.** All state of the kernel is shared and is touched only inside
critical sections (BASEPRI masked); PendSV and the kernel's interrupts are held off
meanwhile. So a critical section is atomic, and everything hard happens *between*
them: a service of a blocking call is "critical section, then `isix_yield`, then look
at the message", and ticks, interrupt handlers and other threads come in between. The
task control block is the meeting point: one list node (`inode`) shared by the ready
list and every wait list, a second (`inode_time`) for the time lists, and a union
(`obj`) that is the awaited object while waiting and the wake-up message afterwards.
Timeouts, suspends and kills unlink a task from lists of another module. Semaphores and
queues raise bits of event groups; queues are built on semaphores and the scheduler lock,
software timers on a queue. Below all of it the tickless idle stops the source of time
itself, in a race with the counter it programs.

**What is hard here** is listed with line numbers under `hazards` in `PROJECT.json`:
the wrap of the 32-bit tick counter (once in 49 days) in three places, the two-step unlock
of the scheduler, the window between blocking and yielding, repairs of a semaphore's
counter by the scheduler, reuse of the union, priority lent and returned when a waiter
leaves by an unusual door, the hand-over of a mutex around a wait for a condition, token,
copy and signal of a queue as separate steps, the race to free a dead task, late commands
and late workers, and the arming of a one-shot timer that keeps counting.

## 2. Modules

| module | models |
|---|---|
| `Queues` | the list operations as sequence operators (no recursion) |
| `Scheduler` | kernel memory `k`, the functions of `scheduler.c` as operators `k -> k`, tick, PendSV, yield, `isix_wait`, scheduler lock |
| `Events` | `EXTENDS Scheduler`; `events.c`, and the connection of a semaphore or queue to a bit |
| `Semaphore` | `EXTENDS Events`; `semaphore.c` and the atomic counter |
| `Mutex` | `EXTENDS Scheduler`; `mutex.c` |
| `Condvar` | `EXTENDS Mutex`; `condvar.c` |
| `TaskControl` | `EXTENDS Semaphore, Condvar`; `task.c`, suspend/kill, `cleanup_tasks` |
| `Isix` | the composed kernel: every service at once |
| `BoundedFifo` | abstract specification: what a message queue promises |
| `Fifo` | `EXTENDS Semaphore`; `fifo.c`, `fifo_event.c`, and a thread that polls; implements `BoundedFifo` |
| `SoftTimers` | `softtimers.c` over a bounded FIFO command queue |
| `Tickless` | `systimer.c` and the tickless part of `scheduler.c`, cycle by cycle |
| `MC_Isix`, `MC_Fifo`, `MC_SoftTimers`, `MC_Tickless` | values of the constants for TLC |
| `Scheduler_proofs` | what the list operators return, for every list; what the functions of `scheduler.c` do to the time lists; the invariant of the scheduler alone |
| `Kernel_proofs` | the inductive invariant `KernelOK` of the composed kernel; scheduler functions and actions keep it |
| `Sync_proofs` | the actions of `Events`, `Semaphore`, `Mutex` and `Condvar` keep it |
| `Isix_proofs` | the actions of `TaskControl` keep it; the theorems about `Spec` |
| `Services_proofs` | the invariant `ServiceOK` on top of it: counters against waiters, no missed event, true ends of waits for an exit |
| `Messages_proofs` | the invariant `ToldOK`: what a waiter is told is what happened (tokens, event bits); the invariant `UrgencyOK`: wait lists in the order of priority, lent priorities given back |
| `Fifo_proofs` | the invariant `FifoOK` of the queues; slots are conserved, a queue outlives its users, `Fifo` implements `BoundedFifo` |
| `Tickless_proofs` | no tick is lost or counted twice, boundaries move only as far as late restarts move them, the microsecond clock goes back only with `jiffies`, nobody oversleeps |

### The kernel (`Scheduler` to `Isix`)

**State.** `k` is one record: per task the fields of `struct isix_task` (`state`, `prio`,
`real_prio`, `refcnt`, `wait_aborted`, `deadline` for `jiffies`, `obj`, `evbits`, `owned`),
the fields of `struct isix_system` (`ready`, `p_wait`, `pov_wait`, `zombie`, `jiffies`,
`skipped`, `sched_lock`, `yield_pending`, `currp`), the objects (`value`, `owner`, `count`,
`bitset`, `wait_list`, `live`, and `evt`, `bitno` of a notifier) and the pending switch
`pendsv`. `bug` becomes true where the code would call `isix_bug()`. `left` and `grant` are
history, read by properties only. `call` says for each thread which service it is inside
of, and whether it stands before a critical section, before the `isix_yield`, or after it.

**Atomicity.** One action is one critical section, one atomic instruction sequence, or
one interrupt handler. A thread acts only while it is `currp` and no switch is pending
(`Exec`); the tick, interrupt handlers and PendSV act at any time. Thus
`_isixp_unlock_scheduler` is two actions (the decrement is outside of its critical
section), `isix_sem_wait` and `isix_event_wait` are four (clock reading, critical section,
yield, return), a signal that stores a token reads the event bit in its critical section
and raises it in a step of its own (`Notify`), connecting is a compare-and-swap and a store
(`EventConnect`, `EventStoreBit`), and freeing a control block is a step after the critical
section that decided on it. `isix_condvar_wait` unlocks the mutex and queues itself in one
critical section: the unlock is nested into it, and its switch comes after it.

**Data abstraction.** The list of priority nodes is a function from priorities to
sequences; a list position is found by the same comparison as the code's walk, as a
`CHOOSE` over positions. Loops that treat a batch of tasks (expiry, wake-all, unlock-all,
`event_set`) are one operator over the batch. Bit masks are sets of bit numbers with two
flags. Fields that are dead until they are written again are reset when a service returns
(`leave`, `time_unlink`, `FreeTcb`), to keep equivalent states equal. Stacks, register
frames, the MPU, newlib data, statistics and logging are left out.

**Assumptions on callers**, each of which the code states or relies on without a check:
nothing blocks under the scheduler lock (`MayBlock`; `_isixp_set_sleep` asserts it under
`CONFIG_ISIX_TEST_HOOKS`); an object is not destroyed under a thread that is inside a call
on it but not queued (`Quiescent`), nor an event group that something is connected to; a
task handle is used while the task lives or while a reference is held (`Handle`), and every
thread in `isix_task_wait_for` holds one; the idle task calls no service. The tick of these
modules is periodic; `Tickless` shows what keeps it so. `SemTryWait`, `SemReset`,
`EventClear`, `CondSignal` and `CondBroadcast` have no thread parameter: threads and
interrupt handlers have the same effect.

### Message queues (`Fifo`, `BoundedFifo`)

A queue is a ring of slots (`mem`, `rx_p`, `tx_p`) over two semaphores of the kernel, whose
actions are reused as they are; `fop` says for each thread where it is in `isix_fifo_write`,
`isix_fifo_read` or `isix_fifo_destroy`. Token, lock, copy, unlock, signal and event are
separate actions. A queue with `isix_fifo_f_noirq` uses the scheduler lock instead of the
critical section, and a writer holds that lock around its signal and its event.

`IsBoundedFifo` is the refinement: `Abstract == INSTANCE BoundedFifo WITH q <- Contents,
out <- ...`, where `Contents` is the part of the ring from `rx_p` on, `used` items long.
A copy into the ring is `Put`, a copy out of it is `Get`, destroying is `Drop`, everything
else stutters. `used` and `out` are history; `SlotsConserved` ties `used` to what the code
keeps, the two counters.

The poller is a client as the tests of the repository have it: it connects the queue to a
bit, reads until the queue is empty, waits for the bit, and reads again. It is what the
order "count, then raise" is for.

### Software timers (`SoftTimers`)

Its own clock (`now`, with `jiffies(now)` wrapping) and a command queue that is the bounded
FIFO of the previous module. A client reads the counter and writes its command later; the
worker takes a command and reads the counter later still; `MaxLag` bounds both. `next` is
history, the true time a callback is due, against which the wrapping fields are checked.
A callback may change or end its period in its first or second call of a turn (`Script`).
`CyclicAtWrap` says whether a cyclic timer may run when the counter wraps: with it the code
has a flaw (finding 2), so the passing run keeps cyclic timers away from the wrap while
one-shot timers cross it.

### Tickless idle (`Tickless`)

`stk` is the SysTick counter, one action `Cycle` per timer cycle, and every register access
that the counter can race is an action of its own, while `Latency` bounds how long
interrupts stay masked. `g_tick_cycles`, `SYSTIMER_RESTART_SKEW`,
`SYSTIMER_MIN_FIRST_CYCLES` and the 24 bits of the counter are constants with the relations
the code relies on, scaled down (`Tpp`, `Skew`, `MinFirst`, `MaxLong`). `told` counts the
announced ticks without wrapping, so that `told % M` is `jiffies`. `cycles` is the true time:
no action but `Cycle` changes it. The restart skew is exact here (the code's 59 cycles were
measured on the hardware), so a restart whose next boundary is further away than the skew
keeps the phase. When the boundary is nearer, `systimer_split` saturates and the counter
starts the next tick after it: the history `missed` counts these restarts, and `Behind` is how
far the boundaries have moved since the start. `seen` is the last reading of
`isix_get_ujiffies`, which wraps as `jiffies` do, with the turn of `jiffies` it was made in. Left out: the scheduler lock during a sleep, and the software timers' part
of `calculate_next_timeout`, which only shortens a sleep.

## 3. Runs

Bounds are constants of the cfg: `MaxTick` (the counter wraps after it), `Timeouts`,
`MaxLock`, `MaxSkipped`, `MaxValue`, `MaxCount` (recursion), `MaxRef`, `NewPrios`,
`ResetValues`; `MaxCalls`, `MaxLag`, `Horizon`, `QueueSize` for the timers; `Latency`,
`Horizon` for the tickless idle. Three tasks give one more urgent thread and two that
compete, the least with which order inside a list, hand-over and inheritance all matter;
the idle task is always a fourth. `MaxTick` 1 to 4 with timeouts up to the whole turn puts
deadlines on both sides of the wrap in every position. Symmetry is
used where exchange changes nothing the invariants see: the two threads of one priority in
`task` and `evt`, the timers, the threads of `Tickless`.

| run | instance | shows |
|---|---|---|
| `sem` | 2 equal threads, handlers, a limited semaphore, the scheduler lock | ISIX_EOK means a token, time lists split at the wrap; under fairness round robin, and every timed wait returns |
| `mtx` | 3 priorities, 2 mutexes, a condition | ownership, hand-over, priority lent and returned, sorted wait lists, the mutex is released during a wait for the condition and owned after it |
| `task` | 3 threads, a mutex, a condition, suspend and kill | every node where the state says, no dead owner, lent priority taken back |
| `kernel` | 2 threads, semaphore, mutex locked up to twice, every service, priority changes | type correctness, no panic, the union, exact timers, counter = waiters, recursive locks |
| `notify` | 2 threads, a semaphore connected to an event group, references | a control block is freed once and unreachable; exit waits end at exit |
| `evt` | 3 threads, handlers, 2 bits, any/all, clear on exit, rendezvous | no wake-up lost; a wait that ends well saw its bits |
| `fifo` | 2 slots, 2 threads and handlers, a more urgent poller, both lock kinds | implements `BoundedFifo`; slots and items conserved; nobody works on a destroyed queue; the poller does not sleep on items; the most urgent thread runs once the lock is gone |
| `vtimer` | 2 timers, a client, handlers, counter 5 to past the wrap | never early, as often as time says, lists split at the wrap, the worker wakes in time, active means listed |
| `tickless` | 2 threads, tick of 6 cycles, long period up to 3 ticks, wrap after 8 ticks | no tick lost or counted twice, each late restart delays the boundaries by less than the skew, nobody oversleeps, a wake-up turns the tick on, the microsecond clock goes back only when `jiffies` wrap |
| `resume`, `vtimer_wrap`, `tickless_nested` | | findings, see below |

`vtimer` and `tickless` switch deadlock checking off because their clocks end at `Horizon`;
in the others the tick is always enabled or another step is. `vtimer` needs the wrap, a full
queue and a late worker together: three calls and ten ticks reach them. The `tickless`
horizon of 13 ticks holds two long periods and the wrap at 8.

`TimersExact` does not hold under the scheduler lock (see the unlock race below), so it is
checked in `kernel`, where the lock is not taken.

**Fairness** (`FairSemSpec`). SysTick and PendSV are weakly fair: the timer is periodic and
a pended PendSV is taken. The steps that carry a thread through a call it has begun
(yield, second half of an unlock, critical section and return of `isix_sem_wait`) are
*strongly* fair per thread, because ticks disable them again and again; that is the
assumption that a thread on the processor executes some instructions between two ticks.
`UnlockScheduler` is included: who locks the scheduler unlocks it. No fairness is assumed
for making calls, signalling or yielding voluntarily.

**Mutants.** For each property of a passing run `PROJECT.json` names a plausible bug
(an operator `Mut_...` next to the definition it replaces) under which TLC finds the
property violated.

## 4. Findings

Checked by a run:

1. `resume` (`task.c:297`): `isix_task_resume` writes ISIX_EOK over the message of a wait
   that had already ended, so a timed-out `isix_sem_wait` returns ISIX_EOK without a token.
   Event waits are affected in the same way.
2. `vtimer_wrap` (`softtimers.c:168`): the loop over missed periods compares wrapping
   deadlines with `>=`, so a cyclic timer that runs when `jiffies` wrap calls back without
   end or leaves periods out.
3. `tickless_nested` (`systimer.c:187`): a wake-up by an interrupt that preempts the tick
   handler at its entry leaves the tick stopped, and the woken thread oversleeps its next wait.

Seen while modelling, with the place in the model where they show:

* `systimer.c:105`: a wake-up less than the restart skew before a boundary restarts the counter
  after it and shifts all later boundaries by up to `Skew` - 1 cycles, although "set_timeout and
  resync never shift them" (`ostimer.h:23`). The shifts add up (`Behind = 0` fails in `tickless`);
  ticks are still neither lost nor counted twice, which is what `TicksKept` says.
* `ostime.c:33`: the microsecond clock is a 64-bit product of the 32-bit `jiffies` and falls to 0
  when they wrap, although it "does not go back" (`ostime.h:30`). `UjiffiesForward` allows
  this step back and no other (`seen'.at >= seen.at` fails in `tickless`). `isix_wait_us` takes the
  distance of two readings in either direction and ends at once there.
* `mutex.c:245`: on unlock-all only the waiter of the first contended mutex is considered for a
  switch. If it is not more urgent than the running thread, a more urgent waiter of a later
  mutex waits for the next tick (`HighestPriorityRuns` fails on the instance of `mtx`).
* `task.c:145`: raising a task that waits for a mutex does not raise the owner
  (`OwnerInherits` fails with `NewPrios`).
* `scheduler.c:122`: a thread that goes to sleep between the two halves of an unlock gets a
  deadline that lacks the skipped ticks and is woken early by their replay (`TimersExact`
  fails with `MaxLock` 1).
* `systimer.c:168` with the timer at AHB/8 (`SlowClock`): the counter still reads 0 when the
  arming is checked, and a long period runs with state off; `systimer.c:21` calls the tick
  length "valid for both SysTick clock sources". `subtick` at a counter of 0 is off there too.
* `semaphore.c:226`, `fifo_event.c:51`: the bit number is stored after the group. Before the
  first store a notification raises bit 0, and a late store of a disconnect makes a new
  connection silent. Bits 30 and 31 are accepted, but `isix_event_set` refuses them.
* `condvar.c:105`: a mutex locked recursively is only decremented, and stays owned during the
  wait (`CondWaiterReleased` is checked without recursion).
* `softtimers.c`: a cyclic timer with timeout 0 loops; a callback that starts a timer on a full
  command queue blocks the only thread that empties it; with `jiffies` 1 and nothing listed
  the timeout is ISIX_TIME_DONTWAIT and the worker spins for a tick.
* `isix_get_ujiffies` goes back while the scheduler is locked, since skipped ticks are
  announced but not in `jiffies`.

## 5. Proofs

The theorems hold for every set of tasks, every number of semaphores, mutexes, conditions,
event groups and queues, every priority range, every counter width, every set of timeouts
and every value of the bounds, from the named assumptions of `Scheduler`, `Semaphore`, `Fifo`
and `TaskControl` and no others (those of `Tickless` for its own). They say that kinds of objects are disjoint, that the idle task
is nobody else, that the tasks are finitely many, that bits are numbered from 0, that the
priority of a task is above that of the idle task, that the two semaphores of a queue are its
own, without a limit, one from 0 and one from the number of slots (`isix_fifo_create_ex`), and
that constants have their types.

### Lists

`Scheduler_proofs` begins with what holds for every list: what `Keep` and `Without` leave, that they
preserve order and distinctness, where a sorted insertion lands, and that it adds exactly
its element and keeps the list sorted. Rank and search are arguments by the least element
of a set of positions (`LeastNat`, from the well-foundedness of `<`), since induction over
lists is not available to the provers.

### The scheduler alone

`Scheduler_proofs` proves `SchedTypeOK` and `SchedTimeLists` of `SchedSpec`, and supplies
what each function of `scheduler.c` does to the time lists (`ExpireWaitingTasks`,
`AdvanceWithin`, `AdvanceToWrap`, `AddTaskToWaitingList`, ...). At the wrap: everything on the
near list has a deadline up to `MaxTick`, so it has expired when the lists are exchanged; the
deadline of a new wait never equals the present tick because a timeout is shorter than a turn
(`Deadline`). `MaxSkipped \in Tick` is used there: a 32-bit number of skipped ticks passes the
wrap at most once per replay.

### The composed kernel

`KernelInvariant` is `Spec => []KernelOK(k, call)`, where `Spec` has every service as an action.
From it follow, each the invariant that a run checks on its instance: `IsixTypeOK`,
`IsixNoPanic` (`NoPanic`: no `isix_bug()` is reached), `IsixInodes` (`InodeWhereStateSays`),
`IsixUnions` (`UnionMatchesState`), `IsixTimeLists` (`TimeListsSplitAtWrap`), `IsixOwnership`
(`OwnershipConsistent`) and `IsixFreedOnce` (`FreedOnceUnreachable`).

None of them is inductive. `KernelOK(m, c)` is `CoreInv(m, c, {}) /\ OwnersOK(m)`; its parts,
and what each is needed for:

| part | says | needed because |
|---|---|---|
| `ReadyPlaced`, `WaitPlaced` | every task is exactly once on exactly the list its state and `obj` name | a wake-up that finds a task elsewhere panics or corrupts a list |
| `TimeOK` | the time lists are split at the wrap, distinct, and hold only tasks in a state with a timeout | an expired task must be one that may be made ready |
| `CurrentOK` | at most `currp` is RUNNING; a current task off the ready list is before its yield or has the switch pending, without the scheduler lock; who holds that lock is in no blocking call; the idle task is always ready | otherwise `_isixp_schedule` finds nothing, or returns to a task that has gone to sleep. The clause about blocking calls came out of the proof: without it a thread in the middle of a call could hold the lock |
| `BlockedOK` | a waiting task is inside the service its state names, past the section that blocked it, with the object in the union | so that suspend, kill and expiry repair the right object |
| `CallsOK` | a service works on its kind of object | |
| `LifeOK` | the zombie list holds the zombies, nobody waits for a task that is gone, one caller at most is about to free a control block | a block freed twice, or freed under a waiter |
| `AliveOK` | nobody is queued on, or will look again at, a destroyed object; a notifier is connected to a group that exists | |
| `OwnersOK` | owner, count and `owned` agree; no owner is dead; nobody waits for a free mutex or its own | |

The set `X` in `CoreInv(m, c, X)` holds the tasks *in limbo*: inside a critical section a task is
taken off one list before it is put on another, and in between the invariant holds of all the
others. So each kernel function has one lemma of the form "from `CoreInv` with limbo `X` to
`CoreInv` with limbo `Y`" (`TakeReadyOK`, `TakeWaitOK`, `MakeReadyOK`, `SleepOK`, `QueueOK`,
`ReallocateOK`, `ExpireOK`, `RotateOK`, ...), the functions of the services compose them the way the
C code composes the functions (`ReleaseOK`, `DestroyFunOK`, `UnlockAllOK`, `EventSetOK`, `DetachOK`,
`KillFunOK`), and every action has a lemma that starts and ends with an empty limbo. `NextOK`
collects them. `KernelOK` was checked by TLC on the instances of `evt`, `kernel`, `mtx`, `notify` and `task`
before it was proved.

The proof corrected the model twice: the rendezvous of `isix_event_sync` restarted its time
from a stale clock reading, and the store of a connected bit could be repeated.

### What the services promise

`ServiceInvariant` is `Spec => [](KernelOK(k, call) /\ ServiceOK(k, call))`. From it follow
`IsixSemCounts` (`SemCountsWaiters`), `IsixNoMissedEvent` (`NoMissedEvent`) and `IsixExitWaits`
(`ExitWaitEndsAtExit`). `ServiceOK` has four parts:

| part | says | the step that makes it hard |
|---|---|---|
| `SemsOK` | below zero the counter of a live semaphore is the number of tasks in `WTSEM` for it | one tick lets several waiters of one semaphore expire at once, and each gives its request back (`TokensBack`, by cardinality: a counter below zero cannot reach the limit); a kill and a suspend do it for one; a reset and a destroy for all |
| `EventsOK` | the bits of a group do not meet the condition of any task in `WTEVT` for it | a set clears, for the waiters it wakes, bits that others wait for: those woken are exactly those whose condition the bits meet before that (`EventSetEffect`) |
| `ExitsOK` | who is past its wait for an exit, and was not cut short by a suspend, finds the task gone | the control block must not have been given to a new task meanwhile |
| `RefsOK` | as many references as threads inside `isix_task_wait_for` | needed for `ExitsOK`: a block whose task is `NONE` has no references, so nobody is inside a wait for it when `isix_task_create` takes it |

`RefsOK` rests on the usage rule in the guard of `TaskUnref` and `TaskWaitFor`: a thread in
`isix_task_wait_for` keeps its reference until it returns. Most steps are dealt with by
a frame: a step that leaves counters, bits and references alone and changes only the tasks of
a set (`Touches`, `Wakes`) keeps `ServiceOK` when those tasks leave no wait for a token, enter none for
events and are not told of an exit. `ServiceOK` was checked by TLC on the instances of `kernel`,
`notify`, `evt` and `task` before it was proved.

### What a waiter is told

`Messages_proofs` proves `SemaphoreTellsToken` (`SemOkMeansToken`, of `SemSpec`) and `EventTellsBits`
(`EventOkMeansBits`, of `EvtSpec`). Both follow from `ToldOK`, which says of every thread inside a wait:

| part | says | the step that makes it hard |
|---|---|---|
| `TokenTold` | in `WTSEM` no token has been given; past it, the result is success exactly when a signal gave one | a token and an expiry compete for the same waiter: the first one takes it off both lists, so that the second never writes over its result |
| `BitsTold` | in `WTEVT` the union holds the condition of the call; past it, success comes with bits that meet that condition | the same union carries the condition in and the bits out; `event_set` hands every waiter the bits from before the clearing (`SetWakes`) |

`TalkStep` shows that `KernelOK /\ ToldOK` is kept by every step of scheduler, semaphores, event groups
and connections, together. `Passes` states what the passing of time does to a task: nothing, or a
wake-up with `ETIMEOUT` (`ExpireEffect`). Task control is left out on purpose: `isix_task_resume` writes
success over the result of a wait that has ended (finding 1). `ToldOK` was checked by TLC on the
instances of `sem` and `evt` before it was proved.

### Who is served first

`Messages_proofs` also proves of `Spec`, every service composed, `IsixWaitLists` (`WaitListsSorted`) and
`IsixInheritance` (`InheritanceReturned`). Their conjunction, `UrgencyOK`, is inductive on top of
`KernelOK` (`UrgentStep`); the runs `mtx` and `task` check its parts with TLC. Steps fall in two kinds:

* `Thins`: priorities stay, lists lose tasks or gain one in its place, and a mutex with waiters
  keeps its owner. That is everything outside of the mutexes and the change of priorities.
  The passing of time is of this kind because no wait for a mutex has a timeout (`Passes`).
* `Reorders(m, r, S)`: the lists stay in order and only the tasks of `S` may be left with a priority
  that nobody lends. `_isixp_reallocate_priority` changes the priority of a task in the middle
  of a list, and moves it in that list afterwards: in between the list is in order
  without the task. `Ordered` is kept because a waiting task is on one list only, the one its
  union names (`QueuedFor`, from `KernelOK`).

What makes `Lent` hard is a task that owns several mutexes. Whatever ends a wait or an ownership
(unlock, unlock of all, hand-over, destruction, suspend, kill) computes the owner's priority from its
own and the heads of the lists of all the mutexes it still owns (`CalcLent`): the result is its own,
or that of a head, and then that list lends it. Of a task that is killed nothing is claimed while
its mutexes go to their waiters, since nobody may lend it anything by then.

### What a lock may rely on

Of `CondSpec` (mutexes and condition variables, no task control) the same module proves, for every
bound on the recursion,

* `MutexOwnersInherit` (`OwnerInherits`): no waiter that owns nothing waits for a less urgent owner;
* `LockTellsOwner` (`LockOkMeansOwner`): a lock that waited and returns `ISIX_EOK` has the mutex;

and `CondGivesMutexAway` (`CondWaiterReleased`) for mutexes that are locked once (`MaxCount = 1`): with
recursion the wait gives up one level only and the caller keeps the mutex, as section 4 tells.

`MutexOK`, inductive on top of `KernelOK` and `UrgencyOK` (`MutexStep`), has these parts:

| part | says | the step that makes it hard |
|---|---|---|
| `prio <= real_prio` | nobody runs below its own priority | `calc_inherited_priority` after a hand-over or a destruction (`CalcCovers`) |
| `Lends` | the owner is as urgent as the *own* priority of each waiter | with the current priority it is false: a waiter that is lent a priority does not pass it on. With the own one a hand-over keeps it, because the new owner is the first of a list in order (`HandedOverOK`) |
| `LockTold` | a lock is waiting, was cut short by a suspend, or success means ownership | the waiter of a destroyed mutex must not read the success of another wait (`DestroyMutex`) |
| `GivenAway`, `Single` | without recursion a wait for a condition does not own its mutex | the unlock may hand the mutex over to a waiter, which is never the caller (`UnlockMutex`) |

`MutexOK` was checked by TLC on the instance of `mtx` before it was proved. Task control is outside:
`isix_task_change_prio` of a waiter does not reach the owner, and `isix_task_resume` overwrites results.

### Message queues

`Fifo_proofs` proves of `FifoSpec`, for every number of queues, slots, threads, pollers and items:

* `QueuesAreFifos` (`IsBoundedFifo`): the refinement of `BoundedFifo`;
* `NoSlotIsLost` (`SlotsConserved`), `QueueOutlivesItsUsers` (`NotUsedAfterDestroy`) and `QueuesTyped`
  (`FifoTypeOK`).

The inductive invariant is `FifoOK`: `KernelOK`, `ServiceOK` and `ToldOK` of the kernel below, and
`QueuesOK` of the queues, whose parts are

| part | says | needed because |
|---|---|---|
| `PlaceOK` | the place of a thread in a queue operation fits the kernel call it is in | a wait for a token belongs to one operation, on the semaphore of its side |
| `HeldOK` | the scheduler is locked exactly while the current thread is in a section of a queue that locks it | a writer keeps the processor from its signal to its event |
| `GrantOK` | who was handed a token is still inside of its wait | with `ToldOK`: a wait returns ISIX_EOK exactly to the holder of a token, so that a token is neither lost to a timeout nor used twice |
| `OpenOK` | who works on a queue, or was handed one of its tokens, finds it there; both semaphores live equally long | |
| `ClosingOK` | while a queue is destroyed under the scheduler lock the others inside of a call on it are asleep | a destruction in two steps must not meet a thread that went on meanwhile |
| `SlotsOK` | the items (free slots) are the tokens of the semaphore and the threads that hold one (`Busy`) | a copy is made only when there is an item, or room for one |
| `RingOK` | the writing position is `used` slots ahead of the reading one | so that a copy in does not hit an item and a copy out finds the oldest |

`SlotsOK` is an equation between a counter and a cardinality; each step moves at most one thread
into or out of `Busy` and changes the tokens by as much (`Balance`). The hard one is the
signal (`GiveToken`): with a waiter the token goes to a thread that is asleep, which enters `Busy`
while the counter only rises from below zero. That rests on `SemsOK`: below zero the counter
is the number of waiters. A timeout gives its request back and changes no token.
From `SlotsOK` every copy in has room and every copy out has an item (`Moves`), and `PutItem` and
`GetItem` show that these are `Append` and `Head`/`Tail` of `Contents`. The parts of `QueuesOK` were checked
by TLC on the instance of `fifo` before they were proved.

`PollerAwakeForItems` stays with TLC: it is about one queue per poller, and false for a poller of
several, which may wait for the bit of one while another has items.

### The tickless timer

`Tickless_proofs` proves of `TicklessSpec`, for every tick period, restart skew, bound on the latency
below a tick, range of the counter and number of threads:

* `TicklessTicksKept` (`TicksKept`) and `TicklessTypes` (`TicklessTypeOK`);
* `TicklessUjiffies` (`UjiffiesForward`, an action property);
* `TicklessNoOversleep` (`NoOversleep`) and `TicklessWakeEndsSleep` (`WakeEndsSleep`), when no interrupt
  that preempts the tick handler wakes a thread (`~NestedWakes`); finding 3 shows that they
  fail otherwise.

All assume `~SlowClock`, the timer at the clock of the processor, which is what the runs check: with the divided clock
the code itself differs (see the notes after the findings).

The argument follows one quantity, `Gap(d)`: the cycles from the boundary of the last announced
tick to the next boundary that the counter will reach, when the boundaries are `d` cycles behind.
In every phase of arming, sleeping and resynchronising it is a whole number of ticks which
the phase determines; `ClockOK(d)` is the conjunction of one statement per phase (`OffOK`, `ArmingOK`,
`ArmedOK`, `BoundaryOK`, `SleepingOK`, `RestartOK`, `FirstOK`), of `Control` (which sections exclude each
other) and of `NoSecond`: a second boundary is not reached while the first is not accounted.
That is where `Latency < Tpp` is used; with a longer masked section the hardware itself loses
the tick. `SplitExact` is what `systimer_split` returns: whole ticks and a first period that
together are the rest of the counter, and what is too much when the boundary is nearer than the
skew. So `d` stays the same in every step but one: a restart past the next boundary takes
`ClockOK(d)` to `ClockOK(e)` with `e` from `d + 1` to `d + Skew - 1` (`Delays`). The invariant `ClockInv` says that
there is such a `d` between `missed` and `missed * (Skew - 1)` (`Late`), which is `TicksKept`.
On top of it `SeenInv` relates the last reading of the microsecond clock to the cycles that
have passed, with the turn of `jiffies` (`Turns`: `told` is `jiffies` and the turns before), and `WaitsOK`
says that the long period ends before the first deadline (`TimeoutBeforeDeadlines`, about
`calculate_next_timeout`). These invariants were checked by TLC on the instances of `tickless` and,
without the deadlines, `tickless_nested` before they were proved.

### Only model-checked

* `HighestPriorityRuns`, and the exact time of a wake-up, `TimersExact`.
* `PollerAwakeForItems` (see above).
* The software timers: what a turn of the worker does is a recursion or a fold over lists of timers,
  and what these compute for every list is an induction over data.
* All liveness (fairness and ENABLED are out of the prover's reach).

## 6. Not modelled, and plan

Not modelled for good: heap and pools (sequential, under one lock), statistics and text,
register save and restore, the MPU, shutdown. A leak by a thread killed between the decision
to free and `isix_free`, or between the token and the signal of a queue, is a consequence of
killing a thread that the code does not try to repair. Allocation failures in the `create`
services leave no state and are not actions.

The rest of the repository is not the kernel: vendored TLS, TCP/IP, graphics and fonts, the
standard-library ports, GSM, and drivers of peripherals, which are register sequences of one
device each. They make up nearly all of the repository's lines. The coroutine layer
(`include/isix/cpp`) is the one part with concurrency of its own that remains.

What could be proved next: on top of `KernelOK` and `UrgencyOK`, `HighestPriorityRuns` and
`TimersExact` without the scheduler lock; `HighestPriorityRuns` needs services without
`isix_mutex_unlock_all` (see the notes after the findings), as `Fifo` has them. What could be modelled next: the coroutine
executor, its wake-up from interrupts and cancellation.
