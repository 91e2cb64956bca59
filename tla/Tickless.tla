------------------------------ MODULE Tickless ------------------------------
(***************************************************************************)
(* The system timer of the Cortex-M port and the tickless idle             *)
(* (arch/arm/cortexm/kernel/systimer.c, the tickless part of               *)
(* kernel/scheduler.c).  The counter runs while the processor works: every *)
(* access of a timer register that is raced by the counter is a step.      *)
(*                                                                         *)
(* Threads block, wait for a number of ticks or exit; an interrupt handler *)
(* wakes them.  The kernel lists are reduced to the deadlines: module      *)
(* Scheduler shows that the list p_wait_list holds the ones before the     *)
(* wrap.  The scheduler lock is not taken, and there are no software       *)
(* timers.                                                                 *)
(***************************************************************************)
EXTENDS Integers, FiniteSets

CONSTANTS
  Threads,      \* the threads besides the idle task
  Tpp,          \* g_tick_cycles
  Skew,         \* SYSTIMER_RESTART_SKEW
  MinFirst,     \* SYSTIMER_MIN_FIRST_CYCLES
  MaxLong,      \* the ticks the counter can hold, SYSTIMER_RANGE / Tpp
  MinSleep,     \* CONFIG_ISIX_TICKLESS_MIN_SLEEP_TICKS
  MaxTick,      \* ISIX_TIME_MAX_TICK
  Latency,      \* bound on the cycles interrupts stay masked or pended
  Waits,        \* the ticks threads wait for
  NestedWakes,  \* an interrupt that preempts the tick handler may wake a thread
  SlowClock,    \* the counter runs slower than the processor (STK_CSR_CLKSOURCE_AHB_DIV8)
  Horizon       \* bound on the ticks of a behaviour

M == MaxTick + 1

ASSUME TicklessAssumption ==
  /\ Tpp \in Nat \ {0} /\ MaxLong \in Nat \ {0} /\ MaxTick \in Nat \ {0} /\ Horizon \in Nat
  /\ MinFirst \in Nat /\ Skew \in 1 .. MinFirst /\ 2 * MinFirst <= Tpp /\ Latency \in 0 .. Tpp - 1
  /\ MinSleep \in Nat \ {0, 1} /\ Waits \subseteq 1 .. MaxTick /\ NestedWakes \in BOOLEAN
  /\ SlowClock \in BOOLEAN

VARIABLES
  stk,      \* SysTick: counter, reload value, pending interrupt, wrap not accounted
  port,     \* g_state and g_expected
  told,     \* the ticks announced so far: jiffies is told % M
  thr,      \* per thread: its state and the tick its wait ends at
  deleted,  \* number_of_task_deleted # 0
  idle,     \* where the idle task is in enter_tickless_idle
  rs,       \* where _isix_port_systimer_resync is
  handler,  \* the tick interrupt handler was entered (SYSTICKACT)
  cycles,   \* history: the timer cycles since the start
  missed,   \* history: the restarts that came after the next boundary
  lat,      \* cycles since interrupts are masked or pended
  age,      \* cycles since the last access of a register
  seen      \* history: the last time isix_get_ujiffies could have returned, and
            \* how often jiffies had wrapped by then

tlvars == <<stk, port, told, thr, deleted, idle, rs, handler, cycles, missed, lat, age, seen>>

Thread == [st : {"ready", "blocked", "wait", "dead"}, dl : Nat]

NoResync == [pc |-> "none", cvr |-> 0, n |-> 0]

-----------------------------------------------------------------------------
(***************************************************************************)
(* The processor.                                                          *)
(***************************************************************************)

Ready == {t \in Threads : thr[t].st = "ready"}

\* A critical section is held: by the idle task that arms the timer, or by
\* resync in the idle task or in an interrupt handler.
Masked == idle \in {"load", "pending", "counter", "abort"} \/ rs.pc # "none"

\* The idle task runs: every ready thread is more urgent.
IdleRuns == ~Masked /\ ~handler /\ Ready = {}

\* A thread runs.  A tick that pends while it runs is taken at once or after
\* its critical section; one that was pending when it was woken is taken
\* before its first instruction.
ThreadRuns(t) == ~Masked /\ ~handler /\ t \in Ready /\ (stk.pend => port.state = "off")

\* The boundary the counter has reached is not accounted: wrap_unannounced.
Mut_wrap_unannounced(s) == s.pend
wrap_unannounced(s) == s.wrap \/ s.pend

\* _isix_port_systimer_subtick.  The loop repeats it until the pending state
\* is the same before and after the counter is read.
subtick(s, p) ==
  LET long    == p.expected * Tpp
      pending == wrap_unannounced(s)
      before  == CASE p.state = "sleeping" /\ pending -> long
                   [] p.state # "sleeping" /\ pending -> Tpp
                   [] ~pending -> 0
      period  == IF \/ p.state = "armed" /\ pending
                    \/ p.state = "sleeping" /\ ~pending THEN long ELSE Tpp
  IN before + IF s.cvr < period THEN period - 1 - s.cvr ELSE 0

\* What isix_get_ujiffies returns, in timer cycles: jiffies wraps.
ujiffies == (told % M) * Tpp + subtick(stk, port)

\* It is called outside the critical sections of others.  Between the two
\* readings of the pending bit the counter has left 0.
Readable == ~Masked /\ stk.cvr # 0

\* advance_jiffies: n ticks have passed, the waits that ended are over.
advance_jiffies(n) ==
  /\ told' = told + n
  /\ thr' = [t \in Threads |-> IF thr[t].st = "wait" /\ thr[t].dl <= told + n
                               THEN [st |-> "ready", dl |-> 0] ELSE thr[t]]

-----------------------------------------------------------------------------
(***************************************************************************)
(* The counter.  It counts down to 0, which pends the interrupt, and takes *)
(* the reload value in the cycle after.                                    *)
(***************************************************************************)

Cycle ==
  /\ cycles < Horizon * Tpp
  /\ lat < Latency \/ ~(Masked \/ handler \/ stk.pend)
  /\ rs.pc = "restart" => age < Skew - 1
  /\ rs.pc \in {"reload", "clear"} => age < MinFirst - 1
  /\ LET zero == stk.cvr = 1
     IN stk' = [stk EXCEPT !.cvr  = IF @ = 0 THEN stk.rvr ELSE @ - 1,
                           !.pend = @ \/ zero,
                           !.wrap = @ \/ zero]
  /\ cycles' = cycles + 1
  /\ lat' = IF Masked \/ handler \/ stk.pend THEN lat + 1 ELSE 0
  /\ age' = IF age < MinFirst THEN age + 1 ELSE age
  /\ UNCHANGED <<port, told, thr, deleted, idle, rs, handler, missed>>

\* A step that takes no time of the counter.
Access == age' = 0 /\ UNCHANGED <<cycles, missed, lat>>
Code == UNCHANGED <<cycles, missed, lat, age>>

-----------------------------------------------------------------------------
(***************************************************************************)
(* The tick interrupt.                                                     *)
(***************************************************************************)

TickEnter ==
  /\ stk.pend /\ ~Masked /\ ~handler
  /\ stk' = [stk EXCEPT !.pend = FALSE]
  /\ handler' = TRUE
  /\ Code /\ UNCHANGED <<port, told, thr, deleted, idle, rs>>

\* _isix_port_systimer_isr and _isixp_systimer_announce.  The entry takes
\* longer than the counter stays at 0.
TickHandler ==
  /\ handler /\ ~Masked /\ stk.cvr # 0
  /\ handler' = FALSE
  /\ stk' = [stk EXCEPT !.wrap = FALSE,
                        !.rvr = IF port.state = "armed" THEN Tpp - 1 ELSE @]
  /\ port' = [port EXCEPT !.state = IF @ = "armed" THEN "sleeping" ELSE "off"]
  /\ advance_jiffies(IF port.state = "sleeping" THEN port.expected ELSE 1)
  /\ Code /\ UNCHANGED <<deleted, idle, rs>>

-----------------------------------------------------------------------------
(***************************************************************************)
(* The idle task.                                                          *)
(***************************************************************************)

\* cleanup_tasks.
Reclaim ==
  /\ IdleRuns /\ idle = "idle" /\ deleted
  /\ deleted' = FALSE
  /\ Code /\ UNCHANGED <<stk, port, told, thr, idle, rs, handler>>

\* The deadlines on p_wait_list.
wait_list == {thr[t].dl : t \in {u \in Threads : thr[u].st = "wait" /\ thr[u].dl \div M = told \div M}}

Least(S) == CHOOSE x \in S : \A y \in S : x <= y

\* calculate_next_timeout.
Mut_calculate_next_timeout ==
  IF wait_list # {} THEN Least(wait_list) - told ELSE MaxTick
calculate_next_timeout ==
  LET wrap  == Least({MaxTick - (told % M) + 1, MaxTick})
      until == IF wait_list # {} THEN Least(wait_list) - told ELSE MaxTick
      next  == IF wrap < until THEN wrap - 1 ELSE until
  IN IF next = 0 THEN 1 ELSE next

\* The length of the long period: the first jiffy is the rest of this tick.
Mut_long_ticks(timeout) == timeout - 1
long_ticks(timeout) == Least({timeout - 1, MaxLong})

\* enter_tickless_idle up to the loading of the long period: can_enter_tickless_sleep,
\* and the early returns of _isix_port_systimer_set_timeout.  At the processor
\* clock it takes longer than SYSTIMER_MIN_FIRST_CYCLES from a restart to the
\* next time the idle task runs.
IdleEnter ==
  /\ IdleRuns /\ idle = "idle" /\ ~deleted /\ port.state = "off"
  /\ SlowClock \/ stk.cvr < Tpp
  /\ LET timeout == calculate_next_timeout
     IN /\ timeout >= MinSleep /\ long_ticks(timeout) >= 2
        /\ port' = [port EXCEPT !.expected = long_ticks(timeout)]
  /\ idle' = "load"
  /\ Code /\ UNCHANGED <<stk, told, thr, deleted, rs, handler>>

SetReload ==
  /\ idle = "load"
  /\ idle' = "pending"
  /\ stk' = [stk EXCEPT !.rvr = port.expected * Tpp - 1]
  /\ Access /\ UNCHANGED <<port, told, thr, deleted, rs, handler>>

\* The long period is armed unless the boundary came before the reload value.
Arm == idle' = "sleep" /\ port' = [port EXCEPT !.state = "armed"]

ReadPending ==
  /\ idle = "pending"
  /\ IF stk.pend THEN idle' = "counter" /\ UNCHANGED port ELSE Arm
  /\ Access /\ UNCHANGED <<stk, told, thr, deleted, rs, handler>>

\* At the processor clock a cycle has passed since the bit was read.
Passed == SlowClock \/ age > 0

ReadCounter ==
  /\ idle = "counter" /\ Passed
  /\ IF stk.cvr < Tpp THEN idle' = "abort" /\ UNCHANGED port ELSE Arm
  /\ Access /\ UNCHANGED <<stk, told, thr, deleted, rs, handler>>

Abort ==
  /\ idle = "abort"
  /\ idle' = "idle"
  /\ stk' = [stk EXCEPT !.rvr = Tpp - 1]
  /\ Access /\ UNCHANGED <<port, told, thr, deleted, rs, handler>>

\* _isix_port_systimer_resync is called by a handler or by the idle task.
StartResync ==
  IF port.state = "off" \/ handler THEN UNCHANGED rs
  ELSE rs' = [NoResync EXCEPT !.pc = IF port.state = "armed" THEN "period" ELSE "sample"]

\* The loop of enter_tickless_idle ends when the timer sleeps no more or when
\* there is something to reclaim.
IdleLeave ==
  /\ IdleRuns /\ idle = "sleep" /\ (port.state = "off" \/ deleted)
  /\ idle' = "idle"
  /\ StartResync
  /\ Code /\ UNCHANGED <<stk, port, told, thr, deleted, handler>>

-----------------------------------------------------------------------------
(***************************************************************************)
(* _isix_port_systimer_resync.                                             *)
(***************************************************************************)

\* The cycles of the long period that ran when the counter was sampled, and
\* from there to the next boundary.
ran_cycles(cvr) == LET long == port.expected * Tpp IN IF cvr < long THEN long - 1 - cvr ELSE 0
left_cycles(cvr) == Tpp - (ran_cycles(cvr) % Tpp)

\* systimer_split: the whole ticks that ran, and the first period.
Mut_systimer_split(cvr) ==
  LET left == left_cycles(cvr)
  IN [n |-> ran_cycles(cvr) \div Tpp, first |-> IF left > Skew THEN left - Skew ELSE Tpp]
systimer_split(cvr) ==
  LET left  == left_cycles(cvr)
      first == IF left > Skew THEN left - Skew ELSE 0
      near  == first < MinFirst
  IN [n     |-> (ran_cycles(cvr) \div Tpp) + IF near THEN 1 ELSE 0,
      first |-> first + IF near THEN Tpp ELSE 0]

\* Armed: restore the reload value ...
ResyncPeriod ==
  /\ rs.pc = "period"
  /\ rs' = [rs EXCEPT !.pc = "boundary"]
  /\ stk' = [stk EXCEPT !.rvr = Tpp - 1]
  /\ Access /\ UNCHANGED <<port, told, thr, deleted, idle, handler>>

\* ... and see whether the long period runs already: then the boundary is
\* counted here.
ResyncBoundary ==
  /\ rs.pc = "boundary"
  /\ \/ /\ stk.cvr < Tpp
        /\ rs' = NoResync /\ port' = [port EXCEPT !.state = "off"]
        /\ UNCHANGED stk
     \/ /\ stk.cvr >= Tpp
        /\ rs' = [pc |-> "restart", cvr |-> stk.cvr, n |-> 1]
        /\ stk' = [stk EXCEPT !.pend = FALSE, !.wrap = FALSE]
        /\ UNCHANGED port
  /\ Access /\ UNCHANGED <<told, thr, deleted, idle, handler>>

\* Sleeping: sample the counter ...
ResyncSample ==
  /\ rs.pc = "sample"
  /\ rs' = [pc |-> "ended", cvr |-> stk.cvr, n |-> 0]
  /\ Access /\ UNCHANGED <<stk, port, told, thr, deleted, idle, handler>>

\* ... and leave a long period that has ended to the tick handler.
ResyncEnded ==
  /\ rs.pc = "ended" /\ age < Skew
  /\ rs' = IF stk.pend THEN NoResync ELSE [rs EXCEPT !.pc = "restart"]
  /\ Code /\ UNCHANGED <<stk, port, told, thr, deleted, idle, handler>>

\* systimer_restart, SYSTIMER_RESTART_SKEW after the sample: the counter
\* starts the first period, also when the boundary has come by then ...
ResyncRestart ==
  /\ rs.pc = "restart" /\ age = Skew - 1
  /\ LET split == systimer_split(rs.cvr)
     IN /\ stk' = [stk EXCEPT !.rvr = split.first - 1, !.cvr = 0]
        /\ rs' = [rs EXCEPT !.pc = "reload", !.n = @ + split.n]
  /\ missed' = missed + IF left_cycles(rs.cvr) < Skew THEN 1 ELSE 0
  /\ age' = 0 /\ UNCHANGED <<cycles, lat, port, told, thr, deleted, idle, handler>>

\* ... the periodic tick follows it ...
ResyncReload ==
  /\ rs.pc = "reload" /\ stk.cvr # 0
  /\ rs' = [rs EXCEPT !.pc = "clear"]
  /\ stk' = [stk EXCEPT !.rvr = Tpp - 1]
  /\ Code /\ UNCHANGED <<port, told, thr, deleted, idle, handler>>

\* ... and catch_up_missed_ticks announces the ticks that ran.
ResyncClear ==
  /\ rs.pc = "clear"
  /\ rs' = NoResync
  /\ stk' = [stk EXCEPT !.pend = FALSE, !.wrap = FALSE]
  /\ port' = [port EXCEPT !.state = "off"]
  /\ advance_jiffies(rs.n)
  /\ Code /\ UNCHANGED <<deleted, idle, handler>>

-----------------------------------------------------------------------------
(***************************************************************************)
(* Threads and interrupts.                                                 *)
(***************************************************************************)

\* An interrupt handler wakes a thread: _isixp_exit_critical_isr.
Mut_Wake(t) ==
  /\ ~Masked /\ (handler => NestedWakes)
  /\ thr[t].st \in {"blocked", "wait"}
  /\ thr' = [thr EXCEPT ![t] = [st |-> "ready", dl |-> 0]]
  /\ Code /\ UNCHANGED <<stk, port, told, deleted, idle, rs, handler>>
Wake(t) ==
  /\ ~Masked /\ (handler => NestedWakes)
  /\ thr[t].st \in {"blocked", "wait"}
  /\ thr' = [thr EXCEPT ![t] = [st |-> "ready", dl |-> 0]]
  /\ StartResync
  /\ Code /\ UNCHANGED <<stk, port, told, deleted, idle, handler>>

\* A thread blocks on an object, waits for ticks, or exits.
Block(t) ==
  /\ ThreadRuns(t)
  /\ thr' = [thr EXCEPT ![t].st = "blocked"]
  /\ Code /\ UNCHANGED <<stk, port, told, deleted, idle, rs, handler>>

Wait(t, ticks) ==
  /\ ThreadRuns(t)
  /\ thr' = [thr EXCEPT ![t] = [st |-> "wait", dl |-> told + ticks]]
  /\ Code /\ UNCHANGED <<stk, port, told, deleted, idle, rs, handler>>

Exit(t) ==
  /\ ThreadRuns(t)
  /\ thr' = [thr EXCEPT ![t].st = "dead"]
  /\ deleted' = TRUE
  /\ Code /\ UNCHANGED <<stk, port, told, idle, rs, handler>>

-----------------------------------------------------------------------------
TicklessInit ==
  /\ stk = [cvr |-> Tpp - 1, rvr |-> Tpp - 1, pend |-> FALSE, wrap |-> FALSE]
  /\ port = [state |-> "off", expected |-> 0]
  /\ told = 0 /\ cycles = 1 /\ missed = 0
  /\ thr = [t \in Threads |-> [st |-> "ready", dl |-> 0]]
  /\ deleted = FALSE /\ idle = "idle" /\ rs = NoResync /\ handler = FALSE
  /\ lat = 0 /\ age = 0 /\ seen = [at |-> 0, turn |-> 0]

TimerSteps ==
  \/ Cycle \/ TickEnter \/ TickHandler
  \/ ResyncPeriod \/ ResyncBoundary \/ ResyncSample \/ ResyncEnded
  \/ ResyncRestart \/ ResyncReload \/ ResyncClear

IdleSteps ==
  \/ Reclaim \/ IdleEnter \/ SetReload \/ ReadPending \/ ReadCounter \/ Abort \/ IdleLeave

ThreadSteps ==
  \E t \in Threads : \/ Wake(t) \/ Block(t) \/ Exit(t)
                     \/ \E ticks \in Waits : Wait(t, ticks)

TicklessNext ==
  /\ TimerSteps \/ IdleSteps \/ ThreadSteps
  /\ seen' = IF Readable' THEN [at |-> ujiffies', turn |-> told' \div M] ELSE seen

TicklessSpec == TicklessInit /\ [][TicklessNext]_tlvars

-----------------------------------------------------------------------------
(***************************************************************************)
(* Properties.                                                             *)
(***************************************************************************)

\* The state is well formed; a period fits the 24 bits of the counter.
TicklessTypeOK ==
  /\ stk \in [cvr : 0 .. MaxLong * Tpp - 1, rvr : 0 .. MaxLong * Tpp - 1,
              pend : BOOLEAN, wrap : BOOLEAN]
  /\ port \in [state : {"off", "armed", "sleeping"}, expected : 0 .. MaxLong]
  /\ told \in Nat /\ cycles \in Nat /\ missed \in Nat /\ seen \in [at : Nat, turn : Nat]
  /\ thr \in [Threads -> Thread]
  /\ deleted \in BOOLEAN /\ handler \in BOOLEAN
  /\ idle \in {"idle", "load", "pending", "counter", "abort", "sleep"}
  /\ rs \in [pc : {"none", "period", "boundary", "sample", "ended", "restart", "reload", "clear"},
             cvr : Nat, n : Nat]
  /\ lat \in 0 .. Latency /\ age \in 0 .. MinFirst

\* The number of the tick the counter runs to.
NextTick ==
  LET due == stk.pend \/ handler
  IN CASE port.state = "off"      -> told + 1 + IF due THEN 1 ELSE 0
       [] port.state = "armed"    -> told + 1 + IF due THEN port.expected ELSE 0
       [] port.state = "sleeping" -> told + port.expected + IF due THEN 1 ELSE 0

\* The cycles until the counter reaches 0.
Left == IF stk.cvr = 0 THEN stk.rvr + 1 ELSE stk.cvr

\* The cycles by which the boundary the counter runs to is behind the boundary
\* of that tick when the ticks are counted from the start.
Behind == cycles + Left - NextTick * Tpp

\* No tick is lost or counted twice, however the arming, the end of a long
\* period, early wakeups and the tick handler race: outside critical sections
\* the counter runs to the boundary of the tick it will announce.  Only a
\* restart that comes after the next boundary moves the boundaries: to a later
\* time, each by less than the skew.  (ostimer.h:23 says of set_timeout and
\* resync that they never shift them: such a restart does.)
TicksKept == ~Masked => Behind \in missed .. missed * (Skew - 1)

\* Nobody oversleeps: when the boundary of a deadline is a tick ago, and what
\* the restarts may have delayed the boundaries by, the wait is over, although
\* the idle task has stopped the ticks, on either side of the wrap of jiffies.
NoOversleep ==
  \A t \in Threads : thr[t].st = "wait" => cycles < (thr[t].dl + 1) * Tpp + missed * (Skew - 1)

\* A wakeup ends the sleep: when a thread runs the ticks are on, or the tick
\* that turns them on is pending.
WakeEndsSleep == (Ready # {} /\ ~Masked /\ ~handler) => (port.state = "off" \/ stk.pend)

\* A reading, counted from the start.
FromStart(r) == r.at + r.turn * (M * Tpp)

\* isix_get_ujiffies goes back only with jiffies, by the M ticks of a turn: not
\* in an interrupt that preempts the tick handler and not over an early end of
\* a sleep.  (ostime.h:30 says that it does not go back: at the wrap it does.)
UjiffiesForward == [][FromStart(seen') >= FromStart(seen)]_tlvars
=============================================================================
