----------------------------- MODULE SoftTimers -----------------------------
(***************************************************************************)
(* Software timers (libisix/kernel/softtimers.c): a worker thread takes    *)
(* commands from a message queue and keeps the running timers on two lists *)
(* around the wrap of the tick counter.  The queue is the bounded FIFO the *)
(* module Fifo implements.                                                 *)
(*                                                                         *)
(* now is the wall clock.  The worker reads the tick counter once per      *)
(* command, possibly some ticks after it took the command, and the time a  *)
(* client read is older than its command.                                  *)
(***************************************************************************)
EXTENDS Integers, Queues

CONSTANTS
  Timers,        \* the timers
  Clients,       \* the threads that use them
  None,          \* no command
  MaxTick,       \* ISIX_TIME_MAX_TICK
  Start,         \* the tick counter at the beginning
  Horizon,       \* bound on the wall clock
  MaxLag,        \* bound on the ticks a thread loses between two steps
  MaxCalls,      \* bound on the calls of the services
  QueueSize,     \* CONFIG_ISIX_TIMERS_CMD_QUEUE_SIZE
  Timeouts,      \* the timeouts of one-shot timers
  Periods,       \* the periods cyclic timers are started with
  Mods,          \* what callbacks change them to; 0 is OSVTIMER_CB_CANCEL
  CyclicAtWrap   \* a cyclic timer may run when the tick counter wraps

M == MaxTick + 1

ASSUME TimerAssumption ==
  /\ MaxTick \in Nat \ {0} /\ Start \in 0 .. MaxTick /\ Horizon \in Nat /\ MaxLag \in Nat
  /\ MaxCalls \in Nat
  /\ QueueSize \in Nat \ {0} /\ CyclicAtWrap \in BOOLEAN
  /\ Timeouts \subseteq 0 .. MaxTick /\ Periods \subseteq 1 .. MaxTick
  /\ Mods \subseteq 0 .. MaxTick

VARIABLES
  now,      \* the wall clock, in ticks
  tctx,     \* the timers and the two lists of the worker
  queue,    \* worker_queue
  cl,       \* per client: the command it is about to write
  calls,    \* the number of the calls so far
  wk        \* the worker

tvars == <<now, tctx, queue, cl, calls, wk>>

\* ISIX_TIME_INFINITE and ISIX_TIME_DONTWAIT.
Infinite == 0
DontWait == MaxTick

\* The tick counter at the time x.
jiffies(x) == (Start + x) % M

\* A command.  at is the time of the call it stems from: the command carries
\* the counter of that time (itime).
Command == [cmd : {"add", "cancel", "exec", "delete"}, tmr : Timers \cup {None},
            tout : 0 .. MaxTick, cyclic : BOOLEAN, at : 0 .. Horizon]

\* struct isix_vtimer.  next is history: the time the callback is due at.  The
\* fields of a timer that does not run are not read before the next start
\* stores them: the model forgets them.
Timer == [jiffies : 0 .. MaxTick, timeout : 0 .. MaxTick, cyclic : BOOLEAN,
          is_active : BOOLEAN, alive : BOOLEAN, next : Nat]

NewTimer == [jiffies |-> 0, timeout |-> 0, cyclic |-> FALSE, is_active |-> FALSE,
             alive |-> TRUE, next |-> 0]

\* struct vtimer_context.  early is history: a callback ran before its time.
Context == [tmr : [Timers -> Timer], p : Seq(Timers), pov : Seq(Timers), early : BOOLEAN]

\* The worker is about to read the queue for tout ticks ("read"), is blocked
\* in that call ("blocked"), or is about to handle what it got ("got"), since
\* a time.  last is the time it read the counter at (pjiff).
Worker == [pc : {"read", "blocked", "got"}, tout : 0 .. MaxTick, since : 0 .. Horizon,
           cmd : Command \cup {None}, last : 0 .. Horizon]

\* What the callback of a cyclic timer does with its period in one turn of
\* the worker: nothing, or isix_vtimer_mod in its first or its second call.
NoMod  == [at |-> 0, new |-> 0]
Script == {NoMod} \cup [at : {1, 2}, new : Mods]

-----------------------------------------------------------------------------
(***************************************************************************)
(* What the worker does to its context c at the time w.                    *)
(***************************************************************************)

Mut_add_vtimer_to_list(c, w, x) ==
  LET c1 == [c EXCEPT !.tmr[x].jiffies = @ + c.tmr[x].timeout]
      by == [y \in Timers |-> c1.tmr[y].jiffies]
  IN [c1 EXCEPT !.p = InsertSorted(@, x, by)]

\* add_list_with_prio and add_vtimer_to_list.
add_vtimer_to_list(c, w, x) ==
  LET j  == (c.tmr[x].jiffies + c.tmr[x].timeout) % M
      c1 == [c EXCEPT !.tmr[x].jiffies = j]
      by == [y \in Timers |-> c1.tmr[y].jiffies]
  IN IF j < jiffies(w) THEN [c1 EXCEPT !.pov = InsertSorted(@, x, by)]
                       ELSE [c1 EXCEPT !.p = InsertSorted(@, x, by)]

\* isix_vtimer_mod by the callback of a cyclic timer.
vtimer_mod(r, new) == IF new = 0 THEN [r EXCEPT !.cyclic = FALSE] ELSE [r EXCEPT !.timeout = new]

\* exec_timer_callback: n calls in a row, the callback does act in the first.
exec_timer_callback(c, w, x, n, act) ==
  LET r  == c.tmr[x]
      r1 == IF r.cyclic /\ act # {} THEN vtimer_mod(r, CHOOSE new \in act : TRUE) ELSE r
  IN [c EXCEPT !.early  = @ \/ w < r.next + (n - 1) * r.timeout,
               !.tmr[x] = IF r1.cyclic THEN [r1 EXCEPT !.next = @ + n * r1.timeout] ELSE NewTimer]

\* What the callback does in its i-th call of a turn.
Act(s, x, i) == IF s[x].at = i THEN {s[x].new} ELSE {}

Mut_missed(r, tnow) == 0

\* How often the loop of cyclic_reschedule_after_fire calls back: until the
\* next deadline is above the counter (M times: without end).
missed(r, tnow) ==
  CHOOSE n \in 0 .. M : /\ n < M => tnow < (r.jiffies + (n + 1) * r.timeout) % M
                        /\ \A i \in 1 .. n : tnow >= (r.jiffies + i * r.timeout) % M

\* cyclic_reschedule_after_fire: a call per missed period; a change of the
\* period starts it anew.
cyclic_reschedule_after_fire(c, w, x, s) ==
  LET r  == c.tmr[x]
      n  == missed(r, jiffies(w))
      c1 == exec_timer_callback(c, w, x, 1, Act(s, x, 2))
      c2 == exec_timer_callback(c, w, x, n, {})
  IN CASE n > 0 /\ ~c1.tmr[x].cyclic -> c1
       [] n > 0 /\ c1.tmr[x].cyclic /\ c1.tmr[x].timeout # r.timeout ->
            add_vtimer_to_list([c1 EXCEPT !.tmr[x].jiffies = jiffies(w),
                                          !.tmr[x].next = w + c1.tmr[x].timeout], w, x)
       [] n > 0 /\ c1.tmr[x].cyclic /\ c1.tmr[x].timeout = r.timeout ->
            add_vtimer_to_list([c2 EXCEPT !.tmr[x].jiffies = (@ + n * r.timeout) % M], w, x)
       [] n = 0 -> add_vtimer_to_list(c, w, x)

\* The timer x is due: unlink it, call back, schedule a cyclic one again.
fire(c, w, x, s) ==
  LET c1 == exec_timer_callback([c EXCEPT !.p = Without(@, {x})], w, x, 1, Act(s, x, 1))
  IN IF c1.tmr[x].cyclic THEN cyclic_reschedule_after_fire(c1, w, x, s) ELSE c1

Mut_switch_timer_list(c, w, s) == [c EXCEPT !.p = c.pov, !.pov = c.p]

\* The node behind x: list_for_each_entry_safe takes it before x is fired.
Behind(xs, x) ==
  IF x = Last(xs) THEN None ELSE xs[1 + SelectInSeq(xs, LAMBDA y : y = x)]

\* The loop of switch_timer_list from the timer x on.  A cyclic timer that is
\* put back behind the next one is met again.
RECURSIVE fire_from(_, _, _, _)
fire_from(c, w, x, s) ==
  IF x = None THEN c ELSE fire_from(fire(c, w, x, s), w, Behind(c.p, x), s)

\* switch_timer_list: what is left of the turn before the wrap is due.
switch_timer_list(c, w, s) ==
  LET c1 == fire_from(c, w, IF c.p = <<>> THEN None ELSE Head(c.p), s)
  IN [c1 EXCEPT !.p = c1.pov, !.pov = c1.p]

Mut_handle_cancel(c, x) == [c EXCEPT !.p = Without(@, {x}), !.pov = Without(@, {x})]

\* handle_cancel.
handle_cancel(c, x) ==
  IF x \notin Range(c.p) \cup Range(c.pov) THEN c ELSE
  [c EXCEPT !.p = Without(@, {x}), !.pov = Without(@, {x}), !.tmr[x] = NewTimer]

Mut_handle_add(c, w, d, s) ==
  LET x  == d.tmr
      c1 == [c EXCEPT !.tmr[x] = [@ EXCEPT !.jiffies = jiffies(d.at), !.timeout = d.tout,
                                           !.cyclic = d.cyclic, !.is_active = TRUE,
                                           !.next = d.at + d.tout]]
  IN IF jiffies(w) < jiffies(d.at + d.tout) THEN add_vtimer_to_list(c1, w, x)
     ELSE exec_timer_callback([c1 EXCEPT !.tmr[x].cyclic = FALSE], w, x, 1, {})

\* handle_add: a timer whose time is over when its command is handled calls
\* back at once.
handle_add(c, w, d, s) ==
  LET x  == d.tmr
      c1 == [c EXCEPT !.tmr[x] = [@ EXCEPT !.jiffies = jiffies(d.at), !.timeout = d.tout,
                                           !.cyclic = d.cyclic, !.is_active = TRUE,
                                           !.next = d.at + d.tout]]
      c2 == exec_timer_callback(c1, w, x, 1, Act(s, x, 1))
  IN IF (jiffies(w) - jiffies(d.at)) % M < d.tout THEN add_vtimer_to_list(c1, w, x)
     ELSE IF ~c2.tmr[x].cyclic THEN c2
     ELSE add_vtimer_to_list([c2 EXCEPT !.tmr[x].jiffies = jiffies(w),
                                        !.tmr[x].next = w + c2.tmr[x].timeout], w, x)

\* The loop of handle_time: what is put back is not due.
due(c, w) == SelectSeq(c.p, LAMBDA x : c.tmr[x].jiffies <= jiffies(w))
handle_time(c, w, s) == FoldLeft(LAMBDA c1, x : fire(c1, w, x, s), c, due(c, w))

Mut_next_timeout(c, w) == IF c.p # <<>> THEN c.tmr[Head(c.p)].jiffies - jiffies(w) ELSE Infinite

\* What handle_time returns: the time to the next deadline or to the wrap.
next_timeout(c, w) ==
  IF c.p # <<>> THEN c.tmr[Head(c.p)].jiffies - jiffies(w) ELSE (0 - jiffies(w)) % M

-----------------------------------------------------------------------------
\* Commands on their way, and a timer a cyclic one among them concerns.
OnTheWay == (Range(queue) \cup {cl[c] : c \in Clients} \cup {wk.cmd}) \ {None}

CyclicUsed == \/ \E x \in Timers : tctx.tmr[x].is_active /\ tctx.tmr[x].cyclic
              \/ \E d \in OnTheWay : d.cyclic

\* The wrap is further away than any period.
FarFromWrap(x) == \A period \in Periods \cup Mods : jiffies(x) + period <= MaxTick

\* A tick of the clock.  Threads lose no more than MaxLag ticks at a time, and
\* an application without cyclic timers at the wrap stops them before it.
Tick ==
  /\ now < Horizon
  /\ wk.pc # "blocked" => now < wk.since + MaxLag
  /\ wk.pc = "blocked" => queue = <<>> /\ (wk.tout # Infinite => now < wk.since + wk.tout)
  /\ \A c \in Clients : cl[c] # None /\ cl[c].cmd = "add" => now < cl[c].at + MaxLag
  /\ CyclicUsed => CyclicAtWrap \/ FarFromWrap(now + 1)
  /\ now' = now + 1
  /\ UNCHANGED <<tctx, queue, cl, calls, wk>>

\* The timer x may be used: it exists and nobody destroys it.
Usable(x) == tctx.tmr[x].alive /\ \A d \in OnTheWay : d.tmr = x => d.cmd # "delete"

Add(x, tout, cyclic) == [cmd |-> "add", tmr |-> x, tout |-> tout, cyclic |-> cyclic, at |-> now]
Cmd(name, x) == [cmd |-> name, tmr |-> x, tout |-> 0, cyclic |-> FALSE, at |-> 0]

\* The commands _isixp_vtimer_start and _isixp_vtimer_cancel write.
Uses ==
  {Cmd("cancel", x) : x \in {y \in Timers : Usable(y)}}
    \cup {Add(x, tout, FALSE) : x \in {y \in Timers : Usable(y)}, tout \in Timeouts}
    \cup {Add(x, period, TRUE) : x \in {y \in Timers : Usable(y) /\ (CyclicAtWrap \/ FarFromWrap(now))},
                                 period \in Periods}

\* Destroying a timer somebody is about to use is a usage error.
Destroys ==
  {Cmd("delete", x) : x \in {y \in Timers : Usable(y) /\ \A c \in Clients : cl[c] # None => cl[c].tmr # y}}

\* One more call of a service.
Called == calls < MaxCalls /\ calls' = calls + 1

\* A thread makes its command, with the counter it reads ...
ClientCall(c) ==
  /\ cl[c] = None /\ Called
  /\ \E d \in Uses \cup Destroys : cl' = [cl EXCEPT ![c] = d]
  /\ UNCHANGED <<now, tctx, queue, wk>>

\* ... and writes it when the queue has room (isix_fifo_write).
ClientWrite(c) ==
  /\ cl[c] # None /\ Len(queue) < QueueSize
  /\ queue' = Append(queue, cl[c])
  /\ cl' = [cl EXCEPT ![c] = None]
  /\ UNCHANGED <<now, tctx, calls, wk>>

\* The _isr services and isix_schedule_work_isr; a full queue is an error.
IsrCall ==
  /\ Len(queue) < QueueSize /\ Called
  /\ \E d \in Uses \cup {Cmd("exec", None)} : queue' = Append(queue, d)
  /\ UNCHANGED <<now, tctx, cl, wk>>

\* isix_vtimer_create on the same storage.
VtimerCreate(x) ==
  /\ ~tctx.tmr[x].alive
  /\ tctx' = [tctx EXCEPT !.tmr[x] = NewTimer]
  /\ UNCHANGED <<now, queue, cl, calls, wk>>

\* The worker in isix_fifo_read: it takes a command, blocks, or runs out of time.
WorkerGet ==
  /\ wk.pc \in {"read", "blocked"} /\ queue # <<>>
  /\ wk' = [wk EXCEPT !.pc = "got", !.since = now, !.cmd = Head(queue)]
  /\ queue' = Tail(queue)
  /\ UNCHANGED <<now, tctx, cl, calls>>

WorkerBlock ==
  /\ wk.pc = "read" /\ queue = <<>> /\ wk.tout # DontWait
  /\ wk' = [wk EXCEPT !.pc = "blocked", !.since = now]
  /\ UNCHANGED <<now, tctx, queue, cl, calls>>

WorkerTimeout ==
  /\ queue = <<>>
  /\ \/ wk.pc = "read" /\ wk.tout = DontWait
     \/ wk.pc = "blocked" /\ wk.tout # Infinite /\ now = wk.since + wk.tout
  /\ wk' = [wk EXCEPT !.pc = "got", !.since = now, !.cmd = None]
  /\ UNCHANGED <<now, tctx, queue, cl, calls>>

\* The switch of worker_thread on the command.
handle_command(c, d, s) ==
  CASE d = None -> c
    [] d # None /\ d.cmd = "exec" -> c
    [] d # None /\ d.cmd = "add" -> handle_add(handle_cancel(c, d.tmr), now, d, s)
    [] d # None /\ d.cmd = "cancel" -> handle_cancel(c, d.tmr)
    [] d # None /\ d.cmd = "delete" -> [handle_cancel(c, d.tmr) EXCEPT !.tmr[d.tmr].alive = FALSE]

\* The callback of x may run as the one of a cyclic timer.
MayMod(x) == tctx.tmr[x].cyclic \/ (wk.cmd # None /\ wk.cmd.tmr = x /\ wk.cmd.cyclic)

\* A turn of worker_thread after the read.
WorkerTurn ==
  /\ wk.pc = "got"
  /\ \E s \in [Timers -> Script] :
       /\ \A x \in Timers : MayMod(x) \/ s[x] = NoMod
       /\ LET c0 == IF jiffies(now) < jiffies(wk.last) THEN switch_timer_list(tctx, now, s) ELSE tctx
              c1 == handle_time(handle_command(c0, wk.cmd, s), now, s)
          IN /\ tctx' = c1
             /\ wk' = [pc |-> "read", tout |-> next_timeout(c1, now), since |-> now, cmd |-> None,
                       last |-> now]
  /\ UNCHANGED <<now, queue, cl, calls>>

\* The worker had nothing to do so far.
TimerInit ==
  /\ now = 0
  /\ tctx = [tmr |-> [x \in Timers |-> NewTimer], p |-> <<>>, pov |-> <<>>, early |-> FALSE]
  /\ queue = <<>>
  /\ cl = [c \in Clients |-> None] /\ calls = 0
  /\ wk = [pc |-> "read", tout |-> IF Start = 0 THEN 1 ELSE M - Start, since |-> 0, cmd |-> None,
           last |-> 0]

TimerNext ==
  \/ Tick \/ IsrCall
  \/ \E c \in Clients : ClientCall(c) \/ ClientWrite(c)
  \/ \E x \in Timers : VtimerCreate(x)
  \/ WorkerGet \/ WorkerBlock \/ WorkerTimeout \/ WorkerTurn

TimerSpec == TimerInit /\ [][TimerNext]_tvars

-----------------------------------------------------------------------------
\* The clock, the timers, the commands and the worker are well formed.
TimerTypeOK ==
  /\ now \in 0 .. Horizon /\ tctx \in Context /\ queue \in Seq(Command)
  /\ cl \in [Clients -> Command \cup {None}] /\ calls \in 0 .. MaxCalls /\ wk \in Worker

Listed == Range(tctx.p) \cup Range(tctx.pov)

\* tests/libisix/07_vtimer.cpp, start_across_jiffies_wrap_not_early: no
\* callback runs before its time, however late commands arrive and wherever
\* the counter wraps between the call, the command and the deadline.
NeverFiresEarly == ~tctx.early

\* softtimers.c: "fire once per missed period so callback counts match elapsed
\* logical time": after a turn of the worker every running timer is due in the
\* future, a cyclic one within its period, and no fire was left out.
CountsMatchTime ==
  \A x \in Listed :
    LET r == tctx.tmr[x] IN
    /\ wk.last < r.next /\ jiffies(r.next) = r.jiffies
    /\ r.cyclic => r.next <= wk.last + r.timeout

\* The lists split the timers at the wrap, as the worker has seen it: what is
\* on the overflow list is due after the next wrap, the rest before it.
TimerListsSplitAtWrap ==
  LET turn(x) == (Start + x) \div M IN
  /\ \A x \in Range(tctx.p)   : turn(tctx.tmr[x].next) = turn(wk.last)
  /\ \A x \in Range(tctx.pov) : turn(tctx.tmr[x].next) = turn(wk.last) + 1

\* The worker never sleeps past a deadline: what it waits for is not longer
\* than the time from its last look at the clock to the next deadline.
WorkerWakesInTime ==
  wk.pc = "blocked" =>
    \A x \in Listed : wk.tout # Infinite /\ wk.tout <= tctx.tmr[x].next - wk.last

\* softtimers.h: isix_vtimer_is_active says "if timer is still active and it
\* waits for an event": exactly the timers on a list, which a destroyed or a
\* cancelled one never is.
ActiveMeansListed ==
  \A x \in Timers : /\ tctx.tmr[x].is_active <=> x \in Listed
                    /\ x \in Listed => tctx.tmr[x].alive
=============================================================================
