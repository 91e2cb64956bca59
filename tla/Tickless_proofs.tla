-------------------------- MODULE Tickless_proofs ---------------------------
(***************************************************************************)
(* Proofs about module Tickless: no tick is lost or counted twice, the     *)
(* microsecond clock goes back only with jiffies and nobody oversleeps, for*)
(* every tick period, restart skew, latency bound, range of the counter    *)
(* and number of threads.                                                  *)
(*                                                                         *)
(* The argument follows one quantity, Gap(d): the cycles from the boundary *)
(* of the last tick that was announced to the next boundary the counter    *)
(* will reach, when restarts have delayed the boundaries by d cycles.  In  *)
(* every phase of the arming, of the sleep and of the resync it is a whole *)
(* number of ticks that the phase determines; the only step that changes d *)
(* is a restart that comes after the next boundary, by less than the skew. *)
(* That a boundary is never reached while the one before it is not         *)
(* accounted (NoSecond) is where the bound on the latency of interrupts is *)
(* used.                                                                   *)
(***************************************************************************)
EXTENDS Tickless, TLAPS, WellFoundedInduction

-----------------------------------------------------------------------------
(***************************************************************************)
(* The inductive invariant of the timer.                                   *)
(***************************************************************************)

Due  == stk.pend \/ handler
Base == told * Tpp
Long == port.expected * Tpp
Gap(d) == cycles - d + Left - Base

Arming     == {"load", "pending", "counter", "abort"}
Restarting == {"restart", "reload", "clear"}

ClockTypes ==
  /\ stk \in [cvr : Nat, rvr : Nat, pend : BOOLEAN, wrap : BOOLEAN]
  /\ port \in [state : {"off", "armed", "sleeping"}, expected : 0 .. MaxLong]
  /\ told \in Nat /\ cycles \in Nat
  /\ handler \in BOOLEAN /\ deleted \in BOOLEAN
  /\ idle \in {"idle", "load", "pending", "counter", "abort", "sleep"}
  /\ rs \in [pc : {"none", "period", "boundary", "sample", "ended", "restart", "reload", "clear"},
             cvr : Nat, n : Nat]
  /\ lat \in 0 .. Latency /\ age \in 0 .. MinFirst
  /\ thr \in [Threads -> Thread]

\* Which sections exclude each other, and what a phase says of g_state.
Control ==
  /\ stk.wrap = Due
  /\ handler => ~stk.pend
  /\ rs.pc # "none" => ~handler /\ idle \in {"idle", "sleep"} /\ port.state # "off"
  /\ idle \in Arming => ~handler /\ rs.pc = "none" /\ port.state = "off"
  /\ idle \in Arming \/ port.state # "off" => port.expected >= 2
  /\ rs.pc \in {"period", "boundary"} => port.state = "armed"
  /\ rs.pc \in {"sample", "ended"} => port.state = "sleeping"
  /\ rs.pc = "ended" => rs.n = 0

\* The counter does not reach a second boundary before the first is accounted.
NoSecond ==
  rs.pc \notin Restarting => /\ stk.cvr = 0 => Due
                             /\ Due => Left + lat >= Tpp

\* The tick of the last announcement runs; its boundary has come and the next
\* tick runs; its boundary has come and the long period runs.
TickRuns(d) == Gap(d) = Tpp /\ ~Due
NextRuns(d) == Gap(d) = 2 * Tpp /\ Due /\ Left <= Tpp /\ stk.cvr < Tpp
LongRuns(d) == Gap(d) = Tpp + Long /\ Due /\ Left + lat >= Long /\ Left <= Long /\ stk.cvr < Long

OffOK(d) == (port.state = "off" /\ idle \notin {"pending", "counter", "abort"}) =>
  /\ stk.rvr = Tpp - 1
  /\ \/ /\ TickRuns(d) /\ stk.cvr < 2 * Tpp
        /\ idle = "load" \/ MaxLong = 1 => stk.cvr < Tpp
     \/ NextRuns(d)

ArmingOK(d) == idle \in {"pending", "counter", "abort"} =>
  /\ stk.rvr = Long - 1
  /\ \/ TickRuns(d) /\ stk.cvr < Tpp /\ idle = "pending"
     \/ NextRuns(d) /\ stk.cvr # 0
     \/ LongRuns(d) /\ idle # "abort"
  /\ idle = "counter" /\ age > 0 => stk.cvr # 0

ArmedOK(d) == (port.state = "armed" /\ rs.pc \in {"none", "period"}) =>
  /\ stk.rvr = Long - 1
  /\ \/ TickRuns(d) /\ stk.cvr < Tpp
     \/ LongRuns(d)

BoundaryOK(d) == rs.pc = "boundary" =>
  /\ stk.rvr = Tpp - 1
  /\ \/ TickRuns(d) /\ stk.cvr < Tpp
     \/ NextRuns(d)
     \/ LongRuns(d) /\ stk.cvr # 0

SleepingOK(d) == (port.state = "sleeping" /\ rs.pc \in {"none", "sample", "ended"}) =>
  /\ stk.rvr = Tpp - 1
  /\ \/ ~Due /\ Gap(d) = Long /\ stk.cvr < Long
     \/ Due /\ Gap(d) = Long + Tpp /\ Left <= Tpp /\ stk.cvr < Tpp
  /\ rs.pc = "ended" /\ ~stk.pend /\ age < MinFirst =>
       rs.cvr = stk.cvr + age /\ rs.cvr < Long

RestartOK(d) == rs.pc = "restart" =>
  /\ stk.rvr = Tpp - 1 /\ stk.cvr < Long
  /\ rs.n = IF port.state = "armed" THEN 1 ELSE 0
  /\ Base + rs.n * Tpp + Long + age - (cycles - d) = rs.cvr
  /\ rs.cvr \in 1 .. Long - 1 /\ age < Skew

FirstOK(d) == rs.pc \in {"reload", "clear"} =>
  /\ cycles - d + Left = Base + rs.n * Tpp + Tpp
  /\ Left + age >= MinFirst /\ age < MinFirst /\ Left < 2 * Tpp
  /\ rs.pc = "reload" => stk.rvr < 2 * Tpp
  /\ rs.pc = "clear" => stk.cvr # 0 /\ stk.rvr = Tpp - 1

ClockOK(d) ==
  /\ Control /\ NoSecond /\ OffOK(d) /\ ArmingOK(d) /\ ArmedOK(d)
  /\ BoundaryOK(d) /\ SleepingOK(d) /\ RestartOK(d) /\ FirstOK(d)

-----------------------------------------------------------------------------
(***************************************************************************)
(* Arithmetic.                                                             *)
(***************************************************************************)

\* The constants, in the form the steps use.
LEMMA Sizes ==
  /\ Tpp \in Nat /\ Tpp >= 2 /\ Skew \in Nat /\ Skew >= 1
  /\ MinFirst \in Nat /\ Skew <= MinFirst /\ 2 * MinFirst <= Tpp
  /\ Latency \in Nat /\ Latency < Tpp /\ MaxLong \in Nat /\ MaxLong >= 1
<1>1. /\ Tpp \in Nat \ {0} /\ MaxLong \in Nat \ {0}
      /\ Skew \in 1 .. MinFirst /\ 2 * MinFirst <= Tpp /\ Latency \in 0 .. Tpp - 1
  BY TicklessAssumption
<1>2. MinFirst \in Nat
  BY TicklessAssumption
<1> QED
  BY <1>1, <1>2

\* A number of ticks in cycles.
LEMMA TicksInCycles ==
  \A n \in Nat : /\ n * Tpp \in Nat
                 /\ (n + 1) * Tpp = n * Tpp + Tpp
                 /\ n >= 2 => n * Tpp >= 2 * Tpp
                 /\ n <= MaxLong => n * Tpp <= MaxLong * Tpp
<1> SUFFICES ASSUME NEW n \in Nat
             PROVE  /\ n * Tpp \in Nat
                    /\ (n + 1) * Tpp = n * Tpp + Tpp
                    /\ n >= 2 => n * Tpp >= 2 * Tpp
                    /\ n <= MaxLong => n * Tpp <= MaxLong * Tpp
  OBVIOUS
<1>1. n * Tpp \in Nat
  BY Sizes
<1>2. (n + 1) * Tpp = n * Tpp + Tpp
  BY Sizes
<1>3. ASSUME n >= 2 PROVE n * Tpp >= 2 * Tpp
  BY Sizes, <1>3
<1>4. ASSUME n <= MaxLong PROVE n * Tpp <= MaxLong * Tpp
  BY Sizes, <1>4
<1> QED
  BY <1>1, <1>2, <1>3, <1>4

\* Cycles add up, and more ticks take more cycles.
LEMMA TicksAdd ==
  \A m, n \in Nat : /\ (m + n) * Tpp = m * Tpp + n * Tpp
                    /\ m <= n => m * Tpp <= n * Tpp
<1> SUFFICES ASSUME NEW m \in Nat, NEW n \in Nat
             PROVE  /\ (m + n) * Tpp = m * Tpp + n * Tpp
                    /\ m <= n => m * Tpp <= n * Tpp
  OBVIOUS
<1>1. (m + n) * Tpp = m * Tpp + n * Tpp
  BY Sizes
<1>2. ASSUME m <= n PROVE m * Tpp <= n * Tpp
  BY Sizes, <1>2
<1> QED
  BY <1>1, <1>2

\* The measures of a state.
LEMMA Measures ==
  ASSUME ClockTypes
  PROVE  /\ Base \in Nat /\ Long \in Nat /\ Left \in Nat
         /\ \A d \in Nat : Gap(d) \in Int
         /\ port.expected >= 2 => Long >= 2 * Tpp
         /\ Long <= MaxLong * Tpp
<1>1. port.expected \in Nat /\ port.expected <= MaxLong /\ told \in Nat
  BY Sizes DEF ClockTypes
<1>2. Base \in Nat
  BY <1>1, TicksInCycles DEF Base
<1>3. /\ Long \in Nat
      /\ port.expected >= 2 => Long >= 2 * Tpp
      /\ Long <= MaxLong * Tpp
  BY <1>1, TicksInCycles DEF Long
<1>4. stk.cvr \in Nat /\ stk.rvr \in Nat /\ cycles \in Nat
  BY DEF ClockTypes
<1>5. Left \in Nat
  BY <1>4 DEF Left
<1>6. \A d \in Nat : Gap(d) \in Int
  BY <1>2, <1>4, <1>5 DEF Gap
<1> QED
  BY <1>2, <1>3, <1>5, <1>6

-----------------------------------------------------------------------------
(***************************************************************************)
(* A cycle of the counter.                                                 *)
(***************************************************************************)

\* A cycle keeps the types.
LEMMA CycleTypes ==
  ASSUME ClockTypes, Cycle PROVE ClockTypes'
<1>1. stk' \in [cvr : Nat, rvr : Nat, pend : BOOLEAN, wrap : BOOLEAN]
  <2>1. stk.cvr \in Nat /\ stk.rvr \in Nat /\ stk.pend \in BOOLEAN /\ stk.wrap \in BOOLEAN
    BY DEF ClockTypes
  <2> DEFINE zero == stk.cvr = 1
             cv == IF stk.cvr = 0 THEN stk.rvr ELSE stk.cvr - 1
  <2>2. cv \in Nat /\ (stk.pend \/ zero) \in BOOLEAN /\ (stk.wrap \/ zero) \in BOOLEAN
    BY <2>1
  <2>3. stk' = [stk EXCEPT !.cvr = cv, !.pend = stk.pend \/ zero, !.wrap = stk.wrap \/ zero]
    BY DEF Cycle, ClockTypes
  <2> HIDE DEF zero, cv
  <2> QED
    BY <2>2, <2>3 DEF ClockTypes
<1>2. cycles' \in Nat /\ lat' \in 0 .. Latency /\ age' \in 0 .. MinFirst
  BY Sizes DEF Cycle, ClockTypes
<1> QED
  BY <1>1, <1>2 DEF Cycle, ClockTypes

\* What a cycle does to the counter and to the distance to the boundary.
LEMMA CycleMoves ==
  ASSUME ClockTypes, Cycle
  PROVE  /\ stk'.rvr = stk.rvr
         /\ stk'.cvr = IF stk.cvr = 0 THEN stk.rvr ELSE stk.cvr - 1
         /\ stk'.pend = (stk.pend \/ stk.cvr = 1)
         /\ stk'.wrap = (stk.wrap \/ stk.cvr = 1)
         /\ cycles' = cycles + 1 /\ Base' = Base /\ Long' = Long
         /\ lat' = (IF Masked \/ Due THEN lat + 1 ELSE 0)
         /\ Masked \/ Due => lat < Latency
BY DEF Cycle, ClockTypes, Base, Long, Due

\* A cycle keeps the invariant of the timer.
LEMMA CycleClock ==
  ASSUME NEW d \in Nat, ClockTypes, ClockOK(d), Cycle PROVE ClockOK(d)'
<1>1. /\ stk.cvr \in Nat /\ stk.rvr \in Nat /\ stk.pend \in BOOLEAN /\ stk.wrap \in BOOLEAN
      /\ cycles \in Nat /\ lat \in Nat /\ age \in Nat /\ rs.cvr \in Nat /\ rs.n \in Nat
      /\ handler \in BOOLEAN /\ lat <= Latency /\ age <= MinFirst
  BY Sizes DEF ClockTypes
<1>2. /\ stk'.rvr = stk.rvr
      /\ stk'.cvr = IF stk.cvr = 0 THEN stk.rvr ELSE stk.cvr - 1
      /\ stk'.pend = (stk.pend \/ stk.cvr = 1)
      /\ stk'.wrap = (stk.wrap \/ stk.cvr = 1)
      /\ cycles' = cycles + 1 /\ Base' = Base /\ Long' = Long
      /\ lat' = (IF Masked \/ Due THEN lat + 1 ELSE 0)
      /\ Masked \/ Due => lat < Latency
  BY CycleMoves
<1>3. /\ UNCHANGED <<port, handler, idle, rs>>
      /\ age' = (IF age < MinFirst THEN age + 1 ELSE age)
      /\ rs.pc = "restart" => age < Skew - 1
      /\ rs.pc \in {"reload", "clear"} => age < MinFirst - 1
  BY DEF Cycle
<1>4. /\ Base \in Nat /\ Long \in Nat
      /\ port.expected >= 2 => Long >= 2 * Tpp
  BY Measures
<1>6. /\ Masked = (idle \in Arming \/ rs.pc # "none")
      /\ idle \in Arming => rs.pc = "none" /\ port.state = "off" /\ port.expected >= 2
      /\ rs.pc # "none" => port.state # "off" /\ idle \in {"idle", "sleep"} /\ ~handler
      /\ port.state # "off" => port.expected >= 2
  BY DEF Masked, Arming, ClockOK, Control
\* Outside of the restart a boundary is reached only when none is due.
<1>7. ASSUME rs.pc \notin Restarting, Due
      PROVE  /\ Left > 1 /\ Left' = Left - 1 /\ Due' /\ lat' = lat + 1 /\ Gap(d)' = Gap(d)
             /\ stk'.cvr # 0
  BY <1>1, <1>2, <1>3, <1>4, <1>7, Sizes DEF ClockOK, NoSecond, Left, Gap, Due
<1>8. ASSUME rs.pc \notin Restarting, ~Due
      PROVE  /\ stk.cvr > 0 /\ Left = stk.cvr
             /\ stk.cvr = 1 => /\ Due' /\ stk'.cvr = 0 /\ Left' = stk.rvr + 1
                               /\ Gap(d)' = Gap(d) + stk.rvr + 1
             /\ stk.cvr # 1 => /\ ~Due' /\ Left' = Left - 1 /\ Gap(d)' = Gap(d)
                               /\ stk'.cvr = stk.cvr - 1 /\ stk'.cvr # 0
  <2>1. stk.cvr > 0 /\ Left = stk.cvr /\ stk.cvr # 0
    BY <1>1, <1>8 DEF ClockOK, NoSecond, Left
  <2>2. CASE stk.cvr = 1
    <3>1. stk'.pend
      BY <2>2, <1>2
    <3>2. stk'.cvr = 0
      BY <2>2, <1>2
    <3>3. Due' /\ Left' = stk.rvr + 1
      BY <3>1, <3>2, <1>2 DEF Left, Due
    <3> QED
      BY <3>2, <3>3, <2>1, <2>2, <1>1, <1>2, <1>4 DEF Gap
  <2>3. CASE stk.cvr # 1
    <3>1. stk'.cvr = stk.cvr - 1 /\ stk'.cvr # 0 /\ stk'.pend = stk.pend
      BY <2>1, <2>3, <1>1, <1>2
    <3>2. ~Due'
      BY <3>1, <1>3, <1>8 DEF Due
    <3>3. Left' = Left - 1
      BY <3>1, <2>1 DEF Left
    <3> QED
      BY <3>1, <3>2, <3>3, <2>1, <2>3, <1>1, <1>2, <1>4 DEF Gap
  <2> QED
    BY <2>1, <2>2, <2>3
<1>5. Control'
  <2>1. stk'.wrap = Due'
    BY <1>1, <1>2, <1>3 DEF ClockOK, Control, Due
  <2>2. ASSUME handler PROVE ~stk'.pend
    <3>1. rs.pc \notin Restarting /\ Due /\ ~stk.pend
      BY <2>2 DEF ClockOK, Control, Due, Restarting
    <3>2. stk.cvr # 1
      BY <3>1, <1>7 DEF Left
    <3> QED
      BY <3>1, <3>2, <1>2
  <2> QED
    BY <2>1, <2>2, <1>3 DEF ClockOK, Control
<1>9. NoSecond'
  <2> SUFFICES ASSUME rs.pc \notin Restarting
               PROVE  /\ stk'.cvr = 0 => Due'
                      /\ Due' => Left' + lat' >= Tpp
    BY <1>3 DEF NoSecond
  <2>1. CASE Due
    BY <2>1, <1>7, <1>1, Sizes DEF ClockOK, NoSecond, Left
  <2>2. CASE ~Due
    <3>1. stk.rvr + 1 >= Tpp
      BY <1>4, <1>6, Sizes DEF ClockOK, Restarting, Control, OffOK, ArmingOK, ArmedOK, BoundaryOK,
         SleepingOK, ClockTypes, Arming
    <3>2. lat' \in Nat
      BY <1>1, <1>2
    <3> QED
      BY <2>2, <1>8, <3>1, <3>2, <1>1, Sizes
  <2> QED
    BY <2>1, <2>2
<1>10. ASSUME rs.pc \notin Restarting
       PROVE  /\ NextRuns(d) => NextRuns(d)' /\ stk'.cvr # 0
              /\ LongRuns(d) => LongRuns(d)' /\ stk'.cvr # 0
              /\ TickRuns(d) /\ stk.cvr # 1 => TickRuns(d)' /\ stk'.cvr < stk.cvr /\ stk'.cvr # 0
              /\ TickRuns(d) /\ stk.cvr = 1 /\ stk.rvr = Tpp - 1 => NextRuns(d)' /\ stk'.cvr = 0
              /\ TickRuns(d) /\ stk.cvr = 1 /\ stk.rvr = Long - 1 => LongRuns(d)' /\ stk'.cvr = 0
  <2>1. Left \in Nat /\ Gap(d) \in Int
    BY Measures
  <2>2. ASSUME NextRuns(d) PROVE NextRuns(d)' /\ stk'.cvr # 0
    <3>1. Left' = stk'.cvr
      BY <2>2, <1>7, <1>10 DEF NextRuns, Left
    <3> QED
      BY <2>1, <2>2, <3>1, <1>7, <1>10, <1>1, Sizes DEF NextRuns
  <2>3. ASSUME LongRuns(d) PROVE LongRuns(d)' /\ stk'.cvr # 0
    <3>1. Left' = stk'.cvr
      BY <2>3, <1>7, <1>10 DEF LongRuns, Left
    <3> QED
      BY <2>1, <2>3, <3>1, <1>7, <1>10, <1>1, <1>2, <1>4, Sizes DEF LongRuns
  <2>4. ASSUME TickRuns(d), stk.cvr # 1 PROVE TickRuns(d)' /\ stk'.cvr < stk.cvr /\ stk'.cvr # 0
    BY <2>1, <2>4, <1>8, <1>10, <1>1, Sizes DEF TickRuns
  <2>5. ASSUME TickRuns(d), stk.cvr = 1, stk.rvr = Tpp - 1 PROVE NextRuns(d)' /\ stk'.cvr = 0
    BY <2>1, <2>5, <1>8, <1>10, <1>1, Sizes DEF TickRuns, NextRuns
  <2>6. ASSUME TickRuns(d), stk.cvr = 1, stk.rvr = Long - 1 PROVE LongRuns(d)' /\ stk'.cvr = 0
    <3>1. lat' \in Nat
      BY <1>1, <1>2
    <3> QED
      BY <2>1, <2>6, <3>1, <1>8, <1>10, <1>1, <1>2, <1>4, Sizes DEF TickRuns, LongRuns
  <2> QED
    BY <2>2, <2>3, <2>4, <2>5, <2>6
<1>11. OffOK(d)'
  <2> SUFFICES ASSUME port.state = "off", idle \notin {"pending", "counter", "abort"}
               PROVE  /\ stk'.rvr = Tpp - 1
                      /\ \/ /\ TickRuns(d)' /\ stk'.cvr < 2 * Tpp
                            /\ idle = "load" \/ MaxLong = 1 => stk'.cvr < Tpp
                         \/ NextRuns(d)'
    BY <1>3 DEF OffOK
  <2>1. rs.pc \notin Restarting
    BY DEF ClockOK, Control, Restarting
  <2>2. stk.rvr = Tpp - 1 /\ stk'.cvr \in Nat
    BY <1>1, <1>2 DEF ClockOK, OffOK
  <2>3. CASE /\ TickRuns(d) /\ stk.cvr < 2 * Tpp
             /\ idle = "load" \/ MaxLong = 1 => stk.cvr < Tpp
    BY <2>1, <2>2, <2>3, <1>1, <1>2, <1>10, Sizes
  <2>4. CASE NextRuns(d)
    BY <2>1, <2>2, <2>4, <1>2, <1>10
  <2> QED
    BY <2>3, <2>4 DEF ClockOK, OffOK
<1>12. ArmingOK(d)'
  <2> SUFFICES ASSUME idle \in {"pending", "counter", "abort"}
               PROVE  /\ stk'.rvr = Long - 1
                      /\ \/ TickRuns(d)' /\ stk'.cvr < Tpp /\ idle = "pending"
                         \/ NextRuns(d)' /\ stk'.cvr # 0
                         \/ LongRuns(d)' /\ idle # "abort"
                      /\ idle = "counter" /\ age' > 0 => stk'.cvr # 0
    BY <1>2, <1>3 DEF ArmingOK
  <2>1. rs.pc \notin Restarting
    BY DEF ClockOK, Control, Restarting, Arming
  <2>2. stk.rvr = Long - 1 /\ stk'.cvr \in Nat
    BY <1>1, <1>2 DEF ClockOK, ArmingOK
  <2>3. CASE TickRuns(d) /\ stk.cvr < Tpp /\ idle = "pending"
    BY <2>1, <2>2, <2>3, <1>1, <1>2, <1>10, Sizes
  <2>4. CASE NextRuns(d) /\ stk.cvr # 0
    BY <2>1, <2>2, <2>4, <1>1, <1>2, <1>10, Sizes
  <2>5. CASE LongRuns(d) /\ idle # "abort"
    BY <2>1, <2>2, <2>5, <1>2, <1>10
  <2> QED
    BY <2>3, <2>4, <2>5 DEF ClockOK, ArmingOK
<1>13. ArmedOK(d)'
  <2> SUFFICES ASSUME port.state = "armed", rs.pc \in {"none", "period"}
               PROVE  /\ stk'.rvr = Long - 1
                      /\ \/ TickRuns(d)' /\ stk'.cvr < Tpp
                         \/ LongRuns(d)'
    BY <1>2, <1>3 DEF ArmedOK
  <2>1. rs.pc \notin Restarting
    BY DEF Restarting
  <2>2. stk.rvr = Long - 1 /\ stk'.cvr \in Nat
    BY <1>1, <1>2 DEF ClockOK, ArmedOK
  <2>3. CASE TickRuns(d) /\ stk.cvr < Tpp
    BY <2>1, <2>2, <2>3, <1>1, <1>2, <1>10, Sizes
  <2>4. CASE LongRuns(d)
    BY <2>1, <2>2, <2>4, <1>2, <1>10
  <2> QED
    BY <2>3, <2>4 DEF ClockOK, ArmedOK
<1>14. BoundaryOK(d)'
  <2> SUFFICES ASSUME rs.pc = "boundary"
               PROVE  /\ stk'.rvr = Tpp - 1
                      /\ \/ TickRuns(d)' /\ stk'.cvr < Tpp
                         \/ NextRuns(d)'
                         \/ LongRuns(d)' /\ stk'.cvr # 0
    BY <1>2, <1>3 DEF BoundaryOK
  <2>1. rs.pc \notin Restarting
    BY DEF Restarting
  <2>2. stk.rvr = Tpp - 1 /\ stk'.cvr \in Nat
    BY <1>1, <1>2 DEF ClockOK, BoundaryOK
  <2>3. CASE TickRuns(d) /\ stk.cvr < Tpp
    BY <2>1, <2>2, <2>3, <1>1, <1>2, <1>10, Sizes
  <2>4. CASE NextRuns(d)
    BY <2>1, <2>2, <2>4, <1>1, <1>2, <1>10, Sizes
  <2>5. CASE LongRuns(d)
    BY <2>1, <2>2, <2>5, <1>2, <1>10
  <2> QED
    BY <2>3, <2>4, <2>5 DEF ClockOK, BoundaryOK
<1>15. SleepingOK(d)'
  <2> SUFFICES ASSUME port.state = "sleeping", rs.pc \in {"none", "sample", "ended"}
               PROVE  /\ stk'.rvr = Tpp - 1
                      /\ \/ ~Due' /\ Gap(d)' = Long /\ stk'.cvr < Long
                         \/ Due' /\ Gap(d)' = Long + Tpp /\ Left' <= Tpp /\ stk'.cvr < Tpp
                      /\ rs.pc = "ended" /\ ~stk'.pend /\ age' < MinFirst =>
                           rs.cvr = stk'.cvr + age' /\ rs.cvr < Long
    BY <1>2, <1>3 DEF SleepingOK
  <2>1. rs.pc \notin Restarting
    BY DEF Restarting
  <2>2. stk.rvr = Tpp - 1 /\ stk'.cvr \in Nat
    BY <1>1, <1>2 DEF ClockOK, SleepingOK
  <2>3. \/ ~Due' /\ Gap(d)' = Long /\ stk'.cvr < Long
        \/ Due' /\ Gap(d)' = Long + Tpp /\ Left' <= Tpp /\ stk'.cvr < Tpp
    <3>1. CASE ~Due /\ Gap(d) = Long /\ stk.cvr < Long
      BY <3>1, <2>1, <2>2, <1>8, <1>1, <1>2, <1>4, Sizes
    <3>2. CASE Due /\ Gap(d) = Long + Tpp /\ Left <= Tpp
      <4>1. Left' = stk'.cvr
        BY <3>2, <2>1, <1>7 DEF Left
      <4> QED
        BY <3>2, <4>1, <2>1, <1>7, Sizes, Measures
    <3> QED
      BY <3>1, <3>2 DEF ClockOK, SleepingOK
  <2>4. ASSUME rs.pc = "ended", ~stk'.pend, age' < MinFirst
        PROVE  rs.cvr = stk'.cvr + age' /\ rs.cvr < Long
    <3>1. ~stk.pend /\ ~handler /\ age' = age + 1 /\ age < MinFirst
      BY <2>4, <1>1, <1>2, <1>3, <1>6, Sizes
    <3>2. rs.cvr = stk.cvr + age /\ rs.cvr < Long
      BY <3>1, <2>4 DEF ClockOK, SleepingOK
    <3>3. stk.cvr > 0 /\ stk'.cvr = stk.cvr - 1
      <4>1. ~Due
        BY <3>1 DEF Due
      <4>2. ~Due'
        BY <2>4, <3>1, <1>3 DEF Due
      <4> QED
        BY <4>1, <4>2, <2>1, <1>8
    <3> QED
      BY <3>1, <3>2, <3>3, <1>1, <1>4
  <2> QED
    BY <2>2, <2>3, <2>4, <1>2
<1>16. RestartOK(d)'
  <2> SUFFICES ASSUME rs.pc = "restart" PROVE RestartOK(d)'
    BY <1>3 DEF RestartOK
  <2>1. /\ stk.rvr = Tpp - 1 /\ stk.cvr < Long
        /\ rs.n = (IF port.state = "armed" THEN 1 ELSE 0)
        /\ Base + rs.n * Tpp + Long + age - (cycles - d) = rs.cvr
        /\ rs.cvr \in 1 .. Long - 1 /\ age < Skew
    BY DEF ClockOK, RestartOK
  <2>2. age' = age + 1 /\ age' < Skew
    BY <1>1, <1>3, Sizes
  <2>3. stk'.rvr = Tpp - 1 /\ stk'.cvr < Long
    BY <2>1, <1>1, <1>2, <1>4, <1>6, Sizes
  <2>4. Base + rs.n * Tpp + Long + age' - (cycles' - d) = rs.cvr
    <3> DEFINE nt == rs.n * Tpp
    <3>1. nt \in Nat
      BY <1>1, TicksInCycles
    <3>2. Base + nt + Long + age - (cycles - d) = rs.cvr
      BY <2>1
    <3> HIDE DEF nt
    <3>3. Base + nt + Long + age' - (cycles' - d) = rs.cvr
      BY <3>1, <3>2, <2>2, <1>1, <1>2, <1>4
    <3> QED
      BY <3>3 DEF nt
  <2> QED
    BY <2>1, <2>2, <2>3, <2>4, <1>2, <1>3 DEF RestartOK
<1>17. FirstOK(d)'
  <2> SUFFICES ASSUME rs.pc \in {"reload", "clear"} PROVE FirstOK(d)'
    BY <1>3 DEF FirstOK
  <2> DEFINE nt == rs.n * Tpp
  <2>1. /\ cycles - d + Left = Base + nt + Tpp
        /\ Left + age >= MinFirst /\ age < MinFirst /\ Left < 2 * Tpp
        /\ rs.pc = "reload" => stk.rvr < 2 * Tpp
        /\ rs.pc = "clear" => stk.cvr # 0 /\ stk.rvr = Tpp - 1
    BY DEF ClockOK, FirstOK
  <2>2. nt \in Nat
    BY <1>1, TicksInCycles
  <2> HIDE DEF nt
  <2>3. age' = age + 1 /\ age' < MinFirst
    BY <1>1, <1>3, Sizes
  <2>4. Left > 1 /\ Left' = Left - 1 /\ stk'.cvr # 0
    BY <2>1, <1>1, <1>2, <1>3, Sizes DEF Left
  <2>5. /\ cycles' - d + Left' = Base' + nt + Tpp
        /\ Left' + age' >= MinFirst /\ Left' < 2 * Tpp
    BY <2>1, <2>2, <2>3, <2>4, <1>1, <1>2, <1>4, Sizes, Measures
  <2> QED
    BY <2>1, <2>3, <2>4, <2>5, <1>2, <1>3 DEF FirstOK, nt
<1> QED
  BY <1>5, <1>9, <1>11, <1>12, <1>13, <1>14, <1>15, <1>16, <1>17 DEF ClockOK

-----------------------------------------------------------------------------
(***************************************************************************)
(* The steps that leave the timer alone.                                   *)
(***************************************************************************)

\* What the invariant of the timer speaks of.
clockvars == <<stk, port, told, idle, rs, handler, cycles, lat, age>>

\* A step that changes none of it keeps it.
LEMMA ClockFrame ==
  ASSUME NEW d \in Nat, ClockOK(d), UNCHANGED clockvars PROVE ClockOK(d)'
<1>1. Due' = Due /\ Left' = Left /\ Base' = Base /\ Long' = Long
  BY DEF clockvars, Due, Left, Base, Long
<1>2. Gap(d)' = Gap(d)
  BY <1>1 DEF Gap, clockvars
<1>3. TickRuns(d)' = TickRuns(d) /\ NextRuns(d)' = NextRuns(d) /\ LongRuns(d)' = LongRuns(d)
  BY <1>1, <1>2 DEF TickRuns, NextRuns, LongRuns, clockvars
<1>4. Control' /\ NoSecond'
  BY <1>1 DEF ClockOK, Control, NoSecond, clockvars
<1>5. OffOK(d)' /\ ArmingOK(d)' /\ ArmedOK(d)' /\ BoundaryOK(d)'
  BY <1>1, <1>3 DEF ClockOK, OffOK, ArmingOK, ArmedOK, BoundaryOK, clockvars
<1>6. SleepingOK(d)' /\ RestartOK(d)' /\ FirstOK(d)'
  BY <1>1, <1>2 DEF ClockOK, SleepingOK, RestartOK, FirstOK, clockvars
<1> QED
  BY <1>4, <1>5, <1>6 DEF ClockOK

\* resync begins outside of critical sections: nothing but its place changes.
LEMMA StartResyncClock ==
  ASSUME NEW d \in Nat, ClockTypes, ClockOK(d), ~Masked, StartResync, idle' \in {"idle", "sleep"},
         idle = "idle" \/ idle = "sleep",
         UNCHANGED <<stk, port, told, handler, cycles, lat, age>>
  PROVE  ClockOK(d)' /\ rs' \in [pc : {"none", "period", "sample"}, cvr : Nat, n : Nat]
<1>1. rs.pc = "none" /\ rs \in [pc : {"none", "period", "sample"}, cvr : Nat, n : Nat]
  BY DEF Masked, ClockTypes
<1>2. /\ rs' \in [pc : {"none", "period", "sample"}, cvr : Nat, n : Nat]
      /\ rs'.pc = "period" => port.state = "armed" /\ ~handler
      /\ rs'.pc = "sample" => port.state = "sleeping" /\ ~handler
  BY <1>1 DEF StartResync, NoResync, ClockTypes
<1>3. Due' = Due /\ Left' = Left /\ Base' = Base /\ Long' = Long
  BY DEF Due, Left, Base, Long
<1>4. Gap(d)' = Gap(d)
  BY <1>3 DEF Gap
<1>5. TickRuns(d)' = TickRuns(d) /\ NextRuns(d)' = NextRuns(d) /\ LongRuns(d)' = LongRuns(d)
  BY <1>3, <1>4 DEF TickRuns, NextRuns, LongRuns
<1>6. Control' /\ NoSecond'
  BY <1>1, <1>2, <1>3 DEF ClockOK, Control, NoSecond, Arming, Restarting
<1>7. OffOK(d)' /\ ArmingOK(d)' /\ ArmedOK(d)' /\ BoundaryOK(d)'
  BY <1>1, <1>2, <1>3, <1>5 DEF ClockOK, OffOK, ArmingOK, ArmedOK, BoundaryOK
<1>8. SleepingOK(d)' /\ RestartOK(d)' /\ FirstOK(d)'
  BY <1>1, <1>2, <1>3, <1>4 DEF ClockOK, SleepingOK, RestartOK, FirstOK
<1> QED
  BY <1>2, <1>6, <1>7, <1>8 DEF ClockOK

-----------------------------------------------------------------------------
(***************************************************************************)
(* The tick interrupt.                                                     *)
(***************************************************************************)

\* Entering the handler moves the pending bit to it: what is due stays due.
LEMMA TickEnterClock ==
  ASSUME NEW d \in Nat, ClockTypes, ClockOK(d), TickEnter PROVE ClockTypes' /\ ClockOK(d)'
<1>1. /\ stk' = [stk EXCEPT !.pend = FALSE] /\ handler' = TRUE /\ stk.pend
      /\ UNCHANGED <<port, told, idle, rs, cycles, lat, age, thr, deleted>>
      /\ rs.pc = "none" /\ idle \notin Arming
  BY DEF TickEnter, Code, Masked, Arming
<1>2. /\ stk'.cvr = stk.cvr /\ stk'.rvr = stk.rvr /\ stk'.pend = FALSE /\ stk'.wrap = stk.wrap
      /\ stk' \in [cvr : Nat, rvr : Nat, pend : BOOLEAN, wrap : BOOLEAN]
  BY <1>1 DEF ClockTypes
<1>3. ClockTypes'
  BY <1>1, <1>2 DEF ClockTypes
<1>4. Due /\ Due' /\ Left' = Left /\ Base' = Base /\ Long' = Long
  BY <1>1, <1>2 DEF Due, Left, Base, Long
<1>5. Gap(d)' = Gap(d)
  BY <1>1, <1>4 DEF Gap
<1>6. TickRuns(d)' = TickRuns(d) /\ NextRuns(d)' = NextRuns(d) /\ LongRuns(d)' = LongRuns(d)
  BY <1>1, <1>2, <1>4, <1>5 DEF TickRuns, NextRuns, LongRuns
<1>7. Control' /\ NoSecond'
  BY <1>1, <1>2, <1>4 DEF ClockOK, Control, NoSecond, Restarting
<1>8. OffOK(d)' /\ ArmingOK(d)' /\ ArmedOK(d)' /\ BoundaryOK(d)'
  BY <1>1, <1>2, <1>4, <1>6 DEF ClockOK, OffOK, ArmingOK, ArmedOK, BoundaryOK, Arming
<1>9. SleepingOK(d)' /\ RestartOK(d)' /\ FirstOK(d)'
  BY <1>1, <1>2, <1>4, <1>5 DEF ClockOK, SleepingOK, RestartOK, FirstOK
<1> QED
  BY <1>3, <1>7, <1>8, <1>9 DEF ClockOK

\* advance_jiffies keeps the types.
LEMMA AdvanceTypes ==
  ASSUME ClockTypes, NEW n \in Nat, advance_jiffies(n)
  PROVE  told' \in Nat /\ thr' \in [Threads -> Thread] /\ Base' = Base + n * Tpp
<1>1. told \in Nat /\ thr \in [Threads -> Thread] /\ told' = told + n
  BY DEF ClockTypes, advance_jiffies
<1>2. thr' \in [Threads -> Thread]
  BY <1>1 DEF advance_jiffies, Thread
<1>3. Base' = Base + n * Tpp
  BY <1>1, TicksAdd DEF Base
<1> QED
  BY <1>1, <1>2, <1>3

\* The handler announces the tick that was due, and turns the armed period
\* into a sleep or the end of a sleep into periodic ticks.
LEMMA TickHandlerClock ==
  ASSUME NEW d \in Nat, ClockTypes, ClockOK(d), TickHandler PROVE ClockTypes' /\ ClockOK(d)'
<1> DEFINE n == IF port.state = "sleeping" THEN port.expected ELSE 1
           rv == IF port.state = "armed" THEN Tpp - 1 ELSE stk.rvr
           st == IF port.state = "armed" THEN "sleeping" ELSE "off"
<1>1. /\ handler /\ handler' = FALSE /\ stk.cvr # 0
      /\ UNCHANGED <<idle, rs, cycles, lat, age, deleted>>
      /\ rs.pc = "none" /\ idle \notin Arming /\ advance_jiffies(n)
  BY DEF TickHandler, Code, Masked, Arming
<1>2. stk' = [stk EXCEPT !.wrap = FALSE, !.rvr = rv] /\ port' = [port EXCEPT !.state = st]
  BY DEF TickHandler, ClockTypes
<1>3. n \in Nat /\ rv \in Nat /\ st \in {"off", "armed", "sleeping"}
  BY Sizes DEF ClockTypes
<1>4. /\ n * Tpp = IF port.state = "sleeping" THEN Long ELSE Tpp
      /\ port.state = "armed" => rv = Tpp - 1 /\ st = "sleeping"
      /\ port.state # "armed" => rv = stk.rvr /\ st = "off"
  BY Sizes DEF Long
<1> HIDE DEF n, rv, st
<1>5. /\ stk'.cvr = stk.cvr /\ stk'.rvr = rv /\ stk'.pend = stk.pend /\ stk'.wrap = FALSE
      /\ stk' \in [cvr : Nat, rvr : Nat, pend : BOOLEAN, wrap : BOOLEAN]
      /\ port'.state = st /\ port'.expected = port.expected
      /\ port' \in [state : {"off", "armed", "sleeping"}, expected : 0 .. MaxLong]
  BY <1>2, <1>3 DEF ClockTypes
<1>6. ClockTypes'
  BY <1>1, <1>3, <1>5, AdvanceTypes DEF ClockTypes
<1>7. Base' = Base + n * Tpp
  BY <1>1, <1>3, AdvanceTypes
<1>8. /\ Base \in Nat /\ Long \in Nat /\ Left \in Nat /\ Gap(d) \in Int /\ lat \in Nat
      /\ port.expected >= 2 => Long >= 2 * Tpp
      /\ cycles \in Nat /\ stk.cvr \in Nat /\ lat <= Latency
  BY Measures, Sizes DEF ClockTypes
<1>9. Due /\ ~Due' /\ Left' = Left /\ Left = stk.cvr /\ Long' = Long /\ ~stk.pend
  BY <1>1, <1>5, <1>8 DEF Due, Left, Long, ClockOK, Control
<1>10. Gap(d)' = Gap(d) - n * Tpp
  <2> DEFINE nt == n * Tpp
  <2>1. /\ nt \in Nat /\ Base' = Base + nt /\ Left' = Left /\ cycles' = cycles
        /\ Base \in Nat /\ Left \in Nat /\ cycles \in Nat
    BY <1>1, <1>3, <1>7, <1>8, <1>9, TicksInCycles
  <2> HIDE DEF nt
  <2>2. Gap(d)' = Gap(d) - nt
    BY <2>1 DEF Gap
  <2> QED
    BY <2>2 DEF nt
<1>11. Control' /\ NoSecond'
  <2>1. stk'.wrap = Due' /\ ~handler' /\ rs'.pc = "none" /\ idle' = idle
    <3>1. Due' = FALSE
      BY <1>9 DEF Due
    <3> QED
      BY <3>1, <1>1, <1>5
  <2>2. port.state # "off" => port.expected >= 2
    BY DEF ClockOK, Control
  <2>3. port'.state # "off" => port'.expected >= 2
    BY <2>2, <1>4, <1>5 DEF ClockTypes
  <2>4. Control'
    BY <2>1, <2>3, <1>1 DEF Control
  <2>5. NoSecond'
    BY <1>1, <1>5, <1>9 DEF NoSecond
  <2> QED
    BY <2>4, <2>5
<1>12. OffOK(d)'
  <2> SUFFICES ASSUME port.state # "armed"
               PROVE  stk'.rvr = Tpp - 1 /\ TickRuns(d)' /\ stk'.cvr < 2 * Tpp /\ stk'.cvr < Tpp
    BY <1>1, <1>4, <1>5 DEF OffOK, Arming
  <2>1. CASE port.state = "off"
    BY <2>1, <1>1, <1>4, <1>5, <1>8, <1>9, <1>10, Sizes
       DEF ClockOK, OffOK, Arming, TickRuns, NextRuns
  <2>2. CASE port.state = "sleeping"
    BY <2>2, <1>1, <1>4, <1>5, <1>8, <1>9, <1>10, Sizes
       DEF ClockOK, SleepingOK, TickRuns
  <2> QED
    BY <2>1, <2>2 DEF ClockTypes
<1>13. SleepingOK(d)'
  <2> SUFFICES ASSUME port.state = "armed"
               PROVE  stk'.rvr = Tpp - 1 /\ Gap(d)' = Long /\ stk'.cvr < Long
    BY <1>1, <1>4, <1>5, <1>9 DEF SleepingOK
  <2>1. Gap(d) = Tpp + Long /\ stk.cvr < Long
    BY <1>1, <1>9 DEF ClockOK, ArmedOK, TickRuns, LongRuns
  <2> QED
    BY <2>1, <1>1, <1>4, <1>5, <1>8, <1>10, Sizes
<1>14. ArmingOK(d)' /\ ArmedOK(d)' /\ BoundaryOK(d)' /\ RestartOK(d)' /\ FirstOK(d)'
  BY <1>1, <1>4, <1>5 DEF ArmingOK, ArmedOK, BoundaryOK, RestartOK, FirstOK, Arming
<1> QED
  BY <1>6, <1>11, <1>12, <1>13, <1>14 DEF ClockOK

-----------------------------------------------------------------------------
(***************************************************************************)
(* The idle task arms the timer.                                           *)
(***************************************************************************)

\* The lesser of two numbers.
LEMMA LeastOfTwo ==
  \A x, y \in Int : Least({x, y}) = IF x <= y THEN x ELSE y
<1> SUFFICES ASSUME NEW x \in Int, NEW y \in Int
             PROVE  Least({x, y}) = IF x <= y THEN x ELSE y
  OBVIOUS
<1> DEFINE m == IF x <= y THEN x ELSE y
<1>1. m \in {x, y} /\ \A z \in {x, y} : m <= z
  OBVIOUS
<1>2. \A l \in {x, y} : (\A z \in {x, y} : l <= z) => l = m
  OBVIOUS
<1> QED
  BY <1>1, <1>2 DEF Least

\* Of some natural numbers one is the least.
LEMMA LeastOfNat ==
  ASSUME NEW S, S \subseteq Nat, S # {}
  PROVE  Least(S) \in S /\ \A y \in S : Least(S) <= y
<1> DEFINE R == {ss \in Nat \X Nat : ss[1] < ss[2]}
<1>1. IsWellFoundedOn(R, Nat)
  BY NatLessThanWellFounded DEF OpToRel
<1>2. \A x, y \in Nat : ~(<<y, x>> \in R) => x <= y
  OBVIOUS
<1> HIDE DEF R
<1>3. PICK x \in S : \A y \in S : ~(<<y, x>> \in R)
  BY <1>1, WFMin
<1>4. \E z \in S : \A y \in S : z <= y
  BY <1>2, <1>3
<1> QED
  BY <1>4 DEF Least

\* calculate_next_timeout is a number of ticks.
LEMMA TimeoutNat ==
  ASSUME ClockTypes PROVE calculate_next_timeout \in Int
<1> DEFINE a == MaxTick - (told % M) + 1
           wrap == Least({a, MaxTick})
           until == IF wait_list # {} THEN Least(wait_list) - told ELSE MaxTick
           next == IF wrap < until THEN wrap - 1 ELSE until
<1>1. told \in Nat /\ MaxTick \in Nat /\ M \in Nat \ {0} /\ told % M \in Nat
  BY TicklessAssumption DEF ClockTypes, M
<1>2. a \in Int
  BY <1>1
<1>3. wrap \in Int
  BY <1>1, <1>2, LeastOfTwo
<1>4. wait_list \subseteq Nat
  BY DEF wait_list, ClockTypes, Thread
<1>5. until \in Int
  <2>1. CASE wait_list = {}
    BY <2>1, <1>1
  <2>2. CASE wait_list # {}
    <3>1. Least(wait_list) \in Nat
      BY <2>2, <1>4, LeastOfNat
    <3> QED
      BY <2>2, <3>1, <1>1
  <2> QED
    BY <2>1, <2>2
<1> HIDE DEF a, wrap, until
<1>6. next \in Int
  BY <1>3, <1>5
<1>7. calculate_next_timeout = IF next = 0 THEN 1 ELSE next
  BY DEF calculate_next_timeout, next, until, wrap, a
<1> QED
  BY <1>6, <1>7

\* The length of the long period fits the counter and is less than the timeout.
LEMMA LongTicks ==
  ASSUME NEW timeout \in Int, long_ticks(timeout) >= 2
  PROVE  long_ticks(timeout) \in 2 .. MaxLong /\ long_ticks(timeout) <= timeout - 1
<1>1. long_ticks(timeout) = IF timeout - 1 <= MaxLong THEN timeout - 1 ELSE MaxLong
  BY LeastOfTwo, Sizes DEF long_ticks
<1> QED
  BY <1>1, Sizes

\* The idle task begins to arm when the tick that runs has less than a period
\* left: a long first period after a restart is over.
LEMMA IdleEnterClock ==
  ASSUME NEW d \in Nat, ClockTypes, ClockOK(d), ~SlowClock, IdleEnter
  PROVE  ClockTypes' /\ ClockOK(d)'
<1> DEFINE n == long_ticks(calculate_next_timeout)
<1>1. /\ port' = [port EXCEPT !.expected = n] /\ n >= 2 /\ port.state = "off"
      /\ idle = "idle" /\ idle' = "load" /\ stk.cvr < Tpp /\ ~handler /\ rs.pc = "none"
      /\ UNCHANGED <<stk, told, thr, deleted, rs, handler, cycles, lat, age>>
  BY DEF IdleEnter, IdleRuns, Masked, Code
<1>2. n \in 2 .. MaxLong
  BY <1>1, TimeoutNat, LongTicks
<1> HIDE DEF n
<1>3. /\ port'.expected = n /\ port'.state = "off"
      /\ port' \in [state : {"off", "armed", "sleeping"}, expected : 0 .. MaxLong]
  BY <1>1, <1>2, Sizes DEF ClockTypes
<1>4. ClockTypes'
  BY <1>1, <1>3 DEF ClockTypes
<1>5. Due' = Due /\ Left' = Left /\ Base' = Base
  BY <1>1 DEF Due, Left, Base
<1>6. Gap(d)' = Gap(d)
  BY <1>1, <1>5 DEF Gap
<1>7. TickRuns(d)' = TickRuns(d) /\ NextRuns(d)' = NextRuns(d)
  BY <1>1, <1>5, <1>6 DEF TickRuns, NextRuns
<1>8. Control' /\ NoSecond'
  BY <1>1, <1>2, <1>3, <1>5 DEF ClockOK, Control, NoSecond, Arming
<1>9. OffOK(d)'
  BY <1>1, <1>3, <1>7 DEF ClockOK, OffOK
<1>10. /\ ArmingOK(d)' /\ ArmedOK(d)' /\ BoundaryOK(d)'
       /\ SleepingOK(d)' /\ RestartOK(d)' /\ FirstOK(d)'
  BY <1>1, <1>3 DEF ArmingOK, ArmedOK, BoundaryOK, SleepingOK, RestartOK, FirstOK
<1> QED
  BY <1>4, <1>8, <1>9, <1>10 DEF ClockOK

\* The reload value is written: when the counter stands at the boundary, the
\* period after it is the long one.
LEMMA SetReloadClock ==
  ASSUME NEW d \in Nat, ClockTypes, ClockOK(d), SetReload PROVE ClockTypes' /\ ClockOK(d)'
<1>1. /\ stk' = [stk EXCEPT !.rvr = Long - 1]
      /\ idle = "load" /\ idle' = "pending" /\ age' = 0
      /\ UNCHANGED <<port, told, thr, deleted, rs, handler, cycles, lat>>
  BY DEF SetReload, Access, Long
<1>2. /\ ~handler /\ rs.pc = "none" /\ port.state = "off" /\ port.expected >= 2
      /\ stk.wrap = Due
  BY <1>1 DEF ClockOK, Control, Arming
<1>3. /\ Base \in Nat /\ Long \in Nat /\ Left \in Nat /\ Gap(d) \in Int /\ lat \in Nat
      /\ Long >= 2 * Tpp /\ cycles \in Nat /\ stk.cvr \in Nat /\ stk.rvr \in Nat /\ lat <= Latency
  BY <1>2, Measures, Sizes DEF ClockTypes
<1>4. Long - 1 \in Nat
  BY <1>3, Sizes
<1>5. /\ stk'.cvr = stk.cvr /\ stk'.rvr = Long - 1 /\ stk'.pend = stk.pend /\ stk'.wrap = stk.wrap
      /\ stk' \in [cvr : Nat, rvr : Nat, pend : BOOLEAN, wrap : BOOLEAN]
  BY <1>1, <1>4 DEF ClockTypes
<1>6. ClockTypes'
  BY <1>1, <1>5, Sizes DEF ClockTypes
<1>7. Due' = Due /\ Base' = Base /\ Long' = Long
  BY <1>1, <1>5 DEF Due, Base, Long
<1>8. /\ stk.cvr # 0 => Left' = Left /\ Gap(d)' = Gap(d)
      /\ stk.cvr = 0 => Left' = Long /\ Gap(d)' = Gap(d) - Left + Long
  BY <1>1, <1>3, <1>5, <1>7 DEF Left, Gap
<1>9. Control'
  BY <1>1, <1>2, <1>5, <1>7 DEF ClockOK, Control, Arming
<1>10. NoSecond'
  BY <1>1, <1>2, <1>3, <1>5, <1>7, <1>8, Sizes DEF ClockOK, NoSecond, Restarting
<1>11. ArmingOK(d)'
  <2>1. CASE TickRuns(d)
    <3>1. stk.cvr < Tpp /\ stk.cvr # 0
      BY <2>1, <1>1, <1>2, <1>3, Sizes DEF ClockOK, OffOK, NoSecond, NextRuns, TickRuns, Restarting
    <3>2. TickRuns(d)'
      BY <2>1, <3>1, <1>7, <1>8 DEF TickRuns
    <3> QED
      BY <3>1, <3>2, <1>1, <1>5, <1>7 DEF ArmingOK
  <2>2. CASE NextRuns(d) /\ stk.cvr # 0
    BY <2>2, <1>1, <1>5, <1>7, <1>8 DEF ArmingOK, NextRuns
  <2>3. CASE NextRuns(d) /\ stk.cvr = 0
    <3>1. Left = Tpp
      BY <2>3, <1>1, <1>2, <1>3, Sizes DEF ClockOK, OffOK, Left
    <3>2. LongRuns(d)'
      BY <2>3, <3>1, <1>1, <1>3, <1>5, <1>7, <1>8, Sizes DEF NextRuns, LongRuns
    <3> QED
      BY <3>2, <1>1, <1>5, <1>7 DEF ArmingOK
  <2> QED
    BY <2>1, <2>2, <2>3, <1>1, <1>2 DEF ClockOK, OffOK
<1>12. OffOK(d)' /\ ArmedOK(d)' /\ BoundaryOK(d)' /\ SleepingOK(d)' /\ RestartOK(d)' /\ FirstOK(d)'
  BY <1>1, <1>2 DEF OffOK, ArmedOK, BoundaryOK, SleepingOK, RestartOK, FirstOK
<1> QED
  BY <1>6, <1>9, <1>10, <1>11, <1>12 DEF ClockOK

\* The timer is armed: the tick that runs will be followed by the long period,
\* or the long period runs already.
LEMMA ArmClock ==
  ASSUME NEW d \in Nat, ClockTypes, ClockOK(d), Arm, idle \in {"pending", "counter"}, age' = 0,
         TickRuns(d) \/ LongRuns(d),
         UNCHANGED <<stk, told, thr, deleted, rs, handler, cycles, lat>>
  PROVE  ClockTypes' /\ ClockOK(d)'
<1>1. idle' = "sleep" /\ port' = [port EXCEPT !.state = "armed"]
  BY DEF Arm
<1>2. /\ ~handler /\ rs.pc = "none" /\ port.state = "off" /\ port.expected >= 2
      /\ stk.wrap = Due /\ stk.rvr = Long - 1
  BY DEF ClockOK, Control, Arming, ArmingOK
<1>3. /\ port'.state = "armed" /\ port'.expected = port.expected
      /\ port' \in [state : {"off", "armed", "sleeping"}, expected : 0 .. MaxLong]
  BY <1>1 DEF ClockTypes
<1>4. ClockTypes'
  BY <1>1, <1>3, Sizes DEF ClockTypes
<1>5. Due' = Due /\ Left' = Left /\ Base' = Base /\ Long' = Long
  BY <1>3 DEF Due, Left, Base, Long
<1>6. Gap(d)' = Gap(d)
  BY <1>5 DEF Gap
<1>7. TickRuns(d)' = TickRuns(d) /\ LongRuns(d)' = LongRuns(d)
  BY <1>5, <1>6 DEF TickRuns, LongRuns
<1>8. Control' /\ NoSecond'
  BY <1>1, <1>2, <1>3, <1>5 DEF ClockOK, Control, NoSecond, Arming, Restarting
<1>9. TickRuns(d) => stk.cvr < Tpp
  BY DEF ClockOK, ArmingOK, TickRuns, NextRuns, LongRuns
<1>10. ArmedOK(d)'
  BY <1>2, <1>5, <1>7, <1>9 DEF ArmedOK
<1>11. OffOK(d)' /\ ArmingOK(d)' /\ BoundaryOK(d)' /\ SleepingOK(d)' /\ RestartOK(d)' /\ FirstOK(d)'
  BY <1>1, <1>2, <1>3 DEF OffOK, ArmingOK, BoundaryOK, SleepingOK, RestartOK, FirstOK
<1> QED
  BY <1>4, <1>8, <1>10, <1>11 DEF ClockOK

\* The arming goes on to its next test.
LEMMA ArmingClock ==
  ASSUME NEW d \in Nat, ClockTypes, ClockOK(d),
         idle \in {"pending", "counter"}, idle' \in {"counter", "abort"},
         age' = 0, \/ NextRuns(d) /\ stk.cvr # 0
                   \/ LongRuns(d) /\ idle' = "counter",
         UNCHANGED <<stk, port, told, thr, deleted, rs, handler, cycles, lat>>
  PROVE  ClockTypes' /\ ClockOK(d)'
<1>1. /\ ~handler /\ rs.pc = "none" /\ port.state = "off" /\ port.expected >= 2
      /\ stk.wrap = Due /\ stk.rvr = Long - 1
  BY DEF ClockOK, Control, Arming, ArmingOK
<1>2. ClockTypes'
  BY Sizes DEF ClockTypes
<1>3. Due' = Due /\ Left' = Left /\ Base' = Base /\ Long' = Long
  BY DEF Due, Left, Base, Long
<1>4. Gap(d)' = Gap(d)
  BY <1>3 DEF Gap
<1>5. NextRuns(d)' = NextRuns(d) /\ LongRuns(d)' = LongRuns(d)
  BY <1>3, <1>4 DEF NextRuns, LongRuns
<1>6. Control' /\ NoSecond'
  BY <1>1, <1>3 DEF ClockOK, Control, NoSecond, Arming, Restarting
<1>7. ArmingOK(d)'
  BY <1>1, <1>3, <1>5 DEF ArmingOK
<1>8. OffOK(d)' /\ ArmedOK(d)' /\ BoundaryOK(d)' /\ SleepingOK(d)' /\ RestartOK(d)' /\ FirstOK(d)'
  BY <1>1 DEF OffOK, ArmedOK, BoundaryOK, SleepingOK, RestartOK, FirstOK
<1> QED
  BY <1>2, <1>6, <1>7, <1>8 DEF ClockOK

\* The pending bit tells whether the boundary came.
LEMMA ReadPendingClock ==
  ASSUME NEW d \in Nat, ClockTypes, ClockOK(d), ReadPending PROVE ClockTypes' /\ ClockOK(d)'
<1>1. /\ idle = "pending" /\ age' = 0 /\ ~handler
      /\ UNCHANGED <<stk, told, thr, deleted, rs, handler, cycles, lat>>
  BY DEF ReadPending, Access, ClockOK, Control, Arming
<1>2. CASE stk.pend
  <2>1. idle' = "counter" /\ UNCHANGED port
    BY <1>2 DEF ReadPending
  <2>2. (NextRuns(d) /\ stk.cvr # 0) \/ LongRuns(d)
    BY <1>1, <1>2 DEF ClockOK, ArmingOK, TickRuns, Due
  <2> QED
    BY <2>1, <2>2, <1>1, ArmingClock
<1>3. CASE ~stk.pend
  <2>1. Arm
    BY <1>3 DEF ReadPending
  <2>2. TickRuns(d)
    BY <1>1, <1>3 DEF ClockOK, ArmingOK, NextRuns, LongRuns, Due
  <2> QED
    BY <2>1, <2>2, <1>1, ArmClock
<1> QED
  BY <1>2, <1>3

\* The counter tells whether the long period was loaded at the boundary.
LEMMA ReadCounterClock ==
  ASSUME NEW d \in Nat, ClockTypes, ClockOK(d), ~SlowClock, ReadCounter
  PROVE  ClockTypes' /\ ClockOK(d)'
<1>1. /\ idle = "counter" /\ age' = 0 /\ ~handler /\ age > 0 /\ port.expected >= 2
      /\ UNCHANGED <<stk, told, thr, deleted, rs, handler, cycles, lat>>
  BY DEF ReadCounter, Access, Passed, ClockOK, Control, Arming
<1>2. /\ stk.cvr \in Nat /\ lat \in Nat /\ lat <= Latency /\ Long >= 2 * Tpp /\ Long \in Nat
  BY <1>1, Measures, Sizes DEF ClockTypes
<1>3. /\ stk.cvr # 0
      /\ NextRuns(d) \/ LongRuns(d)
  BY <1>1 DEF ClockOK, ArmingOK
<1>4. LongRuns(d) => stk.cvr >= Tpp
  BY <1>2, <1>3, Sizes DEF LongRuns, Left
<1>5. CASE stk.cvr < Tpp
  <2>1. idle' = "abort" /\ UNCHANGED port
    BY <1>5 DEF ReadCounter
  <2>2. NextRuns(d) /\ stk.cvr # 0
    BY <1>2, <1>3, <1>4, <1>5, Sizes
  <2> QED
    BY <2>1, <2>2, <1>1, ArmingClock
<1>6. CASE ~(stk.cvr < Tpp)
  <2>1. Arm
    BY <1>6 DEF ReadCounter
  <2>2. LongRuns(d)
    BY <1>3, <1>6 DEF NextRuns
  <2> QED
    BY <2>1, <2>2, <1>1, ArmClock
<1> QED
  BY <1>5, <1>6

\* The arming is given up: the period that runs is a tick, and so is the next.
LEMMA AbortClock ==
  ASSUME NEW d \in Nat, ClockTypes, ClockOK(d), Abort PROVE ClockTypes' /\ ClockOK(d)'
<1>1. /\ stk' = [stk EXCEPT !.rvr = Tpp - 1] /\ idle = "abort" /\ idle' = "idle" /\ age' = 0
      /\ UNCHANGED <<port, told, thr, deleted, rs, handler, cycles, lat>>
  BY DEF Abort, Access
<1>2. /\ ~handler /\ rs.pc = "none" /\ port.state = "off"
      /\ stk.wrap = Due /\ NextRuns(d) /\ stk.cvr # 0
  BY <1>1 DEF ClockOK, Control, Arming, ArmingOK
<1>3. /\ stk'.cvr = stk.cvr /\ stk'.rvr = Tpp - 1 /\ stk'.pend = stk.pend /\ stk'.wrap = stk.wrap
      /\ stk' \in [cvr : Nat, rvr : Nat, pend : BOOLEAN, wrap : BOOLEAN]
  BY <1>1, Sizes DEF ClockTypes
<1>4. ClockTypes'
  BY <1>1, <1>3, Sizes DEF ClockTypes
<1>5. Due' = Due /\ Base' = Base /\ Left' = Left
  BY <1>1, <1>2, <1>3 DEF Due, Base, Left
<1>6. NextRuns(d)'
  BY <1>1, <1>2, <1>3, <1>5 DEF NextRuns, Gap
<1>7. Control' /\ NoSecond'
  BY <1>1, <1>2, <1>3, <1>5 DEF ClockOK, Control, NoSecond, Arming, Restarting
<1>8. OffOK(d)'
  BY <1>1, <1>3, <1>6 DEF OffOK
<1>9. /\ ArmingOK(d)' /\ ArmedOK(d)' /\ BoundaryOK(d)'
      /\ SleepingOK(d)' /\ RestartOK(d)' /\ FirstOK(d)'
  BY <1>1, <1>2 DEF ArmingOK, ArmedOK, BoundaryOK, SleepingOK, RestartOK, FirstOK
<1> QED
  BY <1>4, <1>7, <1>8, <1>9 DEF ClockOK

-----------------------------------------------------------------------------
(***************************************************************************)
(* resync.                                                                 *)
(***************************************************************************)

\* The reload value is restored: when the counter stands at the boundary, the
\* period after it is a tick.
LEMMA ResyncPeriodClock ==
  ASSUME NEW d \in Nat, ClockTypes, ClockOK(d), ResyncPeriod PROVE ClockTypes' /\ ClockOK(d)'
<1>1. /\ stk' = [stk EXCEPT !.rvr = Tpp - 1] /\ rs.pc = "period" /\ age' = 0
      /\ rs' = [rs EXCEPT !.pc = "boundary"]
      /\ UNCHANGED <<port, told, thr, deleted, idle, handler, cycles, lat>>
  BY DEF ResyncPeriod, Access
<1>2. /\ ~handler /\ port.state = "armed" /\ idle \in {"idle", "sleep"} /\ stk.wrap = Due
      /\ port.expected >= 2
  BY <1>1 DEF ClockOK, Control
<1>3. /\ Base \in Nat /\ Long \in Nat /\ Left \in Nat /\ Gap(d) \in Int /\ lat \in Nat
      /\ Long >= 2 * Tpp /\ cycles \in Nat /\ stk.cvr \in Nat /\ stk.rvr \in Nat /\ lat <= Latency
  BY <1>2, Measures, Sizes DEF ClockTypes
<1>4. /\ stk'.cvr = stk.cvr /\ stk'.rvr = Tpp - 1 /\ stk'.pend = stk.pend /\ stk'.wrap = stk.wrap
      /\ stk' \in [cvr : Nat, rvr : Nat, pend : BOOLEAN, wrap : BOOLEAN]
      /\ rs'.pc = "boundary"
  BY <1>1, Sizes DEF ClockTypes
<1>5. ClockTypes'
  BY <1>1, <1>4, Sizes DEF ClockTypes
<1>6. Due' = Due /\ Base' = Base /\ Long' = Long
  BY <1>1, <1>4 DEF Due, Base, Long
<1>7. /\ stk.cvr # 0 => Left' = Left /\ Gap(d)' = Gap(d)
      /\ stk.cvr = 0 => Left' = Tpp /\ Gap(d)' = Gap(d) - Left + Tpp
  BY <1>1, <1>3, <1>4, <1>6, Sizes DEF Left, Gap
<1>8. Control'
  BY <1>1, <1>2, <1>4, <1>6 DEF ClockOK, Control, Arming
<1>9. NoSecond'
  BY <1>1, <1>2, <1>3, <1>4, <1>6, <1>7, Sizes DEF ClockOK, NoSecond, Restarting
<1>10. BoundaryOK(d)'
  <2>1. CASE TickRuns(d)
    <3>1. stk.cvr < Tpp /\ stk.cvr # 0
      BY <2>1, <1>1, <1>2, <1>3 DEF ClockOK, ArmedOK, NoSecond, TickRuns, LongRuns, Restarting
    <3>2. TickRuns(d)'
      BY <2>1, <3>1, <1>6, <1>7 DEF TickRuns
    <3> QED
      BY <3>1, <3>2, <1>4 DEF BoundaryOK
  <2>2. CASE LongRuns(d) /\ stk.cvr # 0
    <3>1. LongRuns(d)'
      BY <2>2, <1>1, <1>4, <1>6, <1>7 DEF LongRuns
    <3> QED
      BY <2>2, <3>1, <1>4 DEF BoundaryOK
  <2>3. CASE LongRuns(d) /\ stk.cvr = 0
    <3>1. Left = Long
      BY <2>3, <1>1, <1>2, <1>3 DEF ClockOK, ArmedOK, Left
    <3>2. NextRuns(d)'
      BY <2>3, <3>1, <1>3, <1>4, <1>6, <1>7, Sizes DEF NextRuns, LongRuns
    <3> QED
      BY <3>2, <1>4 DEF BoundaryOK
  <2> QED
    BY <2>1, <2>2, <2>3, <1>1, <1>2 DEF ClockOK, ArmedOK
<1>11. OffOK(d)' /\ ArmingOK(d)' /\ ArmedOK(d)' /\ SleepingOK(d)' /\ RestartOK(d)' /\ FirstOK(d)'
  BY <1>1, <1>2, <1>4 DEF OffOK, ArmingOK, ArmedOK, SleepingOK, RestartOK, FirstOK
<1> QED
  BY <1>5, <1>8, <1>9, <1>10, <1>11 DEF ClockOK

\* The long period does not run: the ticks are periodic again.
LEMMA ResyncNotBegunClock ==
  ASSUME NEW d \in Nat, ClockTypes, ClockOK(d), rs.pc = "boundary", stk.cvr < Tpp, rs' = NoResync,
         port' = [port EXCEPT !.state = "off"], age' = 0,
         UNCHANGED <<stk, told, thr, deleted, idle, handler, cycles, lat>>
  PROVE  ClockTypes' /\ ClockOK(d)'
<1>1. /\ ~handler /\ port.state = "armed" /\ idle \in {"idle", "sleep"} /\ stk.wrap = Due
      /\ port.expected >= 2
  BY DEF ClockOK, Control
<1>2. /\ Long \in Nat /\ lat \in Nat
      /\ Long >= 2 * Tpp /\ stk.cvr \in Nat /\ lat <= Latency
  BY <1>1, Measures, Sizes DEF ClockTypes
<1>3. /\ port'.state = "off" /\ port'.expected = port.expected /\ rs'.pc = "none"
      /\ port' \in [state : {"off", "armed", "sleeping"}, expected : 0 .. MaxLong]
  BY DEF ClockTypes, NoResync
<1>4. ClockTypes'
  BY <1>3, Sizes DEF ClockTypes, NoResync
<1>5. Due' = Due /\ Base' = Base /\ Left' = Left
  BY DEF Due, Base, Left
<1>6. Gap(d)' = Gap(d)
  BY <1>5 DEF Gap
<1>7. TickRuns(d)' = TickRuns(d) /\ NextRuns(d)' = NextRuns(d)
  BY <1>5, <1>6 DEF TickRuns, NextRuns
<1>8. Control' /\ NoSecond'
  BY <1>1, <1>3, <1>5 DEF ClockOK, Control, NoSecond, Arming, Restarting
<1>9. stk.rvr = Tpp - 1 /\ (TickRuns(d) \/ NextRuns(d))
  <2>1. ~(LongRuns(d) /\ stk.cvr # 0)
    BY <1>2, Sizes DEF LongRuns, Left
  <2> QED
    BY <2>1 DEF ClockOK, BoundaryOK
<1>10. stk.cvr < 2 * Tpp
  BY <1>2, Sizes
<1>11. OffOK(d)'
  BY <1>1, <1>7, <1>9, <1>10 DEF OffOK
<1>12. /\ ArmingOK(d)' /\ ArmedOK(d)' /\ BoundaryOK(d)'
       /\ SleepingOK(d)' /\ RestartOK(d)' /\ FirstOK(d)'
  BY <1>1, <1>3 DEF ArmingOK, ArmedOK, BoundaryOK, SleepingOK, RestartOK, FirstOK
<1> QED
  BY <1>4, <1>8, <1>11, <1>12 DEF ClockOK

\* The long period runs: its boundary is counted here, and the counter value
\* of this moment is what the restart works with.
LEMMA ResyncBegunClock ==
  ASSUME NEW d \in Nat, ClockTypes, ClockOK(d), rs.pc = "boundary", stk.cvr >= Tpp,
         rs' = [pc |-> "restart", cvr |-> stk.cvr, n |-> 1],
         stk' = [stk EXCEPT !.pend = FALSE, !.wrap = FALSE], age' = 0,
         UNCHANGED <<port, told, thr, deleted, idle, handler, cycles, lat>>
  PROVE  ClockTypes' /\ ClockOK(d)'
<1>1. /\ ~handler /\ port.state = "armed" /\ idle \in {"idle", "sleep"} /\ stk.wrap = Due
      /\ port.expected >= 2
  BY DEF ClockOK, Control
<1>2. /\ Base \in Nat /\ Long \in Nat /\ lat \in Nat /\ cycles \in Nat
      /\ Long >= 2 * Tpp /\ stk.cvr \in Nat /\ lat <= Latency
  BY <1>1, Measures, Sizes DEF ClockTypes
<1>3. /\ stk'.cvr = stk.cvr /\ stk'.rvr = stk.rvr /\ stk'.pend = FALSE /\ stk'.wrap = FALSE
      /\ stk' \in [cvr : Nat, rvr : Nat, pend : BOOLEAN, wrap : BOOLEAN]
      /\ rs'.pc = "restart" /\ rs'.cvr = stk.cvr /\ rs'.n = 1
  BY DEF ClockTypes
<1>4. ClockTypes'
  BY <1>2, <1>3, Sizes DEF ClockTypes
<1>5. Due' = FALSE /\ Base' = Base /\ Long' = Long
  BY <1>1, <1>3 DEF Due, Base, Long
<1>6. LongRuns(d) /\ stk.cvr # 0 /\ stk.rvr = Tpp - 1
  BY <1>2, Sizes DEF ClockOK, BoundaryOK, NextRuns
<1>7. Base + Tpp + Long - (cycles - d) = stk.cvr /\ stk.cvr < Long
  BY <1>2, <1>6, Sizes DEF LongRuns, Gap, Left
<1>8. RestartOK(d)'
  <2>1. stk'.rvr = Tpp - 1 /\ stk'.cvr < Long'
    BY <1>3, <1>5, <1>6, <1>7
  <2>2. rs'.n = IF port'.state = "armed" THEN 1 ELSE 0
    BY <1>1, <1>3
  <2>3. Base' + rs'.n * Tpp + Long' + age' - (cycles' - d) = rs'.cvr
    BY <1>2, <1>3, <1>5, <1>7, Sizes
  <2>4. rs'.cvr \in 1 .. Long' - 1 /\ age' < Skew
    BY <1>2, <1>3, <1>5, <1>7, Sizes
  <2> QED
    BY <2>1, <2>2, <2>3, <2>4 DEF RestartOK
<1>9. Control' /\ NoSecond'
  BY <1>1, <1>3, <1>5 DEF ClockOK, Control, NoSecond, Arming, Restarting
<1>10. OffOK(d)' /\ ArmingOK(d)' /\ ArmedOK(d)' /\ BoundaryOK(d)' /\ SleepingOK(d)' /\ FirstOK(d)'
  BY <1>1, <1>3 DEF OffOK, ArmingOK, ArmedOK, BoundaryOK, SleepingOK, FirstOK
<1> QED
  BY <1>4, <1>8, <1>9, <1>10 DEF ClockOK

\* The two answers together.
LEMMA ResyncBoundaryClock ==
  ASSUME NEW d \in Nat, ClockTypes, ClockOK(d), ResyncBoundary PROVE ClockTypes' /\ ClockOK(d)'
<1>1. rs.pc = "boundary" /\ age' = 0 /\ UNCHANGED <<told, thr, deleted, idle, handler, cycles, lat>>
  BY DEF ResyncBoundary, Access
<1>2. CASE stk.cvr < Tpp /\ rs' = NoResync /\ port' = [port EXCEPT !.state = "off"] /\ UNCHANGED stk
  BY <1>1, <1>2, ResyncNotBegunClock
<1>3. CASE /\ stk.cvr >= Tpp
           /\ rs' = [pc |-> "restart", cvr |-> stk.cvr, n |-> 1]
           /\ stk' = [stk EXCEPT !.pend = FALSE, !.wrap = FALSE]
           /\ UNCHANGED port
  BY <1>1, <1>3, ResyncBegunClock
<1> QED
  BY <1>2, <1>3 DEF ResyncBoundary

\* The counter is sampled in the long period.
LEMMA ResyncSampleClock ==
  ASSUME NEW d \in Nat, ClockTypes, ClockOK(d), ResyncSample PROVE ClockTypes' /\ ClockOK(d)'
<1>1. /\ rs.pc = "sample" /\ rs' = [pc |-> "ended", cvr |-> stk.cvr, n |-> 0] /\ age' = 0
      /\ UNCHANGED <<stk, port, told, thr, deleted, idle, handler, cycles, lat>>
  BY DEF ResyncSample, Access
<1>2. /\ ~handler /\ port.state = "sleeping" /\ idle \in {"idle", "sleep"} /\ stk.wrap = Due
      /\ port.expected >= 2
  BY <1>1 DEF ClockOK, Control
<1>3. rs'.pc = "ended" /\ rs'.cvr = stk.cvr /\ rs'.n = 0 /\ stk.cvr \in Nat
  BY <1>1 DEF ClockTypes
<1>4. ClockTypes'
  BY <1>1, <1>3, Sizes DEF ClockTypes
<1>5. Due' = Due /\ Left' = Left /\ Base' = Base /\ Long' = Long
  BY <1>1 DEF Due, Left, Base, Long
<1>6. Gap(d)' = Gap(d)
  BY <1>1, <1>5 DEF Gap
<1>7. ~stk.pend => stk.cvr < Long
  BY <1>1, <1>2 DEF ClockOK, SleepingOK, Due
<1>8. SleepingOK(d)'
  BY <1>1, <1>2, <1>3, <1>5, <1>6, <1>7 DEF ClockOK, SleepingOK
<1>9. Control' /\ NoSecond'
  BY <1>1, <1>2, <1>3, <1>5 DEF ClockOK, Control, NoSecond, Arming, Restarting
<1>10. OffOK(d)' /\ ArmingOK(d)' /\ ArmedOK(d)' /\ BoundaryOK(d)' /\ RestartOK(d)' /\ FirstOK(d)'
  BY <1>1, <1>2, <1>3 DEF OffOK, ArmingOK, ArmedOK, BoundaryOK, RestartOK, FirstOK
<1> QED
  BY <1>4, <1>8, <1>9, <1>10 DEF ClockOK

\* A long period that has ended is left to the handler; one that has not will
\* be cut short.
LEMMA ResyncEndedClock ==
  ASSUME NEW d \in Nat, ClockTypes, ClockOK(d), ResyncEnded PROVE ClockTypes' /\ ClockOK(d)'
<1>1. /\ rs.pc = "ended" /\ age < Skew
      /\ rs' = IF stk.pend THEN NoResync ELSE [rs EXCEPT !.pc = "restart"]
      /\ UNCHANGED <<stk, port, told, thr, deleted, idle, handler, cycles, lat, age>>
  BY DEF ResyncEnded, Code
<1>2. /\ ~handler /\ port.state = "sleeping" /\ idle \in {"idle", "sleep"} /\ stk.wrap = Due
      /\ port.expected >= 2 /\ rs.n = 0
  BY <1>1 DEF ClockOK, Control
<1>3. /\ Base \in Nat /\ Long \in Nat /\ cycles \in Nat /\ stk.cvr \in Nat /\ age \in Nat
      /\ rs.cvr \in Nat
  BY Measures, Sizes DEF ClockTypes
<1>4. /\ rs' \in [pc : {"none", "restart"}, cvr : Nat, n : Nat]
      /\ stk.pend => rs'.pc = "none"
      /\ ~stk.pend => rs'.pc = "restart" /\ rs'.cvr = rs.cvr /\ rs'.n = 0
  BY <1>1, <1>2 DEF ClockTypes, NoResync
<1>5. ClockTypes'
  BY <1>1, <1>4 DEF ClockTypes
<1>6. Due' = Due /\ Left' = Left /\ Base' = Base /\ Long' = Long
  BY <1>1 DEF Due, Left, Base, Long
<1>7. Gap(d)' = Gap(d)
  BY <1>1, <1>6 DEF Gap
<1>8. SleepingOK(d)'
  BY <1>1, <1>2, <1>4, <1>6, <1>7 DEF ClockOK, SleepingOK
<1>9. RestartOK(d)'
  <2> SUFFICES ASSUME ~stk.pend PROVE RestartOK(d)'
    BY <1>4 DEF RestartOK
  <2>1. ~Due /\ stk.cvr # 0 /\ Left = stk.cvr
    BY <1>1, <1>2 DEF ClockOK, NoSecond, Due, Restarting, Left
  <2>2. /\ rs.cvr = stk.cvr + age /\ rs.cvr < Long
        /\ Gap(d) = Long /\ stk.cvr < Long /\ stk.rvr = Tpp - 1
    BY <2>1, <1>1, <1>2, <1>3, Sizes DEF ClockOK, SleepingOK
  <2>3. Base' + rs'.n * Tpp + Long' + age' - (cycles' - d) = rs'.cvr
    BY <2>1, <2>2, <1>1, <1>3, <1>4, <1>6, Sizes DEF Gap
  <2>4. rs'.cvr \in 1 .. Long' - 1 /\ age' < Skew
    BY <2>1, <2>2, <1>1, <1>3, <1>4, <1>6, Sizes
  <2>5. stk'.rvr = Tpp - 1 /\ stk'.cvr < Long' /\ rs'.n = IF port'.state = "armed" THEN 1 ELSE 0
    BY <2>2, <1>1, <1>2, <1>4, <1>6
  <2> QED
    BY <2>3, <2>4, <2>5 DEF RestartOK
<1>10. Control' /\ NoSecond'
  BY <1>1, <1>2, <1>4, <1>6 DEF ClockOK, Control, NoSecond, Arming, Restarting
<1>11. OffOK(d)' /\ ArmingOK(d)' /\ ArmedOK(d)' /\ BoundaryOK(d)' /\ FirstOK(d)'
  BY <1>1, <1>2, <1>4 DEF OffOK, ArmingOK, ArmedOK, BoundaryOK, FirstOK
<1> QED
  BY <1>5, <1>8, <1>9, <1>10, <1>11 DEF ClockOK

\* Whole ticks and the rest.
LEMMA TicksAndRest ==
  \A x \in Nat : /\ x \div Tpp \in Nat /\ x % Tpp \in Nat /\ x % Tpp < Tpp
                 /\ x = (x \div Tpp) * Tpp + (x % Tpp)
<1> SUFFICES ASSUME NEW x \in Nat
             PROVE  /\ x \div Tpp \in Nat /\ x % Tpp \in Nat /\ x % Tpp < Tpp
                    /\ x = (x \div Tpp) * Tpp + (x % Tpp)
  OBVIOUS
<1>1. Tpp \in Nat /\ Tpp > 0
  BY Sizes
<1> QED
  BY <1>1

\* What a restart shifts the boundaries by, when the one after the sample has
\* come before it.
Slip(v) == LET left == left_cycles(v) IN IF left < Skew THEN Skew - left ELSE 0

\* systimer_split: the first period ends a whole number of ticks after the long
\* period began, and the slip later; it is long enough to write the reload
\* value in it.
LEMMA SplitExact ==
  ASSUME ClockTypes, NEW v \in Nat, v >= 1, v < Long
  PROVE  LET s == systimer_split(v)
         IN /\ s.n \in Nat /\ s.first \in Nat /\ Slip(v) \in Nat
            /\ s.first >= MinFirst /\ s.first < 2 * Tpp /\ Slip(v) < Skew
            /\ Slip(v) >= 1 <=> left_cycles(v) < Skew
            /\ Long - v + Skew - 1 - Slip(v) + s.first = s.n * Tpp + Tpp
            /\ s.n <= port.expected
<1> DEFINE ran == Long - 1 - v
           q == ran \div Tpp
           m == ran % Tpp
           left == Tpp - m
           first == IF left > Skew THEN left - Skew ELSE 0
           near == first < MinFirst
           s == systimer_split(v)
           slip == Slip(v)
<1>1. Long \in Nat /\ ran \in Nat
  BY Measures
<1>2. /\ s.n = q + IF near THEN 1 ELSE 0
      /\ s.first = first + IF near THEN Tpp ELSE 0
      /\ left_cycles(v) = left
      /\ slip = IF left < Skew THEN Skew - left ELSE 0
  BY DEF systimer_split, left_cycles, ran_cycles, Slip, Long
<1>3. q \in Nat /\ m \in Nat /\ m < Tpp /\ ran = q * Tpp + m
  BY <1>1, TicksAndRest
<1>4. (q + 1) * Tpp = q * Tpp + Tpp /\ q * Tpp \in Nat
  BY <1>3, TicksInCycles
<1>5. ran = Long - 1 - v
  OBVIOUS
<1> HIDE DEF ran, q, m, slip
<1>6. left \in Nat /\ left >= 1 /\ left <= Tpp /\ first \in Nat /\ first <= Tpp
  BY <1>3, Sizes
<1>7. /\ s.n \in Nat /\ s.first \in Nat /\ slip \in Nat /\ slip < Skew
      /\ slip >= 1 <=> left_cycles(v) < Skew
  BY <1>2, <1>3, <1>6, Sizes
<1>8. s.first >= MinFirst /\ s.first < 2 * Tpp
  BY <1>2, <1>6, Sizes
<1>9. Long - v + Skew - 1 - slip + s.first = s.n * Tpp + Tpp
  <2> DEFINE k == q * Tpp
  <2>1. k \in Nat /\ Long = v + 1 + k + m
    BY <1>1, <1>3, <1>4, <1>5
  <2>2. s.n * Tpp = k + IF near THEN Tpp ELSE 0
    BY <1>2, <1>3, <1>4, Sizes
  <2> HIDE DEF k
  <2>3. Long - v + Skew - 1 - slip + s.first = k + m + Skew - slip + s.first
    BY <2>1, <1>1, <1>3, <1>7, Sizes
  <2>4. CASE near
    BY <2>1, <2>2, <2>3, <2>4, <1>1, <1>2, <1>3, <1>6, <1>7, Sizes
  <2>5. CASE ~near
    BY <2>1, <2>2, <2>3, <2>5, <1>1, <1>2, <1>3, <1>6, <1>7, Sizes
  <2> QED
    BY <2>4, <2>5
<1>10. s.n <= port.expected
  <2>1. port.expected \in Nat
    BY Sizes DEF ClockTypes
  <2>2. q * Tpp < Long
    BY <1>1, <1>3, <1>4, <1>5
  <2>3. q < port.expected
    <3>1. port.expected <= q => Long <= q * Tpp
      BY <2>1, <1>3, TicksAdd DEF Long
    <3> QED
      BY <2>1, <2>2, <3>1, <1>1, <1>3, <1>4
  <2> QED
    BY <2>1, <2>3, <1>2, <1>3
<1> QED
  BY <1>7, <1>8, <1>9, <1>10 DEF slip

\* A step changes the delay d of the boundaries to e: only a restart that
\* comes after the next boundary does, and less than the skew.
Delays(d, e) ==
  \/ e = d /\ missed' = missed
  \/ ResyncRestart /\ e \in d + 1 .. d + Skew - 1 /\ missed' = missed + 1

\* The restart.
LEMMA ResyncRestartClock ==
  ASSUME NEW d \in Nat, ClockTypes, missed \in Nat, ClockOK(d), ResyncRestart
  PROVE  \E e \in Nat : Delays(d, e) /\ ClockTypes' /\ ClockOK(e)'
<1> DEFINE s == systimer_split(rs.cvr)
           slip == Slip(rs.cvr)
<1>1. /\ rs.pc = "restart" /\ age = Skew - 1 /\ age' = 0
      /\ stk' = [stk EXCEPT !.rvr = s.first - 1, !.cvr = 0]
      /\ rs' = [rs EXCEPT !.pc = "reload", !.n = rs.n + s.n]
      /\ missed' = missed + (IF left_cycles(rs.cvr) < Skew THEN 1 ELSE 0)
      /\ UNCHANGED <<cycles, lat, port, told, thr, deleted, idle, handler>>
  BY DEF ResyncRestart, ClockTypes
<1>2. /\ ~handler /\ port.state # "off" /\ idle \in {"idle", "sleep"} /\ stk.wrap = Due
      /\ port.expected >= 2
  BY <1>1 DEF ClockOK, Control
<1>3. /\ Base \in Nat /\ Long \in Nat /\ cycles \in Nat /\ rs.cvr \in Nat /\ rs.n \in Nat
      /\ rs.n * Tpp \in Nat
  BY Measures, Sizes, TicksInCycles DEF ClockTypes
<1>4. /\ Base + rs.n * Tpp + Long + age - (cycles - d) = rs.cvr
      /\ rs.cvr \in 1 .. Long - 1
  BY <1>1 DEF ClockOK, RestartOK
<1>5. /\ s.n \in Nat /\ s.first \in Nat /\ slip \in Nat
      /\ s.first >= MinFirst /\ s.first < 2 * Tpp /\ slip < Skew
      /\ slip >= 1 <=> left_cycles(rs.cvr) < Skew
      /\ Long - rs.cvr + Skew - 1 - slip + s.first = s.n * Tpp + Tpp
  BY <1>3, <1>4, SplitExact
<1>6. (rs.n + s.n) * Tpp = rs.n * Tpp + s.n * Tpp /\ s.n * Tpp \in Nat
  BY <1>3, <1>5, TicksAdd, TicksInCycles
<1> HIDE DEF s, slip
<1> PICK e \in Nat : e = d + slip
  BY <1>5
<1>7. s.first - 1 \in Nat /\ rs.n + s.n \in Nat
  BY <1>3, <1>5, Sizes
<1>8. /\ stk'.cvr = 0 /\ stk'.rvr = s.first - 1 /\ stk'.pend = stk.pend /\ stk'.wrap = stk.wrap
      /\ stk' \in [cvr : Nat, rvr : Nat, pend : BOOLEAN, wrap : BOOLEAN]
      /\ rs'.pc = "reload" /\ rs'.n = rs.n + s.n
  BY <1>1, <1>7 DEF ClockTypes
<1>9. cycles - d = Base + rs.n * Tpp + Long - rs.cvr + Skew - 1
  <2> DEFINE nt == rs.n * Tpp
  <2>1. nt \in Nat /\ Base + nt + Long + age - (cycles - d) = rs.cvr
    BY <1>3, <1>4
  <2> HIDE DEF nt
  <2>2. cycles - d = Base + nt + Long - rs.cvr + Skew - 1
    BY <2>1, <1>1, <1>3, Sizes
  <2> QED
    BY <2>2 DEF nt
<1>10. cycles' - e + s.first = Base + rs'.n * Tpp + Tpp
  <2> DEFINE nt == rs.n * Tpp
             st == s.n * Tpp
  <2>1. /\ nt \in Nat /\ st \in Nat /\ rs'.n * Tpp = nt + st
        /\ cycles - d = Base + nt + Long - rs.cvr + Skew - 1
        /\ Long - rs.cvr + Skew - 1 - slip + s.first = st + Tpp
    BY <1>3, <1>5, <1>6, <1>8, <1>9
  <2>2. rs.cvr < Long /\ rs.cvr >= 1
    BY <1>3, <1>4
  <2> HIDE DEF nt, st
  <2>3. cycles' - e + s.first = Base + (nt + st) + Tpp
    BY <2>1, <2>2, <1>1, <1>3, <1>5, Sizes
  <2> QED
    BY <2>1, <2>3
<1>11. ClockTypes'
  <2>1. rs' \in [pc : {"none", "period", "boundary", "sample", "ended", "restart", "reload", "clear"},
                 cvr : Nat, n : Nat]
    BY <1>1, <1>7 DEF ClockTypes
  <2> QED
    BY <2>1, <1>1, <1>8, <1>10, Sizes DEF ClockTypes
<1>12. Due' = Due /\ Base' = Base /\ Left' = s.first
  BY <1>1, <1>5, <1>8 DEF Due, Base, Left
<1>13. FirstOK(e)'
  BY <1>1, <1>5, <1>8, <1>10, <1>12, Sizes DEF FirstOK
<1>14. Control' /\ NoSecond'
  BY <1>1, <1>2, <1>8, <1>12 DEF ClockOK, Control, NoSecond, Arming, Restarting
<1>15. OffOK(e)' /\ ArmingOK(e)' /\ ArmedOK(e)' /\ BoundaryOK(e)' /\ SleepingOK(e)' /\ RestartOK(e)'
  BY <1>1, <1>2, <1>8 DEF OffOK, ArmingOK, ArmedOK, BoundaryOK, SleepingOK, RestartOK
<1>16. Delays(d, e)
  BY <1>1, <1>5, Sizes DEF Delays
<1>17. ClockOK(e)'
  BY <1>13, <1>14, <1>15 DEF ClockOK
<1> QED
  BY <1>11, <1>16, <1>17

\* The reload value of the periodic tick is written after the first period
\* was loaded.
LEMMA ResyncReloadClock ==
  ASSUME NEW d \in Nat, ClockTypes, ClockOK(d), ResyncReload PROVE ClockTypes' /\ ClockOK(d)'
<1>1. /\ rs.pc = "reload" /\ stk.cvr # 0
      /\ stk' = [stk EXCEPT !.rvr = Tpp - 1] /\ rs' = [rs EXCEPT !.pc = "clear"]
      /\ UNCHANGED <<port, told, thr, deleted, idle, handler, cycles, lat, age>>
  BY DEF ResyncReload, Code
<1>2. /\ ~handler /\ port.state # "off" /\ idle \in {"idle", "sleep"} /\ stk.wrap = Due
      /\ port.expected >= 2
  BY <1>1 DEF ClockOK, Control
<1>3. /\ stk'.cvr = stk.cvr /\ stk'.rvr = Tpp - 1 /\ stk'.pend = stk.pend /\ stk'.wrap = stk.wrap
      /\ stk' \in [cvr : Nat, rvr : Nat, pend : BOOLEAN, wrap : BOOLEAN]
      /\ rs'.pc = "clear" /\ rs'.n = rs.n
      /\ rs' \in [pc : {"clear"}, cvr : Nat, n : Nat]
  BY <1>1, Sizes DEF ClockTypes
<1>4. ClockTypes'
  BY <1>1, <1>3 DEF ClockTypes
<1>5. Due' = Due /\ Base' = Base /\ Left' = Left
  BY <1>1, <1>3 DEF Due, Base, Left
<1>6. FirstOK(d)'
  BY <1>1, <1>3, <1>5 DEF ClockOK, FirstOK
<1>7. Control' /\ NoSecond'
  BY <1>1, <1>2, <1>3, <1>5 DEF ClockOK, Control, NoSecond, Arming, Restarting
<1>8. OffOK(d)' /\ ArmingOK(d)' /\ ArmedOK(d)' /\ BoundaryOK(d)' /\ SleepingOK(d)' /\ RestartOK(d)'
  BY <1>1, <1>2, <1>3 DEF OffOK, ArmingOK, ArmedOK, BoundaryOK, SleepingOK, RestartOK
<1> QED
  BY <1>4, <1>6, <1>7, <1>8 DEF ClockOK

\* The ticks that ran are announced and the ticks are periodic again.
LEMMA ResyncClearClock ==
  ASSUME NEW d \in Nat, ClockTypes, ClockOK(d), ResyncClear PROVE ClockTypes' /\ ClockOK(d)'
<1>1. /\ rs.pc = "clear" /\ rs' = NoResync /\ advance_jiffies(rs.n)
      /\ stk' = [stk EXCEPT !.pend = FALSE, !.wrap = FALSE]
      /\ port' = [port EXCEPT !.state = "off"]
      /\ UNCHANGED <<deleted, idle, handler, cycles, lat, age>>
  BY DEF ResyncClear, Code
<1>2. /\ ~handler /\ port.state # "off" /\ idle \in {"idle", "sleep"}
  BY <1>1 DEF ClockOK, Control
<1>3. /\ stk'.cvr = stk.cvr /\ stk'.rvr = stk.rvr /\ stk'.pend = FALSE /\ stk'.wrap = FALSE
      /\ stk' \in [cvr : Nat, rvr : Nat, pend : BOOLEAN, wrap : BOOLEAN]
      /\ port'.state = "off" /\ port'.expected = port.expected /\ rs'.pc = "none"
      /\ port' \in [state : {"off", "armed", "sleeping"}, expected : 0 .. MaxLong]
  BY <1>1 DEF ClockTypes, NoResync
<1>4. rs.n \in Nat /\ Base \in Nat /\ Left \in Nat /\ cycles \in Nat /\ rs.n * Tpp \in Nat
  BY Measures, TicksInCycles DEF ClockTypes
<1>5. told' \in Nat /\ thr' \in [Threads -> Thread] /\ Base' = Base + rs.n * Tpp
  BY <1>1, <1>4, AdvanceTypes
<1>6. ClockTypes'
  BY <1>1, <1>3, <1>5 DEF ClockTypes, NoResync
<1>7. Due' = FALSE /\ Left' = Left /\ stk.cvr # 0 /\ Left = stk.cvr
  BY <1>1, <1>2, <1>3 DEF Due, Left, ClockOK, FirstOK
<1>8. cycles - d + Left = Base + rs.n * Tpp + Tpp /\ Left < 2 * Tpp /\ stk.rvr = Tpp - 1
  BY <1>1 DEF ClockOK, FirstOK
<1>9. Gap(d)' = Tpp
  <2> DEFINE nt == rs.n * Tpp
  <2>1. /\ nt \in Nat /\ cycles - d + Left = Base + nt + Tpp
        /\ Base' = Base + nt /\ cycles' = cycles /\ Left' = Left
        /\ Base \in Nat /\ Left \in Nat /\ cycles \in Nat
    BY <1>1, <1>4, <1>5, <1>7, <1>8
  <2> HIDE DEF nt
  <2>2. cycles - d + Left - (Base + nt) = Tpp
    BY <2>1, Sizes
  <2> QED
    BY <2>1, <2>2 DEF Gap
<1>10. OffOK(d)'
  <2>1. MaxLong # 1
    BY <1>2, Sizes DEF ClockOK, Control, ClockTypes
  <2> QED
    BY <2>1, <1>1, <1>2, <1>3, <1>7, <1>8, <1>9 DEF OffOK, TickRuns
<1>11. Control' /\ NoSecond'
  BY <1>1, <1>2, <1>3, <1>7 DEF Control, NoSecond, Arming
<1>12. /\ ArmingOK(d)' /\ ArmedOK(d)' /\ BoundaryOK(d)'
       /\ SleepingOK(d)' /\ RestartOK(d)' /\ FirstOK(d)'
  BY <1>1, <1>2, <1>3 DEF ArmingOK, ArmedOK, BoundaryOK, SleepingOK, RestartOK, FirstOK
<1> QED
  BY <1>6, <1>10, <1>11, <1>12 DEF ClockOK

-----------------------------------------------------------------------------
(***************************************************************************)
(* Threads, and all steps together.                                        *)
(***************************************************************************)

\* What threads do leaves the timer alone.
LEMMA ThreadClock ==
  ASSUME NEW d \in Nat, ClockTypes, ClockOK(d), NEW t \in Threads,
         Block(t) \/ Exit(t) \/ \E ticks \in Waits : Wait(t, ticks)
  PROVE  ClockTypes' /\ ClockOK(d)'
<1>1. UNCHANGED clockvars
  BY DEF Block, Exit, Wait, Code, clockvars
<1>2. thr' \in [Threads -> Thread] /\ deleted' \in BOOLEAN
  <2>1. thr \in [Threads -> Thread] /\ deleted \in BOOLEAN /\ told \in Nat
    BY DEF ClockTypes
  <2>2. CASE Block(t)
    BY <2>1, <2>2 DEF Block, Thread
  <2>3. CASE Exit(t)
    BY <2>1, <2>3 DEF Exit, Thread
  <2>4. CASE \E ticks \in Waits : Wait(t, ticks)
    <3>1. PICK ticks \in Waits : Wait(t, ticks)
      BY <2>4
    <3>2. told + ticks \in Nat
      BY <2>1, TicklessAssumption
    <3>3. [st |-> "wait", dl |-> told + ticks] \in Thread
      BY <3>2 DEF Thread
    <3> QED
      BY <2>1, <3>1, <3>3 DEF Wait
  <2> QED
    BY <2>2, <2>3, <2>4
<1>3. ClockTypes'
  BY <1>1, <1>2 DEF ClockTypes, clockvars
<1> QED
  BY <1>1, <1>3, ClockFrame

\* An interrupt handler wakes a thread, and resync begins.
LEMMA WakeClock ==
  ASSUME NEW d \in Nat, ClockTypes, ClockOK(d), NEW t \in Threads, Wake(t)
  PROVE  ClockTypes' /\ ClockOK(d)'
<1>1. /\ ~Masked /\ StartResync
      /\ thr' = [thr EXCEPT ![t] = [st |-> "ready", dl |-> 0]]
      /\ UNCHANGED <<stk, port, told, deleted, idle, handler, cycles, lat, age>>
  BY DEF Wake, Code
<1>2. (idle = "idle" \/ idle = "sleep") /\ idle' \in {"idle", "sleep"}
  BY <1>1 DEF Masked, ClockTypes
<1>3. ClockOK(d)' /\ rs' \in [pc : {"none", "period", "sample"}, cvr : Nat, n : Nat]
  BY <1>1, <1>2, StartResyncClock
<1>4. thr' \in [Threads -> Thread]
  BY <1>1 DEF ClockTypes, Thread
<1>5. ClockTypes'
  BY <1>1, <1>3, <1>4 DEF ClockTypes
<1> QED
  BY <1>3, <1>5

\* The idle task leaves its loop, and resync begins when the timer sleeps.
LEMMA IdleLeaveClock ==
  ASSUME NEW d \in Nat, ClockTypes, ClockOK(d), IdleLeave PROVE ClockTypes' /\ ClockOK(d)'
<1>1. /\ ~Masked /\ StartResync /\ idle = "sleep" /\ idle' = "idle"
      /\ UNCHANGED <<stk, port, told, thr, deleted, handler, cycles, lat, age>>
  BY DEF IdleLeave, IdleRuns, Code
<1>2. (idle = "idle" \/ idle = "sleep") /\ idle' \in {"idle", "sleep"}
  BY <1>1
<1>3. ClockOK(d)' /\ rs' \in [pc : {"none", "period", "sample"}, cvr : Nat, n : Nat]
  BY <1>1, <1>2, StartResyncClock
<1>4. ClockTypes'
  BY <1>1, <1>3 DEF ClockTypes
<1> QED
  BY <1>3, <1>4

\* The tasks that ended are reclaimed.
LEMMA ReclaimClock ==
  ASSUME NEW d \in Nat, ClockTypes, ClockOK(d), Reclaim PROVE ClockTypes' /\ ClockOK(d)'
<1>1. UNCHANGED clockvars /\ UNCHANGED thr /\ deleted' = FALSE
  BY DEF Reclaim, Code, clockvars
<1>2. ClockTypes'
  BY <1>1 DEF ClockTypes, clockvars
<1> QED
  BY <1>1, <1>2, ClockFrame

\* Initially the first tick runs.
LEMMA ClockInit ==
  ASSUME TicklessInit PROVE ClockTypes /\ ClockOK(0)
<1>1. /\ stk = [cvr |-> Tpp - 1, rvr |-> Tpp - 1, pend |-> FALSE, wrap |-> FALSE]
      /\ port = [state |-> "off", expected |-> 0] /\ told = 0 /\ cycles = 1
      /\ thr = [t \in Threads |-> [st |-> "ready", dl |-> 0]]
      /\ deleted = FALSE /\ idle = "idle" /\ rs = NoResync /\ handler = FALSE
      /\ lat = 0 /\ age = 0
  BY DEF TicklessInit
<1>2. ClockTypes
  <2>1. Tpp - 1 \in Nat /\ 0 \in 0 .. MaxLong /\ 0 \in 0 .. Latency /\ 0 \in 0 .. MinFirst
    BY Sizes
  <2>2. stk \in [cvr : Nat, rvr : Nat, pend : BOOLEAN, wrap : BOOLEAN]
    BY <1>1, <2>1
  <2>3. port \in [state : {"off", "armed", "sleeping"}, expected : 0 .. MaxLong]
    BY <1>1, <2>1
  <2>4. thr \in [Threads -> Thread]
    BY <1>1 DEF Thread
  <2> QED
    BY <1>1, <2>1, <2>2, <2>3, <2>4 DEF ClockTypes, NoResync
<1>3. /\ stk.cvr = Tpp - 1 /\ stk.rvr = Tpp - 1 /\ stk.pend = FALSE /\ stk.wrap = FALSE
      /\ rs.pc = "none" /\ port.state = "off"
  BY <1>1 DEF NoResync
<1>4. Due = FALSE /\ Left = Tpp - 1 /\ Base = 0
  BY <1>1, <1>3, Sizes DEF Due, Left, Base
<1>5. Gap(0) = Tpp
  BY <1>1, <1>4, Sizes DEF Gap
<1>6. OffOK(0)
  BY <1>1, <1>3, <1>4, <1>5, Sizes DEF OffOK, TickRuns
<1>7. Control /\ NoSecond
  <2>1. Control
    BY <1>1, <1>3, <1>4 DEF Control, Arming
  <2>2. NoSecond
    BY <1>3, <1>4, Sizes DEF NoSecond
  <2> QED
    BY <2>1, <2>2
<1>8. ArmingOK(0) /\ ArmedOK(0) /\ BoundaryOK(0) /\ SleepingOK(0) /\ RestartOK(0) /\ FirstOK(0)
  BY <1>1, <1>3 DEF ArmingOK, ArmedOK, BoundaryOK, SleepingOK, RestartOK, FirstOK
<1> QED
  BY <1>2, <1>6, <1>7, <1>8 DEF ClockOK

\* Every step keeps the invariant of the timer, for the delay it leads to.
LEMMA ClockNext ==
  ASSUME NEW d \in Nat, ~SlowClock, ClockTypes, missed \in Nat, ClockOK(d),
         TimerSteps \/ IdleSteps \/ ThreadSteps
  PROVE  \E e \in Nat : Delays(d, e) /\ ClockTypes' /\ ClockOK(e)'
<1>1. CASE Cycle
  <2>1. missed' = missed
    BY <1>1 DEF Cycle
  <2> QED
    BY <2>1, <1>1, CycleTypes, CycleClock DEF Delays
<1>2. CASE ResyncRestart
  BY <1>2, ResyncRestartClock
<1>3. CASE TimerSteps /\ ~Cycle /\ ~ResyncRestart
  <2>1. missed' = missed
    BY <1>3 DEF TimerSteps, TickEnter, TickHandler, ResyncPeriod, ResyncBoundary, ResyncSample,
       ResyncEnded, ResyncReload, ResyncClear, Access, Code
  <2>2. ClockTypes' /\ ClockOK(d)'
    BY <1>3, TickEnterClock, TickHandlerClock, ResyncPeriodClock, ResyncBoundaryClock,
       ResyncSampleClock, ResyncEndedClock, ResyncReloadClock, ResyncClearClock DEF TimerSteps
  <2> QED
    BY <2>1, <2>2 DEF Delays
<1>4. CASE IdleSteps
  <2>1. missed' = missed
    BY <1>4 DEF IdleSteps, Reclaim, IdleEnter, SetReload, ReadPending, ReadCounter, Abort,
       IdleLeave, Access, Code
  <2>2. ClockTypes' /\ ClockOK(d)'
    BY <1>4, ReclaimClock, IdleEnterClock, SetReloadClock, ReadPendingClock, ReadCounterClock,
       AbortClock, IdleLeaveClock DEF IdleSteps
  <2> QED
    BY <2>1, <2>2 DEF Delays
<1>5. CASE ThreadSteps
  <2>1. missed' = missed
    BY <1>5 DEF ThreadSteps, Wake, Block, Exit, Wait, Code
  <2>2. ClockTypes' /\ ClockOK(d)'
    BY <1>5, WakeClock, ThreadClock DEF ThreadSteps
  <2> QED
    BY <2>1, <2>2 DEF Delays
<1> QED
  BY <1>1, <1>2, <1>3, <1>4, <1>5

\* What the boundaries may be behind: every missed restart delays them by at
\* least a cycle and by less than the skew.
Late == missed .. missed * (Skew - 1)

\* The delay stays in these bounds.
LEMMA LateNext ==
  ASSUME missed \in Nat, NEW d \in Late, NEW e, Delays(d, e)
  PROVE  missed' \in Nat /\ e \in Late'
<1>1. Skew - 1 \in Nat /\ missed * (Skew - 1) \in Nat
  BY Sizes
<1>2. CASE e = d /\ missed' = missed
  BY <1>2 DEF Late
<1>3. CASE e \in d + 1 .. d + Skew - 1 /\ missed' = missed + 1
  <2> DEFINE k == missed * (Skew - 1)
  <2>1. (missed + 1) * (Skew - 1) = k + Skew - 1
    BY <1>1, Sizes
  <2>2. k \in Nat /\ d \in missed .. k
    BY <1>1 DEF Late
  <2> HIDE DEF k
  <2>3. e \in missed + 1 .. k + Skew - 1 /\ missed + 1 \in Nat
    BY <2>2, <1>3, Sizes
  <2> QED
    BY <2>1, <2>3, <1>3 DEF Late
<1> QED
  BY <1>2, <1>3 DEF Delays

\* The delays are natural numbers.
LEMMA LateNat ==
  ASSUME missed \in Nat PROVE Late \subseteq Nat
BY Sizes DEF Late

\* The timer runs its phases with boundaries that are late within the bounds.
ClockInv == ClockTypes /\ missed \in Nat /\ \E d \in Late : ClockOK(d)

\* The invariant of the timer holds of every behaviour.
LEMMA ClockInvariant ==
  ASSUME ~SlowClock PROVE TicklessSpec => []ClockInv
<1>1. TicklessInit => ClockInv
  <2> SUFFICES ASSUME TicklessInit PROVE ClockInv
    OBVIOUS
  <2>1. missed = 0
    BY DEF TicklessInit
  <2>2. 0 \in Late
    BY <2>1, Sizes DEF Late
  <2> QED
    BY <2>1, <2>2, ClockInit DEF ClockInv
<1>2. ClockInv /\ [TicklessNext]_tlvars => ClockInv'
  <2> SUFFICES ASSUME ClockInv, [TicklessNext]_tlvars PROVE ClockInv'
    OBVIOUS
  <2>1. PICK d \in Late : ClockOK(d)
    BY DEF ClockInv
  <2>2. d \in Nat /\ ClockTypes /\ missed \in Nat
    BY <2>1, LateNat DEF ClockInv
  <2>3. CASE TicklessNext
    <3>1. PICK e \in Nat : Delays(d, e) /\ ClockTypes' /\ ClockOK(e)'
      BY <2>1, <2>2, <2>3, ClockNext DEF TicklessNext
    <3> QED
      BY <3>1, <2>1, <2>2, LateNext DEF ClockInv
  <2>4. CASE UNCHANGED tlvars
    <3>1. UNCHANGED clockvars /\ UNCHANGED <<thr, deleted, missed>>
      BY <2>4 DEF tlvars, clockvars
    <3>2. ClockTypes' /\ Late' = Late
      BY <3>1, <2>2 DEF ClockTypes, clockvars, Late
    <3>3. ClockOK(d)'
      BY <3>1, <2>1, <2>2, ClockFrame
    <3> QED
      BY <3>1, <3>2, <3>3, <2>1, <2>2 DEF ClockInv
  <2> QED
    BY <2>3, <2>4
<1> QED
  BY <1>1, <1>2, PTL DEF TicklessSpec

\* Outside of critical sections the counter ends on the boundary of the tick
\* it will announce, as late as the restarts have made it.
LEMMA ClockTicks ==
  ASSUME NEW d \in Nat, ClockTypes, ClockOK(d), ~Masked PROVE Behind = d
<1> SUFFICES cycles - d + Left = NextTick * Tpp
  <2>1. cycles \in Nat /\ Left \in Nat
    BY Measures DEF ClockTypes
  <2> QED
    BY <2>1 DEF Behind
<1>1. /\ rs.pc = "none" /\ idle \in {"idle", "sleep"}
      /\ port.state \in {"off", "armed", "sleeping"}
      /\ told \in Nat /\ port.expected \in Nat /\ cycles \in Nat
      /\ Base \in Nat /\ Long \in Nat /\ Left \in Nat
  BY Measures, Sizes DEF Masked, ClockTypes
<1>2. /\ (told + 1) * Tpp = Base + Tpp
      /\ (told + 2) * Tpp = Base + 2 * Tpp
      /\ (told + 1 + port.expected) * Tpp = Base + Tpp + Long
      /\ (told + port.expected) * Tpp = Base + Long
      /\ (told + port.expected + 1) * Tpp = Base + Long + Tpp
  <2>1. (told + 1) * Tpp = Base + Tpp
    BY <1>1, TicksInCycles DEF Base
  <2>2. (told + 2) * Tpp = Base + 2 * Tpp
    BY <1>1, TicksAdd DEF Base
  <2>3. (told + 1 + port.expected) * Tpp = Base + Tpp + Long
    <3>1. told + 1 \in Nat
      BY <1>1
    <3> QED
      BY <1>1, <2>1, <3>1, TicksAdd DEF Long
  <2>4. (told + port.expected) * Tpp = Base + Long
    BY <1>1, TicksAdd DEF Base, Long
  <2>5. (told + port.expected + 1) * Tpp = Base + Long + Tpp
    BY <1>1, <2>4, TicksInCycles
  <2> QED
    BY <2>1, <2>2, <2>3, <2>4, <2>5
<1>3. CASE port.state = "off"
  <2>1. NextTick = IF Due THEN told + 2 ELSE told + 1
    BY <1>3, <1>1 DEF NextTick, Due
  <2>2. Gap(d) = IF Due THEN 2 * Tpp ELSE Tpp
    BY <1>3, <1>1 DEF ClockOK, OffOK, TickRuns, NextRuns
  <2>3. CASE Due
    <3>1. NextTick * Tpp = Base + 2 * Tpp
      BY <2>1, <2>3, <1>2
    <3>2. Gap(d) = 2 * Tpp
      BY <2>2, <2>3, <1>1, Sizes
    <3> QED
      BY <3>1, <3>2, <1>1, Sizes DEF Gap
  <2>4. CASE ~Due
    BY <2>1, <2>2, <2>4, <1>1, <1>2, Sizes DEF Gap
  <2> QED
    BY <2>3, <2>4
<1>4. CASE port.state = "armed"
  <2>1. NextTick = IF Due THEN told + 1 + port.expected ELSE told + 1
    BY <1>4, <1>1 DEF NextTick, Due
  <2>2. Gap(d) = IF Due THEN Tpp + Long ELSE Tpp
    BY <1>4, <1>1 DEF ClockOK, ArmedOK, TickRuns, LongRuns
  <2>3. CASE Due
    <3>1. NextTick * Tpp = Base + Tpp + Long
      BY <2>1, <2>3, <1>2
    <3>2. Gap(d) = Tpp + Long
      BY <2>2, <2>3, <1>1, Sizes
    <3> QED
      BY <3>1, <3>2, <1>1, Sizes DEF Gap
  <2>4. CASE ~Due
    BY <2>1, <2>2, <2>4, <1>1, <1>2, Sizes DEF Gap
  <2> QED
    BY <2>3, <2>4
<1>5. CASE port.state = "sleeping"
  <2>1. NextTick = IF Due THEN told + port.expected + 1 ELSE told + port.expected
    BY <1>5, <1>1 DEF NextTick, Due
  <2>2. Gap(d) = IF Due THEN Long + Tpp ELSE Long
    BY <1>5, <1>1 DEF ClockOK, SleepingOK
  <2>3. CASE Due
    <3>1. NextTick * Tpp = Base + Long + Tpp
      BY <2>1, <2>3, <1>2
    <3>2. Gap(d) = Long + Tpp
      BY <2>2, <2>3, <1>1, Sizes
    <3> QED
      BY <3>1, <3>2, <1>1, Sizes DEF Gap
  <2>4. CASE ~Due
    <3>1. NextTick * Tpp = Base + Long
      BY <2>1, <2>4, <1>2
    <3>2. Gap(d) = Long
      BY <2>2, <2>4
    <3> QED
      BY <3>1, <3>2, <1>1, Sizes DEF Gap
  <2> QED
    BY <2>3, <2>4
<1> QED
  BY <1>1, <1>3, <1>4, <1>5

\* No tick of the system timer is lost or counted twice, whatever races the
\* tick interrupt, the arming of the long period in
\* _isix_port_systimer_set_timeout, the early wakeup in
\* _isix_port_systimer_resync and the idle task run: outside of their critical
\* sections the counter runs to the boundary of the tick that systimer will
\* announce.  The boundaries move only at a restart that comes after the next
\* one: to a later time, each by less than the skew.  For every tick period,
\* skew, latency below a tick and range of the counter, with the counter at the
\* clock of the processor.
THEOREM TicklessTicksKept ==
  ASSUME ~SlowClock PROVE TicklessSpec => []TicksKept
<1>1. ClockInv => TicksKept
  <2> SUFFICES ASSUME ClockInv, ~Masked PROVE Behind \in Late
    BY DEF TicksKept, Late
  <2>1. PICK d \in Late : ClockOK(d)
    BY DEF ClockInv
  <2>2. d \in Nat
    BY <2>1, LateNat DEF ClockInv
  <2> QED
    BY <2>1, <2>2, ClockTicks DEF ClockInv
<1> QED
  BY <1>1, ClockInvariant, PTL

-----------------------------------------------------------------------------
(***************************************************************************)
(* The deadlines of the waits, and who is awake.                           *)
(***************************************************************************)

\* The waits of the threads th end at tick x or later.
AllAfter(th, x) == \A t \in Threads : th[t].st = "wait" => x <= th[t].dl

\* No deadline lies within the ticks that pass before the next announcement
\* that the tick handler or resync will make.
WaitsOK ==
  /\ AllAfter(thr, told + 1)
  /\ idle \in Arming \/ port.state = "armed" => AllAfter(thr, told + 1 + port.expected)
  /\ port.state = "sleeping" => AllAfter(thr, told + port.expected)
  /\ rs.pc \in {"reload", "clear"} => AllAfter(thr, told + rs.n)

\* No thread is ready while the timer sleeps, unless the handler or resync is
\* about to end the sleep.
AwakeOK ==
  /\ idle \in Arming => Ready = {}
  /\ port.state = "armed" /\ rs.pc = "none" => Ready = {}
  /\ port.state = "sleeping" /\ rs.pc = "none" => Ready = {} \/ Due

\* The timeout ends before every deadline, on this side of the wrap of jiffies
\* and beyond it.
LEMMA TimeoutBeforeDeadlines ==
  ASSUME ClockTypes, AllAfter(thr, told + 1), calculate_next_timeout >= 2
  PROVE  AllAfter(thr, told + calculate_next_timeout)
<1> DEFINE a == MaxTick - (told % M) + 1
           wrap == Least({a, MaxTick})
           until == IF wait_list # {} THEN Least(wait_list) - told ELSE MaxTick
           next == IF wrap < until THEN wrap - 1 ELSE until
           timeout == calculate_next_timeout
<1>1. told \in Nat /\ MaxTick \in Nat /\ M \in Nat /\ M > 0 /\ M = MaxTick + 1
  BY TicklessAssumption DEF ClockTypes, M
<1>2. \A x \in Nat : /\ x \div M \in Nat /\ x % M \in Nat /\ x % M < M
                     /\ x = (x \div M) * M + (x % M)
  BY <1>1
<1>3. a \in Int
  BY <1>1, <1>2
<1>4. wrap \in Int /\ wrap <= a
  BY <1>1, <1>3, LeastOfTwo
<1>5. wait_list \subseteq Nat
  BY DEF wait_list, ClockTypes, Thread
<1>6. until \in Int /\ \A x \in wait_list : until <= x - told
  <2>1. CASE wait_list = {}
    BY <2>1, <1>1
  <2>2. CASE wait_list # {}
    <3>1. Least(wait_list) \in Nat /\ \A x \in wait_list : Least(wait_list) <= x
      BY <2>2, <1>5, LeastOfNat
    <3>2. until = Least(wait_list) - told
      BY <2>2
    <3> HIDE DEF until
    <3> QED
      BY <3>1, <3>2, <1>1, <1>5
  <2> QED
    BY <2>1, <2>2
<1>7. timeout = IF next = 0 THEN 1 ELSE next
  BY DEF calculate_next_timeout
<1>8. a = M - (told % M)
  BY <1>1, <1>2
<1> HIDE DEF a, wrap, until
<1>9. next \in Int /\ next <= until /\ next <= a
  BY <1>3, <1>4, <1>6
<1>10. timeout = next
  BY <1>7, <1>9
<1> SUFFICES ASSUME NEW t \in Threads, thr[t].st = "wait" PROVE told + timeout <= thr[t].dl
  BY DEF AllAfter
<1> DEFINE dl == thr[t].dl
<1>11. dl \in Nat /\ told + 1 <= dl
  BY DEF AllAfter, ClockTypes, Thread
<1>12. CASE dl \div M = told \div M
  <2>1. dl \in wait_list
    BY <1>12 DEF wait_list
  <2>2. until <= dl - told
    BY <2>1, <1>6
  <2> HIDE DEF dl, next, timeout
  <2> QED
    BY <2>2, <1>1, <1>6, <1>9, <1>10, <1>11 DEF dl
<1>13. CASE dl \div M # told \div M
  <2> HIDE DEF dl, next, timeout
  <2> DEFINE p == told \div M
             q == dl \div M
  <2>1. /\ p \in Nat /\ q \in Nat /\ told = p * M + (told % M) /\ dl = q * M + (dl % M)
        /\ told % M \in Nat /\ told % M < M /\ dl % M \in Nat /\ dl % M < M /\ p # q
    BY <1>1, <1>2, <1>11, <1>13
  <2> HIDE DEF p, q
  <2>2. p < q
    <3> SUFFICES ASSUME q + 1 <= p PROVE FALSE
      BY <2>1
    <3>1. (q + 1) * M <= p * M /\ (q + 1) * M = q * M + M
      BY <2>1, <1>1
    <3>2. q * M \in Nat /\ p * M \in Nat
      BY <2>1, <1>1
    <3> QED
      BY <3>1, <3>2, <2>1, <1>1, <1>11
  <2>3. (p + 1) * M <= q * M /\ (p + 1) * M = p * M + M /\ p * M \in Nat /\ q * M \in Nat
    <3>1. p + 1 <= q
      BY <2>1, <2>2
    <3> QED
      BY <3>1, <2>1, <1>1
  <2>4. told + (M - (told % M)) <= dl
    BY <2>1, <2>3, <1>1
  <2>5. told + timeout <= dl
    BY <2>1, <2>4, <1>1, <1>3, <1>8, <1>9, <1>10, <1>11
  <2> QED
    BY <2>5 DEF dl, timeout
<1> QED
  BY <1>12, <1>13

\* advance_jiffies ends the waits that are over and no others.
LEMMA AdvanceWaits ==
  ASSUME ClockTypes, NEW n \in Nat, advance_jiffies(n)
  PROVE  /\ told' = told + n /\ AllAfter(thr', told' + 1)
         /\ \A x : AllAfter(thr, x) => AllAfter(thr', x)
         /\ AllAfter(thr, told + n + 1) => thr' = thr
<1>1. thr \in [Threads -> Thread] /\ told \in Nat /\ told' = told + n
  BY DEF ClockTypes, advance_jiffies
<1>2. thr' = [t \in Threads |-> IF thr[t].st = "wait" /\ thr[t].dl <= told + n
                                THEN [st |-> "ready", dl |-> 0] ELSE thr[t]]
  BY DEF advance_jiffies
<1>3. \A t \in Threads : /\ thr[t].dl \in Nat
                         /\ thr'[t].st = "wait" => thr'[t] = thr[t] /\ ~(thr[t].dl <= told + n)
  BY <1>1, <1>2 DEF Thread
<1>4. AllAfter(thr', told' + 1)
  BY <1>1, <1>3 DEF AllAfter
<1>5. \A x : AllAfter(thr, x) => AllAfter(thr', x)
  BY <1>3 DEF AllAfter
<1>6. ASSUME AllAfter(thr, told + n + 1) PROVE thr' = thr
  <2>1. \A t \in Threads : ~(thr[t].st = "wait" /\ thr[t].dl <= told + n)
    BY <1>1, <1>3, <1>6 DEF AllAfter
  <2> QED
    BY <2>1, <1>1, <1>2
<1> QED
  BY <1>1, <1>4, <1>5, <1>6

\* A later tick is a stronger claim.
LEMMA AllAfterWeaken ==
  ASSUME ClockTypes, NEW x \in Int, NEW y \in Int, x <= y, AllAfter(thr, y)
  PROVE  AllAfter(thr, x)
<1>1. \A t \in Threads : thr[t].dl \in Nat
  BY DEF ClockTypes, Thread
<1> QED
  BY <1>1 DEF AllAfter

\* The steps of the timer and of the idle task that announce nothing.
LEMMA QuietWaits ==
  ASSUME NEW d \in Nat, ClockTypes, ClockOK(d), WaitsOK, AwakeOK,
         \/ Cycle \/ TickEnter \/ ResyncPeriod \/ ResyncBoundary \/ ResyncSample \/ ResyncEnded
         \/ ResyncReload \/ Reclaim \/ SetReload \/ ReadPending \/ ReadCounter \/ Abort \/ IdleLeave
  PROVE  WaitsOK' /\ AwakeOK'
<1>1. UNCHANGED <<told, thr>>
  BY DEF Cycle, TickEnter, ResyncPeriod, ResyncBoundary, ResyncSample, ResyncEnded, ResyncReload,
     Reclaim, SetReload, ReadPending, ReadCounter, Abort, IdleLeave
<1>2. Ready' = Ready
  BY <1>1 DEF Ready
<1>3. CASE Cycle
  <2>1. UNCHANGED <<idle, port, rs, handler>> /\ (Due => Due')
    BY <1>3 DEF Cycle, Due, ClockTypes
  <2> QED
    BY <2>1, <1>1, <1>2 DEF WaitsOK, AwakeOK
<1>4. CASE TickEnter
  <2>1. UNCHANGED <<idle, port, rs>> /\ Due'
    BY <1>4 DEF TickEnter, Due
  <2> QED
    BY <2>1, <1>1, <1>2 DEF WaitsOK, AwakeOK
<1>5. CASE ResyncPeriod \/ ResyncReload
  <2>1. UNCHANGED <<idle, port>> /\ rs'.n = rs.n /\ rs'.pc # "none"
    BY <1>5 DEF ResyncPeriod, ResyncReload, ClockTypes
  <2>2. rs'.pc \in {"reload", "clear"} => rs.pc \in {"reload", "clear"}
    BY <1>5 DEF ResyncPeriod, ResyncReload, ClockTypes
  <2> QED
    BY <2>1, <2>2, <1>1, <1>2 DEF WaitsOK, AwakeOK
<1>6. CASE ResyncBoundary
  <2>1. /\ UNCHANGED idle /\ port.state = "armed" /\ idle \notin Arming
        /\ \/ rs'.pc = "none" /\ port'.state = "off"
           \/ rs'.pc = "restart" /\ UNCHANGED port
    BY <1>6 DEF ResyncBoundary, NoResync, ClockTypes, ClockOK, Control, Arming
  <2> QED
    BY <2>1, <1>1, <1>2 DEF WaitsOK, AwakeOK
<1>7. CASE ResyncSample
  <2>1. UNCHANGED <<idle, port>> /\ rs'.pc = "ended"
    BY <1>7 DEF ResyncSample
  <2> QED
    BY <2>1, <1>1, <1>2 DEF WaitsOK, AwakeOK
<1>8. CASE ResyncEnded
  <2>1. /\ UNCHANGED <<idle, port, stk>> /\ idle \notin Arming /\ port.state = "sleeping"
        /\ \/ rs'.pc = "none" /\ stk.pend
           \/ rs'.pc = "restart"
    BY <1>8 DEF ResyncEnded, NoResync, ClockTypes, ClockOK, Control, Arming
  <2> QED
    BY <2>1, <1>1, <1>2 DEF WaitsOK, AwakeOK, Due
<1>9. CASE Reclaim
  BY <1>9, <1>1, <1>2 DEF Reclaim, WaitsOK, AwakeOK, Due
<1>10. CASE SetReload \/ Abort
  <2>1. UNCHANGED <<port, rs>> /\ port.state = "off" /\ idle \in Arming
    BY <1>10 DEF SetReload, Abort, ClockOK, Control, Arming
  <2> QED
    BY <2>1, <1>1, <1>2 DEF WaitsOK, AwakeOK
<1>11. CASE ReadPending \/ ReadCounter
  <2>1. /\ idle \in Arming /\ rs.pc = "none" /\ UNCHANGED rs /\ port.state = "off"
        /\ \/ idle' \in Arming /\ UNCHANGED port
           \/ idle' = "sleep" /\ port'.state = "armed" /\ port'.expected = port.expected
    BY <1>11 DEF ReadPending, ReadCounter, Arm, ClockOK, Control, Arming, ClockTypes
  <2> QED
    BY <2>1, <1>1, <1>2 DEF WaitsOK, AwakeOK
<1>12. CASE IdleLeave
  <2>1. /\ UNCHANGED port /\ idle' = "idle" /\ rs'.pc \in {"none", "period", "sample"} /\ Ready = {}
    <3>1. rs.pc = "none"
      BY <1>12 DEF IdleLeave, IdleRuns, Masked
    <3> QED
      BY <3>1, <1>12 DEF IdleLeave, IdleRuns, StartResync, NoResync
  <2> QED
    BY <2>1, <1>1, <1>2 DEF WaitsOK, AwakeOK, Arming
<1> QED
  BY <1>3, <1>4, <1>5, <1>6, <1>7, <1>8, <1>9, <1>10, <1>11, <1>12

\* The restart announces no more ticks than the long period had left.
LEMMA RestartWaits ==
  ASSUME NEW d \in Nat, ClockTypes, ClockOK(d), WaitsOK, AwakeOK, ResyncRestart
  PROVE  WaitsOK' /\ AwakeOK'
<1> DEFINE s == systimer_split(rs.cvr)
<1>1. /\ rs.pc = "restart" /\ rs' = [rs EXCEPT !.pc = "reload", !.n = rs.n + s.n]
      /\ UNCHANGED <<port, told, thr, idle>> /\ idle \notin Arming
  BY DEF ResyncRestart, ClockTypes, ClockOK, Control, Arming
<1>2. /\ rs.cvr \in 1 .. Long - 1 /\ Long \in Nat /\ rs.cvr \in Nat /\ told \in Nat
      /\ rs.n = (IF port.state = "armed" THEN 1 ELSE 0) /\ port.expected \in Nat
  BY <1>1, Measures, Sizes DEF ClockOK, RestartOK, ClockTypes
<1>3. s.n \in Nat /\ s.n <= port.expected
  BY <1>2, SplitExact
<1>4. port.state \in {"armed", "sleeping"}
  BY <1>1 DEF ClockTypes, ClockOK, Control
<1> HIDE DEF s
<1>5. rs'.pc = "reload" /\ rs'.n = rs.n + s.n
  BY <1>1 DEF ClockTypes
<1>6. AllAfter(thr, told + rs.n + port.expected)
  <2>1. CASE port.state = "armed"
    BY <2>1, <1>2 DEF WaitsOK
  <2>2. CASE port.state = "sleeping"
    <3>1. told + rs.n + port.expected = told + port.expected
      BY <2>2, <1>2
    <3> QED
      BY <2>2, <3>1 DEF WaitsOK
  <2> QED
    BY <2>1, <2>2, <1>4
<1>7. AllAfter(thr, told + rs'.n)
  <2> DEFINE x == told + rs'.n
             y == told + rs.n + port.expected
  <2>1. x \in Int /\ y \in Int /\ x <= y /\ AllAfter(thr, y)
    BY <1>2, <1>3, <1>5, <1>6
  <2> HIDE DEF x, y
  <2>2. AllAfter(thr, x)
    BY <2>1, AllAfterWeaken
  <2> QED
    BY <2>2 DEF x
<1>8. Ready' = Ready
  BY <1>1 DEF Ready
<1> QED
  BY <1>1, <1>5, <1>7, <1>8 DEF WaitsOK, AwakeOK

\* The handler announces a tick, or the long period, before every deadline.
LEMMA TickHandlerWaits ==
  ASSUME NEW d \in Nat, ClockTypes, ClockOK(d), WaitsOK, AwakeOK, TickHandler
  PROVE  WaitsOK' /\ AwakeOK'
<1> DEFINE n == IF port.state = "sleeping" THEN port.expected ELSE 1
<1>1. /\ rs.pc = "none" /\ idle \notin Arming /\ UNCHANGED <<idle, rs>> /\ advance_jiffies(n)
      /\ port'.state = (IF port.state = "armed" THEN "sleeping" ELSE "off")
      /\ port'.expected = port.expected /\ port.expected \in Nat /\ told \in Nat
  BY Sizes DEF TickHandler, Masked, Arming, ClockTypes
<1>2. n \in Nat
  BY <1>1
<1>3. port.state = "armed" => n = 1 /\ port.expected >= 2
  BY DEF ClockOK, Control
<1> HIDE DEF n
<1>4. /\ told' = told + n /\ AllAfter(thr', told' + 1)
      /\ \A x : AllAfter(thr, x) => AllAfter(thr', x)
      /\ AllAfter(thr, told + n + 1) => thr' = thr
  BY <1>1, <1>2, AdvanceWaits
<1>5. CASE port.state # "armed"
  BY <1>5, <1>1, <1>4 DEF WaitsOK, AwakeOK
<1>6. CASE port.state = "armed"
  <2>1. AllAfter(thr, told + 1 + port.expected) /\ Ready = {}
    BY <1>6, <1>1 DEF WaitsOK, AwakeOK
  <2>2. AllAfter(thr', told' + port'.expected)
    <3>1. told' + port'.expected = told + 1 + port.expected
      BY <1>1, <1>3, <1>4, <1>6
    <3> QED
      BY <2>1, <3>1, <1>4
  <2>3. AllAfter(thr, told + n + 1)
    <3> DEFINE x == told + n + 1
               y == told + 1 + port.expected
    <3>1. x \in Int /\ y \in Int /\ x <= y /\ AllAfter(thr, y)
      BY <2>1, <1>1, <1>2, <1>3, <1>6
    <3> HIDE DEF x, y
    <3>2. AllAfter(thr, x)
      BY <3>1, AllAfterWeaken
    <3> QED
      BY <3>2 DEF x
  <2>4. Ready' = {}
    BY <2>1, <2>3, <1>4 DEF Ready
  <2> QED
    BY <2>2, <2>4, <1>1, <1>4, <1>6 DEF WaitsOK, AwakeOK
<1> QED
  BY <1>5, <1>6

\* resync announces the ticks that ran and turns the ticks on.
LEMMA ResyncClearWaits ==
  ASSUME NEW d \in Nat, ClockTypes, ClockOK(d), WaitsOK, AwakeOK, ResyncClear
  PROVE  WaitsOK' /\ AwakeOK'
<1>1. /\ rs.n \in Nat /\ advance_jiffies(rs.n) /\ idle \notin Arming /\ UNCHANGED idle
      /\ port'.state = "off" /\ rs'.pc = "none"
  BY DEF ResyncClear, ClockTypes, ClockOK, Control, Arming, NoResync
<1>2. AllAfter(thr', told' + 1)
  BY <1>1, AdvanceWaits
<1> QED
  BY <1>1, <1>2 DEF WaitsOK, AwakeOK

\* The idle task arms only when every thread waits beyond the long period.
LEMMA IdleEnterWaits ==
  ASSUME NEW d \in Nat, ClockTypes, ClockOK(d), WaitsOK, AwakeOK, IdleEnter
  PROVE  WaitsOK' /\ AwakeOK'
<1> DEFINE timeout == calculate_next_timeout
           n == long_ticks(timeout)
<1>1. /\ port' = [port EXCEPT !.expected = n] /\ n >= 2 /\ port.state = "off" /\ timeout >= MinSleep
      /\ idle' = "load" /\ rs.pc = "none" /\ Ready = {} /\ UNCHANGED <<told, thr, rs>>
  BY DEF IdleEnter, IdleRuns, Masked
<1>2. timeout \in Int /\ MinSleep \in Nat /\ MinSleep >= 2 /\ told \in Nat
  BY TimeoutNat, TicklessAssumption DEF ClockTypes
<1>3. n \in 2 .. MaxLong /\ n <= timeout - 1
  BY <1>1, <1>2, LongTicks
<1>4. AllAfter(thr, told + timeout)
  BY <1>1, <1>2, TimeoutBeforeDeadlines DEF WaitsOK
<1> HIDE DEF timeout, n
<1>5. port'.expected = n /\ port'.state = "off"
  BY <1>1 DEF ClockTypes
<1>6. AllAfter(thr, told + 1 + n)
  <2> DEFINE x == told + 1 + n
             y == told + timeout
  <2>1. x \in Int /\ y \in Int /\ x <= y /\ AllAfter(thr, y)
    BY <1>2, <1>3, <1>4, Sizes
  <2> HIDE DEF x, y
  <2>2. AllAfter(thr, x)
    BY <2>1, AllAfterWeaken
  <2> QED
    BY <2>2 DEF x
<1>7. Ready' = {}
  BY <1>1 DEF Ready
<1> QED
  BY <1>1, <1>5, <1>6, <1>7 DEF WaitsOK, AwakeOK

\* A wakeup outside of the tick handler starts resync when the timer sleeps.
LEMMA WakeWaits ==
  ASSUME NEW d \in Nat, ~NestedWakes, ClockTypes, ClockOK(d), WaitsOK, AwakeOK,
         NEW t \in Threads, Wake(t)
  PROVE  WaitsOK' /\ AwakeOK'
<1>1. /\ ~handler /\ rs.pc = "none" /\ idle \notin Arming /\ UNCHANGED <<idle, port, told>>
      /\ thr' = [thr EXCEPT ![t] = [st |-> "ready", dl |-> 0]] /\ StartResync
  BY DEF Wake, Masked, Arming
<1>2. port.state # "off" => rs'.pc \in {"period", "sample"}
  BY <1>1 DEF StartResync, NoResync
<1>3. port.state = "off" => rs'.pc = "none"
  BY <1>1 DEF StartResync
<1>4. \A u \in Threads : thr'[u].st = "wait" => thr'[u] = thr[u]
  BY <1>1 DEF ClockTypes
<1>5. \A x : AllAfter(thr, x) => AllAfter(thr', x)
  BY <1>4 DEF AllAfter
<1> QED
  BY <1>1, <1>2, <1>3, <1>5 DEF WaitsOK, AwakeOK

\* A thread runs only when the ticks are on.
LEMMA ThreadWaits ==
  ASSUME NEW d \in Nat, ClockTypes, ClockOK(d), WaitsOK, AwakeOK, NEW t \in Threads,
         Block(t) \/ Exit(t) \/ \E ticks \in Waits : Wait(t, ticks)
  PROVE  WaitsOK' /\ AwakeOK'
<1>1. UNCHANGED <<stk, port, told, idle, rs, handler>> /\ ThreadRuns(t)
  BY DEF Block, Exit, Wait
<1>2. /\ t \in Ready /\ ~handler /\ rs.pc = "none" /\ idle \notin Arming
      /\ stk.pend => port.state = "off"
  BY <1>1 DEF ThreadRuns, Masked, Arming
<1>3. port.state = "off"
  BY <1>2 DEF AwakeOK, Due, ClockTypes
<1>4. AllAfter(thr', told + 1)
  <2>1. thr \in [Threads -> Thread] /\ told \in Nat /\ AllAfter(thr, told + 1)
    BY DEF ClockTypes, WaitsOK
  <2>2. CASE Block(t) \/ Exit(t)
    <3>1. \A u \in Threads : thr'[u].st = "wait" => thr'[u] = thr[u]
      BY <2>1, <2>2 DEF Block, Exit, Thread
    <3> QED
      BY <2>1, <3>1 DEF AllAfter
  <2>3. CASE \E ticks \in Waits : Wait(t, ticks)
    <3>1. PICK ticks \in Waits : Wait(t, ticks)
      BY <2>3
    <3>2. told + 1 <= told + ticks
      BY <2>1, TicklessAssumption
    <3>3. thr' = [thr EXCEPT ![t] = [st |-> "wait", dl |-> told + ticks]]
      BY <3>1 DEF Wait
    <3> QED
      BY <2>1, <3>2, <3>3 DEF AllAfter
  <2> QED
    BY <2>2, <2>3
<1> QED
  BY <1>1, <1>2, <1>3, <1>4 DEF WaitsOK, AwakeOK

\* Every step keeps the deadlines beyond the next announcement.
LEMMA WaitsNext ==
  ASSUME NEW d \in Nat, ~NestedWakes, ClockTypes, ClockOK(d), WaitsOK, AwakeOK,
         TimerSteps \/ IdleSteps \/ ThreadSteps
  PROVE  WaitsOK' /\ AwakeOK'
<1>1. CASE TimerSteps
  BY <1>1, QuietWaits, TickHandlerWaits, RestartWaits, ResyncClearWaits DEF TimerSteps
<1>2. CASE IdleSteps
  BY <1>2, QuietWaits, IdleEnterWaits DEF IdleSteps
<1>3. CASE ThreadSteps
  BY <1>3, WakeWaits, ThreadWaits DEF ThreadSteps
<1> QED
  BY <1>1, <1>2, <1>3

\* The deadlines and the timer agree in every behaviour.
LEMMA WaitsInvariant ==
  ASSUME ~SlowClock, ~NestedWakes
  PROVE  TicklessSpec => [](ClockInv /\ WaitsOK /\ AwakeOK)
<1>1. TicklessInit => WaitsOK /\ AwakeOK
  <2> SUFFICES ASSUME TicklessInit PROVE WaitsOK /\ AwakeOK
    OBVIOUS
  <2>1. /\ thr = [t \in Threads |-> [st |-> "ready", dl |-> 0]]
        /\ port.state = "off" /\ idle = "idle" /\ rs.pc = "none"
    BY DEF TicklessInit, NoResync
  <2> QED
    BY <2>1 DEF WaitsOK, AwakeOK, AllAfter, Arming
<1>2. ClockInv /\ WaitsOK /\ AwakeOK /\ [TicklessNext]_tlvars => (WaitsOK /\ AwakeOK)'
  <2> SUFFICES ASSUME ClockInv, WaitsOK, AwakeOK, [TicklessNext]_tlvars
               PROVE  (WaitsOK /\ AwakeOK)'
    OBVIOUS
  <2>1. PICK d \in Nat : ClockTypes /\ ClockOK(d)
    BY LateNat DEF ClockInv
  <2>2. CASE TicklessNext
    BY <2>1, <2>2, WaitsNext DEF TicklessNext
  <2>3. CASE UNCHANGED tlvars
    BY <2>3 DEF tlvars, WaitsOK, AwakeOK, Ready, Due, AllAfter
  <2> QED
    BY <2>2, <2>3
<1> QED
  BY <1>1, <1>2, ClockInvariant, PTL DEF TicklessSpec

\* A deadline beyond x more ticks lies a tick beyond their boundary.
LEMMA DeadlineCycles ==
  ASSUME ClockTypes, NEW x \in Nat, NEW dl \in Nat, told + x <= dl
  PROVE  Base + x * Tpp + Tpp <= (dl + 1) * Tpp /\ x * Tpp \in Nat /\ (dl + 1) * Tpp \in Nat
<1>1. told \in Nat /\ told + x \in Nat /\ told + x + 1 \in Nat /\ dl + 1 \in Nat /\ told + x + 1 <= dl + 1
  BY DEF ClockTypes
<1>2. (told + x) * Tpp = told * Tpp + x * Tpp
  BY <1>1, TicksAdd
<1>3. (told + x + 1) * Tpp = (told + x) * Tpp + Tpp
  BY <1>1, TicksInCycles
<1>4. (told + x + 1) * Tpp <= (dl + 1) * Tpp
  BY <1>1, TicksAdd
<1>5. x * Tpp \in Nat /\ (dl + 1) * Tpp \in Nat
  BY <1>1, TicksInCycles
<1> QED
  BY <1>2, <1>3, <1>4, <1>5 DEF Base

\* Nobody oversleeps in a state of the invariant, by boundaries d cycles late.
LEMMA WaitsCycles ==
  ASSUME NEW d \in Nat, ClockTypes, ClockOK(d), WaitsOK, NEW t \in Threads, thr[t].st = "wait"
  PROVE  cycles - d < (thr[t].dl + 1) * Tpp
<1> DEFINE dl == thr[t].dl
           D == (dl + 1) * Tpp
<1>1. /\ dl \in Nat /\ told \in Nat /\ told + 1 <= dl
      /\ idle \in Arming \/ port.state = "armed" => told + 1 + port.expected <= dl
      /\ port.state = "sleeping" => told + port.expected <= dl
      /\ rs.pc \in {"reload", "clear"} => told + rs.n <= dl
  BY DEF WaitsOK, AllAfter, ClockTypes, Thread
<1>2. /\ Base \in Nat /\ Long \in Nat /\ Left \in Nat /\ Left >= 1 /\ cycles \in Nat
      /\ port.expected \in Nat /\ rs.n \in Nat /\ age \in Nat
      /\ stk.cvr \in Nat /\ stk.rvr \in Nat /\ rs.cvr \in Nat
  <2>1. stk.cvr \in Nat /\ stk.rvr \in Nat
    BY DEF ClockTypes
  <2>2. Left >= 1
    BY <2>1 DEF Left
  <2> QED
    BY <2>1, <2>2, Measures, Sizes DEF ClockTypes
<1>3. D \in Nat /\ Base + 2 * Tpp <= D
  <2>1. Base + 1 * Tpp + Tpp <= D /\ D \in Nat
    BY <1>1, DeadlineCycles
  <2> HIDE DEF D
  <2> QED
    BY <2>1, <1>2, Sizes
<1>4. ASSUME idle \in Arming \/ port.state = "armed" PROVE Base + Long + 2 * Tpp <= D
  <2> DEFINE x == port.expected + 1
  <2>1. x \in Nat /\ told + x <= dl
    BY <1>1, <1>2, <1>4
  <2>2. x * Tpp = Long + Tpp
    BY <1>2, TicksInCycles DEF Long
  <2> HIDE DEF x
  <2>3. Base + x * Tpp + Tpp <= D
    BY <2>1, <1>1, DeadlineCycles
  <2> HIDE DEF D
  <2> QED
    BY <2>2, <2>3, <1>2, <1>3, Sizes
<1>5. ASSUME port.state = "sleeping" PROVE Base + Long + Tpp <= D
  <2>1. Base + port.expected * Tpp + Tpp <= D
    BY <1>1, <1>2, <1>5, DeadlineCycles
  <2> QED
    BY <2>1 DEF Long
<1>6. ASSUME rs.pc \in {"reload", "clear"} PROVE Base + rs.n * Tpp + Tpp <= D
  BY <1>1, <1>2, <1>6, DeadlineCycles
<1> HIDE DEF D
<1>7. SUFFICES cycles - d < D
  BY DEF D
<1>8. /\ idle \in Arming \/ port.state # "off" => Long >= 2 * Tpp
      /\ cycles - d = Base + Gap(d) - Left
  BY <1>2, Measures DEF Gap, ClockOK, Control
<1>9. CASE port.state = "off" /\ idle \notin {"pending", "counter", "abort"}
  <2>1. Gap(d) = Tpp \/ Gap(d) = 2 * Tpp
    BY <1>9 DEF ClockOK, OffOK, TickRuns, NextRuns
  <2> QED
    BY <2>1, <1>2, <1>3, <1>8, Sizes
<1>10. CASE idle \in {"pending", "counter", "abort"}
  <2>1. Gap(d) = Tpp \/ Gap(d) = 2 * Tpp \/ Gap(d) = Tpp + Long
    BY <1>10 DEF ClockOK, ArmingOK, TickRuns, NextRuns, LongRuns
  <2> QED
    BY <2>1, <1>2, <1>3, <1>4, <1>8, <1>10, Sizes DEF Arming
<1>11. CASE port.state = "armed" /\ rs.pc \in {"none", "period", "boundary"}
  <2>1. Gap(d) = Tpp \/ Gap(d) = 2 * Tpp \/ Gap(d) = Tpp + Long
    BY <1>11 DEF ClockOK, ArmedOK, BoundaryOK, TickRuns, NextRuns, LongRuns
  <2> QED
    BY <2>1, <1>2, <1>3, <1>4, <1>8, <1>11, Sizes
<1>12. CASE port.state = "sleeping" /\ rs.pc \in {"none", "sample", "ended"}
  <2>1. Gap(d) = Long \/ Gap(d) = Long + Tpp
    BY <1>12 DEF ClockOK, SleepingOK
  <2> QED
    BY <2>1, <1>2, <1>3, <1>5, <1>8, <1>12, Sizes
<1>13. CASE rs.pc = "restart"
  <2>1. /\ rs.n = (IF port.state = "armed" THEN 1 ELSE 0)
        /\ Base + rs.n * Tpp + Long + age - (cycles - d) = rs.cvr
        /\ rs.cvr >= 1 /\ age < Skew /\ port.state \in {"armed", "sleeping"}
    BY <1>13, <1>2 DEF ClockOK, RestartOK, Control, ClockTypes
  <2>2. CASE port.state = "armed"
    BY <2>1, <2>2, <1>2, <1>3, <1>4, Sizes
  <2>3. CASE port.state = "sleeping"
    BY <2>1, <2>3, <1>2, <1>3, <1>5, Sizes
  <2> QED
    BY <2>1, <2>2, <2>3
<1>14. CASE rs.pc \in {"reload", "clear"}
  <2> DEFINE nt == rs.n * Tpp
  <2>1. cycles - d + Left = Base + nt + Tpp /\ Base + nt + Tpp <= D /\ nt \in Nat
    BY <1>14, <1>2, <1>6, TicksInCycles DEF ClockOK, FirstOK
  <2> HIDE DEF nt
  <2> QED
    BY <2>1, <1>2, <1>3, Sizes
<1> QED
  BY <1>9, <1>10, <1>11, <1>12, <1>13, <1>14 DEF ClockTypes, ClockOK, Control

-----------------------------------------------------------------------------
(***************************************************************************)
(* The microsecond clock.                                                  *)
(***************************************************************************)

\* What isix_get_ujiffies returns outside of critical sections, with the turns
\* of jiffies: the cycles that passed, less the delay of the boundaries, held at
\* the last announced boundary after a restart.
Clock(d) == IF cycles - d - 1 >= Base THEN cycles - d - 1 ELSE Base

Now == FromStart([at |-> ujiffies, turn |-> told \div M])

ClockReads(d) == Readable => Now = Clock(d)

\* The last reading is not ahead of the clock, nor of the clock at the moment
\* the counter was sampled, to which a restart may set it back.
SeenOK(d) ==
  /\ seen \in [at : Nat, turn : Nat] /\ FromStart(seen) \in Nat /\ FromStart(seen) <= Clock(d)
  /\ rs.pc = "restart" \/ (rs.pc = "ended" /\ age < MinFirst) =>
       FromStart(seen) <= cycles - d - age - 1

\* Any number of ticks, as turns of jiffies and a rest.
LEMMA Turns ==
  ASSUME NEW n \in Nat
  PROVE  /\ n \div M \in Nat /\ n % M \in Nat /\ (n % M) * Tpp \in Nat
         /\ (n \div M) * (M * Tpp) \in Nat
         /\ (n % M) * Tpp + (n \div M) * (M * Tpp) = n * Tpp
<1> DEFINE q == n \div M
           m == n % M
<1>1. M \in Nat /\ M > 0
  BY TicklessAssumption DEF M
<1>2. q \in Nat /\ m \in Nat /\ n = q * M + m
  BY <1>1
<1>3. M * Tpp \in Nat /\ q * M \in Nat
  BY <1>1, <1>2, Sizes
<1> HIDE DEF q, m
<1>4. (q * M + m) * Tpp = (q * M) * Tpp + m * Tpp
  BY <1>2, <1>3, TicksAdd
<1>5. (q * M) * Tpp = q * (M * Tpp)
  BY <1>1, <1>2, Sizes
<1>6. q * (M * Tpp) \in Nat /\ m * Tpp \in Nat
  BY <1>2, <1>3, TicksInCycles
<1>7. n * Tpp = q * (M * Tpp) + m * Tpp
  BY <1>2, <1>4, <1>5
<1>8. m * Tpp + q * (M * Tpp) = n * Tpp
  BY <1>6, <1>7
<1> QED
  BY <1>2, <1>6, <1>8 DEF q, m

\* With the turns of jiffies the reading is a time from the start.
LEMMA NowCounts ==
  ASSUME ClockTypes
  PROVE  /\ ujiffies \in Nat /\ told \div M \in Nat
         /\ Now = Base + subtick(stk, port)
<1> DEFINE u == (told % M) * Tpp
           w == (told \div M) * (M * Tpp)
           b == subtick(stk, port)
<1>1. told \in Nat /\ Base = told * Tpp
  BY DEF ClockTypes, Base
<1>2. u \in Nat /\ w \in Nat /\ told \div M \in Nat /\ u + w = Base
  BY <1>1, Turns
<1>3. b \in Nat
  <2>1. /\ stk.cvr \in Nat /\ Long \in Nat /\ port.state \in {"off", "armed", "sleeping"}
        /\ wrap_unannounced(stk) \in BOOLEAN
    BY Measures DEF ClockTypes, wrap_unannounced
  <2> DEFINE pending == wrap_unannounced(stk)
             before == CASE port.state = "sleeping" /\ pending -> Long
                         [] port.state # "sleeping" /\ pending -> Tpp
                         [] ~pending -> 0
             period == IF \/ port.state = "armed" /\ pending
                          \/ port.state = "sleeping" /\ ~pending THEN Long ELSE Tpp
  <2>2. b = before + IF stk.cvr < period THEN period - 1 - stk.cvr ELSE 0
    BY DEF subtick, Long
  <2>3. before \in Nat /\ period \in Nat
    BY <2>1, Sizes
  <2> HIDE DEF before, period, b
  <2> QED
    BY <2>1, <2>2, <2>3
<1>4. ujiffies = u + b
  BY DEF ujiffies
<1>5. Now = ujiffies + w
  BY DEF Now, FromStart
<1> HIDE DEF u, w, b
<1>6. Now = Base + b
  BY <1>2, <1>3, <1>4, <1>5
<1> QED
  BY <1>2, <1>3, <1>4, <1>6 DEF b

\* The reading is exact.
LEMMA ReadingExact ==
  ASSUME NEW d \in Nat, ClockTypes, ClockOK(d) PROVE ClockReads(d)
<1> SUFFICES ASSUME ~Masked, stk.cvr # 0 PROVE Now = Clock(d)
  BY DEF ClockReads, Readable
<1>1. /\ rs.pc = "none" /\ idle \in {"idle", "sleep"}
      /\ port.state \in {"off", "armed", "sleeping"}
      /\ Base \in Nat /\ Long \in Nat /\ cycles \in Nat /\ stk.cvr \in Nat /\ lat \in Nat
      /\ lat <= Latency /\ Left = stk.cvr
      /\ port.state # "off" => Long >= 2 * Tpp
  <2>1. port.state # "off" => port.expected >= 2
    BY DEF ClockOK, Control
  <2> QED
    BY <2>1, Measures, Sizes DEF Masked, ClockTypes, Left
<1>2. wrap_unannounced(stk) = Due
  BY DEF wrap_unannounced, ClockOK, Control, Due, ClockTypes
<1>3. Now = Base + subtick(stk, port)
  BY NowCounts
<1>4. CASE port.state = "off" /\ ~Due
  <2>1. subtick(stk, port) = IF stk.cvr < Tpp THEN Tpp - 1 - stk.cvr ELSE 0
    BY <1>4, <1>2, <1>1, Sizes DEF subtick
  <2>2. Gap(d) = Tpp
    BY <1>4, <1>1 DEF ClockOK, OffOK, TickRuns, NextRuns
  <2> QED
    BY <2>1, <2>2, <1>1, <1>3, Sizes DEF Gap, Clock
<1>5. CASE port.state = "off" /\ Due
  <2>1. subtick(stk, port) = Tpp + IF stk.cvr < Tpp THEN Tpp - 1 - stk.cvr ELSE 0
    BY <1>5, <1>2, <1>1, Sizes DEF subtick
  <2>2. Gap(d) = 2 * Tpp /\ stk.cvr < Tpp
    BY <1>5, <1>1 DEF ClockOK, OffOK, TickRuns, NextRuns
  <2> QED
    BY <2>1, <2>2, <1>1, <1>3, Sizes DEF Gap, Clock
<1>6. CASE port.state = "armed" /\ ~Due
  <2>1. subtick(stk, port) = IF stk.cvr < Tpp THEN Tpp - 1 - stk.cvr ELSE 0
    BY <1>6, <1>2, <1>1, Sizes DEF subtick
  <2>2. Gap(d) = Tpp /\ stk.cvr < Tpp
    BY <1>6, <1>1 DEF ClockOK, ArmedOK, TickRuns, LongRuns
  <2> QED
    BY <2>1, <2>2, <1>1, <1>3, Sizes DEF Gap, Clock
<1>7. CASE port.state = "armed" /\ Due
  <2>1. subtick(stk, port) = Tpp + IF stk.cvr < Long THEN Long - 1 - stk.cvr ELSE 0
    BY <1>7, <1>2, <1>1, Sizes DEF subtick, Long
  <2>2. Gap(d) = Tpp + Long /\ stk.cvr < Long
    BY <1>7, <1>1 DEF ClockOK, ArmedOK, TickRuns, LongRuns
  <2> QED
    BY <2>1, <2>2, <1>1, <1>3, Sizes DEF Gap, Clock
<1>8. CASE port.state = "sleeping" /\ ~Due
  <2>1. subtick(stk, port) = IF stk.cvr < Long THEN Long - 1 - stk.cvr ELSE 0
    BY <1>8, <1>2, <1>1, Sizes DEF subtick, Long
  <2>2. Gap(d) = Long /\ stk.cvr < Long
    BY <1>8, <1>1 DEF ClockOK, SleepingOK
  <2> QED
    BY <2>1, <2>2, <1>1, <1>3, Sizes DEF Gap, Clock
<1>9. CASE port.state = "sleeping" /\ Due
  <2>1. subtick(stk, port) = Long + IF stk.cvr < Tpp THEN Tpp - 1 - stk.cvr ELSE 0
    BY <1>9, <1>2, <1>1, Sizes DEF subtick, Long
  <2>2. Gap(d) = Long + Tpp /\ stk.cvr < Tpp
    BY <1>9, <1>1 DEF ClockOK, SleepingOK
  <2> QED
    BY <2>1, <2>2, <1>1, <1>3, Sizes DEF Gap, Clock
<1> QED
  BY <1>1, <1>4, <1>5, <1>6, <1>7, <1>8, <1>9

\* No step but the restart sets the clock behind the last reading.
LEMMA SeenKept ==
  ASSUME NEW d \in Nat, ClockTypes, ClockOK(d), SeenOK(d),
         (TimerSteps /\ ~ResyncRestart) \/ IdleSteps \/ ThreadSteps
  PROVE  /\ FromStart(seen) <= Clock(d)'
         /\ rs'.pc = "restart" \/ (rs'.pc = "ended" /\ age' < MinFirst) =>
              FromStart(seen) <= cycles' - d - age' - 1
<1> DEFINE r == FromStart(seen)
<1>1. /\ r \in Nat /\ cycles \in Nat /\ Base \in Nat /\ age \in Nat /\ r <= Clock(d)
      /\ rs.pc = "restart" \/ (rs.pc = "ended" /\ age < MinFirst) => r <= cycles - d - age - 1
  BY Measures, Sizes DEF SeenOK, ClockTypes
<1> HIDE DEF r
<1>2. ASSUME told' = told, cycles' = cycles PROVE r <= Clock(d)'
  BY <1>1, <1>2 DEF Clock, Base
<1>3. ASSUME NEW n \in Nat, advance_jiffies(n), cycles' = cycles PROVE r <= Clock(d)'
  <2>1. Base' = Base + n * Tpp /\ n * Tpp \in Nat
    BY <1>3, AdvanceTypes, TicksInCycles
  <2> QED
    BY <2>1, <1>1, <1>3 DEF Clock
<1> SUFFICES /\ r <= Clock(d)'
             /\ rs'.pc = "restart" \/ (rs'.pc = "ended" /\ age' < MinFirst) =>
                  r <= cycles' - d - age' - 1
  BY DEF r
<1>4. CASE Cycle
  <2>1. /\ cycles' = cycles + 1 /\ rs' = rs /\ Base' = Base
        /\ age' = (IF age < MinFirst THEN age + 1 ELSE age)
        /\ rs.pc = "restart" => age < Skew - 1
    BY <1>4 DEF Cycle, Base
  <2> QED
    BY <2>1, <1>1, Sizes DEF Clock
<1>5. CASE TickHandler
  <2> DEFINE n == IF port.state = "sleeping" THEN port.expected ELSE 1
  <2>1. n \in Nat /\ advance_jiffies(n) /\ cycles' = cycles /\ rs'.pc = "none"
    BY <1>5, Sizes DEF TickHandler, ClockTypes, Code, Masked
  <2> HIDE DEF n
  <2> QED
    BY <2>1, <1>3
<1>6. CASE ResyncClear
  <2>1. rs.n \in Nat /\ advance_jiffies(rs.n) /\ cycles' = cycles /\ rs'.pc = "none"
    BY <1>6 DEF ResyncClear, ClockTypes, Code, NoResync
  <2> QED
    BY <2>1, <1>3
<1>7. CASE ResyncBoundary
  <2>1. told' = told /\ cycles' = cycles /\ age' = 0 /\ rs'.pc # "ended"
    BY <1>7 DEF ResyncBoundary, Access, NoResync
  <2>2. rs'.pc = "restart" => stk.cvr >= Tpp /\ rs.pc = "boundary"
    BY <1>7 DEF ResyncBoundary, NoResync
  <2>3. ASSUME stk.cvr >= Tpp, rs.pc = "boundary" PROVE r <= cycles - d - 1
    <3>1. LongRuns(d) /\ Left = stk.cvr /\ stk.cvr \in Nat /\ Long \in Nat
      BY <2>3, Measures, Sizes DEF ClockOK, BoundaryOK, NextRuns, Left, ClockTypes
    <3>2. Base <= cycles - d - 1
      BY <3>1, <1>1, Sizes DEF LongRuns, Gap
    <3> QED
      BY <3>2, <1>1 DEF Clock
  <2> QED
    BY <2>1, <2>2, <2>3, <1>1, <1>2
<1>8. CASE ResyncSample
  <2>1. told' = told /\ cycles' = cycles /\ age' = 0 /\ rs.pc = "sample" /\ port.state = "sleeping"
    BY <1>8 DEF ResyncSample, Access, ClockOK, Control
  <2>2. \/ Gap(d) = Long /\ stk.cvr < Long /\ Left = stk.cvr
        \/ Gap(d) = Long + Tpp /\ Left <= Tpp
    BY <2>1 DEF ClockOK, SleepingOK, NoSecond, Restarting, Left
  <2>3. Left \in Nat /\ Long \in Nat /\ Long >= 2 * Tpp
    BY <2>1, Measures DEF ClockOK, Control
  <2>4. Base <= cycles - d - 1
    BY <2>2, <2>3, <1>1, Sizes DEF Gap
  <2>5. r <= cycles - d - 1
    BY <2>4, <1>1 DEF Clock
  <2> QED
    BY <2>1, <2>5, <1>1, <1>2
<1>9. CASE ResyncEnded
  <2>1. /\ told' = told /\ cycles' = cycles /\ age' = age /\ rs.pc = "ended" /\ age < Skew
    BY <1>9 DEF ResyncEnded, Code
  <2>2. r <= cycles - d - age - 1
    BY <2>1, <1>1, Sizes
  <2> QED
    BY <2>1, <2>2, <1>2
<1>10. CASE TickEnter \/ ResyncPeriod \/ ResyncReload
  <2>1. told' = told /\ cycles' = cycles
    BY <1>10 DEF TickEnter, ResyncPeriod, ResyncReload, Access, Code
  <2>2. rs'.pc \notin {"restart", "ended"}
    BY <1>10 DEF TickEnter, ResyncPeriod, ResyncReload, Masked, ClockTypes
  <2> QED
    BY <2>1, <2>2, <1>2
<1>11. CASE IdleSteps
  <2>1. told' = told /\ cycles' = cycles
    BY <1>11 DEF IdleSteps, Reclaim, IdleEnter, SetReload, ReadPending, ReadCounter, Abort,
       IdleLeave, Access, Code
  <2>2. rs.pc = "none"
    BY <1>11 DEF IdleSteps, Reclaim, IdleEnter, SetReload, ReadPending, ReadCounter, Abort,
       IdleLeave, IdleRuns, Masked, ClockOK, Control, Arming
  <2>3. rs' = rs \/ StartResync
    BY <1>11 DEF IdleSteps, Reclaim, IdleEnter, SetReload, ReadPending, ReadCounter, Abort, IdleLeave
  <2>4. rs'.pc \notin {"restart", "ended"}
    BY <2>2, <2>3 DEF StartResync, NoResync
  <2> QED
    BY <2>1, <2>4, <1>2
<1>12. CASE ThreadSteps
  <2>1. /\ told' = told /\ cycles' = cycles /\ ~Masked
        /\ rs' = rs \/ StartResync
    BY <1>12 DEF ThreadSteps, Wake, Block, Exit, Wait, ThreadRuns, Code
  <2>2. rs'.pc \notin {"restart", "ended"}
    BY <2>1 DEF StartResync, NoResync, Masked
  <2> QED
    BY <2>1, <2>2, <1>2
<1> QED
  BY <1>4, <1>5, <1>6, <1>7, <1>8, <1>9, <1>10, <1>11, <1>12 DEF TimerSteps

\* The restart sets the clock back to no time before the sample.
LEMMA SeenRestart ==
  ASSUME NEW d \in Nat, ClockTypes, SeenOK(d), NEW e \in d .. d + Skew - 1, ResyncRestart
  PROVE  FromStart(seen) <= Clock(e)' /\ rs'.pc = "reload"
<1> DEFINE r == FromStart(seen)
<1>1. /\ rs.pc = "restart" /\ age = Skew - 1 /\ rs'.pc = "reload" /\ told' = told
      /\ cycles' = cycles /\ cycles \in Nat
  BY DEF ResyncRestart, ClockTypes
<1>2. r \in Nat /\ r <= cycles - d - age - 1
  BY <1>1 DEF SeenOK
<1> HIDE DEF r
<1>3. r <= cycles - e - 1 /\ e \in Int
  BY <1>1, <1>2, Sizes
<1>4. Base' = Base /\ Base \in Nat
  BY <1>1, Measures DEF Base
<1>5. r <= Clock(e)'
  BY <1>1, <1>2, <1>3, <1>4 DEF Clock
<1> QED
  BY <1>1, <1>5 DEF r

\* The reading is a time and exact whatever the delay.
ReadsExact ==
  /\ ClockTypes => ujiffies \in Nat /\ told \div M \in Nat
  /\ \A d \in Nat : ClockTypes /\ ClockOK(d) => ClockReads(d)

\* This is so in every state, hence also in the next one.
LEMMA ReadsNext == ReadsExact'
<1>1. ReadsExact
  BY NowCounts, ReadingExact DEF ReadsExact
<1> QED
  BY <1>1, PTL

\* What a step makes of the last reading.
LEMMA SeenNext ==
  ASSUME NEW d \in Nat, ClockTypes, ClockOK(d), SeenOK(d), NEW e \in Nat, Delays(d, e),
         ClockTypes', ClockReads(e)', TicklessNext
  PROVE  SeenOK(e)' /\ FromStart(seen') >= FromStart(seen)
<1>1. /\ FromStart(seen) <= Clock(e)'
      /\ rs'.pc = "restart" \/ (rs'.pc = "ended" /\ age' < MinFirst) =>
           FromStart(seen) <= cycles' - e - age' - 1
  <2>1. CASE ResyncRestart
    <3>1. e \in d .. d + Skew - 1
      BY Sizes DEF Delays
    <3> QED
      BY <3>1, <2>1, SeenRestart
  <2>2. CASE ~ResyncRestart
    <3>1. e = d
      BY <2>2 DEF Delays
    <3> QED
      BY <3>1, <2>2, SeenKept DEF TicklessNext
  <2> QED
    BY <2>1, <2>2
<1>2. /\ seen' = (IF Readable' THEN [at |-> ujiffies', turn |-> told' \div M] ELSE seen)
      /\ seen \in [at : Nat, turn : Nat] /\ FromStart(seen) \in Nat
  BY DEF TicklessNext, SeenOK
<1>3. CASE ~Readable'
  <2>1. seen' = seen
    BY <1>2, <1>3
  <2>2. FromStart(seen)' = FromStart(seen)
    BY <2>1 DEF FromStart
  <2> QED
    BY <2>1, <2>2, <1>1, <1>2 DEF SeenOK
<1>4. CASE Readable'
  <2>1. /\ seen' = [at |-> ujiffies', turn |-> told' \div M]
        /\ FromStart(seen') = Now' /\ FromStart(seen)' = Now'
    BY <1>2, <1>4 DEF Now, FromStart
  <2>2. FromStart(seen)' = Clock(e)' /\ FromStart(seen') = Clock(e)' /\ rs'.pc = "none"
    BY <2>1, <1>4 DEF ClockReads, Readable, Masked
  <2>3. ujiffies' \in Nat /\ told' \div M \in Nat
    BY ReadsNext DEF ReadsExact
  <2>4. Clock(e)' \in Nat
    <3>1. told' \in Nat /\ cycles' \in Nat
      BY DEF ClockTypes
    <3>2. Base' \in Nat
      BY <3>1, TicksInCycles DEF Base
    <3>3. (Clock(e)' = cycles' - e - 1 /\ cycles' - e - 1 >= Base') \/ Clock(e)' = Base'
      BY DEF Clock
    <3>4. \A b, c \in Nat : c - e - 1 >= b => c - e - 1 \in Nat
      OBVIOUS
    <3> QED
      BY <3>1, <3>2, <3>3, <3>4
  <2> QED
    BY <2>1, <2>2, <2>3, <2>4, <1>1, <1>2 DEF SeenOK
<1> QED
  BY <1>3, <1>4

\* The timer and the last reading agree on the delay of the boundaries.
SeenInv == ClockTypes /\ missed \in Nat /\ \E d \in Late : ClockOK(d) /\ SeenOK(d)

\* A step keeps this, and the reading does not go back.
LEMMA SeenInvNext ==
  ASSUME ~SlowClock, SeenInv, TicklessNext
  PROVE  SeenInv' /\ FromStart(seen') >= FromStart(seen)
<1>1. PICK d \in Late : ClockOK(d) /\ SeenOK(d)
  BY DEF SeenInv
<1>2. d \in Nat /\ ClockTypes /\ missed \in Nat
  BY <1>1, LateNat DEF SeenInv
<1>3. PICK e \in Nat : Delays(d, e) /\ ClockTypes' /\ ClockOK(e)'
  BY <1>1, <1>2, ClockNext DEF TicklessNext
<1>4. ClockReads(e)'
  BY <1>3, ReadsNext DEF ReadsExact
<1>5. SeenOK(e)' /\ FromStart(seen') >= FromStart(seen)
  BY <1>1, <1>2, <1>3, <1>4, SeenNext
<1>6. missed' \in Nat /\ e \in Late'
  BY <1>1, <1>2, <1>3, LateNext
<1> QED
  BY <1>3, <1>5, <1>6 DEF SeenInv

\* The invariant of the last reading.
LEMMA SeenInvariant ==
  ASSUME ~SlowClock PROVE TicklessSpec => []SeenInv
<1>1. TicklessInit => SeenInv
  <2> SUFFICES ASSUME TicklessInit PROVE SeenInv
    OBVIOUS
  <2>1. seen = [at |-> 0, turn |-> 0] /\ cycles = 1 /\ rs.pc = "none" /\ Base = 0 /\ missed = 0
    BY Sizes DEF TicklessInit, NoResync, Base
  <2>2. FromStart(seen) = 0
    <3>1. M * Tpp \in Nat
      BY Sizes, TicklessAssumption DEF M
    <3> QED
      BY <2>1, <3>1 DEF FromStart
  <2>3. SeenOK(0)
    BY <2>1, <2>2 DEF SeenOK, Clock
  <2>4. 0 \in Late
    BY <2>1, Sizes DEF Late
  <2> QED
    BY <2>1, <2>3, <2>4, ClockInit DEF SeenInv
<1>2. SeenInv /\ [TicklessNext]_tlvars => SeenInv'
  <2> SUFFICES ASSUME SeenInv, [TicklessNext]_tlvars PROVE SeenInv'
    OBVIOUS
  <2>1. CASE TicklessNext
    BY <2>1, SeenInvNext
  <2>2. CASE UNCHANGED tlvars
    <3>1. PICK d \in Late : ClockOK(d) /\ SeenOK(d)
      BY DEF SeenInv
    <3>2. d \in Nat /\ ClockTypes /\ missed \in Nat
      BY <3>1, LateNat DEF SeenInv
    <3>3. UNCHANGED clockvars /\ UNCHANGED <<thr, deleted, missed, seen>>
      BY <2>2 DEF tlvars, clockvars
    <3>4. ClockTypes' /\ Late' = Late
      BY <3>2, <3>3 DEF ClockTypes, clockvars, Late
    <3>5. ClockOK(d)'
      BY <3>1, <3>2, <3>3, ClockFrame
    <3>6. SeenOK(d)'
      BY <3>1, <3>3 DEF SeenOK, Clock, Base, FromStart, clockvars
    <3> QED
      BY <3>1, <3>2, <3>3, <3>4, <3>5, <3>6 DEF SeenInv
  <2> QED
    BY <2>1, <2>2
<1> QED
  BY <1>1, <1>2, PTL DEF TicklessSpec

\* isix_get_ujiffies goes back only when jiffies wraps, and then by the ticks of
\* a turn: not in an interrupt that preempts the tick handler between the
\* boundary and its announcement, not when the idle task arms the timer or the
\* sleep ends, and not when resync restarts the counter after a boundary.  For
\* all the constants, also when handlers that preempt the tick handler wake
\* threads.
THEOREM TicklessUjiffies ==
  ASSUME ~SlowClock PROVE TicklessSpec => UjiffiesForward
<1>1. SeenInv /\ [TicklessNext]_tlvars => [FromStart(seen') >= FromStart(seen)]_tlvars
  BY SeenInvNext
<1> QED
  BY <1>1, SeenInvariant, PTL DEF TicklessSpec, UjiffiesForward

-----------------------------------------------------------------------------
(***************************************************************************)
(* Types, sleep and wakeup.                                                *)
(***************************************************************************)

\* The counter and its reload value fit the range of the timer.
LEMMA ClockRange ==
  ASSUME NEW d \in Nat, ClockTypes, ClockOK(d)
  PROVE  stk.cvr \in 0 .. MaxLong * Tpp - 1 /\ stk.rvr \in 0 .. MaxLong * Tpp - 1
<1> DEFINE R == MaxLong * Tpp
<1>1. /\ stk.cvr \in Nat /\ stk.rvr \in Nat /\ Long \in Nat /\ Long <= R /\ R \in Nat /\ R >= Tpp
      /\ MaxLong # 1 => R >= 2 * Tpp
      /\ port.expected >= 2 => Long >= 2 * Tpp
  <2>1. R \in Nat /\ R >= Tpp
    <3>1. 1 * Tpp <= MaxLong * Tpp
      BY Sizes, TicksAdd
    <3> QED
      BY <3>1, Sizes, TicksInCycles
  <2>2. MaxLong # 1 => R >= 2 * Tpp
    BY Sizes, TicksInCycles
  <2> QED
    BY <2>1, <2>2, Measures DEF ClockTypes
<1>2. idle \in Arming \/ port.state # "off" => port.expected >= 2
  BY DEF ClockOK, Control
<1> HIDE DEF R
<1>3. CASE port.state = "off" /\ idle \notin {"pending", "counter", "abort"}
  BY <1>3, <1>1, Sizes DEF ClockOK, OffOK, NextRuns, R
<1>4. CASE idle \in {"pending", "counter", "abort"}
  BY <1>4, <1>1, <1>2, Sizes DEF ClockOK, ArmingOK, NextRuns, LongRuns, Arming, R
<1>5. CASE port.state = "armed" /\ rs.pc \in {"none", "period", "boundary"}
  BY <1>5, <1>1, <1>2, Sizes DEF ClockOK, ArmedOK, BoundaryOK, NextRuns, LongRuns, R
<1>6. CASE port.state = "sleeping" /\ rs.pc \in {"none", "sample", "ended"}
  BY <1>6, <1>1, <1>2, Sizes DEF ClockOK, SleepingOK, R
<1>7. CASE rs.pc = "restart"
  BY <1>7, <1>1, <1>2, Sizes DEF ClockOK, RestartOK, R
<1>8. CASE rs.pc \in {"reload", "clear"}
  <2>1. R >= 2 * Tpp
    BY <1>8, <1>1, <1>2, Sizes DEF ClockOK, Control
  <2>2. stk.rvr < 2 * Tpp
    BY <1>8, <1>1, Sizes DEF ClockOK, FirstOK
  <2>3. stk.cvr < 2 * Tpp
    BY <1>8, <1>1, Sizes DEF ClockOK, FirstOK, Left
  <2> QED
    BY <2>1, <2>2, <2>3, <1>1, Sizes DEF R
<1> QED
  BY <1>3, <1>4, <1>5, <1>6, <1>7, <1>8 DEF ClockTypes, ClockOK, Control

\* The state of the timer is well formed: a period fits the 24 bits of the
\* counter, also the first one after a restart, and interrupts are never
\* masked for more than the latency.
THEOREM TicklessTypes ==
  ASSUME ~SlowClock PROVE TicklessSpec => []TicklessTypeOK
<1>1. SeenInv => TicklessTypeOK
  <2> SUFFICES ASSUME SeenInv PROVE TicklessTypeOK
    OBVIOUS
  <2> PICK d \in Nat : ClockTypes /\ missed \in Nat /\ ClockOK(d) /\ SeenOK(d)
    BY LateNat DEF SeenInv
  <2>1. stk.cvr \in 0 .. MaxLong * Tpp - 1 /\ stk.rvr \in 0 .. MaxLong * Tpp - 1
    BY ClockRange
  <2>2. stk \in [cvr : 0 .. MaxLong * Tpp - 1, rvr : 0 .. MaxLong * Tpp - 1,
                 pend : BOOLEAN, wrap : BOOLEAN]
    BY <2>1 DEF ClockTypes
  <2> QED
    BY <2>2 DEF ClockTypes, SeenOK, TicklessTypeOK
<1> QED
  BY <1>1, SeenInvariant, PTL

\* Nobody oversleeps: when the boundary of a deadline is a tick ago, and what
\* the restarts have delayed the boundaries by, the wait is over, although the
\* idle task has stopped the ticks for longer than any bound TLC can reach, on
\* either side of the wrap of jiffies, provided no interrupt that preempts the
\* tick handler wakes a thread.
THEOREM TicklessNoOversleep ==
  ASSUME ~SlowClock, ~NestedWakes PROVE TicklessSpec => []NoOversleep
<1>1. ClockInv /\ WaitsOK => NoOversleep
  <2> SUFFICES ASSUME ClockInv, WaitsOK, NEW t \in Threads, thr[t].st = "wait"
               PROVE  cycles < (thr[t].dl + 1) * Tpp + missed * (Skew - 1)
    BY DEF NoOversleep
  <2> DEFINE D == (thr[t].dl + 1) * Tpp
             k == missed * (Skew - 1)
  <2>1. PICK d \in Late : ClockOK(d)
    BY DEF ClockInv
  <2>2. d \in Nat /\ ClockTypes
    BY <2>1, LateNat DEF ClockInv
  <2>3. cycles - d < D
    BY <2>1, <2>2, WaitsCycles
  <2>4. D \in Nat
    <3>1. thr[t].dl + 1 \in Nat
      BY <2>2 DEF ClockTypes, Thread
    <3> QED
      BY <3>1, TicksInCycles
  <2>5. cycles \in Nat /\ k \in Nat /\ d <= k
    BY <2>1, <2>2, Sizes DEF Late, ClockInv, ClockTypes
  <2> HIDE DEF D, k
  <2>6. cycles < D + k
    BY <2>2, <2>3, <2>4, <2>5
  <2> QED
    BY <2>6 DEF D, k
<1> QED
  BY <1>1, WaitsInvariant, PTL

\* A wakeup ends the sleep: when a thread runs the ticks are on, or the tick
\* that turns them on is pending, provided no interrupt that preempts the tick
\* handler wakes a thread.
THEOREM TicklessWakeEndsSleep ==
  ASSUME ~SlowClock, ~NestedWakes PROVE TicklessSpec => []WakeEndsSleep
<1>1. ClockInv /\ AwakeOK => WakeEndsSleep
  BY DEF ClockInv, ClockTypes, AwakeOK, WakeEndsSleep, Masked, Due
<1> QED
  BY <1>1, WaitsInvariant, PTL
=============================================================================
