---------------------------- MODULE MC_SoftTimers ----------------------------
(* Two timers, which are interchangeable.                                  *)
EXTENDS SoftTimers

TimerSymmetry == Permutations(Timers)
=============================================================================
