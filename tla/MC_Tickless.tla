---------------------------- MODULE MC_Tickless ----------------------------
(* Interchangeable threads.                                                *)
EXTENDS Tickless, TLC

ThreadSymmetry == Permutations(Threads)
=============================================================================
