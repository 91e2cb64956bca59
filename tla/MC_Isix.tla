------------------------------- MODULE MC_Isix -------------------------------
(* Small instances of the kernel.  t1 has the highest priority, t2 and t3  *)
(* share the one below.                                                    *)
EXTENDS Isix

CONSTANTS t1, t2, t3

ThreeTasks == <<t1, t2, t3>>
TwoTasks   == <<t1, t2>>
EqualPair  == <<t2, t3>>
Prios      == [t \in Tasks |-> IF t = t1 THEN 0 ELSE 1]
Ladder     == [t \in Tasks |-> CASE t = t1 -> 0 [] t = t2 -> 1 [] t = t3 -> 2]
\* All of both bits, kept; or bit 0 alone, cleared on exit.
TwoWaits   == {[bits |-> {0, 1}, all |-> TRUE, clear |-> FALSE],
               [bits |-> {0}, all |-> FALSE, clear |-> TRUE]}
OneWait    == {[bits |-> {0}, all |-> FALSE, clear |-> TRUE]}
\* t2 and t3 have one priority and nothing else tells them apart.
PairSymmetry == Permutations({t2, t3})
Zeros      == [s \in Sems |-> 0]
Ones       == [s \in Sems |-> 1]
=============================================================================
