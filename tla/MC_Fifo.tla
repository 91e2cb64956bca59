------------------------------- MODULE MC_Fifo -------------------------------
(* One queue f1 of two slots: t1 is more urgent than its peers t2 and t3.  *)
EXTENDS Fifo

CONSTANTS t1, t2, t3, f1, r1, w1, e1

ThreeTasks == <<t1, t2, t3>>
TwoTasks   == <<t1, t2>>
Prios      == [t \in Tasks |-> IF t = t1 THEN 0 ELSE 1]
Rx         == [f \in Fifos |-> r1]
Tx         == [f \in Fifos |-> w1]
TwoSlots   == [s \in Sems |-> IF s = w1 THEN 2 ELSE 0]
Zeros      == [s \in Sems |-> 0]
OneWait    == {[bits |-> {0}, all |-> FALSE, clear |-> TRUE]}
=============================================================================
