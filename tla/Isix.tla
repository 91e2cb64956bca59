-------------------------------- MODULE Isix --------------------------------
(***************************************************************************)
(* The composed kernel: threads may call every modelled service, in any    *)
(* order, while the tick, interrupt handlers and the context switch run.   *)
(***************************************************************************)
EXTENDS TaskControl

Next == Machine \/ SchedOps \/ SemOps \/ EventOps \/ ConnectOps \/ MtxOps \/ CondOps \/ TaskOps

Spec == Init /\ [][Next]_vars
=============================================================================
