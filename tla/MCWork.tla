------------------------------- MODULE MCWork -------------------------------
(* Two works and two organs: n1 has room for both, n2 for one of them and  *)
(* only degraded.                                                          *)
EXTENDS DistributedWork, TLC

CONSTANTS n1, n2

MCMaxTasks == (n1 :> 2) @@ (n2 :> 1)
MCMode == (1 :> ((n1 :> "primary") @@ (n2 :> "observe"))) @@
          (2 :> ((n1 :> "primary") @@ (n2 :> "partial")))
MCModeOne == 2 :> MCMode[2]
=============================================================================
