---------------------------- MODULE MCDistributed ----------------------------
(* The two halves of distributed work, one per behaviour: the service of   *)
(* MCWork, and the placement of works on bodies with their resources,      *)
(* which keeps leases and nodes of its own.                                *)
EXTENDS MCWork, ResourcePlacement

VARIABLE half  \* the half that runs

(* Two works that do not fit one node together.                            *)
MCRpNeed == [w1 |-> 2, w2 |-> 1]

DistributedInit == half \in {"service", "placement"} /\ Init /\ RpInit

DistributedNext ==
    \/ half = "service" /\ Next /\ UNCHANGED <<half, rpVars>>
    \/ half = "placement" /\ RpNext /\ UNCHANGED <<half, vars>>

DistributedSpec == DistributedInit /\ [][DistributedNext]_<<half, vars, rpVars>>
=============================================================================
