------------------------------ MODULE MCLinks ------------------------------
(***************************************************************************)
(* Four processes at the edge of the body, each with the link it keeps:    *)
(* the specialist runner and Runtime, the LAN node and the Founder, the    *)
(* speech outbox and Audio Studio, a sense bridge and its source.  They    *)
(* share no state; a behaviour is of one of them.                          *)
(* FitWorks permutes the works of the specialist only: the states of the   *)
(* other links, and with them every fairness condition and temporal        *)
(* property, are untouched by it.                                          *)
(***************************************************************************)
EXTENDS MCSpecialist, LanNode, SpeechEgress, BodySenses

VARIABLE link  \* the one that runs

Links == {"specialist", "lan", "speech", "sense"}

(* Two contents under one id, and one that claims authority.               *)
MCSpForeign ==
    {[id |-> 10, content |-> "a"], [id |-> 10, content |-> "b"],
     [id |-> 11, content |-> "claims authority"]}

-----------------------------------------------------------------------------
LinksInit ==
    /\ link \in Links
    /\ Init /\ LcInit /\ SpInit /\ AdInit
    /\ link # "sense" => adSense = "gnss"

LinksNext ==
    /\ UNCHANGED link
    /\ \/ link = "specialist" /\ Next /\ UNCHANGED <<lcVars, spVars, adVars>>
       \/ link = "lan" /\ LcNext /\ UNCHANGED <<vars, spVars, adVars>>
       \/ link = "speech" /\ SpNext /\ UNCHANGED <<vars, lcVars, adVars>>
       \/ link = "sense" /\ AdNext /\ UNCHANGED <<vars, lcVars, spVars>>
       \/ link # "specialist" /\ UNCHANGED <<vars, lcVars, spVars, adVars>>  \* it may stop

LinksSpec ==
    /\ LinksInit /\ [][LinksNext]_<<link, vars, lcVars, spVars, adVars>>
    /\ (link = "lan") => LcFairness
    /\ (link = "speech") => SpFairness

(* The variables of the other three links have the types their code gives *)
(* them.                                                                   *)
LinksTypeOK == link \in Links /\ LcTypeOK /\ SpTypeOK /\ AdTypeOK
=============================================================================
