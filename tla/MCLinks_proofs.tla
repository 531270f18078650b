--------------------------- MODULE MCLinks_proofs ---------------------------
(***************************************************************************)
(* The types of the three links beside the specialist's, for every value   *)
(* of their constants.                                                     *)
(***************************************************************************)
EXTENDS MCLinks, Evidence_proofs, Delivery_proofs, Components_proofs

(* What the LAN node, the speech outbox and the sense bridge keep.         *)
SpeechKept == SpInv /\ SpBounds
SenseKept == AdInv /\ AdLimits
LinksKept == link \in Links /\ LcInv /\ SpeechKept /\ SenseKept

linksVars == <<link, vars, lcVars, spVars, adVars>>

(* Every link begins in what it keeps.                                     *)
LEMMA LinksInitKept == LinksInit => LinksKept
<1> SUFFICES ASSUME LinksInit PROVE LinksKept
  OBVIOUS
<1>1. link \in Links /\ LcInit /\ SpInit /\ AdInit
  BY DEF LinksInit
<1>2. SpeechKept
  BY <1>1, SpInitInv, SpBoundsInit DEF SpeechKept
<1>3. SenseKept
  BY <1>1, AdInitInv, AdLimitsInit DEF SenseKept
<1>4. QED
  BY <1>1, <1>2, <1>3, LcInitInv DEF LinksKept

(* A step is of the link that runs; the others keep their state.           *)
LEMMA LinksStepKept == LinksKept /\ [LinksNext]_linksVars => LinksKept'
<1> SUFFICES ASSUME LinksKept, [LinksNext]_linksVars PROVE LinksKept'
  OBVIOUS
<1>1. link' = link
  BY DEF LinksNext, linksVars
<1>2. [LcNext]_lcVars
  BY DEF LinksNext, linksVars
<1>3. [SpNext]_spVars
  BY DEF LinksNext, linksVars
<1>4. [AdNext]_adVars
  BY DEF LinksNext, linksVars
<1>5. SpeechKept'
  BY <1>3, SpStepInv, SpBoundsStep DEF LinksKept, SpeechKept
<1>6. AdTyped
  BY DEF LinksKept, SenseKept, AdInv
<1>7. SenseKept'
  BY <1>4, <1>6, AdStepInv, AdLimitsStep DEF LinksKept, SenseKept
<1>8. QED
  BY <1>1, <1>2, <1>5, <1>7, LcStepInv DEF LinksKept

(* The variables of the LAN node, of the outbox and its deliveries, and of *)
(* a sense bridge have their types, with the bounds their code keeps: the  *)
(* attempts and the backoff of a delivery (SpTypeOK), the count of failed  *)
(* reads, the age and the confidence of a sense (AdTypeOK), the calls of   *)
(* the node's threads (LcTypeOK); for any values of the constants.         *)
THEOREM LinkTypes == LinksSpec => []LinksTypeOK
<1>1. LinksKept => LinksTypeOK
  <2>1. LcInv => LcTypeOK
    BY DEF LcInv, LcTyped
  <2>2. SpeechKept => SpTypeOK
    BY DEF SpeechKept, SpBounds
  <2>3. SenseKept => AdTypeOK
    BY AdTypes DEF SenseKept
  <2>4. QED
    BY <2>1, <2>2, <2>3 DEF LinksKept, LinksTypeOK
<1>2. LinksSpec => LinksInit /\ [][LinksNext]_linksVars
  BY DEF LinksSpec, linksVars
<1>3. QED
  BY <1>1, <1>2, LinksInitKept, LinksStepKept, PTL
=============================================================================
