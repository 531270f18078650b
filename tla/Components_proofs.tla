-------------------------- MODULE Components_proofs --------------------------
(***************************************************************************)
(* Proofs about six components: an offer between two hosts (LanNode), the  *)
(* receipts of audio events (AudioIngress), a responder's request on its   *)
(* way through Court (IncidentCourt), the Runtime process from its boot to *)
(* its cleanup (RuntimeBoot), the placement of work with body resources    *)
(* (ResourcePlacement) and the packages of modules (ModulePackages).       *)
(***************************************************************************)
EXTENDS LanNode, AudioIngress, IncidentCourt, RuntimeBoot, ResourcePlacement,
        ModulePackages, FiniteSetTheorems, SequenceTheorems,
        WellFoundedInduction, TLAPS

-----------------------------------------------------------------------------
(* Two hosts.  The run's specification adds fairness, which safety does    *)
(* not need.                                                               *)

LcSpec == LcInit /\ [][LcNext]_lcVars

(* No call was lost and the Founder runs.                                  *)
LcClean == lcFaulty = 0 /\ lcFounderUp

LcLeaving == {"lastlock", "lastbeat", "withdraw", "join", "ended"}

(* The Founder's LAN thread serves a call its caller waits for.            *)
LcServingInv ==
    /\ lcLate = {}
    /\ lcServing.by # "late"
    /\ lcServing.by = "main" => lcCall["main"] = [op |-> lcServing.op, at |-> "sent"]
    /\ lcServing.by = "server" =>
          /\ lcServing.op \in {"accept", "refuse", "complete"}
          /\ lcNodeUp => lcCall["server"] = [op |-> lcServing.op, at |-> "sent"]

(* The node's main thread: its call is the one its place says, and what it *)
(* was answered has happened at the Founder.                               *)
LcMainInv ==
    /\ lcMain \in LcLeaving => lcDraining
    /\ lcCall["main"].at # "failed"
    /\ lcMain \in {"wait", "lock", "drain", "lastlock", "join", "ended"} => lcCall["main"] = LcNoCall
    /\ lcMain = "beat" => lcCall["main"].op \in {"register", "drained"}
    /\ lcMain = "resources" => lcCall["main"].op = "resources"
    /\ lcMain = "lastbeat" => /\ lcCall["main"].op = "drained"
                              /\ lcCall["main"].at = "answered" => lcSeen # "available"
    /\ lcMain = "withdraw" => /\ lcCall["main"].op = "withdraw" /\ lcSeen # "available"
                              /\ lcCall["main"].at = "answered" => ~lcListed
    /\ lcMain \in {"join", "ended"} => ~lcListed /\ lcSeen # "available"

(* The node's server thread, while the node is up.                         *)
LcServerInv ==
    lcNodeUp =>
        /\ lcCall["server"].at # "failed"
        /\ IF lcServer \in {"accept", "refuse", "complete"}
           THEN lcCall["server"].op = lcServer /\ lcCall["server"].at \in {"sent", "answered"}
           ELSE lcCall["server"] = LcNoCall
        /\ lcServer = "complete" /\ lcCall["server"].at = "answered" => lcLease # "accepted"
        /\ lcLease = "accepted" => lcActive \/ lcServer = "accept"

(* A node that went down has no thread left to call; one without a route   *)
(* never registered.                                                       *)
LcDownInv ==
    /\ ~lcNodeUp => lcServer = "gone" /\ lcCall["server"].at # "sent"
    /\ LcNode \in LcPeers \/ lcSeen = "none"

(* Types, and what a call under way is for.                                *)
LcTyped ==
    /\ LcTypeOK
    /\ \A t \in LcThreads : lcCall[t].op = "none" => lcCall[t].at = "none"

LcInv == LcTyped /\ LcDownInv /\ (LcClean => LcServingInv /\ LcMainInv /\ LcServerInv)

LcStates == {"none", "sent", "answered", "failed"}

(* No call is under way at the start.                                      *)
LEMMA LcInitInv == LcInit => LcInv
<1> SUFFICES ASSUME LcInit PROVE LcInv
  OBVIOUS
<1>1. LcTypeOK
  <2>1. lcCall = [t \in LcThreads |-> LcNoCall]
    BY DEF LcInit
  <2>2. LcNoCall \in [op : LcOps \cup {"none"}, at : {"none", "sent", "answered", "failed"}]
    BY DEF LcNoCall, LcOps
  <2>3. lcCall \in [LcThreads -> [op : LcOps \cup {"none"}, at : {"none", "sent", "answered", "failed"}]]
    BY <2>1, <2>2
  <2>4. lcBeat \in 0 .. LcBeats /\ lcFaulty \in 0 .. LcFaults
    BY LcAssumption DEF LcInit
  <2> QED
    BY <2>3, <2>4 DEF LcInit, LcTypeOK
<1>2. /\ lcCall["main"] = LcNoCall /\ lcCall["server"] = LcNoCall
      /\ \A t \in LcThreads : lcCall[t] = LcNoCall
  BY DEF LcInit, LcThreads
<1> QED
  BY <1>1, <1>2 DEF LcInit, LcInv, LcTyped, LcClean, LcDownInv, LcServingInv, LcMainInv,
     LcServerInv, LcLeaving, LcIdle, LcNoCall

(* What the types say of a call and of the call that is served.            *)
LEMMA LcFields ==
    LcTyped => /\ \A t \in LcThreads : /\ lcCall[t].op \in LcOps \cup {"none"}
                                       /\ lcCall[t].at \in LcStates
                                       /\ lcCall[t] = [op |-> lcCall[t].op, at |-> lcCall[t].at]
               /\ lcServing.by \in {"server", "main", "late", "none"}
               /\ lcServing # LcIdle => lcServing.by # "none" /\ lcServing.op \in LcOps
               /\ lcServing.by = "none" => lcServing = LcIdle
BY DEF LcTyped, LcTypeOK, LcIdle, LcStates, LcThreads

(* A table of calls that differs in the call of one thread.                *)
LEMMA LcTable ==
    ASSUME LcTyped, NEW t \in LcThreads, NEW o \in LcOps \cup {"none"}, NEW a \in LcStates
    PROVE  LET c == [lcCall EXCEPT ![t] = [op |-> o, at |-> a]]
           IN /\ c \in [LcThreads -> [op : LcOps \cup {"none"}, at : {"none", "sent", "answered", "failed"}]]
              /\ c[t] = [op |-> o, at |-> a]
              /\ \A u \in LcThreads : u # t => c[u] = lcCall[u]
BY DEF LcTyped, LcTypeOK, LcStates

(* A call whose state alone changes.                                       *)
LEMMA LcAt ==
    ASSUME LcTyped, NEW t \in LcThreads, NEW a \in LcStates
    PROVE  [lcCall EXCEPT ![t].at = a] = [lcCall EXCEPT ![t] = [op |-> lcCall[t].op, at |-> a]]
<1>1. lcCall[t] \in [op : LcOps \cup {"none"}, at : {"none", "sent", "answered", "failed"}]
  BY DEF LcTyped, LcTypeOK
<1>2. [lcCall[t] EXCEPT !.at = a] = [op |-> lcCall[t].op, at |-> a]
  BY <1>1
<1>3. lcCall \in [LcThreads -> [op : LcOps \cup {"none"}, at : {"none", "sent", "answered", "failed"}]]
  BY DEF LcTyped, LcTypeOK
<1> QED
  BY <1>2, <1>3

LcCallTypes == lcCall \in [LcThreads -> [op : LcOps \cup {"none"}, at : {"none", "sent", "answered", "failed"}]]

(* A step of the node's server thread.                                     *)
LcServerThread == LcNodeServes \/ LcReceive \/ LcReceived \/ LcHandlerEnds \/ LcFinish \/ LcCompleted

(* The server thread calls, is answered and closes its calls.              *)
LEMMA LcServerStep == LcInv /\ LcServerThread => LcInv'
<1> SUFFICES ASSUME LcInv, LcServerThread PROVE LcInv'
  OBVIOUS
<1> USE DEF LcThreads
<1>0. LcTyped /\ LcDownInv
  BY DEF LcInv
<1>f. PICK mo, so \in LcOps \cup {"none"}, ma, sa \in LcStates :
          lcCall["main"] = [op |-> mo, at |-> ma] /\ lcCall["server"] = [op |-> so, at |-> sa]
  BY <1>0, LcFields
<1>1. CASE LcNodeServes \/ LcHandlerEnds
  BY <1>1, <1>f DEF LcNodeServes, LcHandlerEnds, LcTyped, LcTypeOK, LcDownInv, LcClean,
     LcServingInv, LcMainInv, LcServerInv, LcLeaving, LcIdle, LcNoCall, LcInv
<1>2. CASE LcReceive
  <2>1. lcServer' \in {"accept", "refuse"}
    BY <1>2 DEF LcReceive
  <2>2. /\ LcCallTypes'
        /\ lcCall'["server"] = [op |-> lcServer', at |-> "sent"] /\ lcCall'["main"] = lcCall["main"]
    BY <2>1, <1>0, <1>2, LcTable DEF LcReceive, LcSend, LcOps, LcStates, LcCallTypes
  <2>3. LcTyped' /\ LcDownInv'
    BY <2>1, <2>2, <1>2, <1>f DEF LcReceive, LcCallTypes, LcInv, LcTyped, LcTypeOK,
       LcDownInv, LcNoCall
  <2>4. LcClean' => LcServingInv' /\ LcMainInv' /\ LcServerInv'
    BY <2>1, <2>2, <1>2, <1>f DEF LcReceive, LcTyped, LcTypeOK, LcDownInv, LcClean,
       LcServingInv, LcMainInv, LcServerInv, LcLeaving, LcIdle, LcNoCall, LcInv
  <2> QED
    BY <2>3, <2>4 DEF LcInv
<1>3. CASE LcReceived
  <2>1. /\ lcActive' \in BOOLEAN /\ lcServer' \in {"run", "idle"} /\ lcDispatch' \in {lcDispatch, "ended"}
        /\ lcServer # "gone"
    BY <1>3, <1>0 DEF LcReceived, LcAnswerOffer, LcTyped, LcTypeOK
  <2>2. /\ LcCallTypes'
        /\ lcCall'["server"] = LcNoCall /\ lcCall'["main"] = lcCall["main"]
    BY <1>0, <1>3, LcTable DEF LcReceived, LcDoneWith, LcNoCall, LcOps, LcStates,
       LcCallTypes
  <2>3. LcTyped' /\ LcDownInv'
    BY <2>1, <2>2, <1>3, <1>f DEF LcReceived, LcReturned, LcAnswerOffer, LcCallTypes,
       LcInv, LcTyped, LcTypeOK, LcDownInv, LcNoCall
  <2>4. LcClean' => LcServingInv' /\ LcMainInv' /\ LcServerInv'
    BY <2>1, <2>2, <1>3, <1>f DEF LcReceived, LcReturned, LcAnswerOffer, LcTyped,
       LcTypeOK, LcDownInv, LcClean, LcServingInv, LcMainInv, LcServerInv, LcLeaving,
       LcIdle, LcNoCall, LcInv
  <2> QED
    BY <2>3, <2>4 DEF LcInv
<1>4. CASE LcFinish
  <2>2. /\ LcCallTypes'
        /\ lcCall'["server"] = [op |-> "complete", at |-> "sent"] /\ lcCall'["main"] = lcCall["main"]
    BY <1>0, <1>4, LcTable DEF LcFinish, LcSend, LcOps, LcStates, LcCallTypes
  <2>3. LcTyped' /\ LcDownInv'
    BY <2>2, <1>4, <1>f DEF LcFinish, LcCallTypes, LcInv, LcTyped, LcTypeOK, LcDownInv,
       LcNoCall
  <2>4. LcClean' => LcServingInv' /\ LcMainInv' /\ LcServerInv'
    BY <2>2, <1>4, <1>f DEF LcFinish, LcTyped, LcTypeOK, LcDownInv, LcClean, LcServingInv,
       LcMainInv, LcServerInv, LcLeaving, LcIdle, LcNoCall, LcInv
  <2> QED
    BY <2>3, <2>4 DEF LcInv
<1>5. CASE LcCompleted
  <2>2. /\ LcCallTypes'
        /\ lcCall'["server"] = LcNoCall /\ lcCall'["main"] = lcCall["main"]
    BY <1>0, <1>5, LcTable DEF LcCompleted, LcDoneWith, LcNoCall, LcOps, LcStates,
       LcCallTypes
  <2>3. LcTyped' /\ LcDownInv'
    BY <2>2, <1>5, <1>f DEF LcCompleted, LcReturned, LcAnswerOffer, LcCallTypes, LcInv,
       LcTyped, LcTypeOK, LcDownInv, LcNoCall
  <2>4. LcClean' => LcServingInv' /\ LcMainInv' /\ LcServerInv'
    BY <2>2, <1>5, <1>f DEF LcCompleted, LcReturned, LcAnswerOffer, LcTyped, LcTypeOK,
       LcDownInv, LcClean, LcServingInv, LcMainInv, LcServerInv, LcLeaving, LcIdle,
       LcNoCall, LcInv
  <2> QED
    BY <2>3, <2>4 DEF LcInv
<1> QED
  BY <1>1, <1>2, <1>3, <1>4, <1>5 DEF LcServerThread

(* A step of the node's main thread.                                       *)
LcMainThread ==
    LcBegin \/ LcHeartbeat \/ LcThenResources \/ LcPairEnds \/ LcStopNode \/ LcDrain \/ LcJoin

(* The main thread beats, drains, withdraws and takes the process down.    *)
LEMMA LcMainStep == LcInv /\ LcMainThread => LcInv'
<1> SUFFICES ASSUME LcInv, LcMainThread PROVE LcInv'
  OBVIOUS
<1> USE DEF LcThreads
<1>0. LcTyped /\ LcDownInv
  BY DEF LcInv
<1>f. PICK mo, so \in LcOps \cup {"none"}, ma, sa \in LcStates :
          lcCall["main"] = [op |-> mo, at |-> ma] /\ lcCall["server"] = [op |-> so, at |-> sa]
  BY <1>0, LcFields
<1>1. CASE LcBegin \/ LcStopNode \/ LcDrain
  <2>1. lcBeat' \in 0 .. LcBeats
    BY <1>1, <1>0, LcAssumption DEF LcBegin, LcStopNode, LcDrain, LcTyped, LcTypeOK
  <2>2. LcTyped' /\ LcDownInv'
    <3>1. CASE LcBegin
      BY <2>1, <3>1, <1>f, <1>0 DEF LcBegin, LcMainGoes, LcTyped, LcTypeOK, LcDownInv
    <3>2. CASE LcStopNode
      BY <2>1, <3>2, <1>f, <1>0 DEF LcStopNode, LcMainGoes, LcTyped, LcTypeOK, LcDownInv
    <3>3. CASE LcDrain
      BY <2>1, <3>3, <1>f, <1>0 DEF LcDrain, LcMainGoes, LcTyped, LcTypeOK, LcDownInv
    <3> QED
      BY <1>1, <3>1, <3>2, <3>3
  <2>3. LcClean' => LcServingInv' /\ LcMainInv' /\ LcServerInv'
    BY <1>1, <1>f DEF LcBegin, LcStopNode, LcDrain, LcMainGoes, LcTyped, LcTypeOK,
       LcDownInv, LcClean, LcServingInv, LcMainInv, LcServerInv, LcLeaving, LcIdle,
       LcNoCall, LcInv
  <2> QED
    BY <2>2, <2>3 DEF LcInv
<1>2. CASE LcHeartbeat
  <2>2. /\ LcCallTypes'
        /\ lcCall'["main"] = [op |-> IF lcDraining THEN "drained" ELSE "register", at |-> "sent"]
         /\ lcCall'["server"] = lcCall["server"]
    BY <1>0, <1>2, LcTable DEF LcHeartbeat, LcSend, LcOps, LcStates, LcCallTypes
  <2>3. LcTyped' /\ LcDownInv'
    BY <2>2, <1>2, <1>f DEF LcHeartbeat, LcMainGoes, LcCallTypes, LcInv, LcTyped,
       LcTypeOK, LcDownInv, LcNoCall
  <2>4. LcClean' => LcServingInv' /\ LcMainInv' /\ LcServerInv'
    BY <2>2, <1>2, <1>f DEF LcHeartbeat, LcMainGoes, LcTyped, LcTypeOK, LcDownInv,
       LcClean, LcServingInv, LcMainInv, LcServerInv, LcLeaving, LcIdle, LcNoCall, LcInv
  <2> QED
    BY <2>3, <2>4 DEF LcInv
<1>3. CASE LcThenResources
  <2>1. PICK c \in {[op |-> "resources", at |-> "sent"], [op |-> "withdraw", at |-> "sent"], LcNoCall} :
            /\ lcCall' = [lcCall EXCEPT !["main"] = c]
            /\ \/ c.op = "resources" /\ LcMainGoes("beat", "resources")
               \/ c = LcNoCall /\ LcMainGoes("beat", "wait")
               \/ c.op = "withdraw" /\ LcMainGoes("lastbeat", "withdraw")
    BY <1>3 DEF LcThenResources, LcSend, LcDoneWith, LcNoCall
  <2>a. PICK o \in LcOps \cup {"none"}, at \in LcStates : c = [op |-> o, at |-> at]
    BY DEF LcNoCall, LcOps, LcStates
  <2>2. LcCallTypes' /\ lcCall'["main"] = c /\ lcCall'["server"] = lcCall["server"]
    BY <2>1, <2>a, <1>0, LcTable DEF LcCallTypes
  <2>3. LcTyped' /\ LcDownInv'
    BY <2>1, <2>2, <1>3, <1>f DEF LcThenResources, LcReturned, LcMainGoes, LcCallTypes,
       LcInv, LcTyped, LcTypeOK, LcDownInv, LcNoCall
  <2>4. LcClean' => LcServingInv' /\ LcMainInv' /\ LcServerInv'
    BY <2>1, <2>2, <1>3, <1>f DEF LcThenResources, LcReturned, LcMainGoes, LcTyped,
       LcTypeOK, LcDownInv, LcClean, LcServingInv, LcMainInv, LcServerInv, LcLeaving,
       LcIdle, LcNoCall, LcInv
  <2> QED
    BY <2>3, <2>4 DEF LcInv
<1>4. CASE LcPairEnds
  <2>2. /\ LcCallTypes'
        /\ lcCall'["main"] = LcNoCall /\ lcCall'["server"] = lcCall["server"]
    BY <1>0, <1>4, LcTable DEF LcPairEnds, LcDoneWith, LcNoCall, LcOps, LcStates,
       LcCallTypes
  <2>3. LcTyped' /\ LcDownInv'
    BY <2>2, <1>4, <1>f DEF LcPairEnds, LcReturned, LcMainGoes, LcCallTypes, LcInv,
       LcTyped, LcTypeOK, LcDownInv, LcNoCall
  <2>4. LcClean' => LcServingInv' /\ LcMainInv' /\ LcServerInv'
    BY <2>2, <1>4, <1>f DEF LcPairEnds, LcReturned, LcMainGoes, LcTyped, LcTypeOK,
       LcDownInv, LcClean, LcServingInv, LcMainInv, LcServerInv, LcLeaving, LcIdle,
       LcNoCall, LcInv
  <2> QED
    BY <2>3, <2>4 DEF LcInv
<1>5. CASE LcJoin
  <2>0. PICK na \in LcStates : na = IF sa = "sent" THEN "failed" ELSE sa
    BY DEF LcStates
  <2>1. lcCall' = [lcCall EXCEPT !["server"] = [op |-> so, at |-> na]]
    <3>1. lcCall' = [lcCall EXCEPT !["server"].at = na]
      BY <1>5, <1>f, <2>0 DEF LcJoin
    <3>2. lcCall' = [lcCall EXCEPT !["server"] = [op |-> lcCall["server"].op, at |-> na]]
      BY <3>1, <1>0, LcAt
    <3> QED
      BY <3>2, <1>f
  <2>2. /\ LcCallTypes'
        /\ lcCall'["server"] = [op |-> so, at |-> na] /\ lcCall'["main"] = lcCall["main"]
    BY <2>1, <1>0, LcTable DEF LcCallTypes
  <2>a. /\ lcDispatch' \in {"idle", "locked", "offering", "ended"} /\ lcRunner' \in {"server", "main", "none"}
    BY <1>5, <1>0 DEF LcJoin, LcTyped, LcTypeOK, LcThreads
  <2>b. na # "sent" /\ (so = "none" => na = "none")
    BY <2>0, <1>f, <1>0 DEF LcTyped
  <2>c. /\ lcServer' = "gone" /\ ~lcNodeUp' /\ lcMain = "join" /\ lcMain' = "ended" /\ lcNodeUp' \in BOOLEAN
        /\ UNCHANGED <<lcBeat, lcLate, lcServing, lcService, lcFounderUp, lcDraining, lcActive, lcLease,
                       lcSeen, lcListed, lcFaulty>>
    BY <1>5 DEF LcJoin, LcMainGoes
  <2>3. LcTyped' /\ LcDownInv'
    BY <2>a, <2>b, <2>c, <2>2, <1>f DEF LcNoCall, LcCallTypes, LcInv, LcTyped, LcTypeOK,
       LcDownInv, LcNoCall
  <2>4. LcClean' => LcServingInv' /\ LcMainInv' /\ LcServerInv'
    BY <2>a, <2>b, <2>c, <2>2, <1>f DEF LcNoCall, LcTyped, LcTypeOK, LcDownInv, LcClean,
       LcServingInv, LcMainInv, LcServerInv, LcLeaving, LcIdle, LcNoCall, LcInv
  <2> QED
    BY <2>3, <2>4 DEF LcInv
<1> QED
  BY <1>1, <1>2, <1>3, <1>4, <1>5 DEF LcMainThread

(* A step of the Founder or of the carrier.                                *)
LcFounderSide ==
    \/ \E t \in LcThreads : LcAcceptCall(t) \/ LcCallFails(t) \/ LcReplyLost(t)
    \/ \E op \in LcOps : LcAcceptLate(op)
    \/ LcTakeService \/ LcServe \/ LcOffer \/ LcFounderStops \/ LcSubmit \/ LcOfferFails

(* The Founder serves what was called; a lost call ends the clean run.     *)
LEMMA LcFounderStep == LcInv /\ LcFounderSide => LcInv'
<1> SUFFICES ASSUME LcInv, LcFounderSide PROVE LcInv'
  OBVIOUS
<1> USE DEF LcThreads
<1>0. LcTyped /\ LcDownInv
  BY DEF LcInv
<1>f. PICK mo, so \in LcOps \cup {"none"}, ma, sa \in LcStates :
          lcCall["main"] = [op |-> mo, at |-> ma] /\ lcCall["server"] = [op |-> so, at |-> sa]
  BY <1>0, LcFields
<1>1. CASE LcTakeService \/ LcOffer \/ LcFounderStops \/ LcSubmit
  <2>1. LcTyped' /\ LcDownInv'
    <3>1. CASE LcTakeService \/ LcOffer
      BY <3>1, <1>f, <1>0 DEF LcTakeService, LcOffer, LcTyped, LcTypeOK, LcDownInv
    <3>2. CASE LcFounderStops
      <4>2. /\ lcFounderUp' \in BOOLEAN
            /\ UNCHANGED <<lcDispatch, lcServer, lcMain, lcBeat, lcCall, lcLate, lcServing, lcService,
                           lcRunner, lcNodeUp, lcDraining, lcActive, lcLease, lcSeen, lcListed,
                           lcFaulty>>
        BY <3>2 DEF LcFounderStops
      <4>0. LcTypeOK
        BY <1>0 DEF LcTyped
      <4>1. LcTypeOK'
        BY <4>0, <4>2 DEF LcTypeOK
      <4> QED
        BY <4>1, <4>2, <1>0 DEF LcTyped, LcDownInv
    <3>3. CASE LcSubmit
      BY <3>3, <1>f, <1>0 DEF LcSubmit, LcTyped, LcTypeOK, LcDownInv
    <3> QED
      BY <1>1, <3>1, <3>2, <3>3
  <2>2. LcClean' => LcServingInv' /\ LcMainInv' /\ LcServerInv'
    <3> USE DEF LcTyped, LcTypeOK, LcDownInv, LcClean, LcServingInv, LcMainInv, LcServerInv,
                LcLeaving, LcIdle, LcNoCall, LcInv
    <3>1. CASE LcTakeService
      BY <3>1, <1>f DEF LcTakeService
    <3>2. CASE LcOffer
      BY <3>2, <1>f DEF LcOffer
    <3>3. CASE LcFounderStops
      BY <3>3, <1>f DEF LcFounderStops
    <3>4. CASE LcSubmit
      BY <3>4, <1>f DEF LcSubmit
    <3> QED
      BY <1>1, <3>1, <3>2, <3>3, <3>4
  <2> QED
    BY <2>1, <2>2 DEF LcInv
<1>2. CASE LcOfferFails
  BY <1>2, <1>f, LcAssumption DEF LcOfferFails, LcTyped, LcTypeOK, LcDownInv, LcClean,
     LcServingInv, LcMainInv, LcServerInv, LcLeaving, LcIdle, LcNoCall, LcInv
<1>3. CASE \E op \in LcOps : LcAcceptLate(op)
  BY <1>3, <1>f DEF LcAcceptLate, LcTyped, LcTypeOK, LcDownInv, LcClean, LcServingInv,
     LcMainInv, LcServerInv, LcLeaving, LcIdle, LcNoCall, LcInv
<1>4. ASSUME NEW t \in LcThreads, LcAcceptCall(t) PROVE LcInv'
  BY <1>4, <1>f DEF LcAcceptCall, LcTyped, LcTypeOK, LcDownInv, LcClean, LcServingInv,
     LcMainInv, LcServerInv, LcLeaving, LcIdle, LcNoCall, LcInv
<1>5. ASSUME NEW t \in LcThreads, LcCallFails(t) \/ LcReplyLost(t) PROVE LcInv'
  <2>1. lcCall' = [lcCall EXCEPT ![t] = [op |-> lcCall[t].op, at |-> "failed"]]
    BY <1>5, <1>f, <1>0 DEF LcCallFails, LcReplyLost, LcTyped, LcTypeOK
  <2>2. /\ LcCallTypes' /\ lcCall'[t] = [op |-> lcCall[t].op, at |-> "failed"]
        /\ \A u \in LcThreads : u # t => lcCall'[u] = lcCall[u]
    BY <2>1, <1>0, LcTable, LcFields DEF LcCallTypes, LcStates
  <2>3. ~LcClean'
    BY <1>5, LcAssumption DEF LcCallFails, LcReplyLost, LcTyped, LcTypeOK, LcDownInv,
       LcClean, LcServingInv, LcMainInv, LcServerInv, LcLeaving, LcIdle, LcNoCall, LcInv
  <2>4. LcTyped' /\ LcDownInv'
    BY <2>2, <1>f, <1>5, LcAssumption DEF LcCallFails, LcReplyLost, LcCallTypes, LcTyped,
       LcTypeOK, LcDownInv, LcClean, LcServingInv, LcMainInv, LcServerInv, LcLeaving,
       LcIdle, LcNoCall, LcInv
  <2> QED
    BY <2>3, <2>4 DEF LcInv
<1>6. CASE LcServe
  <2>1. PICK b \in {"server", "main", "late"}, o \in LcOps : lcServing = [by |-> b, op |-> o]
    BY <1>6, <1>0, LcFields DEF LcServe, LcTyped, LcTypeOK, LcIdle
  <2>2. /\ LcCallTypes'
        /\ lcCall'["main"] = IF b = "main" /\ lcCall["main"] = [op |-> o, at |-> "sent"]
                             THEN [op |-> o, at |-> "answered"] ELSE lcCall["main"]
        /\ lcCall'["server"] = IF b = "server" /\ lcCall["server"] = [op |-> o, at |-> "sent"]
                               THEN [op |-> o, at |-> "answered"] ELSE lcCall["server"]
    BY <2>1, <1>6, <1>0, <1>f DEF LcServe, LcCallTypes, LcTyped, LcTypeOK, LcStates
  <2>a. /\ lcSeen' \in {"none", "available", "draining"} /\ lcListed' \in BOOLEAN
        /\ lcLease' \in {"none", "offered", "accepted", "refused", "complete"}
        /\ LcNode \in LcPeers \/ lcSeen' = lcSeen
    BY <1>6, <1>0 DEF LcServe, LcEffect, LcBound, LcTyped, LcTypeOK
  <2>3. LcTyped' /\ LcDownInv'
    BY <2>1, <2>2, <2>a, <1>6, <1>0, <1>f DEF LcServe, LcCallTypes, LcTyped, LcTypeOK,
       LcDownInv
  <2> SUFFICES ASSUME LcClean' PROVE (LcServingInv /\ LcMainInv /\ LcServerInv)'
    BY <2>3 DEF LcInv
  <2>4. LcClean
    BY <1>6 DEF LcClean, LcServe
  <2>5. LcServingInv'
    BY <2>1, <2>2, <2>4, <1>6, <1>f DEF LcServe, LcTyped, LcTypeOK, LcDownInv, LcClean,
       LcServingInv, LcMainInv, LcServerInv, LcLeaving, LcIdle, LcNoCall, LcInv
  <2>6. LcMainInv'
    BY <2>1, <2>2, <2>4, <1>6, <1>f DEF LcServe, LcEffect, LcBound, LcTyped, LcTypeOK,
       LcDownInv, LcClean, LcServingInv, LcMainInv, LcServerInv, LcLeaving, LcIdle,
       LcNoCall, LcInv
  <2>7. LcServerInv'
    BY <2>1, <2>2, <2>4, <1>6, <1>f DEF LcServe, LcEffect, LcTyped, LcTypeOK, LcDownInv,
       LcClean, LcServingInv, LcMainInv, LcServerInv, LcLeaving, LcIdle, LcNoCall, LcInv
  <2> QED
    BY <2>5, <2>6, <2>7
<1> QED
  BY <1>1, <1>2, <1>3, <1>4, <1>5, <1>6 DEF LcFounderSide

(* Every step of either host keeps the invariant.                         *)
LEMMA LcStepInv == LcInv /\ [LcNext]_lcVars => LcInv'
<1> SUFFICES ASSUME LcInv, [LcNext]_lcVars PROVE LcInv'
  OBVIOUS
<1>1. CASE UNCHANGED lcVars
  BY <1>1 DEF lcVars, LcTyped, LcTypeOK, LcDownInv, LcClean, LcServingInv, LcMainInv,
     LcServerInv, LcLeaving, LcIdle, LcNoCall, LcInv
<1>2. CASE LcNext
  BY <1>2, LcServerStep, LcMainStep, LcFounderStep
     DEF LcNext, LcThreadsStep, LcServerThread, LcMainThread, LcFounderSide
<1> QED
  BY <1>1, <1>2

(* Node and Founder agree while no call is lost and both run: a lease      *)
(* accepted at the Founder is a task of the node or the answer it waits    *)
(* for, and a node that withdrew is neither listed nor available; for any  *)
(* peers and any number of heartbeats (headless_lan_node_daemon,           *)
(* specialist_node_runner).                                                *)
THEOREM HostsAgree == LcSpec => []LcAgree
<1>1. LcInv => LcAgree
  BY DEF LcInv, LcClean, LcServerInv, LcMainInv, LcAgree, LcLeaseTracked, LcWithdrawn
<1> QED
  BY LcInitInv, LcStepInv, <1>1, PTL DEF LcSpec

-----------------------------------------------------------------------------
(* Audio ingress.                                                          *)

(* What a receipt can be of.                                               *)
AuEvent == AuTerminalEvents \cup {"COURT_AUTHORIZED", "EXECUTION_STARTED"}

(* Before its end a dispatch has no terminal receipt; before its start it  *)
(* has no start receipt and nothing was recorded.                          *)
AuBefore(d) ==
    /\ auCall[d] \in {"submit", "gates", "started", "handled", "failed"} => AuTerminals(d) = {}
    /\ auCall[d] \in {"submit", "gates"} => ~AuHas(d, "EXECUTION_STARTED")
    /\ auCall[d] \in {"started", "handled", "failed"} => AuHas(d, "EXECUTION_STARTED")
    /\ auCall[d] = "started" => auSeen[d] = 0
    /\ auCall[d] = "handled" => auSeen[d] = 1

(* What is recorded has a start receipt, and the one terminal receipt says *)
(* what happened.                                                          *)
AuAfter(d) ==
    /\ auSeen[d] \in {0, 1}
    /\ auSeen[d] = 1 => AuHas(d, "EXECUTION_STARTED")
    /\ \A i, j \in AuTerminals(d) : i = j
    /\ \A i \in AuTerminals(d) :
          /\ auLedger[i].event = "EXECUTION_COMPLETED" => auSeen[d] = 1
          /\ auLedger[i].event \in {"COURT_DENIED", "EXECUTION_DENIED"} => auSeen[d] = 0
    /\ auStored[d] # "none" => \E i \in AuTerminals(d) : auLedger[i].event = auStored[d]

AuInv == AuTypeOK /\ \A d \in AuDispatches : AuBefore(d) /\ AuAfter(d)

AuChain == Seq([intent : AuDispatches, id : BOOLEAN, event : AuEvent])

(* A receipt that is written is the last of the chain and is the only      *)
(* change to it; one that is lost changes nothing.                         *)
LEMMA AuWrites ==
    ASSUME AuTypeOK, NEW d \in AuDispatches, NEW ev \in AuEvent, NEW fate \in AuFates,
           AuPersist(d, ev, fate)
    PROVE  /\ auLedger' \in AuChain /\ auFaults' \in 0 .. AuFaults
           /\ \A i \in DOMAIN auLedger : i \in DOMAIN auLedger' /\ auLedger'[i] = auLedger[i]
           /\ \A i \in DOMAIN auLedger' :
                 i \notin DOMAIN auLedger => /\ fate # "lost" /\ i = Len(auLedger) + 1
                                            /\ auLedger'[i].intent = d /\ auLedger'[i].event = ev
           /\ fate # "lost" => Len(auLedger) + 1 \in DOMAIN auLedger' \ DOMAIN auLedger
<1>1. auLedger \in AuChain /\ auFaults \in 0 .. AuFaults
  BY DEF AuTypeOK, AuChain, AuEvent
<1>2. auFaults' \in 0 .. AuFaults
  BY <1>1, AuAssumption DEF AuPersist
<1>3. CASE fate = "lost"
  BY <1>1, <1>2, <1>3 DEF AuPersist
<1>4. CASE fate # "lost"
  <2>1. PICK r \in [intent : AuDispatches, id : BOOLEAN, event : AuEvent] :
            auLedger' = Append(auLedger, r) /\ r.intent = d /\ r.event = ev
    <3>1. PICK b \in BOOLEAN : AuReceipt(d, ev, fate) = [intent |-> d, event |-> ev, id |-> b]
      BY DEF AuReceipt
    <3> QED
      BY <3>1, <1>4 DEF AuPersist
  <2> QED
    BY <2>1, <1>1, <1>2, <1>4 DEF AuChain
<1> QED
  BY <1>3, <1>4

(* What the new receipt means for the dispatches.                          *)
LEMMA AuWritten ==
    ASSUME AuTypeOK, NEW d \in AuDispatches, NEW ev \in AuEvent, NEW fate \in AuFates,
           AuPersist(d, ev, fate)
    PROVE  /\ \A e \in AuDispatches : \A i \in AuTerminals(e) :
                 i \in AuTerminals(e)' /\ auLedger'[i] = auLedger[i]
           /\ \A e \in AuDispatches : \A i \in AuTerminals(e)' :
                 \/ i \in AuTerminals(e) /\ auLedger'[i] = auLedger[i]
                 \/ /\ e = d /\ ev \in AuTerminalEvents /\ fate # "lost"
                    /\ i = Len(auLedger) + 1 /\ auLedger'[i].event = ev
           /\ \A e \in AuDispatches : AuHas(e, "EXECUTION_STARTED")' =>
                 AuHas(e, "EXECUTION_STARTED") \/ (e = d /\ ev = "EXECUTION_STARTED")
           /\ \A e \in AuDispatches : AuHas(e, "EXECUTION_STARTED") => AuHas(e, "EXECUTION_STARTED")'
           /\ fate # "lost" /\ ev = "EXECUTION_STARTED" => AuHas(d, "EXECUTION_STARTED")'
<1>1. \A i \in DOMAIN auLedger : i \in DOMAIN auLedger' /\ auLedger'[i] = auLedger[i]
  BY AuWrites
<1>2. \A i \in DOMAIN auLedger' :
          i \notin DOMAIN auLedger => /\ fate # "lost" /\ i = Len(auLedger) + 1
                                     /\ auLedger'[i].intent = d /\ auLedger'[i].event = ev
  BY AuWrites
<1>3. fate # "lost" => Len(auLedger) + 1 \in DOMAIN auLedger' \ DOMAIN auLedger
  BY AuWrites
<1>4. \A e \in AuDispatches : \A i \in AuTerminals(e) :
          i \in AuTerminals(e)' /\ auLedger'[i] = auLedger[i]
  BY <1>1 DEF AuTerminals, AuMatching
<1>5. \A e \in AuDispatches : \A i \in AuTerminals(e)' :
          \/ i \in AuTerminals(e) /\ auLedger'[i] = auLedger[i]
          \/ /\ e = d /\ ev \in AuTerminalEvents /\ fate # "lost"
             /\ i = Len(auLedger) + 1 /\ auLedger'[i].event = ev
  BY <1>1, <1>2 DEF AuTerminals, AuMatching
<1>6. \A e \in AuDispatches : AuHas(e, "EXECUTION_STARTED")' =>
          AuHas(e, "EXECUTION_STARTED") \/ (e = d /\ ev = "EXECUTION_STARTED")
  BY <1>1, <1>2 DEF AuHas, AuMatching
<1>7. \A e \in AuDispatches : AuHas(e, "EXECUTION_STARTED") => AuHas(e, "EXECUTION_STARTED")'
  BY <1>1 DEF AuHas, AuMatching
<1>8. fate # "lost" /\ ev = "EXECUTION_STARTED" => AuHas(d, "EXECUTION_STARTED")'
  BY <1>2, <1>3 DEF AuHas, AuMatching
<1> QED
  BY <1>4, <1>5, <1>6, <1>7, <1>8

(* A dispatch that a step does not touch.                                  *)
LEMMA AuApart ==
    ASSUME NEW e \in AuDispatches, AuBefore(e), AuAfter(e),
           auCall'[e] = auCall[e] \/ auCall'[e] \in {"idle", "resolve"}, auSeen'[e] = auSeen[e], auStored'[e] = auStored[e],
           \A i \in AuTerminals(e) : i \in AuTerminals(e)' /\ auLedger'[i] = auLedger[i],
           \A i \in AuTerminals(e)' : i \in AuTerminals(e),
           AuHas(e, "EXECUTION_STARTED") => AuHas(e, "EXECUTION_STARTED")',
           auCall'[e] \in {"submit", "gates"} => ~AuHas(e, "EXECUTION_STARTED")'
    PROVE  AuBefore(e)' /\ AuAfter(e)'
<1>1. AuTerminals(e)' = AuTerminals(e)
  OBVIOUS
<1>2. AuBefore(e)'
  BY <1>1 DEF AuBefore
<1>3. AuAfter(e)'
  BY <1>1 DEF AuAfter
<1> QED
  BY <1>2, <1>3

(* Nothing has happened at the start.                                      *)
LEMMA AuInitInv == AuInit => AuInv
<1> SUFFICES ASSUME AuInit PROVE AuInv
  OBVIOUS
<1>1. AuTypeOK
  BY AuAssumption DEF AuInit, AuTypeOK, AuCalls
<1>2. \A d \in AuDispatches : AuTerminals(d) = {} /\ ~AuHas(d, "EXECUTION_STARTED")
  BY DEF AuInit, AuTerminals, AuMatching, AuHas
<1> QED
  BY <1>1, <1>2 DEF AuInit, AuInv, AuBefore, AuAfter

(* The steps that write a receipt of dispatch d.                           *)
AuWriting(d, fate) ==
    \/ \E allowed \in BOOLEAN : AuCourt(d, allowed, fate)
    \/ AuRefuse(d, fate) \/ AuStart(d, fate) \/ AuUnconsumed(d, fate) \/ AuFinish(d, fate)

(* A receipt is written where the dispatch stands, and it is true.         *)
LEMMA AuWritingStep ==
    ASSUME AuInv, NEW d \in AuDispatches, NEW fate \in AuFates, AuWriting(d, fate)
    PROVE  AuInv'
<1>0. AuTypeOK /\ \A e \in AuDispatches : AuBefore(e) /\ AuAfter(e)
  BY DEF AuInv
<1>1. PICK ev \in AuEvent, to \in {"gates", "started", "resolve"} :
          /\ AuPersist(d, ev, fate) /\ auCall' = [auCall EXCEPT ![d] = to]
          /\ \/ /\ auCall[d] = "submit" /\ ev \in {"COURT_AUTHORIZED", "COURT_DENIED"}
                /\ to \in {"gates", "resolve"} /\ (to = "gates" => ev = "COURT_AUTHORIZED")
             \/ auCall[d] = "gates" /\ ev = "EXECUTION_DENIED" /\ to = "resolve"
             \/ /\ auCall[d] = "gates" /\ ev = "EXECUTION_STARTED"
                /\ to \in {"started", "resolve"} /\ (to = "started" => fate # "lost")
             \/ auCall[d] = "started" /\ ev = "EXECUTION_DENIED" /\ to = "resolve"
             \/ auCall[d] = "handled" /\ ev = "EXECUTION_COMPLETED" /\ to = "resolve"
             \/ auCall[d] = "failed" /\ ev = "EXECUTION_FAILED" /\ to = "resolve"
  <2>1. CASE \E allowed \in BOOLEAN : AuCourt(d, allowed, fate)
    BY <2>1 DEF AuCourt, AuGo, AuEvent, AuTerminalEvents
  <2>2. CASE AuRefuse(d, fate)
    BY <2>2 DEF AuRefuse, AuGo, AuEvent, AuTerminalEvents
  <2>3. CASE AuStart(d, fate)
    BY <2>3 DEF AuStart, AuGo, AuEvent, AuTerminalEvents
  <2>4. CASE AuUnconsumed(d, fate)
    BY <2>4 DEF AuUnconsumed, AuGo, AuEvent, AuTerminalEvents
  <2>5. CASE AuFinish(d, fate)
    BY <2>5 DEF AuFinish, AuGo, AuEvent, AuTerminalEvents
  <2> QED
    BY <2>1, <2>2, <2>3, <2>4, <2>5 DEF AuWriting
<1>2. UNCHANGED <<auChain, auSeen, auStored>>
  BY DEF AuWriting, AuCourt, AuRefuse, AuStart, AuUnconsumed, AuFinish
<1>3. AuTypeOK'
  <2>1. auLedger' \in AuChain /\ auFaults' \in 0 .. AuFaults
    BY <1>0, <1>1, AuWrites
  <2> QED
    BY <2>1, <1>0, <1>1, <1>2 DEF AuTypeOK, AuChain, AuEvent, AuCalls
<1>4. ASSUME NEW e \in AuDispatches PROVE AuBefore(e)' /\ AuAfter(e)'
  <2>1. /\ \A i \in AuTerminals(e) : i \in AuTerminals(e)' /\ auLedger'[i] = auLedger[i]
        /\ \A i \in AuTerminals(e)' :
              \/ i \in AuTerminals(e) /\ auLedger'[i] = auLedger[i]
              \/ /\ e = d /\ ev \in AuTerminalEvents /\ fate # "lost"
                 /\ i = Len(auLedger) + 1 /\ auLedger'[i].event = ev
        /\ AuHas(e, "EXECUTION_STARTED")' =>
              AuHas(e, "EXECUTION_STARTED") \/ (e = d /\ ev = "EXECUTION_STARTED")
        /\ AuHas(e, "EXECUTION_STARTED") => AuHas(e, "EXECUTION_STARTED")'
        /\ fate # "lost" /\ ev = "EXECUTION_STARTED" => AuHas(d, "EXECUTION_STARTED")'
    BY <1>0, <1>1, AuWritten
  <2>2. AuBefore(e) /\ AuAfter(e) /\ auSeen'[e] = auSeen[e] /\ auStored'[e] = auStored[e]
    BY <1>0, <1>2
  <2>3. CASE e # d
    <3>1. auCall'[e] = auCall[e]
      BY <1>0, <1>1, <2>3 DEF AuTypeOK
    <3>2. auCall'[e] \in {"submit", "gates"} => ~AuHas(e, "EXECUTION_STARTED")'
      BY <3>1, <2>1, <2>2, <2>3 DEF AuBefore
    <3> QED
      BY <3>1, <3>2, <2>1, <2>2, <2>3, AuApart
  <2>4. CASE e = d
    <3>1. auCall'[d] = to
      BY <1>0, <1>1 DEF AuTypeOK
    <3>2. AuTerminals(d) = {}
      BY <1>1, <2>2, <2>4 DEF AuBefore
    <3>3. AuBefore(d)'
      BY <3>1, <3>2, <1>1, <2>1, <2>2, <2>4 DEF AuBefore, AuAfter, AuTerminalEvents
    <3>4. AuAfter(d)'
      BY <3>1, <3>2, <1>1, <2>1, <2>2, <2>4 DEF AuBefore, AuAfter, AuTerminalEvents
    <3> QED
      BY <3>3, <3>4, <2>4
  <2> QED
    BY <2>3, <2>4
<1> QED
  BY <1>3, <1>4 DEF AuInv

(* What resolve_intent tells of the chain.                                 *)
LEMMA AuResolved ==
    ASSUME NEW d \in AuDispatches
    PROVE  /\ AuResolve(d) \in {"unseen", "court_authorized_only"} =>
                 AuTerminals(d) = {} /\ ~AuHas(d, "EXECUTION_STARTED")
           /\ AuResolve(d) = "terminal" =>
                 \E i \in AuTerminals(d) : AuTerminal(d) = auLedger[i]
BY DEF AuResolve, AuTerminal

(* The steps that read the chain, and those that end the process.          *)
AuReading(d) ==
    AuDispatch(d) \/ AuReturn(d) \/ \E recorded, named \in BOOLEAN : AuHandler(d, recorded, named)

(* A dispatch goes on only where nothing has started, and what is stored   *)
(* is in the chain.                                                        *)
LEMMA AuReadingStep ==
    ASSUME AuInv, NEW d \in AuDispatches, AuReading(d)
    PROVE  AuInv'
<1>0. AuTypeOK /\ \A e \in AuDispatches : AuBefore(e) /\ AuAfter(e)
  BY DEF AuInv
<1>1. UNCHANGED <<auLedger, auChain, auFaults>>
  BY DEF AuReading, AuDispatch, AuReturn, AuHandler
<1>2. \A e \in AuDispatches : /\ AuTerminals(e)' = AuTerminals(e)
                              /\ AuHas(e, "EXECUTION_STARTED")' = AuHas(e, "EXECUTION_STARTED")
  BY <1>1 DEF AuTerminals, AuMatching, AuHas
<1>3. \A i \in AuTerminals(d) : auLedger[i].event \in AuTerminalEvents
  BY DEF AuTerminals
<1>4. ASSUME NEW c \in AuCalls, NEW n \in Nat, NEW v \in AuTerminalEvents \cup {"none"},
             auCall' = [auCall EXCEPT ![d] = c], auSeen' = [auSeen EXCEPT ![d] = n],
             auStored' = [auStored EXCEPT ![d] = v], AuBefore(d)', AuAfter(d)'
      PROVE  AuInv'
  <2>1. AuTypeOK'
    BY <1>0, <1>1, <1>4 DEF AuTypeOK
  <2>2. ASSUME NEW e \in AuDispatches, e # d PROVE AuBefore(e)' /\ AuAfter(e)'
    <3>1. auCall'[e] = auCall[e] /\ auSeen'[e] = auSeen[e] /\ auStored'[e] = auStored[e]
      BY <1>0, <1>4, <2>2 DEF AuTypeOK
    <3>2. AuBefore(e) /\ AuAfter(e)
      BY <1>0
    <3>3. AuBefore(e)'
      BY <3>1, <3>2, <1>2 DEF AuBefore
    <3>4. AuAfter(e)'
      BY <3>1, <3>2, <1>1, <1>2 DEF AuAfter
    <3> QED
      BY <3>3, <3>4
  <2> QED
    BY <2>1, <2>2, <1>4 DEF AuInv
<1>5. AuBefore(d) /\ AuAfter(d) /\ auCall[d] \in AuCalls /\ auSeen[d] \in Nat
      /\ auStored[d] \in AuTerminalEvents \cup {"none"}
  BY <1>0 DEF AuTypeOK
<1>6. CASE AuDispatch(d) /\ AuSubmit(d)
  <2>1. /\ auCall' = [auCall EXCEPT ![d] = "submit"] /\ auSeen' = [auSeen EXCEPT ![d] = auSeen[d]]
        /\ auStored' = [auStored EXCEPT ![d] = auStored[d]] /\ "submit" \in AuCalls
    BY <1>6, <1>0 DEF AuDispatch, AuSubmit, AuGo, AuTypeOK, AuCalls
  <2>2. auCall'[d] = "submit" /\ auSeen'[d] = auSeen[d] /\ auStored'[d] = auStored[d]
    BY <2>1, <1>0 DEF AuTypeOK
  <2>3. AuTerminals(d) = {} /\ ~AuHas(d, "EXECUTION_STARTED")
    BY <1>6, AuResolved DEF AuSubmit
  <2>4. AuBefore(d)'
    BY <2>2, <2>3, <1>2, <1>5 DEF AuBefore, AuAfter
  <2>5. AuAfter(d)'
    BY <2>2, <2>3, <1>1, <1>2, <1>5 DEF AuAfter
  <2> QED
    BY <2>1, <2>4, <2>5, <1>4, <1>5
<1>7. CASE (AuDispatch(d) /\ AuReplay(d)) \/ AuReturn(d)
  <2>1. PICK v \in AuTerminalEvents \cup {"none"} :
            /\ auStored' = [auStored EXCEPT ![d] = v]
            /\ v = auStored[d] \/ \E i \in AuTerminals(d) : v = auLedger[i].event
    BY <1>7, <1>3, <1>5, AuResolved DEF AuReplay, AuReturn
  <2>2. PICK c \in AuCalls : /\ auCall' = [auCall EXCEPT ![d] = c]
                            /\ c = "idle"
    BY <1>7, <1>0 DEF AuDispatch, AuReplay, AuReturn, AuGo, AuTypeOK, AuCalls
  <2>3. auSeen' = [auSeen EXCEPT ![d] = auSeen[d]]
    BY <1>7, <1>0 DEF AuDispatch, AuReturn, AuTypeOK
  <2>4. auCall'[d] = "idle" /\ auSeen'[d] = auSeen[d] /\ auStored'[d] = v
    BY <2>1, <2>2, <2>3, <1>0 DEF AuTypeOK
  <2>5. AuBefore(d)'
    BY <2>4 DEF AuBefore
  <2>6. AuAfter(d)'
    BY <2>1, <2>4, <1>1, <1>2, <1>5 DEF AuAfter
  <2> QED
    BY <2>1, <2>2, <2>3, <2>5, <2>6, <1>4, <1>5
<1>8. ASSUME NEW recorded \in BOOLEAN, NEW named \in BOOLEAN, AuHandler(d, recorded, named)
      PROVE  AuInv'
  <2>1. PICK n \in {0, 1}, c \in {"handled", "failed"} :
            /\ auSeen' = [auSeen EXCEPT ![d] = n] /\ auCall' = [auCall EXCEPT ![d] = c]
            /\ c = "handled" => n = 1
    <3>1. auSeen[d] = 0
      BY <1>8, <1>5 DEF AuHandler, AuBefore
    <3>2. auSeen' = [auSeen EXCEPT ![d] = IF recorded THEN 1 ELSE 0]
      BY <3>1, <1>8 DEF AuHandler
    <3>3. auCall' = [auCall EXCEPT ![d] = IF recorded /\ named THEN "handled" ELSE "failed"]
      BY <1>8 DEF AuHandler, AuGo
    <3> QED
      BY <3>2, <3>3
  <2>2. auStored' = [auStored EXCEPT ![d] = auStored[d]] /\ auCall[d] = "started"
    BY <1>8, <1>0 DEF AuHandler, AuTypeOK
  <2>3. auCall'[d] = c /\ auSeen'[d] = n /\ auStored'[d] = auStored[d] /\ c \in AuCalls /\ n \in Nat
    BY <2>1, <2>2, <1>0 DEF AuTypeOK, AuCalls
  <2>4. AuTerminals(d) = {} /\ AuHas(d, "EXECUTION_STARTED")
    BY <2>2, <1>5 DEF AuBefore
  <2>5. AuBefore(d)'
    BY <2>1, <2>3, <2>4, <1>2 DEF AuBefore
  <2>6. AuAfter(d)'
    BY <2>3, <2>4, <1>1, <1>2, <1>5 DEF AuAfter
  <2> QED
    BY <2>1, <2>2, <2>3, <2>5, <2>6, <1>4, <1>5
<1> QED
  BY <1>6, <1>7, <1>8 DEF AuReading, AuDispatch

(* A crash takes the calls; damage to the file takes only its validity.    *)
LEMMA AuFaultStep == AuInv /\ (AuCrash \/ AuDamage) => AuInv'
<1> SUFFICES ASSUME AuInv, AuCrash \/ AuDamage PROVE AuInv'
  OBVIOUS
<1>1. AuTypeOK'
  <2>1. auFaults' \in 0 .. AuFaults
    BY AuAssumption DEF AuInv, AuTypeOK, AuCrash, AuDamage
  <2>2. auChain' \in BOOLEAN
    BY DEF AuInv, AuTypeOK, AuCrash, AuDamage
  <2>3. auCall' \in [AuDispatches -> AuCalls]
    BY DEF AuInv, AuTypeOK, AuCrash, AuDamage, AuCalls
  <2> QED
    BY <2>1, <2>2, <2>3 DEF AuInv, AuTypeOK, AuCrash, AuDamage
<1>2. ASSUME NEW e \in AuDispatches PROVE AuBefore(e)' /\ AuAfter(e)'
  <2>1. AuTerminals(e)' = AuTerminals(e) /\ AuHas(e, "EXECUTION_STARTED")' = AuHas(e, "EXECUTION_STARTED")
    BY DEF AuCrash, AuDamage, AuTerminals, AuMatching, AuHas
  <2>2. UNCHANGED <<auLedger, auSeen, auStored>> /\ auCall'[e] \in {auCall[e], "idle"}
    BY DEF AuCrash, AuDamage
  <2>3. AuBefore(e)'
    BY <2>1, <2>2 DEF AuInv, AuBefore
  <2>4. AuAfter(e)'
    BY <2>1, <2>2 DEF AuInv, AuAfter
  <2> QED
    BY <2>3, <2>4
<1> QED
  BY <1>1, <1>2 DEF AuInv

(* Every step of a dispatch keeps the invariant.                           *)
LEMMA AuStepInv == AuInv /\ [AuNext]_auVars => AuInv'
<1> SUFFICES ASSUME AuInv, [AuNext]_auVars PROVE AuInv'
  OBVIOUS
<1>1. CASE UNCHANGED auVars
  BY <1>1 DEF auVars, AuInv, AuTypeOK, AuBefore, AuAfter, AuTerminals, AuMatching, AuHas
<1>2. CASE AuNext
  BY <1>2, AuFaultStep, AuReadingStep, AuWritingStep DEF AuNext, AuReading, AuWriting
<1> QED
  BY <1>1, <1>2

(* However often the worker repeats a dispatch and wherever the process    *)
(* dies, the destination records it at most once, the ledger holds at most *)
(* one terminal receipt of it, and the worker stores what happened         *)
(* (audio_ingress_runtime.py dispatch, execution_receipt_sink.py           *)
(* resolve_intent); for any dispatches, events, routes and faults.         *)
THEOREM RecordedOnce == AuSpec => []AuSound
<1>1. AuInv => AuSound
  <2> SUFFICES ASSUME AuInv PROVE AuSound
    OBVIOUS
  <2>1. AuOnce /\ AuStoredTrue
    BY DEF AuInv, AuAfter, AuOnce, AuStoredTrue
  <2>2. ASSUME NEW d \in AuDispatches PROVE Cardinality(AuTerminals(d)) <= 1
    <3>1. CASE AuTerminals(d) = {}
      BY <3>1, FS_EmptySet
    <3>2. CASE AuTerminals(d) # {}
      <4>0. PICK i \in AuTerminals(d) : TRUE
        BY <3>2
      <4>b. AuAfter(d)
        BY DEF AuInv
      <4>a. \A k, l \in AuTerminals(d) : k = l
        BY <4>b DEF AuAfter
      <4>1. AuTerminals(d) = {i}
        BY <4>0, <4>a
      <4>2. Cardinality({i}) = 1
        BY FS_Singleton
      <4>3. Cardinality(AuTerminals(d)) = 1
        BY <4>1, <4>2
      <4> QED
        BY <4>3
    <3> QED
      BY <3>1, <3>2
  <2>3. AuOneTerminal
    BY <2>2 DEF AuOneTerminal, AuTerminals, AuMatching, AuTerminalEvents
  <2> QED
    BY <2>1, <2>3 DEF AuSound
<1> QED
  BY AuInitInv, AuStepInv, <1>1, PTL DEF AuSpec

(* The ledger, the calls and the faults of audio dispatch keep their       *)
(* types, for any dispatches, events, routes and faults                    *)
(* (audio_ingress_runtime.py).                                             *)
THEOREM AudioTypes == AuSpec => []AuTypeOK
<1>1. AuInv => AuTypeOK
  BY DEF AuInv
<1> QED
  BY <1>1, AuInitInv, AuStepInv, PTL DEF AuSpec

-----------------------------------------------------------------------------
(* Incident actions and Court.                                             *)

(* Some naturals have a smallest one.                                      *)
LEMMA IcLeast ==
    ASSUME NEW S \in SUBSET Nat, S # {}
    PROVE  \E x \in S : \A y \in S : x <= y
<1> DEFINE R == OpToRel(<, Nat)
<1>1. IsWellFoundedOn(R, Nat)
  BY NatLessThanWellFounded
<1>2. \A x, y \in Nat : x < y => <<x, y>> \in R
  BY DEF OpToRel
<1> HIDE DEF R
<1>3. PICK x \in S : \A y \in S : ~(<<y, x>> \in R)
  BY <1>1, WFMin
<1>4. \A y \in S : ~(y < x)
  BY <1>2, <1>3
<1>5. \A y \in S : x <= y
  BY <1>4
<1> QED
  BY <1>5

(* Min picks it.                                                           *)
LEMMA IcMin ==
    ASSUME NEW S \in SUBSET Nat, S # {}
    PROVE  Min(S) \in S /\ \A y \in S : Min(S) <= y
BY IcLeast DEF Min

(* An action is judged on its family; a door on the three facts.           *)
IcBacked(r, facts) ==
    /\ IcFamily(icAsks[r].action) \in {"visibility", "rescue-access"}
    /\ IcFamily(icAsks[r].action) = "rescue-access" => facts = IcFacts

(* The record of a request, stage by stage.                                *)
IcPolicyRecord ==
    [state : {"none", "denied", "specific-evidence-required", "eligible-for-governed-resolution"},
     first : BOOLEAN]
IcResolutionRecord ==
    [state : {"none", "emergency-context-not-active-verified", "incident-policy-not-ready",
              "target-resolution-required", "logical-candidate-resolved"},
     first : BOOLEAN, on : SUBSET IcFacts]
IcBoundRecord == [state : {"none", "bound"}, on : SUBSET IcFacts, inForce : BOOLEAN]

IcRecord ==
    [admitted : BOOLEAN, eligible : BOOLEAN, judgedOn : SUBSET IcFacts,
     policy : IcPolicyRecord, resolution : IcResolutionRecord, bound : IcBoundRecord]

(* Every stage passes on what the one before it was allowed to decide.     *)
IcChain(r) ==
    /\ icReq[r].policy.state = "eligible-for-governed-resolution" => IcBacked(r, icReq[r].judgedOn)
    /\ icReq[r].resolution.state = "logical-candidate-resolved" =>
          IcBacked(r, icReq[r].resolution.on) /\ icAsks[r].action \notin IcAmbiguous
    /\ icReq[r].bound.state = "bound" =>
          /\ IcBacked(r, icReq[r].bound.on) /\ icAsks[r].action \notin IcAmbiguous
          /\ icReq[r].bound.inForce

(* A token of a request is of a bound candidate.                           *)
IcTokenInv ==
    \A t \in icTokens : t.intent \in IcRequests =>
        /\ icReq[t.intent].bound.state = "bound"
        /\ t.capability = IcActionMap[icAsks[t.intent].action][1]

IcInv ==
    /\ icReq \in [IcRequests -> IcRecord] /\ icEvidence \subseteq IcFacts
    /\ \A r \in IcRequests : IcChain(r)
    /\ IcTokenInv /\ IcCourtSound

(* A bound action has an entry in the table: its capability opens doors    *)
(* only for the rescue family.                                             *)
LEMMA IcMapped ==
    ASSUME NEW r, NEW facts, IcBacked(r, facts), icAsks[r].action \notin IcAmbiguous
    PROVE  /\ IcActionMap[icAsks[r].action][1] = "access.request" =>
                 IcFamily(icAsks[r].action) = "rescue-access"
BY DEF IcBacked, IcAmbiguous, IcActionMap, IcFamily, IcVisibility, IcRescueAccess,
   IcMotionOrPower

IcNames == {"emergency", "medical", "owner", "service", "guest", "oem", "remote", "unknown"}

(* The authorities Court knows have ranks up to 800.                       *)
LEMMA IcRanks == DOMAIN IcAuthorityRanks = IcNames /\ \A a \in IcNames : IcAuthorityRanks[a] \in 0 .. 800
<1>1. DOMAIN IcAuthorityRanks = IcNames
  BY DEF IcAuthorityRanks, IcNames
<1>2. /\ IcAuthorityRanks["emergency"] = 800 /\ IcAuthorityRanks["medical"] = 700
      /\ IcAuthorityRanks["owner"] = 600 /\ IcAuthorityRanks["service"] = 500
      /\ IcAuthorityRanks["guest"] = 400 /\ IcAuthorityRanks["oem"] = 300
      /\ IcAuthorityRanks["remote"] = 200 /\ IcAuthorityRanks["unknown"] = 0
  BY DEF IcAuthorityRanks
<1> QED
  BY <1>1, <1>2 DEF IcNames

(* A sequence that is not empty has places, which are naturals.            *)
LEMMA IcPlaces ==
    ASSUME NEW S, NEW c \in Seq(S), c # <<>>
    PROVE  1 \in DOMAIN c /\ DOMAIN c \in SUBSET Nat
<1>1. Len(c) \in Nat \ {0}
  BY EmptySeq
<1>2. DOMAIN c = 1 .. Len(c)
  BY LenProperties
<1> QED
  BY <1>1, <1>2

(* The authority selected has the highest rank among the candidates.       *)
LEMMA IcHighest ==
    ASSUME NEW S, NEW c \in Seq(S), c # <<>>, \A i \in DOMAIN c : c[i] \in DOMAIN IcAuthorityRanks
    PROVE  \A i \in DOMAIN c : IcAuthorityRanks[c[i]] <= IcAuthorityRanks[IcSelected(c)]
<1> DEFINE rank(i) == IcAuthorityRanks[c[i]]
           Top == {i \in DOMAIN c : \A j \in DOMAIN c : rank(j) <= rank(i)}
<1>t. PICK top \in Nat : top = 800
  OBVIOUS
<1>1. PICK f \in [DOMAIN c -> 0 .. top] : \A i \in DOMAIN c : f[i] = rank(i)
  <2>1. \A i \in DOMAIN c : rank(i) \in 0 .. top
    BY <1>t, IcRanks
  <2>2. [i \in DOMAIN c |-> rank(i)] \in [DOMAIN c -> 0 .. top]
    BY <2>1
  <2> HIDE DEF rank
  <2> QED
    BY <2>2
<1> HIDE DEF rank
<1>2. 1 \in DOMAIN c /\ DOMAIN c \in SUBSET Nat
  BY IcPlaces
<1>3. PICK k \in DOMAIN c : \A j \in DOMAIN c : f[j] <= f[k]
  <2> DEFINE Gaps == {top - f[i] : i \in DOMAIN c}
  <2>0. \A i \in DOMAIN c : f[i] \in 0 .. top /\ top - f[i] \in Nat
    BY <1>1
  <2>1. Gaps \in SUBSET Nat /\ Gaps # {}
    BY <2>0, <1>2
  <2>2. PICK n \in Gaps : \A m \in Gaps : n <= m
    BY <2>1, IcLeast
  <2>3. PICK k \in DOMAIN c : n = top - f[k]
    BY <2>2
  <2>4. \A j \in DOMAIN c : top - f[k] <= top - f[j]
    BY <2>2, <2>3
  <2>5. \A j \in DOMAIN c : f[j] <= f[k]
    <3> TAKE j \in DOMAIN c
    <3>1. PICK m \in 0 .. top, l \in 0 .. top : m = f[j] /\ l = f[k]
      BY <2>0
    <3>2. top - l <= top - m
      BY <2>4, <3>1
    <3>3. m <= l
      BY <3>2
    <3> QED
      BY <3>1, <3>3
  <2> QED
    BY <2>5
<1>4. Top \in SUBSET Nat /\ Top # {}
  BY <1>1, <1>2, <1>3
<1>5. Min(Top) \in Top
  <2> HIDE DEF Top
  <2> QED
    BY <1>4, IcMin
<1>6. IcSelected(c) = c[Min(Top)]
  BY DEF IcSelected, rank
<1> QED
  BY <1>5, <1>6 DEF rank

(* A grant of Court: its authority, its policies and its lifetime.         *)
LEMMA IcGrant ==
    ASSUME NEW S, NEW ask, ask.candidates \in Seq(S), ask.policies \in Seq(S),
           IcVerdict(ask) = "authorized"
    PROVE  /\ IcSelected(ask.candidates) = ask.active
           /\ \A i \in DOMAIN ask.candidates :
                 IcAuthorityRanks[ask.candidates[i]] <= IcAuthorityRanks[IcSelected(ask.candidates)]
           /\ \A i \in DOMAIN ask.policies :
                 LET p == ask.policies[i] IN
                 /\ p \notin icRetired /\ ask.capability \in IcPolicyFile[p].capabilities
                 /\ {ask.target, "*"} \cap IcPolicyFile[p].targets # {}
                 /\ IcTtl(ask) <= IcPolicyFile[p].ttl
<1>1. /\ IcPoliciesNamed(ask) /\ IcAuthorityState(ask) = "" /\ IcPoliciesActive(ask)
      /\ IcPolicyState(ask) = ""
  <2>1. IcAuthorityState(ask) \in {"authority_unknown", "authority_conflict", ""}
    BY DEF IcAuthorityState
  <2>2. IcPolicyState(ask) \in {"policy_denied", "target_denied", ""}
    BY DEF IcPolicyState, IcFinding
  <2> QED
    BY <2>1, <2>2 DEF IcVerdict
<1>2. /\ ask.candidates # <<>> /\ IcSelected(ask.candidates) = ask.active
      /\ \A i \in DOMAIN ask.candidates : ask.candidates[i] \in DOMAIN IcAuthorityRanks
  BY <1>1 DEF IcAuthorityState
<1>3. \A i \in DOMAIN ask.candidates :
          IcAuthorityRanks[ask.candidates[i]] <= IcAuthorityRanks[IcSelected(ask.candidates)]
  BY <1>2, IcHighest
<1> DEFINE Ps == DOMAIN ask.policies
<1>4. ask.policies # <<>> /\ 1 \in Ps /\ Ps \in SUBSET Nat
  BY <1>1, IcPlaces DEF IcPoliciesNamed
<1>5. \A i \in Ps : ask.policies[i] \in DOMAIN IcPolicyFile /\ ask.policies[i] \notin icRetired
  BY <1>1 DEF IcPoliciesActive
<1>6. \A i \in Ps : IcFinding(ask.policies[i], ask) = ""
  <2> DEFINE denials == {i \in Ps : IcFinding(ask.policies[i], ask) # ""}
  <2>1. CASE denials = {}
    BY <2>1
  <2>2. CASE denials # {}
    <3>1. Min(denials) \in denials
      <4>1. denials \in SUBSET Nat
        BY <1>4
      <4> HIDE DEF denials
      <4> QED
        BY <4>1, <2>2, IcMin
    <3>2. IcPolicyState(ask) = IcFinding(ask.policies[Min(denials)], ask)
      BY <2>2 DEF IcPolicyState
    <3> QED
      BY <3>1, <3>2, <1>1
  <2> QED
    BY <2>1, <2>2
<1>7. \A i \in Ps : /\ ask.capability \in IcPolicyFile[ask.policies[i]].capabilities
                   /\ {ask.target, "*"} \cap IcPolicyFile[ask.policies[i]].targets # {}
  BY <1>6 DEF IcFinding
<1>8. \A i \in Ps : IcTtl(ask) <= IcPolicyFile[ask.policies[i]].ttl
  <2> DEFINE Ts == {IcPolicyFile[ask.policies[i]].ttl : i \in Ps}
  <2>1. \A i \in Ps : IcPolicyFile[ask.policies[i]].ttl \in 1 .. 300
    BY <1>5, IcAssumption
  <2>2. Ts \in SUBSET Nat /\ Ts # {}
    <3>0. 1 .. 300 \subseteq Nat
      OBVIOUS
    <3>1. \A i \in Ps : IcPolicyFile[ask.policies[i]].ttl \in Nat
      BY <3>0, <2>1, Zenon
    <3>2. Ts \in SUBSET Nat
      BY <3>1
    <3>3. IcPolicyFile[ask.policies[1]].ttl \in Ts
      BY <1>4
    <3> QED
      BY <3>2, <3>3
  <2>3. \A y \in Ts : Min(Ts) <= y
    <3> HIDE DEF Ts
    <3> QED
      BY <2>2, IcMin
  <2>4. IcTtl(ask) = Min(Ts)
    BY DEF IcTtl
  <2> QED
    BY <2>3, <2>4
<1> QED
  BY <1>2, <1>3, <1>5, <1>7, <1>8

(* A step that leaves tokens, receipts and proposals alone keeps the court *)
(* sound.                                                                  *)
LEMMA IcCourtKept ==
    IcCourtSound /\ UNCHANGED <<icTokens, icReceipts>> => IcCourtSound'
BY DEF IcCourtSound

(* Court decides on an ask whose sequences are sequences: every token it   *)
(* adds is sound, and is receipted.                                        *)
LEMMA IcDecided ==
    ASSUME IcCourtSound, NEW S, NEW ask, ask.candidates \in Seq(S), ask.policies \in Seq(S),
           NEW kept \in BOOLEAN, IcDecide(ask, kept)
    PROVE  /\ IcCourtSound'
           /\ \A t \in icTokens' : t \in icTokens \/ (t.intent = ask.intent /\ t.capability = ask.capability)
<1> DEFINE Sound(t, receipts) ==
          /\ [intent |-> t.intent, state |-> "authorized", incident |-> t.ask.incident] \in receipts
          /\ t.authority = t.ask.active
          /\ \A i \in DOMAIN t.ask.candidates :
               IcAuthorityRanks[t.ask.candidates[i]] <= IcAuthorityRanks[t.authority]
          /\ \A i \in DOMAIN t.ask.policies :
               LET p == t.ask.policies[i] IN
               /\ p \notin t.retired
               /\ t.capability \in IcPolicyFile[p].capabilities
               /\ {t.target, "*"} \cap IcPolicyFile[p].targets # {}
               /\ t.ttl <= IcPolicyFile[p].ttl
<1>1. icReceipts \subseteq icReceipts'
  BY DEF IcDecide
<1>2. \A t \in icTokens : Sound(t, icReceipts)
  BY DEF IcCourtSound
<1>3. \A t \in icTokens : Sound(t, icReceipts')
  BY <1>1, <1>2
<1>4. CASE IcVerdict(ask) = "authorized" /\ kept
  <2>1. icTokens' = icTokens \cup {IcToken(ask)}
    BY <1>4 DEF IcDecide
  <2>2. IcReceipt(ask, "authorized") \in icReceipts'
    BY <1>4 DEF IcDecide
  <2>3. PICK t : t = IcToken(ask)
    OBVIOUS
  <2>4. /\ t.intent = ask.intent /\ t.capability = ask.capability /\ t.target = ask.target
        /\ t.authority = IcSelected(ask.candidates) /\ t.ttl = IcTtl(ask) /\ t.ask = ask
        /\ t.retired = icRetired
    BY <2>3 DEF IcToken
  <2>5. Sound(t, icReceipts')
    BY <2>2, <2>4, <1>4, IcGrant DEF IcReceipt
  <2>6. \A u \in icTokens' : Sound(u, icReceipts')
    BY <2>1, <2>3, <2>5, <1>3
  <2> HIDE DEF Sound
  <2>7. \A u \in icTokens' : u \in icTokens \/ u = t
    BY <2>1, <2>3
  <2> QED
    BY <2>4, <2>6, <2>7 DEF IcCourtSound, Sound
<1>5. CASE ~(IcVerdict(ask) = "authorized" /\ kept)
  <2>1. icTokens' = icTokens
    BY <1>5 DEF IcDecide
  <2> QED
    BY <2>1, <1>3 DEF IcCourtSound
<1> QED
  BY <1>4, <1>5

(* At the start no stage has decided anything.                             *)
LEMMA IcInitInv == IcInit => IcInv
<1> SUFFICES ASSUME IcInit PROVE IcInv
  OBVIOUS
<1>1. IcUntouched \in IcRecord
  <2>1. [state |-> "none", first |-> FALSE] \in IcPolicyRecord
    BY DEF IcPolicyRecord
  <2>2. [state |-> "none", first |-> FALSE, on |-> {}] \in IcResolutionRecord
    BY DEF IcResolutionRecord
  <2>3. [state |-> "none", on |-> {}, inForce |-> FALSE] \in IcBoundRecord
    BY DEF IcBoundRecord
  <2> QED
    BY <2>1, <2>2, <2>3, Zenon DEF IcUntouched, IcRecord
<1>2. icReq \in [IcRequests -> IcRecord]
  BY <1>1 DEF IcInit
<1>3. \A r \in IcRequests : /\ icReq[r].policy.state = "none" /\ icReq[r].resolution.state = "none"
                            /\ icReq[r].bound.state = "none"
  BY DEF IcInit, IcUntouched
<1>4. IcTokenInv /\ IcCourtSound
  BY DEF IcInit, IcTokenInv, IcCourtSound
<1> QED
  BY <1>2, <1>3, <1>4 DEF IcInit, IcInv, IcChain

(* One stage of request r writes its decision.                             *)
LEMMA IcStage ==
    ASSUME IcInv, NEW r \in IcRequests, NEW q \in IcRecord, icReq' = [icReq EXCEPT ![r] = q],
           UNCHANGED <<icWorld, icCourt>>,
           q.policy.state = "eligible-for-governed-resolution" => IcBacked(r, q.judgedOn),
           q.resolution.state = "logical-candidate-resolved" =>
               IcBacked(r, q.resolution.on) /\ icAsks[r].action \notin IcAmbiguous,
           q.bound.state = "bound" => /\ IcBacked(r, q.bound.on) /\ q.bound.inForce
                                      /\ icAsks[r].action \notin IcAmbiguous,
           icReq[r].bound.state = "bound" => q.bound.state = "bound"
    PROVE  IcInv'
<1>1. /\ icReq \in [IcRequests -> IcRecord] /\ \A s \in IcRequests : IcChain(s)
      /\ IcTokenInv /\ IcCourtSound
  BY DEF IcInv
<1>2. UNCHANGED <<icAsks, icIncident, icEvidence, icTokens, icReceipts>>
  BY DEF icWorld, icCourt
<1>3. icReq' \in [IcRequests -> IcRecord] /\ icReq'[r] = q
      /\ \A s \in IcRequests : s # r => icReq'[s] = icReq[s]
  BY <1>1
<1>4. ASSUME NEW s \in IcRequests PROVE IcChain(s)'
  <2>1. CASE s = r
    BY <2>1, <1>2, <1>3 DEF IcChain, IcBacked
  <2>2. CASE s # r
    BY <2>2, <1>1, <1>2, <1>3 DEF IcChain, IcBacked
  <2> QED
    BY <2>1, <2>2
<1>5. IcTokenInv'
  BY <1>1, <1>2, <1>3 DEF IcTokenInv
<1>6. IcCourtSound'
  BY <1>1, <1>2, IcCourtKept
<1> QED
  BY <1>2, <1>3, <1>4, <1>5, <1>6 DEF IcInv

(* A stage reads the record of its request and writes the next one.        *)
LEMMA IcStages ==
    ASSUME IcInv, NEW r \in IcRequests,
           IcAdmit(r) \/ IcPrioritise(r) \/ IcJudge(r) \/ IcResolve(r) \/ IcBind(r)
    PROVE  IcInv'
<1>0. icReq \in [IcRequests -> IcRecord] /\ IcChain(r) /\ icEvidence \in SUBSET IcFacts
  BY DEF IcInv
<1>1. icReq[r] \in IcRecord /\ icReq[r].policy \in IcPolicyRecord
      /\ icReq[r].resolution \in IcResolutionRecord /\ icReq[r].bound \in IcBoundRecord
      /\ icReq[r].judgedOn \in SUBSET IcFacts
  BY <1>0 DEF IcRecord
<1>2. IcInForce(r) \in BOOLEAN
  BY DEF IcInForce
<1>3. CASE IcAdmit(r)
  <2>1. PICK q : q = [icReq[r] EXCEPT !.admitted = TRUE]
    OBVIOUS
  <2>2. q \in IcRecord /\ q.policy = icReq[r].policy /\ q.resolution = icReq[r].resolution
        /\ q.bound = icReq[r].bound /\ q.judgedOn = icReq[r].judgedOn
    BY <2>1, <1>1 DEF IcRecord
  <2>3. icReq' = [icReq EXCEPT ![r] = q] /\ UNCHANGED <<icWorld, icCourt>>
    BY <2>1, <1>3, <1>0 DEF IcAdmit
  <2> QED
    BY <2>2, <2>3, <1>0, IcStage DEF IcChain
<1>4. CASE IcPrioritise(r)
  <2>1. PICK q : q = [icReq[r] EXCEPT !.eligible = IcInForce(r)]
    OBVIOUS
  <2>2. q \in IcRecord /\ q.policy = icReq[r].policy /\ q.resolution = icReq[r].resolution
        /\ q.bound = icReq[r].bound /\ q.judgedOn = icReq[r].judgedOn
    BY <2>1, <1>1, <1>2 DEF IcRecord
  <2>3. icReq' = [icReq EXCEPT ![r] = q] /\ UNCHANGED <<icWorld, icCourt>>
    BY <2>1, <1>4, <1>0 DEF IcPrioritise
  <2> QED
    BY <2>2, <2>3, <1>0, IcStage DEF IcChain
<1>5. CASE IcJudge(r)
  <2>1. PICK q : q = [icReq[r] EXCEPT !.policy = IcJudgement(r), !.judgedOn = icEvidence]
    OBVIOUS
  <2>2. IcJudgement(r) \in IcPolicyRecord
    BY DEF IcJudgement, IcPolicyRecord
  <2>3. q \in IcRecord /\ q.policy = IcJudgement(r) /\ q.resolution = icReq[r].resolution
        /\ q.bound = icReq[r].bound /\ q.judgedOn = icEvidence
    BY <2>1, <2>2, <1>0, <1>1 DEF IcRecord
  <2>4. icReq' = [icReq EXCEPT ![r] = q] /\ UNCHANGED <<icWorld, icCourt>>
    BY <2>1, <1>5, <1>0 DEF IcJudge
  <2>5. IcJudgement(r).state = "eligible-for-governed-resolution" => IcBacked(r, icEvidence)
    <3>1. IcFamily(icAsks[r].action) \in {"visibility", "rescue-access", "motion-or-power", "unknown"}
      BY DEF IcFamily
    <3>2. IcMissing = {} => icEvidence = IcFacts
      BY <1>0 DEF IcMissing
    <3> QED
      BY <3>1, <3>2 DEF IcJudgement, IcBacked
  <2> QED
    BY <2>3, <2>4, <2>5, <1>0, IcStage DEF IcChain
<1>6. CASE IcResolve(r)
  <2>1. PICK q : q = [icReq[r] EXCEPT !.resolution = IcResolution(r)]
    OBVIOUS
  <2>2. IcResolution(r) \in IcResolutionRecord
    BY <1>1 DEF IcResolution, IcResolutionRecord, IcPolicyRecord
  <2>3. q \in IcRecord /\ q.policy = icReq[r].policy /\ q.resolution = IcResolution(r)
        /\ q.bound = icReq[r].bound /\ q.judgedOn = icReq[r].judgedOn
    BY <2>1, <2>2, <1>1 DEF IcRecord
  <2>4. icReq' = [icReq EXCEPT ![r] = q] /\ UNCHANGED <<icWorld, icCourt>>
    BY <2>1, <1>6, <1>0 DEF IcResolve
  <2>5. IcResolution(r).state = "logical-candidate-resolved" =>
            IcBacked(r, IcResolution(r).on) /\ icAsks[r].action \notin IcAmbiguous
    BY <1>0 DEF IcResolution, IcChain
  <2> QED
    BY <2>3, <2>4, <2>5, <1>0, IcStage DEF IcChain
<1>7. CASE IcBind(r)
  <2>1. PICK q : q = [icReq[r] EXCEPT !.bound = IcBound(r)]
    OBVIOUS
  <2>2. /\ IcBound(r) \in IcBoundRecord /\ IcBound(r).state = "bound"
        /\ IcBound(r).on = icReq[r].resolution.on /\ IcBound(r).inForce = IcInForce(r)
    BY <1>1, <1>2 DEF IcBound, IcBoundRecord, IcResolutionRecord
  <2>3. q \in IcRecord /\ q.policy = icReq[r].policy /\ q.resolution = icReq[r].resolution
        /\ q.bound = IcBound(r) /\ q.judgedOn = icReq[r].judgedOn
    BY <2>1, <2>2, <1>1 DEF IcRecord
  <2>4. icReq' = [icReq EXCEPT ![r] = q] /\ UNCHANGED <<icWorld, icCourt>>
    BY <2>1, <1>7, <1>0 DEF IcBind
  <2>5. IcInForce(r) /\ icReq[r].resolution.state = "logical-candidate-resolved"
    BY <1>7 DEF IcBind, IcBindable
  <2> QED
    BY <2>2, <2>3, <2>4, <2>5, <1>0, IcStage DEF IcChain
<1> QED
  BY <1>3, <1>4, <1>5, <1>6, <1>7

(* Court is asked, by a bound candidate or by a session.                   *)
LEMMA IcAsked ==
    ASSUME IcInv, NEW kept \in BOOLEAN,
           (\E r \in IcRequests : IcAuthorize(r, kept)) \/ (\E s \in IcSessions : IcSessionAsks(s, kept))
    PROVE  IcInv'
<1>0. IcTokenInv /\ IcCourtSound
  BY DEF IcInv
<1>1. ASSUME NEW r \in IcRequests, IcAuthorize(r, kept) PROVE IcInv'
  <2>1. PICK ask : ask = IcIncidentAsk(r)
    OBVIOUS
  <2>2. /\ ask.intent = r /\ ask.candidates = <<"emergency">>
        /\ ask.capability = IcActionMap[icAsks[r].action][1]
        /\ ask.policies = <<IcEmergencyPolicy(IcActionMap[icAsks[r].action][1])>>
    BY <2>1 DEF IcIncidentAsk
  <2>3. PICK S : ask.candidates \in Seq(S) /\ ask.policies \in Seq(S)
    <3>1. PICK p : p = IcEmergencyPolicy(IcActionMap[icAsks[r].action][1])
      OBVIOUS
    <3>2. <<"emergency">> \in Seq({"emergency", p}) /\ <<p>> \in Seq({"emergency", p})
      OBVIOUS
    <3> QED
      BY <2>2, <3>1, <3>2
  <2>4. IcDecide(ask, kept) /\ icReq[r].bound.state = "bound"
    BY <1>1, <2>1 DEF IcAuthorize
  <2>5. /\ IcCourtSound'
        /\ \A t \in icTokens' : t \in icTokens \/ (t.intent = ask.intent /\ t.capability = ask.capability)
    BY <2>3, <2>4, <1>0, IcDecided
  <2>6. UNCHANGED <<icAsks, icIncident, icEvidence, icReq>>
    BY <1>1 DEF IcAuthorize, icWorld
  <2>7. IcTokenInv'
    BY <2>2, <2>4, <2>5, <2>6, <1>0 DEF IcTokenInv
  <2> QED
    BY <2>5, <2>6, <2>7 DEF IcInv, IcChain, IcBacked
<1>2. ASSUME NEW s \in IcSessions, IcSessionAsks(s, kept) PROVE IcInv'
  <2>1. s.candidates \in Seq(STRING) /\ s.policies \in Seq(STRING) /\ s.intent \notin IcRequests
    BY IcAssumption
  <2>2. IcDecide(s, kept)
    BY <1>2 DEF IcSessionAsks
  <2>3. /\ IcCourtSound'
        /\ \A t \in icTokens' : t \in icTokens \/ (t.intent = s.intent /\ t.capability = s.capability)
    BY <2>1, <2>2, <1>0, IcDecided
  <2>4. UNCHANGED <<icAsks, icIncident, icEvidence, icReq>>
    BY <1>2 DEF IcSessionAsks, icWorld
  <2>5. IcTokenInv'
    BY <2>1, <2>3, <2>4, <1>0 DEF IcTokenInv
  <2> QED
    BY <2>3, <2>4, <2>5 DEF IcInv, IcChain, IcBacked
<1> QED
  BY <1>1, <1>2

(* The world changes under the decisions already taken.                    *)
IcWorldStep ==
    \/ \E i \in IcIncidents, verified \in BOOLEAN : IcOpens(i, verified)
    \/ IcCloses \/ IcVerifies
    \/ \E f \in IcFacts : IcEvidenceIs(icEvidence \ {f}) \/ IcEvidenceIs(icEvidence \cup {f})
    \/ \E p \in DOMAIN IcPolicyFile : IcRetires(p)

(* No change of incident, evidence or policies touches them.               *)
LEMMA IcWorldKeeps == IcInv /\ IcWorldStep => IcInv'
<1> SUFFICES ASSUME IcInv, IcWorldStep PROVE IcInv'
  OBVIOUS
<1>1. UNCHANGED <<icAsks, icReq, icTokens, icReceipts>>
  BY DEF IcWorldStep, IcOpens, IcCloses, IcVerifies, IcEvidenceIs, IcRetires, icCourt
<1>2. icEvidence' \subseteq IcFacts
  BY DEF IcWorldStep, IcOpens, IcCloses, IcVerifies, IcEvidenceIs, IcRetires, IcInv
<1>3. IcCourtSound'
  BY <1>1, IcCourtKept DEF IcInv
<1> QED
  BY <1>1, <1>2, <1>3 DEF IcInv, IcChain, IcBacked, IcTokenInv

(* A responder's request reaches a token only by the governed path: the    *)
(* incident was in force when its candidate was bound, and for a door the  *)
(* three facts held when it was judged; and every token of Court has the   *)
(* highest authority, active policies that permit it, the shortest of      *)
(* their lifetimes and a receipt.  For any requests, incidents, policies   *)
(* and sessions, and any order of stages and changes of the world          *)
(* (responder_action_intake to court_authorization).                       *)
THEOREM GovernedTokens == IcSpec => []IcSound
<1>1. IcInv /\ [IcNext]_icVars => IcInv'
  <2> SUFFICES ASSUME IcInv, [IcNext]_icVars PROVE IcInv'
    OBVIOUS
  <2>1. CASE UNCHANGED icVars
    <3>1. UNCHANGED <<icAsks, icIncident, icEvidence, icReq, icTokens, icReceipts>>
      BY <2>1 DEF icVars
    <3>2. IcCourtSound'
      BY <3>1, IcCourtKept DEF IcInv
    <3> QED
      BY <3>1, <3>2 DEF IcInv, IcChain, IcBacked, IcTokenInv
  <2>2. CASE \E r \in IcRequests :
                IcAdmit(r) \/ IcPrioritise(r) \/ IcJudge(r) \/ IcResolve(r) \/ IcBind(r)
    BY <2>2, IcStages
  <2>3. CASE \/ \E r \in IcRequests, kept \in BOOLEAN : IcAuthorize(r, kept)
             \/ \E ask \in IcSessions, kept \in BOOLEAN : IcSessionAsks(ask, kept)
    BY <2>3, IcAsked
  <2>4. CASE IcWorldStep
    BY <2>4, IcWorldKeeps
  <2> QED
    BY <2>1, <2>2, <2>3, <2>4 DEF IcNext, IcWorldStep
<1>2. IcInv => IcSound
  <2> SUFFICES ASSUME IcInv PROVE IcGoverned
    BY DEF IcInv, IcSound
  <2> SUFFICES ASSUME NEW t \in icTokens, NEW r \in IcRequests, t.intent = r
               PROVE  /\ IcFamily(icAsks[r].action) \in {"visibility", "rescue-access"}
                      /\ icReq[r].bound.inForce
                      /\ t.capability = "access.request" =>
                           /\ IcFamily(icAsks[r].action) = "rescue-access"
                           /\ icReq[r].bound.on = IcFacts
    BY DEF IcGoverned
  <2>1. /\ icReq[r].bound.state = "bound" /\ IcChain(r)
        /\ t.capability = IcActionMap[icAsks[r].action][1]
    BY DEF IcInv, IcTokenInv
  <2>2. /\ IcBacked(r, icReq[r].bound.on) /\ icAsks[r].action \notin IcAmbiguous
        /\ icReq[r].bound.inForce
    BY <2>1 DEF IcChain
  <2> QED
    BY <2>1, <2>2, IcMapped DEF IcBacked
<1> QED
  BY IcInitInv, <1>1, <1>2, PTL DEF IcSpec

(* A granted token lives between one and 300 seconds.                      *)
LEMMA IcTtlBound ==
    ASSUME NEW S, NEW ask, ask.policies \in Seq(S), IcVerdict(ask) = "authorized"
    PROVE  IcTtl(ask) \in 1 .. 300
<1>1. IcPoliciesNamed(ask) /\ IcPoliciesActive(ask)
  <2>1. IcAuthorityState(ask) \in {"authority_unknown", "authority_conflict", ""}
    BY DEF IcAuthorityState
  <2>2. IcPolicyState(ask) \in {"policy_denied", "target_denied", ""}
    BY DEF IcPolicyState, IcFinding
  <2>3. QED
    BY <2>1, <2>2 DEF IcVerdict
<1>2. PICK Ps : Ps = DOMAIN ask.policies
  OBVIOUS
<1>3. 1 \in Ps
  BY <1>1, <1>2, IcPlaces DEF IcPoliciesNamed
<1>4. \A i \in Ps : IcPolicyFile[ask.policies[i]].ttl \in 1 .. 300
  BY <1>1, <1>2, IcAssumption DEF IcPoliciesActive
<1>5. PICK Ts : Ts = {IcPolicyFile[ask.policies[i]].ttl : i \in Ps}
  OBVIOUS
<1>6. Ts \subseteq 1 .. 300 /\ Ts # {}
  BY <1>3, <1>4, <1>5
<1>7. 1 .. 300 \subseteq Nat
  OBVIOUS
<1>8. Ts \in SUBSET Nat
  BY <1>6, <1>7
<1>9. Min(Ts) \in Ts
  BY <1>6, <1>8, IcMin
<1>10. IcTtl(ask) = Min(Ts)
  BY <1>2, <1>5 DEF IcTtl
<1>11. QED
  BY <1>6, <1>9, <1>10

(* A call of Court keeps the lifetimes and the bound on calls.             *)
LEMMA IcDecideTypes ==
    ASSUME IcTypeOK, NEW S, NEW ask, ask.policies \in Seq(S), NEW kept, IcDecide(ask, kept)
    PROVE  (\A t \in icTokens' : t.ttl \in 1 .. 300) /\ icCalls' \in 0 .. IcCalls
<1>1. icCalls' \in 0 .. IcCalls
  <2>1. icCalls < IcCalls /\ icCalls' = icCalls + 1
    BY DEF IcDecide
  <2>2. QED
    BY <2>1, IcAssumption DEF IcTypeOK
<1>2. CASE IcVerdict(ask) = "authorized" /\ kept
  <2>1. icTokens' = icTokens \cup {IcToken(ask)}
    BY <1>2 DEF IcDecide
  <2>2. IcToken(ask).ttl \in 1 .. 300
    BY <1>2, IcTtlBound DEF IcToken
  <2>3. QED
    BY <1>1, <2>1, <2>2 DEF IcTypeOK
<1>3. CASE ~(IcVerdict(ask) = "authorized" /\ kept)
  <2>1. icTokens' = icTokens
    BY <1>3 DEF IcDecide
  <2>2. QED
    BY <1>1, <2>1 DEF IcTypeOK
<1>4. QED
  BY <1>2, <1>3

(* Every step keeps the types of the incident path and of Court.           *)
LEMMA IcTypesStep == IcTypeOK /\ [IcNext]_icVars => IcTypeOK'
<1> SUFFICES ASSUME IcTypeOK, [IcNext]_icVars PROVE IcTypeOK'
  OBVIOUS
<1>1. CASE UNCHANGED <<icWorld, icCourt>>
  BY <1>1 DEF icWorld, icCourt, IcTypeOK
<1>2. ASSUME NEW S, NEW ask, ask.policies \in Seq(S), NEW kept, IcDecide(ask, kept), UNCHANGED icWorld
      PROVE  IcTypeOK'
  BY <1>2, IcDecideTypes DEF icWorld, IcTypeOK
<1>3. ASSUME NEW r \in IcRequests, NEW kept \in BOOLEAN, IcAuthorize(r, kept) PROVE IcTypeOK'
  <2>1. PICK ask : ask = IcIncidentAsk(r)
    OBVIOUS
  <2>2. PICK p : ask.policies = <<p>>
    BY <2>1 DEF IcIncidentAsk
  <2>3. ask.policies \in Seq({p})
    BY <2>2
  <2>4. IcDecide(ask, kept) /\ UNCHANGED icWorld
    BY <1>3, <2>1 DEF IcAuthorize
  <2>5. QED
    BY <1>2, <2>3, <2>4
<1>4. ASSUME NEW ask \in IcSessions, NEW kept \in BOOLEAN, IcSessionAsks(ask, kept) PROVE IcTypeOK'
  <2>1. ask.policies \in Seq(STRING)
    BY IcAssumption
  <2>2. IcDecide(ask, kept) /\ UNCHANGED icWorld
    BY <1>4 DEF IcSessionAsks
  <2>3. QED
    BY <1>2, <2>1, <2>2
<1>5. ASSUME IcEdit, UNCHANGED icCourt, UNCHANGED icAsks,
             icIncident' \in [id : IcIncidents, active : BOOLEAN, verified : BOOLEAN],
             icEvidence' \subseteq IcFacts, icRetired' \subseteq DOMAIN IcPolicyFile
      PROVE  IcTypeOK'
  <2>1. icEdits' \in 0 .. IcEdits
    <3>1. icEdits < IcEdits /\ icEdits' = icEdits + 1
      BY <1>5 DEF IcEdit
    <3>2. QED
      BY <3>1, IcAssumption DEF IcTypeOK
  <2>2. QED
    BY <1>5, <2>1 DEF icCourt, IcTypeOK
<1>6. /\ icIncident \in [id : IcIncidents, active : BOOLEAN, verified : BOOLEAN]
      /\ icEvidence \subseteq IcFacts /\ icRetired \subseteq DOMAIN IcPolicyFile
  BY DEF IcTypeOK
<1>7. ASSUME NEW i \in IcIncidents, NEW verified \in BOOLEAN, IcOpens(i, verified) PROVE IcTypeOK'
  BY <1>5, <1>6, <1>7 DEF IcOpens
<1>8. ASSUME IcCloses \/ IcVerifies PROVE IcTypeOK'
  <2>1. icIncident' \in [id : IcIncidents, active : BOOLEAN, verified : BOOLEAN]
    BY <1>6, <1>8 DEF IcCloses, IcVerifies
  <2>2. QED
    BY <1>5, <1>6, <1>8, <2>1 DEF IcCloses, IcVerifies
<1>9. ASSUME NEW f \in IcFacts, IcEvidenceIs(icEvidence \ {f}) \/ IcEvidenceIs(icEvidence \cup {f})
      PROVE  IcTypeOK'
  BY <1>5, <1>6, <1>9 DEF IcEvidenceIs
<1>10. ASSUME NEW p \in DOMAIN IcPolicyFile, IcRetires(p) PROVE IcTypeOK'
  BY <1>5, <1>6, <1>10 DEF IcRetires
<1>11. ASSUME NEW r \in IcRequests,
              IcAdmit(r) \/ IcPrioritise(r) \/ IcJudge(r) \/ IcResolve(r) \/ IcBind(r)
       PROVE  IcTypeOK'
  BY <1>1, <1>11 DEF IcAdmit, IcPrioritise, IcJudge, IcResolve, IcBind
<1>12. CASE UNCHANGED icVars
  BY <1>12 DEF icVars, IcTypeOK
<1>13. QED
  BY <1>3, <1>4, <1>7, <1>8, <1>9, <1>10, <1>11, <1>12 DEF IcNext

(* They hold at the start.                                                 *)
LEMMA IcTypesInit == IcInit => IcTypeOK
<1> SUFFICES ASSUME IcInit PROVE IcTypeOK
  OBVIOUS
<1>1. icIncident \in [id : IcIncidents, active : BOOLEAN, verified : BOOLEAN]
  BY DEF IcInit
<1>2. 0 \in 0 .. IcEdits /\ 0 \in 0 .. IcCalls
  BY IcAssumption
<1>3. QED
  BY <1>1, <1>2 DEF IcInit, IcTypeOK

(* A token lives between one and 300 seconds, of an incident or of a       *)
(* session, whichever policies matched and however the incident changed    *)
(* between the stages.                                                     *)
THEOREM CourtTypes == IcSpec => []IcTypeOK
BY IcTypesInit, IcTypesStep, PTL DEF IcSpec

-----------------------------------------------------------------------------
(* The Runtime process.                                                    *)

RbSpec == RbInit /\ [][RbNext]_rbVars

RbServices == {"conversation", "sensor-lan"}
RbOwnable == RbServices \cup {"modules"}
RbEntries == [op : {"up", "down"}, of : RbNames \cup RbServices]
RbLoaders == [next : 1 .. Len(RbModules) + 1, running : Seq(RbNames), failed : SUBSET RbNames,
              stuck : BOOLEAN, started : BOOLEAN, then : {"none", "report", "ending"}]
RbStates == {"none", "starting", "ready", "degraded", "stopping", "stopped", "failed"}

(* Where main is: before the modules, with them and with the services, on  *)
(* its way to recovery, and in its finally.                                *)
RbEarly == {"wiring", "continuity", "pipeline"}
RbLooping == {"gateway", "follower", "conversation", "lan", "turn", "poll", "serve", "lancheck"}
RbBooted == {"loading", "rollback"} \cup RbLooping
RbBarred == {"rollback", "report", "recovery"}
RbEnds == {"ending", "closing", "modules"}

RbShape == rbLoader \in RbLoaders /\ rbOwned \in Seq(RbOwnable) /\ rbLog \in Seq(RbEntries)
RbTyped ==
    /\ rbAt \in RbPlaces /\ rbSession \in Nat /\ rbStatus \in [session : Nat, state : RbStates]
    /\ rbFailed \in BOOLEAN /\ rbRaised \in BOOLEAN /\ rbLost \in BOOLEAN /\ rbKilled \in BOOLEAN
    /\ RbShape

(* The gate was passed, with its receipt, where modules may load; the      *)
(* context is built before the first of them does; and both hold for what  *)
(* is owned or runs, wherever main is.                                     *)
RbSecureInv ==
    /\ rbAt \in RbBooted \cup {"pipeline"} => rbSession \in rbReceipts
    /\ rbAt \in RbBooted => rbContext # "none"
    /\ rbOwned # <<>> \/ rbLoader.running # <<>> => rbSession \in rbReceipts /\ rbContext # "none"
    /\ RbSecure

(* While no module failed, those before the next one run; the status says  *)
(* ready only from the first turn of the loop, and until it is revoked.    *)
RbReadyInv ==
    /\ rbStatus.session <= rbSession
    /\ rbAt \in RbBooted => rbRead.required \subseteq RbNames
    /\ rbAt \in RbLooping => rbLoader.next = Len(RbModules) + 1
    /\ rbAt \in RbLooping \cup {"loading"} /\ rbLoader.failed = {} =>
          /\ Len(rbLoader.running) = rbLoader.next - 1
          /\ \A i \in DOMAIN rbLoader.running : rbLoader.running[i] = RbModules[i]
    /\ rbAt # "off" /\ rbStatus = [session |-> rbSession, state |-> "ready"] =>
          \/ /\ rbAt \in {"turn", "poll", "serve", "lancheck", "ending"}
             /\ rbLoader.running = RbModules /\ rbRead.required \subseteq RbNames
          \/ rbAt \in {"closing", "modules"} /\ rbLost

RbHasModules == rbOwned # <<>> /\ rbOwned[1] = "modules"

(* A stop that raised is known to main, or to a loader that main has still *)
(* to stop.                                                                *)
RbFailInv ==
    /\ rbAt \in RbEarly \cup RbLooping \cup {"loading"} => ~rbRaised /\ ~rbLoader.stuck
    /\ rbAt \in RbBarred => (rbRaised => rbLoader.stuck)
    /\ rbAt \in RbEnds => (rbRaised => rbFailed \/ rbLoader.stuck)
    /\ rbAt \in RbBarred /\ rbLoader.stuck => RbHasModules
    /\ rbAt \in RbEnds /\ rbLoader.stuck => rbFailed \/ rbAt = "modules" \/ RbHasModules
    /\ RbFailureTold

(* The loader is the first resource the lifecycle owns and the last it     *)
(* stops, and it owns the loader while modules run.                        *)
RbFirst(owned) == \A i \in DOMAIN owned : owned[i] = "modules" <=> i = 1
RbOwnInv ==
    /\ RbFirst(rbOwned)
    /\ rbAt \in RbEarly => rbOwned = <<>> /\ rbLog = <<>> /\ rbLoader = RbNewLoader
    /\ rbAt \in RbBooted => RbHasModules
    /\ rbAt \in {"loading", "rollback"} => Len(rbOwned) = 1
    /\ rbAt = "modules" => rbOwned = <<>>
    /\ rbAt # "off" /\ rbLoader.running # <<>> => rbAt = "modules" \/ RbHasModules
    /\ rbAt = "off" /\ ~rbKilled => rbOwned = <<>> /\ rbLoader.running = <<>>

(* The services on the lifecycle's list.                                   *)
RbSvc(owned) == {x \in RbServices : \E i \in DOMAIN owned : owned[i] = x}

(* What is said of a log, the running modules, the next one to load and    *)
(* the owned services.                                                     *)
RbDone(log, k, x) == \E l \in k .. Len(log) : log[l] = RbDown(x)

(* Modules run once, each of a file already visited.                       *)
RbRunsOnce(run, nxt) ==
    /\ \A p, q \in 1 .. Len(run) : run[p] = run[q] => p = q
    /\ \A p \in 1 .. Len(run) : \E q \in 1 .. nxt - 1 : run[p] = RbModules[q]

(* So do those of the log; a running one did not go down, and one that did *)
(* went down once.                                                         *)
RbKnown(log, nxt) ==
    \A i \in 1 .. Len(log) : log[i].of \in RbNames => \E q \in 1 .. nxt - 1 : log[i].of = RbModules[q]
RbStillUp(log, run) == \A p \in 1 .. Len(run), i \in 1 .. Len(log) : log[i] # RbDown(run[p])
RbDownOnce(log) ==
    \A i, j \in 1 .. Len(log) : log[i] = log[j] /\ log[i].op = "down" /\ log[i].of \in RbNames => i = j

(* What came up is down, or still runs, or is owned; what came up after a  *)
(* running module is down, runs behind it, or is an owned service.         *)
RbCovered(log, run, has) ==
    \A i \in 1 .. Len(log) : log[i].op = "up" =>
        \/ RbDone(log, i, log[i].of)
        \/ \E p \in 1 .. Len(run) : run[p] = log[i].of
        \/ log[i].of \in has
RbBehind(log, run, has) ==
    \A p \in 1 .. Len(run), j, k \in 1 .. Len(log) :
        log[j] = RbUp(run[p]) /\ j < k /\ log[k].op = "up" =>
            \/ RbDone(log, k, log[k].of)
            \/ \E q \in 1 .. Len(run) : p < q /\ run[q] = log[k].of
            \/ log[k].of \in has

(* RbReverse, of a log.                                                    *)
RbReversed(log) ==
    \A i \in 1 .. Len(log) : log[i].op = "down" /\ log[i].of \in RbNames =>
        \A j, k \in 1 .. i :
            log[j] = RbUp(log[i].of) /\ j < k /\ log[k].op = "up" =>
                \E l \in k .. i : log[l] = RbDown(log[k].of)

RbLogOk(log, run, nxt, has) ==
    /\ RbRunsOnce(run, nxt) /\ RbKnown(log, nxt) /\ RbStillUp(log, run) /\ RbDownOnce(log)
    /\ RbCovered(log, run, has) /\ RbBehind(log, run, has) /\ RbReversed(log)

RbLogInv == RbLogOk(rbLog, rbLoader.running, rbLoader.next, RbSvc(rbOwned))

RbInv == RbTyped /\ RbSecureInv /\ RbReadyInv /\ RbFailInv /\ RbOwnInv /\ RbLogInv

(* Entries of the log as pairs.                                            *)
LEMMA RbEntry ==
    /\ \A e \in RbEntries : e = RbUp(e.of) \/ e = RbDown(e.of)
    /\ \A x : /\ RbUp(x).op = "up" /\ RbUp(x).of = x /\ RbDown(x).op = "down" /\ RbDown(x).of = x
    /\ \A x, y : /\ RbUp(x) # RbDown(y) /\ (RbUp(x) = RbUp(y) => x = y)
                 /\ (RbDown(x) = RbDown(y) => x = y)
  BY DEF RbEntries, RbUp, RbDown

(* Nothing is gone when a module is passed over or a service is kept.      *)
LEMMA RbLogKept ==
    ASSUME NEW log, NEW run, NEW nxt \in Nat, NEW has, RbLogOk(log, run, nxt, has),
           NEW nxt2 \in Nat, nxt2 >= nxt, NEW has2, has \subseteq has2
    PROVE  RbLogOk(log, run, nxt2, has2)
<1>1. \A q \in 1 .. nxt - 1 : q \in 1 .. nxt2 - 1
  OBVIOUS
<1>2. RbRunsOnce(run, nxt2) /\ RbKnown(log, nxt2)
  BY <1>1 DEF RbLogOk, RbRunsOnce, RbKnown
<1>3. RbCovered(log, run, has2)
  BY DEF RbLogOk, RbCovered
<1>4. RbBehind(log, run, has2)
  BY DEF RbLogOk, RbBehind
<1>5. QED
  BY <1>2, <1>3, <1>4 DEF RbLogOk

(* log2 is log with the entry e after it.                                  *)
RbGrown(log, e, log2) ==
    /\ log2 \in Seq(RbEntries) /\ Len(log) \in Nat /\ Len(log2) = Len(log) + 1
    /\ \A i \in 1 .. Len(log) : log2[i] = log[i] /\ log[i] \in RbEntries
    /\ log2[Len(log) + 1] = e
    /\ \A i \in 1 .. Len(log2) : i \in 1 .. Len(log) \/ i = Len(log) + 1
    /\ \A k \in 1 .. Len(log) : \A x : RbDone(log, k, x) => RbDone(log2, k, x)
    /\ \A k \in 1 .. Len(log2) : \A x : e = RbDown(x) => RbDone(log2, k, x)

(* Append makes such a log.                                                *)
LEMMA RbLonger ==
    ASSUME NEW log \in Seq(RbEntries), NEW e \in RbEntries, NEW log2, log2 = Append(log, e)
    PROVE  RbGrown(log, e, log2)
<1>1. /\ log2 \in Seq(RbEntries) /\ Len(log2) = Len(log) + 1
      /\ \A i \in 1 .. Len(log) : log2[i] = log[i]
      /\ log2[Len(log) + 1] = e
  BY AppendProperties
<1>2. Len(log) \in Nat /\ \A i \in 1 .. Len(log) : log[i] \in RbEntries
  OBVIOUS
<1>3. ASSUME NEW k \in 1 .. Len(log), NEW x, RbDone(log, k, x) PROVE RbDone(log2, k, x)
  <2>1. PICK l \in k .. Len(log) : log[l] = RbDown(x)
    BY <1>3 DEF RbDone
  <2>2. l \in 1 .. Len(log) /\ l \in k .. Len(log2)
    BY <1>1, <1>2, <2>1
  <2>3. QED
    BY <1>1, <2>1, <2>2 DEF RbDone
<1>4. ASSUME NEW k \in 1 .. Len(log2), NEW x, e = RbDown(x) PROVE RbDone(log2, k, x)
  <2>1. Len(log2) \in k .. Len(log2)
    BY <1>1, <1>2
  <2>2. QED
    BY <1>1, <1>4, <2>1 DEF RbDone
<1>5. \A i \in 1 .. Len(log2) : i \in 1 .. Len(log) \/ i = Len(log) + 1
  BY <1>1, <1>2
<1>6. QED
  BY <1>1, <1>2, <1>3, <1>4, <1>5 DEF RbGrown

(* Whatever the entry, a log that is in order stays so up to it.           *)
LEMMA RbReversedGrows ==
    ASSUME NEW log \in Seq(RbEntries), NEW e \in RbEntries, NEW log2, RbGrown(log, e, log2),
           RbReversed(log),
           e.op = "down" /\ e.of \in RbNames =>
               \A j, k \in 1 .. Len(log) :
                   log[j] = RbUp(e.of) /\ j < k /\ log[k].op = "up" =>
                       RbDone(log, k, log[k].of)
    PROVE  RbReversed(log2)
<1> DEFINE n == Len(log)
<1>1. /\ n \in Nat /\ Len(log2) = n + 1
      /\ \A i \in 1 .. n : log2[i] = log[i] /\ log[i] \in RbEntries
      /\ log2[n + 1] = e
  BY DEF RbGrown
<1> SUFFICES ASSUME NEW i \in 1 .. n + 1, log2[i].op = "down", log2[i].of \in RbNames,
                    NEW j \in 1 .. i, NEW k \in 1 .. i,
                    log2[j] = RbUp(log2[i].of), j < k, log2[k].op = "up"
             PROVE  \E l \in k .. i : log2[l] = RbDown(log2[k].of)
  BY <1>1 DEF RbReversed
<1>2. CASE i \in 1 .. n
  <2>1. j \in 1 .. n /\ k \in 1 .. n /\ \A l \in k .. i : l \in 1 .. n
    BY <1>1, <1>2
  <2>2. \E l \in k .. i : log[l] = RbDown(log[k].of)
    BY <1>1, <1>2, <2>1 DEF RbReversed
  <2>3. QED
    BY <1>1, <2>1, <2>2
<1>3. CASE i = n + 1
  <2>1. log2[i] = e
    BY <1>1, <1>3
  <2>2. k # i
    BY <2>1
  <2>3. j \in 1 .. n /\ k \in 1 .. n
    BY <1>1, <1>3, <2>2
  <2>4. RbDone(log, k, log[k].of)
    BY <1>1, <2>1, <2>3
  <2>5. PICK l \in k .. n : log[l] = RbDown(log[k].of)
    BY <2>4 DEF RbDone
  <2>6. l \in k .. i /\ l \in 1 .. n
    BY <1>1, <1>3, <2>3, <2>5
  <2>7. QED
    BY <1>1, <2>3, <2>5, <2>6
<1>4. QED
  BY <1>1, <1>2, <1>3

(* A list without its last member.                                         *)
LEMMA RbFront ==
    ASSUME NEW S, NEW s \in Seq(S), s # <<>>
    PROVE  /\ Front(s) \in Seq(S) /\ Len(Front(s)) = Len(s) - 1 /\ Len(s) - 1 \in Nat
           /\ \A i \in 1 .. Len(s) - 1 : Front(s)[i] = s[i]
           /\ Last(s) = s[Len(s)] /\ Len(s) \in DOMAIN s /\ Last(s) \in S
<1> PICK n : n = Len(s)
  OBVIOUS
<1>1. n \in Nat /\ n # 0 /\ DOMAIN s = 1 .. n
  BY EmptySeq
<1>2. n \in 1 .. n /\ n - 1 \in Nat
  BY <1>1
<1>3. Last(s) = s[n] /\ s[n] \in S
  BY <1>1, <1>2 DEF Last
<1>4. Front(s) = SubSeq(s, 1, n - 1)
  BY DEF Front
<1>5. /\ SubSeq(s, 1, n - 1) \in Seq(S) /\ Len(SubSeq(s, 1, n - 1)) = n - 1
      /\ \A i \in 1 .. n - 1 : SubSeq(s, 1, n - 1)[i] = s[i]
  BY <1>1, <1>2
<1>6. QED
  BY <1>1, <1>2, <1>3, <1>4, <1>5

(* A service, which is no module, is bound.                                *)
LEMMA RbLogService ==
    ASSUME NEW log \in Seq(RbEntries), NEW run, NEW nxt, NEW has, RbLogOk(log, run, nxt, has),
           NEW s \in RbServices, NEW has2, has \cup {s} \subseteq has2,
           NEW e, e = RbUp(s), NEW log2, RbGrown(log, e, log2)
    PROVE  RbLogOk(log2, run, nxt, has2)
<1> DEFINE n == Len(log)
<1>1. e \in RbEntries /\ s \notin RbNames
  BY RbAssumption DEF RbEntries, RbUp, RbServices
<1>g. /\ n \in Nat /\ Len(log2) = n + 1
      /\ \A i \in 1 .. n : log2[i] = log[i]
      /\ log2[n + 1] = e
      /\ \A i \in 1 .. Len(log2) : i \in 1 .. n \/ i = n + 1
      /\ \A k \in 1 .. n : \A x : RbDone(log, k, x) => RbDone(log2, k, x)
  BY DEF RbGrown
<1>t. e.op = "up" /\ e.of = s
  BY RbEntry
<1>2. /\ n \in Nat /\ Len(log2) = n + 1
      /\ \A i \in 1 .. n : log2[i] = log[i]
      /\ log2[n + 1] = e
      /\ \A i \in 1 .. Len(log2) : i \in 1 .. n \/ i = n + 1
      /\ \A k \in 1 .. n : \A x : RbDone(log, k, x) => RbDone(log2, k, x)
      /\ e.op = "up" /\ e.of = s
  BY <1>g, <1>t
<1>3. \A x : e # RbDown(x)
  BY RbEntry
<1> HIDE DEF n
<1>4. RbKnown(log2, nxt)
  BY <1>1, <1>2 DEF RbLogOk, RbKnown, n
<1>5. RbStillUp(log2, run)
  BY <1>2, <1>3 DEF RbLogOk, RbStillUp, n
<1>6. RbDownOnce(log2)
  BY <1>2 DEF RbLogOk, RbDownOnce, n
<1>7. RbCovered(log2, run, has2)
  BY <1>2 DEF RbLogOk, RbCovered, n
<1>8. RbBehind(log2, run, has2)
  <2> SUFFICES ASSUME NEW p \in 1 .. Len(run), NEW j \in 1 .. Len(log2), NEW k \in 1 .. Len(log2),
                      log2[j] = RbUp(run[p]), j < k, log2[k].op = "up"
               PROVE  \/ RbDone(log2, k, log2[k].of)
                      \/ \E q \in 1 .. Len(run) : p < q /\ run[q] = log2[k].of
                      \/ log2[k].of \in has2
    BY DEF RbBehind
  <2>1. CASE k = n + 1
    BY <1>2, <2>1
  <2>2. CASE k \in 1 .. n
    <3>1. j \in 1 .. n
      BY <1>2, <2>2
    <3>2. QED
      BY <1>2, <2>2, <3>1 DEF RbLogOk, RbBehind, n
  <2>3. QED
    BY <1>2, <2>1, <2>2
<1>9. RbReversed(log2)
  BY <1>1, <1>2, RbReversedGrows DEF RbLogOk
<1>10. QED
  BY <1>4, <1>5, <1>6, <1>7, <1>8, <1>9 DEF RbLogOk

(* Its stop is tried; it may stay owned.                                   *)
LEMMA RbLogServiceDown ==
    ASSUME NEW log \in Seq(RbEntries), NEW run \in Seq(RbNames), NEW nxt, NEW has, RbLogOk(log, run, nxt, has),
           NEW s \in RbServices, NEW has2, has \ {s} \subseteq has2,
           NEW e, e = RbDown(s), NEW log2, RbGrown(log, e, log2)
    PROVE  RbLogOk(log2, run, nxt, has2)
<1> DEFINE n == Len(log)
<1>1. e \in RbEntries /\ s \notin RbNames
  BY RbAssumption DEF RbEntries, RbDown, RbServices
<1>g. /\ n \in Nat /\ Len(log2) = n + 1
      /\ \A i \in 1 .. n : log2[i] = log[i]
      /\ log2[n + 1] = e
      /\ \A i \in 1 .. Len(log2) : i \in 1 .. n \/ i = n + 1
      /\ \A k \in 1 .. n : \A x : RbDone(log, k, x) => RbDone(log2, k, x)
      /\ \A k \in 1 .. Len(log2) : \A x : e = RbDown(x) => RbDone(log2, k, x)
  BY DEF RbGrown
<1>t. e.op = "down" /\ e.of = s
  BY RbEntry
<1>2. /\ n \in Nat /\ Len(log2) = n + 1
      /\ \A i \in 1 .. n : log2[i] = log[i]
      /\ log2[n + 1] = e
      /\ \A i \in 1 .. Len(log2) : i \in 1 .. n \/ i = n + 1
      /\ \A k \in 1 .. n : \A x : RbDone(log, k, x) => RbDone(log2, k, x)
      /\ \A k \in 1 .. Len(log2) : RbDone(log2, k, s)
      /\ e.op = "down" /\ e.of = s
  BY <1>g, <1>t
<1>3. \A p \in 1 .. Len(run) : run[p] \in RbNames
  OBVIOUS
<1>3a. \A p \in 1 .. Len(run) : e # RbDown(run[p])
  BY <1>1, <1>3, RbEntry
<1> HIDE DEF n
<1>4. RbKnown(log2, nxt)
  BY <1>1, <1>2 DEF RbLogOk, RbKnown, n
<1>5. RbStillUp(log2, run)
  BY <1>2, <1>3a DEF RbLogOk, RbStillUp, n
<1>6. RbDownOnce(log2)
  BY <1>1, <1>2 DEF RbLogOk, RbDownOnce, n
<1>7. RbCovered(log2, run, has2)
  BY <1>2 DEF RbLogOk, RbCovered, n
<1>8. RbBehind(log2, run, has2)
  <2> SUFFICES ASSUME NEW p \in 1 .. Len(run), NEW j \in 1 .. Len(log2), NEW k \in 1 .. Len(log2),
                      log2[j] = RbUp(run[p]), j < k, log2[k].op = "up"
               PROVE  \/ RbDone(log2, k, log2[k].of)
                      \/ \E q \in 1 .. Len(run) : p < q /\ run[q] = log2[k].of
                      \/ log2[k].of \in has2
    BY DEF RbBehind
  <2>1. k \in 1 .. n
    BY <1>2
  <2>2. j \in 1 .. n
    BY <1>2, <2>1
  <2>3. \/ RbDone(log, k, log[k].of)
        \/ \E q \in 1 .. Len(run) : p < q /\ run[q] = log[k].of
        \/ log[k].of \in has
    BY <1>2, <2>1, <2>2 DEF RbLogOk, RbBehind, n
  <2>4. QED
    BY <1>2, <2>1, <2>3
<1>9. RbReversed(log2)
  BY <1>1, <1>2, RbReversedGrows DEF RbLogOk
<1>10. QED
  BY <1>4, <1>5, <1>6, <1>7, <1>8, <1>9 DEF RbLogOk

(* The next module registers: no entry of the log is of it.                *)
LEMMA RbLogLoad ==
    ASSUME NEW log \in Seq(RbEntries), NEW run \in Seq(RbNames), NEW nxt \in 1 .. Len(RbModules), NEW has,
           RbLogOk(log, run, nxt, has),
           NEW e, e = RbUp(RbModules[nxt]), NEW log2, RbGrown(log, e, log2),
           NEW run2, Len(run2) = Len(run) + 1, run2[Len(run) + 1] = RbModules[nxt],
           \A p \in 1 .. Len(run) : run2[p] = run[p]
    PROVE  RbLogOk(log2, run2, nxt + 1, has)
<1> DEFINE n == Len(log)
           r == Len(run)
<1> PICK m : m = RbModules[nxt]
  OBVIOUS
<1>0. /\ Len(RbModules) \in Nat /\ DOMAIN RbModules = 1 .. Len(RbModules) /\ m \in RbNames
      /\ \A q \in 1 .. nxt - 1 : q \in 1 .. Len(RbModules) /\ q # nxt
  BY RbAssumption DEF RbNames
<1>1. \A q \in 1 .. nxt - 1 : m # RbModules[q]
  BY <1>0, RbAssumption DEF IsInjective
<1>2. e \in RbEntries
  BY <1>0 DEF RbEntries, RbUp
<1>g. /\ n \in Nat /\ Len(log2) = n + 1
      /\ \A i \in 1 .. n : log2[i] = log[i] /\ log[i] \in RbEntries
      /\ log2[n + 1] = e
      /\ \A i \in 1 .. Len(log2) : i \in 1 .. n \/ i = n + 1
      /\ \A k \in 1 .. n : \A x : RbDone(log, k, x) => RbDone(log2, k, x)
  BY DEF RbGrown
<1>t. e.op = "up" /\ e.of = m
  BY RbEntry
<1>3. /\ n \in Nat /\ Len(log2) = n + 1
      /\ \A i \in 1 .. n : log2[i] = log[i] /\ log[i] \in RbEntries
      /\ log2[n + 1] = e
      /\ \A i \in 1 .. Len(log2) : i \in 1 .. n \/ i = n + 1
      /\ \A k \in 1 .. n : \A x : RbDone(log, k, x) => RbDone(log2, k, x)
      /\ e.op = "up" /\ e.of = m
  BY <1>g, <1>t
<1>4. /\ r \in Nat /\ Len(run2) = r + 1
      /\ \A p \in 1 .. r : run2[p] = run[p] /\ p # r + 1
      /\ run2[r + 1] = m
      /\ \A p \in 1 .. Len(run2) : p \in 1 .. r \/ p = r + 1
  <2>1. /\ Len(run2) = r + 1 /\ \A p \in 1 .. r : run2[p] = run[p]
        /\ run2[r + 1] = m
    OBVIOUS
  <2>2. r \in Nat
    OBVIOUS
  <2>3. QED
    BY <2>1, <2>2
<1>5. /\ \A q \in 1 .. nxt - 1 : q \in 1 .. (nxt + 1) - 1
      /\ nxt \in 1 .. (nxt + 1) - 1
  OBVIOUS
<1>6. /\ \A p \in 1 .. r : run[p] # m
      /\ \A i \in 1 .. n : log[i].of # m
  <2>1. \A p \in 1 .. r : run[p] # m
    BY <1>1 DEF RbLogOk, RbRunsOnce
  <2>2. \A i \in 1 .. n : log[i].of # m
    BY <1>0, <1>1 DEF RbLogOk, RbKnown
  <2>3. QED
    BY <2>1, <2>2
<1>7. \A x : e # RbDown(x) /\ (e = RbUp(x) => m = x)
  BY RbEntry
<1> HIDE DEF n, r
<1>8. RbRunsOnce(run2, nxt + 1)
  <2>0. /\ \A p, q \in 1 .. r : run[p] = run[q] => p = q
        /\ \A p \in 1 .. r : \E q \in 1 .. nxt - 1 : run[p] = RbModules[q]
    BY DEF RbLogOk, RbRunsOnce, r
  <2>1. ASSUME NEW p \in 1 .. Len(run2), NEW q \in 1 .. Len(run2), run2[p] = run2[q] PROVE p = q
    <3>1. CASE p \in 1 .. r /\ q \in 1 .. r
      BY <1>4, <2>0, <2>1, <3>1
    <3>2. CASE p = r + 1 \/ q = r + 1
      BY <1>4, <1>6, <2>1, <3>2
    <3>3. QED
      BY <1>4, <3>1, <3>2
  <2>2. ASSUME NEW p \in 1 .. Len(run2)
        PROVE  \E q \in 1 .. (nxt + 1) - 1 : run2[p] = RbModules[q]
    <3>1. CASE p \in 1 .. r
      <4>1. PICK q \in 1 .. nxt - 1 : run[p] = RbModules[q]
        BY <2>0, <3>1
      <4>2. q \in 1 .. (nxt + 1) - 1 /\ run2[p] = RbModules[q]
        BY <1>4, <1>5, <3>1, <4>1
      <4>3. QED
        BY <4>2
    <3>2. CASE p = r + 1
      <4>1. run2[p] = RbModules[nxt]
        BY <1>4, <3>2
      <4>2. QED
        BY <1>5, <4>1
    <3>3. QED
      BY <1>4, <3>1, <3>2
  <2>3. QED
    BY <2>1, <2>2 DEF RbRunsOnce
<1>9. RbKnown(log2, nxt + 1)
  BY <1>3, <1>5 DEF RbLogOk, RbKnown, n
<1>10. RbStillUp(log2, run2)
  <2> SUFFICES ASSUME NEW p \in 1 .. Len(run2), NEW i \in 1 .. Len(log2), log2[i] = RbDown(run2[p])
               PROVE  FALSE
    BY DEF RbStillUp
  <2>1. i \in 1 .. n
    BY <1>3, <1>7
  <2>2. CASE p \in 1 .. r
    BY <1>3, <1>4, <2>1, <2>2 DEF RbLogOk, RbStillUp, n, r
  <2>3. CASE p = r + 1
    <3>1. log[i] = RbDown(m)
      BY <1>3, <1>4, <2>1, <2>3
    <3>2. log[i].of = m
      BY <3>1, RbEntry
    <3>3. QED
      BY <1>6, <2>1, <3>2
  <2>4. QED
    BY <1>4, <2>2, <2>3
<1>11. RbDownOnce(log2)
  BY <1>3 DEF RbLogOk, RbDownOnce, n
<1>12. RbCovered(log2, run2, has)
  <2> SUFFICES ASSUME NEW i \in 1 .. Len(log2), log2[i].op = "up"
               PROVE  \/ RbDone(log2, i, log2[i].of)
                      \/ \E p \in 1 .. Len(run2) : run2[p] = log2[i].of
                      \/ log2[i].of \in has
    BY DEF RbCovered
  <2>0. r + 1 \in 1 .. Len(run2) /\ \A p \in 1 .. r : p \in 1 .. Len(run2)
    BY <1>4
  <2>1. CASE i = n + 1
    BY <1>3, <1>4, <2>0, <2>1
  <2>2. CASE i \in 1 .. n
    <3>1. \/ RbDone(log, i, log[i].of)
          \/ \E p \in 1 .. r : run[p] = log[i].of
          \/ log[i].of \in has
      BY <1>3, <2>2 DEF RbLogOk, RbCovered, n, r
    <3>2. QED
      BY <1>3, <1>4, <2>0, <2>2, <3>1
  <2>3. QED
    BY <1>3, <2>1, <2>2
<1>13. RbBehind(log2, run2, has)
  <2> SUFFICES ASSUME NEW p \in 1 .. Len(run2), NEW j \in 1 .. Len(log2), NEW k \in 1 .. Len(log2),
                      log2[j] = RbUp(run2[p]), j < k, log2[k].op = "up"
               PROVE  \/ RbDone(log2, k, log2[k].of)
                      \/ \E q \in 1 .. Len(run2) : p < q /\ run2[q] = log2[k].of
                      \/ log2[k].of \in has
    BY DEF RbBehind
  <2>0. r + 1 \in 1 .. Len(run2) /\ \A q \in 1 .. r : q \in 1 .. Len(run2) /\ q < r + 1
    BY <1>4
  <2>1. j \in 1 .. n
    BY <1>3
  <2>2. p \in 1 .. r
    <3>1. CASE p = r + 1
      <4>1. log[j] = e
        BY <1>3, <1>4, <2>1, <3>1
      <4>2. log[j].of = m
        BY <4>1, RbEntry
      <4>3. QED
        BY <1>6, <2>1, <4>2
    <3>2. QED
      BY <1>4, <3>1
  <2>3. CASE k = n + 1
    BY <1>3, <1>4, <2>0, <2>2, <2>3
  <2>4. CASE k \in 1 .. n
    <3>1. \/ RbDone(log, k, log[k].of)
          \/ \E q \in 1 .. r : p < q /\ run[q] = log[k].of
          \/ log[k].of \in has
      BY <1>3, <1>4, <2>1, <2>2, <2>4 DEF RbLogOk, RbBehind, n, r
    <3>2. QED
      BY <1>3, <1>4, <2>0, <2>4, <3>1
  <2>5. QED
    BY <1>3, <2>3, <2>4
<1>14. RbReversed(log2)
  BY <1>2, <1>3, RbReversedGrows DEF RbLogOk
<1>15. QED
  BY <1>8, <1>9, <1>10, <1>11, <1>12, <1>13, <1>14 DEF RbLogOk

(* The last module on the list is stopped when no service is owned: all    *)
(* that came up after it is down.                                          *)
LEMMA RbLogStop ==
    ASSUME NEW log \in Seq(RbEntries), NEW run \in Seq(RbNames), run # <<>>, NEW nxt,
           RbLogOk(log, run, nxt, {}),
           NEW e, e = RbDown(run[Len(run)]), NEW log2, RbGrown(log, e, log2), NEW run2, Len(run2) = Len(run) - 1, \A p \in 1 .. Len(run) - 1 : run2[p] = run[p]
    PROVE  RbLogOk(log2, run2, nxt, {})
<1> DEFINE n == Len(log)
           r == Len(run)
<1> PICK m : m = run[Len(run)]
  OBVIOUS
<1>1. r \in Nat /\ r >= 1 /\ m = run[r] /\ r \in 1 .. r /\ m \in RbNames
  <2>1. r \in Nat /\ r # 0
    BY EmptySeq
  <2>2. QED
    BY <2>1
<1>2. e \in RbEntries
  BY <1>1 DEF RbEntries, RbDown
<1>g. /\ n \in Nat /\ Len(log2) = n + 1
      /\ \A i \in 1 .. n : log2[i] = log[i] /\ log[i] \in RbEntries
      /\ log2[n + 1] = e
      /\ \A i \in 1 .. Len(log2) : i \in 1 .. n \/ i = n + 1
      /\ \A k \in 1 .. n : \A x : RbDone(log, k, x) => RbDone(log2, k, x)
      /\ \A k \in 1 .. Len(log2) : \A x : e = RbDown(x) => RbDone(log2, k, x)
  BY DEF RbGrown
<1>t. e.op = "down" /\ e.of = m
  BY RbEntry
<1>3. /\ n \in Nat /\ Len(log2) = n + 1
      /\ \A i \in 1 .. n : log2[i] = log[i] /\ log[i] \in RbEntries
      /\ log2[n + 1] = e
      /\ \A i \in 1 .. Len(log2) : i \in 1 .. n \/ i = n + 1
      /\ \A k \in 1 .. n : \A x : RbDone(log, k, x) => RbDone(log2, k, x)
      /\ \A k \in 1 .. Len(log2) : RbDone(log2, k, m)
      /\ e.op = "down" /\ e.of = m
  BY <1>g, <1>t
<1>4. /\ Len(run2) = r - 1 /\ \A p \in 1 .. Len(run2) : run2[p] = run[p] /\ p \in 1 .. r /\ p # r
      /\ \A p \in 1 .. r : p = r \/ p \in 1 .. Len(run2)
  <2>1. Len(run2) = r - 1 /\ \A p \in 1 .. r - 1 : run2[p] = run[p]
    OBVIOUS
  <2>2. QED
    BY <1>1, <2>1
<1>5. \A x : (e = RbDown(x) => m = x) /\ e # RbUp(x)
  BY RbEntry
<1>6. \A i \in 1 .. n : log[i] # e
  BY <1>1 DEF RbLogOk, RbStillUp
<1>7. \A p \in 1 .. Len(run2) : run2[p] # m
  <2>1. \A p, q \in 1 .. r : run[p] = run[q] => p = q
    BY DEF RbLogOk, RbRunsOnce
  <2>2. QED
    BY <1>1, <1>4, <2>1
<1> HIDE DEF n, r
<1>8. RbRunsOnce(run2, nxt)
  <2>1. RbRunsOnce(run, nxt)
    BY DEF RbLogOk
  <2>2. \A p, q \in 1 .. Len(run2) : run2[p] = run2[q] => p = q
    BY <1>4, <2>1 DEF RbRunsOnce, r
  <2>3. \A p \in 1 .. Len(run2) : \E q \in 1 .. nxt - 1 : run2[p] = RbModules[q]
    BY <1>4, <2>1 DEF RbRunsOnce, r
  <2>4. QED
    BY <2>2, <2>3 DEF RbRunsOnce
<1>9. RbKnown(log2, nxt)
  BY <1>1, <1>3 DEF RbLogOk, RbKnown, RbRunsOnce, n, r
<1>10. RbStillUp(log2, run2)
  BY <1>3, <1>4, <1>5, <1>7 DEF RbLogOk, RbStillUp, n, r
<1>11. RbDownOnce(log2)
  BY <1>3, <1>6 DEF RbLogOk, RbDownOnce, n
<1>12. RbCovered(log2, run2, {})
  <2> SUFFICES ASSUME NEW i \in 1 .. Len(log2), log2[i].op = "up"
               PROVE  \/ RbDone(log2, i, log2[i].of)
                      \/ \E p \in 1 .. Len(run2) : run2[p] = log2[i].of
    BY DEF RbCovered
  <2>1. i \in 1 .. n
    BY <1>3
  <2>2. \/ RbDone(log, i, log[i].of)
        \/ \E p \in 1 .. r : run[p] = log[i].of
    BY <1>3, <2>1 DEF RbLogOk, RbCovered, n, r
  <2>3. CASE RbDone(log, i, log[i].of)
    BY <1>3, <2>1, <2>3
  <2>4. ASSUME NEW p \in 1 .. r, run[p] = log[i].of
        PROVE  RbDone(log2, i, log2[i].of) \/ \E q \in 1 .. Len(run2) : run2[q] = log2[i].of
    <3>1. CASE p = r
      BY <1>1, <1>3, <2>1, <2>4, <3>1
    <3>2. CASE p \in 1 .. Len(run2)
      BY <1>3, <1>4, <2>1, <2>4, <3>2
    <3>3. QED
      BY <1>4, <3>1, <3>2
  <2>5. QED
    BY <2>2, <2>3, <2>4
<1>13. RbBehind(log2, run2, {})
  <2> SUFFICES ASSUME NEW p \in 1 .. Len(run2), NEW j \in 1 .. Len(log2), NEW k \in 1 .. Len(log2),
                      log2[j] = RbUp(run2[p]), j < k, log2[k].op = "up"
               PROVE  \/ RbDone(log2, k, log2[k].of)
                      \/ \E q \in 1 .. Len(run2) : p < q /\ run2[q] = log2[k].of
                      \/ log2[k].of \in {}
    BY DEF RbBehind
  <2>1. k \in 1 .. n
    BY <1>3
  <2>2. j \in 1 .. n
    BY <1>3, <2>1
  <2>3. \/ RbDone(log, k, log[k].of)
        \/ \E q \in 1 .. r : p < q /\ run[q] = log[k].of
        \/ log[k].of \in {}
    <3>1. log[j] = RbUp(run[p]) /\ log[k].op = "up" /\ p \in 1 .. r
      BY <1>3, <1>4, <2>1, <2>2
    <3>2. RbBehind(log, run, {})
      BY DEF RbLogOk
    <3>3. QED
      BY <2>1, <2>2, <3>1, <3>2 DEF RbBehind, n, r
  <2>4. CASE RbDone(log, k, log[k].of)
    BY <1>3, <2>1, <2>4
  <2>5. ASSUME NEW q \in 1 .. r, p < q, run[q] = log[k].of
        PROVE  \/ RbDone(log2, k, log2[k].of)
               \/ \E l \in 1 .. Len(run2) : p < l /\ run2[l] = log2[k].of
    <3>1. CASE q = r
      BY <1>1, <1>3, <2>1, <2>5, <3>1
    <3>2. CASE q \in 1 .. Len(run2)
      BY <1>3, <1>4, <2>1, <2>5, <3>2
    <3>3. QED
      BY <1>4, <3>1, <3>2
  <2>6. QED
    BY <2>3, <2>4, <2>5
<1>14. RbReversed(log2)
  <2>1. ASSUME NEW j \in 1 .. n, NEW k \in 1 .. n, log[j] = RbUp(m), j < k, log[k].op = "up"
        PROVE  RbDone(log, k, log[k].of)
    <3>1. \/ RbDone(log, k, log[k].of)
          \/ \E q \in 1 .. r : r < q /\ run[q] = log[k].of
      BY <1>1, <2>1 DEF RbLogOk, RbBehind, n, r
    <3>2. QED
      BY <1>1, <3>1
  <2>2. \A j, k \in 1 .. Len(log) :
            log[j] = RbUp(e.of) /\ j < k /\ log[k].op = "up" => RbDone(log, k, log[k].of)
    BY <1>3, <2>1 DEF n
  <2>3. QED
    BY <1>2, <2>2, RbReversedGrows DEF RbLogOk
<1>15. QED
  BY <1>8, <1>9, <1>10, <1>11, <1>12, <1>13, <1>14 DEF RbLogOk

-----------------------------------------------------------------------------
(* The lifecycle's list.                                                   *)

(* A list from which one member is taken.                                  *)
LEMMA RbRemoved ==
    ASSUME NEW S, NEW s \in Seq(S), NEW c \in DOMAIN s
    PROVE  /\ RemoveAt(s, c) \in Seq(S) /\ Len(RemoveAt(s, c)) = Len(s) - 1
           /\ \A k \in 1 .. Len(s) - 1 : RemoveAt(s, c)[k] = IF k < c THEN s[k] ELSE s[k + 1]
<1> DEFINE n == Len(s)
           a == SubSeq(s, 1, c - 1)
           b == SubSeq(s, c + 1, n)
<1>1. n \in Nat /\ c \in 1 .. n
  OBVIOUS
<1>2. /\ a \in Seq(S) /\ Len(a) = c - 1
      /\ \A k \in 1 .. c - 1 : a[k] = s[k]
  BY <1>1
<1>3. /\ b \in Seq(S) /\ Len(b) = n - c
      /\ \A k \in 1 .. n - c : b[k] = s[k + c]
  BY <1>1
<1>4. RemoveAt(s, c) = a \o b
  BY DEF RemoveAt
<1> HIDE DEF a, b
<1>5. /\ a \o b \in Seq(S) /\ Len(a \o b) = Len(a) + Len(b)
      /\ \A k \in 1 .. Len(a) + Len(b) : (a \o b)[k] = IF k <= Len(a) THEN a[k] ELSE b[k - Len(a)]
  BY <1>2, <1>3, ConcatProperties
<1>6. Len(a) + Len(b) = n - 1
  BY <1>1, <1>2, <1>3
<1>7. ASSUME NEW k \in 1 .. n - 1 PROVE (a \o b)[k] = IF k < c THEN s[k] ELSE s[k + 1]
  <2>1. (a \o b)[k] = IF k <= Len(a) THEN a[k] ELSE b[k - Len(a)]
    BY <1>5, <1>6
  <2>2. k <= Len(a) <=> k < c
    BY <1>1, <1>2
  <2>3. CASE k < c
    <3>1. k \in 1 .. c - 1
      BY <1>1, <2>3
    <3>2. QED
      BY <1>2, <2>1, <2>2, <2>3, <3>1
  <2>4. CASE ~(k < c)
    <3>1. k - Len(a) \in 1 .. n - c /\ (k - Len(a)) + c = k + 1
      BY <1>1, <1>2, <2>4
    <3>2. b[k - Len(a)] = s[k + 1]
      BY <1>3, <3>1
    <3>3. QED
      BY <2>1, <2>2, <2>4, <3>2
  <2>5. QED
    BY <2>3, <2>4
<1>8. QED
  BY <1>4, <1>5, <1>6, <1>7

(* owned2 still begins with the loader if owned did, and every service but *)
(* those of gone is on it that was on owned.                               *)
RbKeeps(owned, owned2, gone) ==
    /\ owned2 \in Seq(RbOwnable) /\ RbFirst(owned2) /\ owned2 # <<>> /\ owned2[1] = "modules"
    /\ RbSvc(owned) \ gone \subseteq RbSvc(owned2)

(* A service goes to the end of the list.                                  *)
LEMMA RbOwnsMore ==
    ASSUME NEW owned \in Seq(RbOwnable), RbFirst(owned), owned # <<>>, owned[1] = "modules",
           NEW s \in RbServices, NEW owned2, owned2 = Append(owned, s)
    PROVE  RbKeeps(owned, owned2, {}) /\ s \in RbSvc(owned2)
<1> DEFINE n == Len(owned)
<1>1. s \in RbOwnable /\ s # "modules"
  BY DEF RbOwnable, RbServices
<1>2. n \in Nat /\ n # 0 /\ DOMAIN owned = 1 .. n
  BY EmptySeq
<1>3. /\ owned2 \in Seq(RbOwnable) /\ owned2 # <<>> /\ Len(owned2) = n + 1
      /\ \A i \in 1 .. n : owned2[i] = owned[i]
      /\ owned2[n + 1] = s
  BY <1>1, AppendProperties
<1>4. DOMAIN owned2 = 1 .. n + 1
  BY <1>3
<1> HIDE DEF n
<1>5. RbFirst(owned2)
  BY <1>1, <1>2, <1>3, <1>4 DEF RbFirst
<1>6. owned2[1] = "modules"
  BY <1>2, <1>3
<1>7. n + 1 \in DOMAIN owned2 /\ \A i \in DOMAIN owned : i \in DOMAIN owned2
  BY <1>2, <1>4
<1>8. RbSvc(owned) \subseteq RbSvc(owned2) /\ s \in RbSvc(owned2)
  BY <1>2, <1>3, <1>7 DEF RbSvc
<1>9. QED
  BY <1>3, <1>5, <1>6, <1>8 DEF RbKeeps

(* discard takes at most that service off it.                              *)
LEMMA RbDiscards ==
    ASSUME RbTyped, RbFirst(rbOwned), RbHasModules, NEW s \in RbServices
    PROVE  RbKeeps(rbOwned, RbDiscard(s), {s})
<1> DEFINE n == Len(rbOwned)
           at == {i \in DOMAIN rbOwned : rbOwned[i] = s}
<1>1. s # "modules"
  BY DEF RbServices
<1>2. rbOwned \in Seq(RbOwnable) /\ n \in Nat /\ n # 0 /\ DOMAIN rbOwned = 1 .. n
  BY EmptySeq DEF RbTyped, RbShape, RbHasModules
<1>3. CASE at = {}
  <2>1. RbDiscard(s) = rbOwned
    BY <1>3 DEF RbDiscard
  <2>2. QED
    BY <1>2, <2>1 DEF RbKeeps, RbHasModules
<1>4. CASE at # {}
  <2> PICK c : c = CHOOSE i \in at : TRUE
    OBVIOUS
  <2>1. c \in 1 .. n /\ rbOwned[c] = s
    BY <1>2, <1>4
  <2> PICK o : o = RemoveAt(rbOwned, c)
    OBVIOUS
  <2>2. RbDiscard(s) = o
    BY <1>4 DEF RbDiscard
  <2>3. c # 1
    BY <1>1, <2>1 DEF RbHasModules
  <2>4. /\ o \in Seq(RbOwnable) /\ Len(o) = n - 1
        /\ \A k \in 1 .. n - 1 : o[k] = IF k < c THEN rbOwned[k] ELSE rbOwned[k + 1]
    <3>1. rbOwned \in Seq(RbOwnable) /\ c \in DOMAIN rbOwned
      BY <1>2, <2>1
    <3>2. /\ RemoveAt(rbOwned, c) \in Seq(RbOwnable)
          /\ Len(RemoveAt(rbOwned, c)) = Len(rbOwned) - 1
          /\ \A k \in 1 .. Len(rbOwned) - 1 :
                RemoveAt(rbOwned, c)[k] = IF k < c THEN rbOwned[k] ELSE rbOwned[k + 1]
      BY <3>1, RbRemoved
    <3>3. QED
      BY <3>2
  <2> HIDE DEF n
  <2>5. n > 1 /\ DOMAIN o = 1 .. n - 1
    <3>1. n > 1
      BY <1>2, <2>1, <2>3
    <3>2. QED
      BY <2>4, <3>1
  <2>6. o # <<>>
    BY <1>2, <2>4, <2>5
  <2>7. o[1] = "modules"
    <3>1. 1 \in 1 .. n - 1 /\ 1 < c
      BY <1>2, <2>1, <2>3, <2>5
    <3>2. QED
      BY <2>4, <3>1 DEF RbHasModules
  <2>8. ASSUME NEW k \in 1 .. n - 1, o[k] = "modules" PROVE k = 1
    <3>1. CASE k < c
      BY <1>2, <2>4, <2>8, <3>1 DEF RbFirst
    <3>2. CASE ~(k < c)
      <4>1. k + 1 \in 1 .. n /\ k + 1 # 1 /\ o[k] = rbOwned[k + 1]
        BY <1>2, <2>4, <3>2
      <4>2. QED
        BY <1>2, <2>8, <4>1 DEF RbFirst
    <3>3. QED
      BY <3>1, <3>2
  <2>9. RbFirst(o)
    BY <2>5, <2>7, <2>8 DEF RbFirst
  <2>10. ASSUME NEW x, x # s, NEW i \in 1 .. n, rbOwned[i] = x
         PROVE  \E k \in DOMAIN o : o[k] = x
    <3>1. i # c
      BY <2>1, <2>10
    <3>2. CASE i < c
      <4>1. i \in 1 .. n - 1 /\ o[i] = rbOwned[i]
        BY <1>2, <2>1, <2>4, <3>2
      <4>2. QED
        BY <2>5, <2>10, <4>1
    <3>3. CASE i > c
      <4>1. i - 1 \in 1 .. n - 1 /\ ~(i - 1 < c) /\ (i - 1) + 1 = i
        BY <1>2, <2>1, <3>3
      <4>2. o[i - 1] = rbOwned[i]
        BY <2>4, <4>1
      <4>3. QED
        BY <2>5, <2>10, <4>1, <4>2
    <3>4. i \in Int /\ c \in Int
      BY <1>2, <2>1
    <3>5. i < c \/ i > c
      BY <3>1, <3>4
    <3>6. QED
      BY <3>2, <3>3, <3>5
  <2>11. RbSvc(rbOwned) \ {s} \subseteq RbSvc(o)
    BY <1>2, <2>10 DEF RbSvc
  <2>12. QED
    BY <2>2, <2>4, <2>6, <2>7, <2>9, <2>11 DEF RbKeeps
<1>5. QED
  BY <1>3, <1>4

(* close takes the last one off: the loader when no service is left.       *)
LEMMA RbCloses ==
    ASSUME NEW owned \in Seq(RbOwnable), RbFirst(owned), owned # <<>>,
           NEW owned2, owned2 = Front(owned)
    PROVE  /\ owned[1] = "modules"
           /\ Last(owned) = "modules" => owned2 = <<>> /\ RbSvc(owned) = {}
           /\ Last(owned) # "modules" =>
                 Last(owned) \in RbServices /\ RbKeeps(owned, owned2, {Last(owned)})
<1> DEFINE n == Len(owned)
<1>1. /\ owned2 \in Seq(RbOwnable) /\ Len(owned2) = n - 1 /\ n - 1 \in Nat
      /\ \A i \in 1 .. n - 1 : owned2[i] = owned[i]
      /\ Last(owned) = owned[n] /\ n \in DOMAIN owned /\ Last(owned) \in RbOwnable
  BY RbFront
<1>2. n \in Nat /\ n >= 1 /\ DOMAIN owned = 1 .. n /\ DOMAIN owned2 = 1 .. n - 1
  BY <1>1
<1> HIDE DEF n
<1>3. owned[1] = "modules"
  <2>1. 1 \in DOMAIN owned
    BY <1>2
  <2>2. QED
    BY <2>1 DEF RbFirst
<1>4. ASSUME Last(owned) = "modules" PROVE owned2 = <<>> /\ RbSvc(owned) = {}
  <2>1. n = 1
    BY <1>1, <1>4 DEF RbFirst
  <2>2. owned2 = <<>>
    BY <1>1, <2>1, EmptySeq
  <2>3. \A i \in DOMAIN owned : owned[i] = "modules"
    BY <1>2, <1>3, <2>1
  <2>4. "modules" \notin RbServices
    BY DEF RbServices
  <2>5. QED
    BY <2>2, <2>3, <2>4 DEF RbSvc
<1>5. ASSUME Last(owned) # "modules"
      PROVE  Last(owned) \in RbServices /\ RbKeeps(owned, owned2, {Last(owned)})
  <2>1. n # 1
    BY <1>1, <1>3, <1>5
  <2>2. 1 \in 1 .. n - 1 /\ \A i \in 1 .. n - 1 : i \in 1 .. n
    BY <1>2, <2>1
  <2>3. owned2 # <<>> /\ owned2[1] = "modules"
    BY <1>1, <1>2, <1>3, <2>2
  <2>4. RbFirst(owned2)
    BY <1>1, <1>2, <2>2 DEF RbFirst
  <2>5. \A i \in 1 .. n : i = n \/ i \in 1 .. n - 1
    BY <1>2
  <2>6. RbSvc(owned) \ {Last(owned)} \subseteq RbSvc(owned2)
    BY <1>1, <1>2, <2>5 DEF RbSvc
  <2>7. Last(owned) \in RbServices
    BY <1>1, <1>5 DEF RbOwnable
  <2>8. QED
    BY <1>1, <2>3, <2>4, <2>6, <2>7 DEF RbKeeps
<1>6. QED
  BY <1>3, <1>4, <1>5

-----------------------------------------------------------------------------
(* What the steps do to the loader, the list and the log.                  *)

(* The fields of the loader.                                               *)
LEMMA RbFields ==
    ASSUME NEW l \in RbLoaders
    PROVE  /\ l.next \in 1 .. Len(RbModules) + 1 /\ l.running \in Seq(RbNames)
           /\ l.failed \subseteq RbNames /\ l.stuck \in BOOLEAN /\ l.started \in BOOLEAN
           /\ l.then \in {"none", "report", "ending"}
           /\ l = [next |-> l.next, running |-> l.running, failed |-> l.failed, stuck |-> l.stuck,
                   started |-> l.started, then |-> l.then]
           /\ Len(RbModules) \in Nat /\ l.next \in Nat
<1>1. Len(RbModules) \in Nat
  BY RbAssumption
<1>2. QED
  BY <1>1 DEF RbLoaders

(* A process starts with nothing.                                          *)
LEMMA RbFresh ==
    ASSUME rbLoader' = RbNewLoader, rbOwned' = <<>>, rbLog' = <<>> PROVE RbShape'
<1>1. 1 \in 1 .. Len(RbModules) + 1
  BY RbAssumption
<1>2. <<>> \in Seq(RbNames) /\ <<>> \in Seq(RbOwnable) /\ <<>> \in Seq(RbEntries)
  OBVIOUS
<1>3. RbNewLoader \in RbLoaders
  BY <1>1, <1>2 DEF RbNewLoader, RbLoaders
<1>4. QED
  BY <1>2, <1>3 DEF RbShape

(* A module is loaded.                                                     *)
LEMMA RbLoadEffect ==
    ASSUME RbShape, RbLoad, NEW m, m = RbModules[rbLoader.next], NEW e, e = RbUp(m)
    PROVE  /\ RbShape' /\ RbGrown(rbLog, e, rbLog')
           /\ rbLoader'.next = rbLoader.next + 1 /\ rbLoader'.failed = rbLoader.failed
           /\ rbLoader'.stuck = rbLoader.stuck
           /\ Len(rbLoader'.running) = Len(rbLoader.running) + 1
           /\ rbLoader'.running[Len(rbLoader.running) + 1] = m
           /\ \A p \in 1 .. Len(rbLoader.running) : rbLoader'.running[p] = rbLoader.running[p]
<1> PICK nxt, run : nxt = rbLoader.next /\ run = rbLoader.running
  OBVIOUS
<1>1. /\ rbLoader \in RbLoaders /\ nxt \in Nat /\ nxt \in 1 .. Len(RbModules) + 1
      /\ Len(RbModules) \in Nat /\ nxt <= Len(RbModules) /\ run \in Seq(RbNames)
  BY RbFields DEF RbShape, RbLoad
<1>2. nxt \in 1 .. Len(RbModules) /\ nxt + 1 \in 1 .. Len(RbModules) + 1
  BY <1>1
<1>3. m \in RbNames
  BY <1>2, RbAssumption DEF RbNames
<1>4. e \in RbEntries
  BY <1>3 DEF RbEntries, RbUp
<1> PICK run2 : run2 = Append(run, m)
  OBVIOUS
<1>5. /\ run2 \in Seq(RbNames) /\ Len(run2) = Len(run) + 1 /\ run2[Len(run) + 1] = m
      /\ \A p \in 1 .. Len(run) : run2[p] = run[p]
  BY <1>1, <1>3, AppendProperties
<1>6. rbLoader' = [rbLoader EXCEPT !.next = nxt + 1, !.running = run2]
  BY DEF RbLoad
<1>7. rbLoader' \in RbLoaders
  BY <1>1, <1>2, <1>5, <1>6 DEF RbLoaders
<1>8. rbLoader'.next = nxt + 1 /\ rbLoader'.running = run2 /\ rbLoader'.failed = rbLoader.failed
      /\ rbLoader'.stuck = rbLoader.stuck
  BY <1>1, <1>6 DEF RbLoaders
<1>9. rbLog \in Seq(RbEntries) /\ rbLog' = Append(rbLog, e)
  BY DEF RbShape, RbLoad
<1>10. RbGrown(rbLog, e, rbLog')
  BY <1>4, <1>9, RbLonger
<1>11. RbShape'
  BY <1>7, <1>10 DEF RbShape, RbGrown, RbLoad
<1>12. QED
  BY <1>5, <1>8, <1>10, <1>11

(* A module fails to load.                                                 *)
LEMMA RbLoadFailsEffect ==
    ASSUME RbShape, NEW exits \in BOOLEAN, NEW stopped \in BOOLEAN, RbLoadFails(exits, stopped)
    PROVE  /\ RbShape' /\ rbLog' = rbLog /\ rbOwned' = rbOwned
           /\ rbLoader'.next = rbLoader.next + 1 /\ rbLoader'.running = rbLoader.running
           /\ rbLoader'.failed # {} /\ rbLoader'.stuck = ~stopped
<1> PICK nxt : nxt = rbLoader.next
  OBVIOUS
<1> PICK m : m = RbModules[nxt]
  OBVIOUS
<1>1. /\ rbLoader \in RbLoaders /\ nxt \in Nat /\ nxt \in 1 .. Len(RbModules) + 1
      /\ Len(RbModules) \in Nat /\ nxt <= Len(RbModules) /\ rbLoader.failed \subseteq RbNames
  BY RbFields DEF RbShape, RbLoadFails
<1>2. nxt \in 1 .. Len(RbModules) /\ nxt + 1 \in 1 .. Len(RbModules) + 1
  BY <1>1
<1>3. m \in RbNames
  BY <1>2, RbAssumption DEF RbNames
<1> PICK failed : failed = rbLoader.failed \cup {m}
  OBVIOUS
<1>4. failed \subseteq RbNames /\ failed # {}
  BY <1>1, <1>3
<1> PICK stuck \in BOOLEAN : stuck = ~stopped
  OBVIOUS
<1> PICK then \in {"report", "ending"} : then = IF exits THEN "ending" ELSE "report"
  OBVIOUS
<1>5. rbLoader' = [rbLoader EXCEPT !.next = nxt + 1, !.failed = failed, !.stuck = stuck, !.then = then]
  BY DEF RbLoadFails
<1>6. rbLoader' \in RbLoaders
  <2>1. then \in {"none", "report", "ending"} /\ failed \in SUBSET RbNames
    BY <1>4
  <2>2. QED
    BY <1>1, <1>2, <1>5, <2>1 DEF RbLoaders
<1>7. /\ rbLoader'.next = nxt + 1 /\ rbLoader'.running = rbLoader.running
      /\ rbLoader'.failed = failed /\ rbLoader'.stuck = stuck
  BY <1>1, <1>5 DEF RbLoaders
<1>8. rbLog' = rbLog /\ rbOwned' = rbOwned
  BY DEF RbLoadFails
<1>9. QED
  BY <1>4, <1>6, <1>7, <1>8 DEF RbShape

(* A module is stopped.                                                    *)
LEMMA RbStopEffect ==
    ASSUME RbShape, NEW ok \in BOOLEAN, RbStopModule(ok),
           NEW run, run = rbLoader.running, NEW e, e = RbDown(run[Len(run)])
    PROVE  /\ RbShape' /\ RbGrown(rbLog, e, rbLog') /\ rbOwned' = rbOwned
           /\ run \in Seq(RbNames) /\ run # <<>>
           /\ rbLoader'.next = rbLoader.next
           /\ rbLoader'.stuck = (rbLoader.stuck \/ ~ok)
           /\ Len(rbLoader'.running) = Len(run) - 1
           /\ \A p \in 1 .. Len(run) - 1 : rbLoader'.running[p] = run[p]
<1>1. rbLoader \in RbLoaders /\ run \in Seq(RbNames) /\ run # <<>>
  BY RbFields DEF RbShape, RbStopModule
<1> PICK run2 : run2 = Front(run)
  OBVIOUS
<1>2. /\ run2 \in Seq(RbNames) /\ Len(run2) = Len(run) - 1
      /\ \A p \in 1 .. Len(run) - 1 : run2[p] = run[p]
      /\ Last(run) = run[Len(run)] /\ Last(run) \in RbNames
  BY <1>1, RbFront
<1>3. rbLoader.stuck \in BOOLEAN
  BY <1>1, RbFields
<1> PICK stuck \in BOOLEAN : stuck = (rbLoader.stuck \/ ~ok)
  BY <1>3
<1>4. rbLoader' = [rbLoader EXCEPT !.running = run2, !.stuck = stuck]
  BY DEF RbStopModule
<1>5. rbLoader' \in RbLoaders
  BY <1>1, <1>2, <1>4 DEF RbLoaders
<1>6. rbLoader'.next = rbLoader.next /\ rbLoader'.running = run2 /\ rbLoader'.stuck = stuck
  BY <1>1, <1>4 DEF RbLoaders
<1>7. e \in RbEntries
  BY <1>2 DEF RbEntries, RbDown
<1>8. rbLog \in Seq(RbEntries) /\ rbLog' = Append(rbLog, e) /\ rbOwned' = rbOwned
  BY <1>2 DEF RbShape, RbStopModule
<1>9. RbGrown(rbLog, e, rbLog')
  BY <1>7, <1>8, RbLonger
<1>10. RbShape'
  BY <1>5, <1>8, <1>9 DEF RbShape, RbGrown
<1>11. QED
  BY <1>1, <1>2, <1>6, <1>8, <1>9, <1>10

(* The modules' entry becomes the only one on the list.                    *)
LEMMA RbProvisionEffect ==
    ASSUME RbShape, rbOwned = <<>>, NEW ok \in BOOLEAN, RbProvision(ok)
    PROVE  /\ RbShape' /\ RbFirst(rbOwned')
           /\ rbOwned' # <<>> => Len(rbOwned') = 1 /\ rbOwned'[1] = "modules"
           /\ rbAt' = "loading" => rbOwned' # <<>>
<1>1. rbLoader' = rbLoader /\ rbLog' = rbLog
  BY DEF RbProvision
<1>2. CASE rbOwned' = rbOwned
  <2>1. rbAt' # "loading"
    <3>1. rbOwned' # Append(rbOwned, "modules")
      BY <1>2
    <3>2. "invalid" \notin RbNames
      BY RbAssumption
    <3>3. QED
      BY <3>1, <3>2 DEF RbProvision
  <2>2. QED
    BY <1>1, <1>2, <2>1 DEF RbShape, RbFirst
<1>3. CASE rbOwned' = Append(rbOwned, "modules")
  <2>1. rbOwned' = <<"modules">>
    BY <1>3
  <2>2. "modules" \in RbOwnable
    BY DEF RbOwnable
  <2>3. rbOwned' \in Seq(RbOwnable) /\ Len(rbOwned') = 1 /\ rbOwned'[1] = "modules" /\ rbOwned' # <<>>
        /\ DOMAIN rbOwned' = 1 .. 1
    BY <2>1, <2>2
  <2>4. QED
    BY <1>1, <2>3 DEF RbShape, RbFirst
<1>4. QED
  BY <1>2, <1>3 DEF RbProvision

(* A step about a service s: nothing is taken off the list, nor logged; or *)
(* it comes up; or its stop is tried.                                      *)
RbMoves(s) ==
    /\ RbShape' /\ rbLoader' = rbLoader
    /\ \/ RbKeeps(rbOwned, rbOwned', {}) /\ rbLog' = rbLog
       \/ RbKeeps(rbOwned, rbOwned', {}) /\ s \in RbSvc(rbOwned') /\ RbGrown(rbLog, RbUp(s), rbLog')
       \/ RbKeeps(rbOwned, rbOwned', {s}) /\ RbGrown(rbLog, RbDown(s), rbLog')

(* A list that stays as it is.                                             *)
LEMMA RbSameList ==
    ASSUME RbShape, RbFirst(rbOwned), RbHasModules, rbOwned' = rbOwned, NEW gone
    PROVE  RbKeeps(rbOwned, rbOwned', gone)
  BY DEF RbShape, RbKeeps, RbHasModules

(* Entries about services are entries.                                     *)
LEMMA RbServiceEntry ==
    ASSUME NEW s \in RbServices PROVE RbUp(s) \in RbEntries /\ RbDown(s) \in RbEntries
  BY DEF RbEntries, RbUp, RbDown

(* The binding of an optional service.                                     *)
LEMMA RbOptionalEffect ==
    ASSUME RbShape, RbFirst(rbOwned), RbHasModules, NEW s \in RbServices, NEW next,
           NEW outcome \in {"bound", "absent", "stuck"}, RbOptional(s, next, outcome)
    PROVE  RbMoves(s)
<1>1. rbLoader' = rbLoader
  BY DEF RbOptional
<1>2. CASE outcome # "bound"
  <2>1. rbOwned' = rbOwned /\ rbLog' = rbLog
    BY <1>2 DEF RbOptional
  <2>2. RbKeeps(rbOwned, rbOwned', {})
    BY <2>1, RbSameList
  <2>3. RbShape'
    BY <1>1, <2>1 DEF RbShape
  <2>4. QED
    BY <1>1, <2>1, <2>2, <2>3 DEF RbMoves
<1>3. CASE outcome = "bound"
  <2> PICK e : e = RbUp(s)
    OBVIOUS
  <2>1. rbOwned' = Append(rbOwned, s) /\ rbLog' = Append(rbLog, e)
    BY <1>3 DEF RbOptional
  <2>2. rbOwned \in Seq(RbOwnable) /\ rbOwned # <<>> /\ rbOwned[1] = "modules"
    BY DEF RbShape, RbHasModules
  <2>3. RbKeeps(rbOwned, rbOwned', {}) /\ s \in RbSvc(rbOwned')
    BY <2>1, <2>2, RbOwnsMore
  <2>4. rbLog \in Seq(RbEntries) /\ e \in RbEntries
    BY RbServiceEntry DEF RbShape
  <2>5. RbGrown(rbLog, e, rbLog')
    BY <2>1, <2>4, RbLonger
  <2>6. RbShape'
    BY <1>1, <2>3, <2>5 DEF RbShape, RbGrown, RbKeeps
  <2>7. QED
    BY <1>1, <2>3, <2>5, <2>6 DEF RbMoves
<1>4. QED
  BY <1>2, <1>3

(* The stop of a service that stays on the list or is taken off it.        *)
LEMMA RbDownEffect ==
    ASSUME RbShape, rbLoader' = rbLoader, NEW s \in RbServices, rbLog' = Append(rbLog, RbDown(s)),
           RbKeeps(rbOwned, rbOwned', {s})
    PROVE  RbMoves(s)
<1> PICK e : e = RbDown(s)
  OBVIOUS
<1>1. rbLog \in Seq(RbEntries) /\ e \in RbEntries
  BY RbServiceEntry DEF RbShape
<1>2. RbGrown(rbLog, e, rbLog')
  BY <1>1, RbLonger
<1>3. RbShape'
  BY <1>2 DEF RbShape, RbGrown, RbKeeps
<1>4. QED
  BY <1>2, <1>3 DEF RbMoves

(* The conversation fails.                                                 *)
LEMMA RbServeFailsEffect ==
    ASSUME RbTyped, RbFirst(rbOwned), RbHasModules, NEW ok \in BOOLEAN, RbServeFails(ok)
    PROVE  RbMoves("conversation")
<1>1. RbShape /\ "conversation" \in RbServices
  BY DEF RbTyped, RbServices
<1>2. rbLoader' = rbLoader /\ rbLog' = Append(rbLog, RbDown("conversation"))
  BY DEF RbServeFails
<1>3. RbKeeps(rbOwned, rbOwned', {"conversation"})
  <2>1. CASE rbOwned' = rbOwned
    BY <1>1, <2>1, RbSameList
  <2>2. CASE rbOwned' = RbDiscard("conversation")
    BY <1>1, <2>2, RbDiscards
  <2>3. QED
    BY <2>1, <2>2 DEF RbServeFails
<1>4. QED
  BY <1>1, <1>2, <1>3, RbDownEffect

(* The loop looks at the sensor LAN.                                       *)
LEMMA RbLanCheckEffect ==
    ASSUME RbTyped, RbFirst(rbOwned), RbHasModules, NEW ok \in BOOLEAN, RbLanCheck(ok)
    PROVE  RbMoves("sensor-lan")
<1>1. RbShape /\ "sensor-lan" \in RbServices /\ rbLoader' = rbLoader
  BY DEF RbTyped, RbServices, RbLanCheck
<1>2. CASE rbLan # "failed"
  <2>1. rbOwned' = rbOwned /\ rbLog' = rbLog
    BY <1>2 DEF RbLanCheck
  <2>2. RbKeeps(rbOwned, rbOwned', {})
    BY <1>1, <2>1, RbSameList
  <2>3. RbShape'
    BY <1>1, <2>1 DEF RbShape
  <2>4. QED
    BY <1>1, <2>1, <2>2, <2>3 DEF RbMoves
<1>3. CASE rbLan = "failed"
  <2>1. rbLog' = Append(rbLog, RbDown("sensor-lan"))
    BY <1>3 DEF RbLanCheck
  <2>2. RbKeeps(rbOwned, rbOwned', {"sensor-lan"})
    <3>1. CASE rbOwned' = rbOwned
      BY <1>1, <3>1, RbSameList
    <3>2. CASE rbOwned' = RbDiscard("sensor-lan")
      BY <1>1, <3>2, RbDiscards
    <3>3. QED
      BY <1>3, <3>1, <3>2 DEF RbLanCheck
  <2>3. QED
    BY <1>1, <2>1, <2>2, RbDownEffect
<1>4. QED
  BY <1>2, <1>3

(* Cleanup goes on with the next entry of the list.                        *)
LEMMA RbCloseEffect ==
    ASSUME RbShape, RbFirst(rbOwned), NEW ok \in BOOLEAN, RbClose(ok)
    PROVE  /\ RbHasModules
           /\ \/ /\ RbShape' /\ rbOwned' = <<>> /\ RbSvc(rbOwned) = {} /\ UNCHANGED <<rbLoader, rbLog>>
                 /\ rbAt' = "modules" /\ UNCHANGED <<rbFailed, rbRaised>>
              \/ /\ \E s \in RbServices : RbMoves(s)
                 /\ rbAt' = rbAt /\ rbRaised' = (rbRaised \/ ~ok) /\ rbFailed' = (rbFailed \/ ~ok)
<1> PICK o : o = rbOwned'
  OBVIOUS
<1> PICK s : s = Last(rbOwned)
  OBVIOUS
<1>1. rbOwned \in Seq(RbOwnable) /\ rbOwned # <<>> /\ o = Front(rbOwned) /\ rbLoader' = rbLoader
  BY DEF RbShape, RbClose
<1>2. /\ rbOwned[1] = "modules"
      /\ s = "modules" => o = <<>> /\ RbSvc(rbOwned) = {}
      /\ s # "modules" => s \in RbServices /\ RbKeeps(rbOwned, o, {s})
  BY <1>1, RbCloses
<1>3. RbHasModules
  BY <1>1, <1>2 DEF RbHasModules
<1>4. CASE s = "modules"
  <2>1. rbAt' = "modules" /\ UNCHANGED <<rbFailed, rbRaised, rbLog>>
    BY <1>4 DEF RbClose
  <2>2. <<>> \in Seq(RbOwnable)
    OBVIOUS
  <2>3. RbShape'
    BY <1>1, <1>2, <1>4, <2>1, <2>2 DEF RbShape
  <2>4. QED
    BY <1>1, <1>2, <1>3, <1>4, <2>1, <2>3
<1>5. CASE s # "modules"
  <2>1. rbLog' = Append(rbLog, RbDown(s)) /\ rbAt' = rbAt /\ rbRaised' = (rbRaised \/ ~ok)
        /\ rbFailed' = (rbFailed \/ ~ok)
    BY <1>5 DEF RbClose
  <2>2. s \in RbServices /\ RbKeeps(rbOwned, rbOwned', {s})
    BY <1>2, <1>5
  <2>3. RbMoves(s)
    BY <1>1, <2>1, <2>2, RbDownEffect
  <2>4. QED
    BY <1>3, <2>1, <2>2, <2>3
<1>6. QED
  BY <1>4, <1>5

(* A step that leaves the list, the log and all of the loader that the     *)
(* properties look at.                                                     *)
RbStill ==
    /\ RbShape' /\ rbOwned' = rbOwned /\ rbLog' = rbLog
    /\ rbLoader'.next = rbLoader.next /\ rbLoader'.running = rbLoader.running
    /\ rbLoader'.failed = rbLoader.failed /\ rbLoader'.stuck = rbLoader.stuck

RbQuiet ==
    \/ \E ok \in BOOLEAN : \/ RbWire(ok) \/ RbContinuity(ok) \/ RbPrepare(ok) \/ RbTurn(ok) \/ RbPoll(ok)
                           \/ RbReport(ok) \/ RbRevoke(ok) \/ RbExit(ok)
    \/ \E code \in {0, 1} : RbRolledBack(code)
    \/ RbLoaded \/ RbShutsDown \/ RbServed \/ RbLanFails \/ RbRecovered \/ RbModulesStopped
    \/ RbSignal \/ RbKill \/ UNCHANGED rbVars

(* Most steps are such.                                                    *)
LEMMA RbQuietStill == ASSUME RbShape, RbQuiet PROVE RbStill
<1>1. CASE rbLoader' = rbLoader /\ rbOwned' = rbOwned /\ rbLog' = rbLog
  BY <1>1 DEF RbStill, RbShape
<1>2. CASE /\ \E b \in BOOLEAN : rbLoader' = [rbLoader EXCEPT !.started = b]
           /\ rbOwned' = rbOwned /\ rbLog' = rbLog
  <2>1. PICK b \in BOOLEAN : rbLoader' = [rbLoader EXCEPT !.started = b]
    BY <1>2
  <2>2. rbLoader \in RbLoaders
    BY DEF RbShape
  <2>3. /\ rbLoader'.next = rbLoader.next /\ rbLoader'.running = rbLoader.running
        /\ rbLoader'.failed = rbLoader.failed /\ rbLoader'.stuck = rbLoader.stuck
        /\ rbLoader' \in RbLoaders
    BY <2>1, <2>2 DEF RbLoaders
  <2>4. QED
    BY <1>2, <2>3 DEF RbStill, RbShape
<1>3. ASSUME RbLoaded \/ RbModulesStopped \/ \E code \in {0, 1} : RbRolledBack(code)
      PROVE  /\ \E b \in BOOLEAN : rbLoader' = [rbLoader EXCEPT !.started = b]
             /\ rbOwned' = rbOwned /\ rbLog' = rbLog
  BY <1>3 DEF RbLoaded, RbModulesStopped, RbRolledBack
<1>4. ASSUME NEW ok \in BOOLEAN,
             RbWire(ok) \/ RbContinuity(ok) \/ RbPrepare(ok) \/ RbTurn(ok) \/ RbPoll(ok)
             \/ RbReport(ok) \/ RbRevoke(ok) \/ RbExit(ok)
      PROVE  rbLoader' = rbLoader /\ rbOwned' = rbOwned /\ rbLog' = rbLog
  BY <1>4 DEF RbWire, RbContinuity, RbPrepare, RbTurn, RbPoll, RbReport, RbRevoke, RbExit
<1>5. ASSUME RbShutsDown \/ RbServed \/ RbLanFails \/ RbRecovered \/ RbSignal \/ RbKill \/ UNCHANGED rbVars
      PROVE  rbLoader' = rbLoader /\ rbOwned' = rbOwned /\ rbLog' = rbLog
  BY <1>5 DEF RbShutsDown, RbServed, RbLanFails, RbRecovered, RbSignal, RbKill, rbVars
<1>6. QED
  BY <1>1, <1>2, <1>3, <1>4, <1>5 DEF RbQuiet

(* What the others are.                                                    *)
RbOther ==
    \/ \E found \in RbInputs, ok \in BOOLEAN : RbLaunch(found, ok)
    \/ \E ok \in BOOLEAN : RbProvision(ok) \/ RbStopModule(ok) \/ RbServeFails(ok) \/ RbLanCheck(ok) \/ RbClose(ok)
    \/ \E outcome \in {"bound", "absent", "stuck"} : RbConversation(outcome) \/ RbSensorLan(outcome)
    \/ \E exits, stopped \in BOOLEAN : RbLoadFails(exits, stopped)
    \/ RbLoad

(* Every step is of one sort or of the other.                              *)
LEMMA RbSorts == ASSUME [RbNext]_rbVars PROVE RbQuiet \/ RbOther
  BY DEF RbNext, RbQuiet, RbOther

(* The steps about services, while the loader is on the list.              *)
LEMMA RbServiceSteps ==
    ASSUME RbTyped, RbOwnInv
    PROVE  /\ \A outcome \in {"bound", "absent", "stuck"} :
                 RbConversation(outcome) \/ RbSensorLan(outcome) => \E s \in RbServices : RbMoves(s)
           /\ \A ok \in BOOLEAN : RbServeFails(ok) \/ RbLanCheck(ok) => \E s \in RbServices : RbMoves(s)
<1>1. RbShape /\ RbFirst(rbOwned) /\ "conversation" \in RbServices /\ "sensor-lan" \in RbServices
  BY DEF RbTyped, RbOwnInv, RbServices
<1>2. rbAt \in {"conversation", "lan", "serve", "lancheck"} => RbHasModules
  BY DEF RbOwnInv, RbBooted, RbLooping
<1>3. ASSUME NEW outcome \in {"bound", "absent", "stuck"}, RbConversation(outcome)
      PROVE  \E s \in RbServices : RbMoves(s)
  <2>1. rbAt = "conversation" /\ RbOptional("conversation", "lan", outcome)
    BY <1>3 DEF RbConversation
  <2>2. RbMoves("conversation")
    BY <1>1, <1>2, <2>1, RbOptionalEffect
  <2>3. QED
    BY <1>1, <2>2
<1>4. ASSUME NEW outcome \in {"bound", "absent", "stuck"}, RbSensorLan(outcome)
      PROVE  \E s \in RbServices : RbMoves(s)
  <2>1. rbAt = "lan" /\ RbOptional("sensor-lan", "turn", outcome)
    BY <1>4 DEF RbSensorLan
  <2>2. RbMoves("sensor-lan")
    BY <1>1, <1>2, <2>1, RbOptionalEffect
  <2>3. QED
    BY <1>1, <2>2
<1>5. ASSUME NEW ok \in BOOLEAN, RbServeFails(ok) PROVE \E s \in RbServices : RbMoves(s)
  <2>1. rbAt = "serve"
    BY <1>5 DEF RbServeFails
  <2>2. RbMoves("conversation")
    BY <1>1, <1>2, <1>5, <2>1, RbServeFailsEffect
  <2>3. QED
    BY <1>1, <2>2
<1>6. ASSUME NEW ok \in BOOLEAN, RbLanCheck(ok) PROVE \E s \in RbServices : RbMoves(s)
  <2>1. rbAt = "lancheck"
    BY <1>6 DEF RbLanCheck
  <2>2. RbMoves("sensor-lan")
    BY <1>1, <1>2, <1>6, <2>1, RbLanCheckEffect
  <2>3. QED
    BY <1>1, <2>2
<1>7. QED
  BY <1>3, <1>4, <1>5, <1>6

-----------------------------------------------------------------------------
(* Each part of the invariant is kept.                                     *)

(* The loader, the list and the log keep their types.                      *)
LEMMA RbShapeStep == ASSUME RbTyped, RbOwnInv, [RbNext]_rbVars PROVE RbShape'
<1>0. RbShape /\ RbFirst(rbOwned)
  BY DEF RbTyped, RbOwnInv
<1>1. CASE RbQuiet
  BY <1>0, <1>1, RbQuietStill DEF RbStill
<1>2. ASSUME NEW found \in RbInputs, NEW ok \in BOOLEAN, RbLaunch(found, ok) PROVE RbShape'
  BY <1>2, RbFresh DEF RbLaunch
<1>3. ASSUME NEW ok \in BOOLEAN, RbProvision(ok) PROVE RbShape'
  <2>1. rbOwned = <<>>
    BY <1>3 DEF RbOwnInv, RbEarly, RbProvision
  <2>2. QED
    BY <1>0, <1>3, <2>1, RbProvisionEffect
<1>4. ASSUME NEW ok \in BOOLEAN, RbStopModule(ok) PROVE RbShape'
  BY <1>0, <1>4, RbStopEffect
<1>5. ASSUME NEW ok \in BOOLEAN, RbServeFails(ok) \/ RbLanCheck(ok) PROVE RbShape'
  BY <1>5, RbServiceSteps DEF RbMoves
<1>6. ASSUME NEW ok \in BOOLEAN, RbClose(ok) PROVE RbShape'
  BY <1>0, <1>6, RbCloseEffect DEF RbMoves
<1>7. ASSUME NEW outcome \in {"bound", "absent", "stuck"}, RbConversation(outcome) \/ RbSensorLan(outcome)
      PROVE  RbShape'
  BY <1>7, RbServiceSteps DEF RbMoves
<1>8. ASSUME NEW exits \in BOOLEAN, NEW stopped \in BOOLEAN, RbLoadFails(exits, stopped) PROVE RbShape'
  BY <1>0, <1>8, RbLoadFailsEffect
<1>9. CASE RbLoad
  BY <1>0, <1>9, RbLoadEffect
<1>10. QED
  BY <1>1, <1>2, <1>3, <1>4, <1>5, <1>6, <1>7, <1>8, <1>9, RbSorts DEF RbOther

(* So do the others.                                                       *)
LEMMA RbTypedStep ==
    ASSUME RbTyped, RbOwnInv, [RbNext]_rbVars PROVE RbTyped'
<1> DEFINE Scalars == /\ rbAt' \in RbPlaces /\ rbSession' \in Nat
                      /\ rbStatus' \in [session : Nat, state : RbStates]
                      /\ rbFailed' \in BOOLEAN /\ rbRaised' \in BOOLEAN
                      /\ rbLost' \in BOOLEAN /\ rbKilled' \in BOOLEAN
<1>0. rbLoader.stuck \in BOOLEAN
  BY RbFields DEF RbTyped, RbShape
<1>1. ASSUME NEW found \in RbInputs, NEW ok \in BOOLEAN, RbLaunch(found, ok) PROVE Scalars
  <2>1. rbSession' \in Nat
    BY <1>1 DEF RbTyped, RbLaunch
  <2>2. [session |-> rbSession', state |-> "starting"] \in [session : Nat, state : RbStates]
    BY <2>1 DEF RbStates
  <2>3. rbStatus' \in [session : Nat, state : RbStates]
    BY <1>1, <2>2 DEF RbTyped, RbLaunch
  <2>4. QED
    BY <1>1, <2>1, <2>3 DEF RbPlaces, RbLaunch
<1>2. ASSUME NEW ok \in BOOLEAN, RbWire(ok) PROVE Scalars
  BY <1>2 DEF RbTyped, RbPlaces, RbStates, RbWire, RbLeave, rbHist
<1>3. ASSUME NEW ok \in BOOLEAN, RbContinuity(ok) PROVE Scalars
  BY <1>3 DEF RbTyped, RbPlaces, RbStates, RbContinuity, rbHist
<1>4. ASSUME NEW ok \in BOOLEAN, RbProvision(ok) PROVE Scalars
  BY <1>4 DEF RbTyped, RbPlaces, RbStates, RbProvision, rbHist
<1>5. ASSUME RbLoad PROVE Scalars
  BY <1>5 DEF RbTyped, RbPlaces, RbStates, RbLoad, rbHist
<1>6. ASSUME NEW exits \in BOOLEAN, NEW stopped \in BOOLEAN, RbLoadFails(exits, stopped) PROVE Scalars
  BY <1>6 DEF RbTyped, RbPlaces, RbStates, RbLoadFails, rbHist
<1>7. ASSUME RbLoaded PROVE Scalars
  BY <1>7 DEF RbTyped, RbPlaces, RbStates, RbLoaded, rbHist
<1>8. ASSUME NEW ok \in BOOLEAN, RbStopModule(ok) PROVE Scalars
  BY <1>8 DEF RbTyped, RbPlaces, RbStates, RbStopModule, rbHist
<1>9. ASSUME NEW code \in {0, 1}, RbRolledBack(code) PROVE Scalars
  BY <1>9 DEF RbTyped, RbPlaces, RbStates, RbRolledBack, RbLeave, rbHist
<1>10. ASSUME NEW ok \in BOOLEAN, RbPrepare(ok) PROVE Scalars
  BY <1>10 DEF RbTyped, RbPlaces, RbStates, RbPrepare, RbLeave, rbHist
<1>11. ASSUME NEW outcome \in {"bound", "absent", "stuck"}, RbConversation(outcome) PROVE Scalars
  BY <1>11 DEF RbTyped, RbPlaces, RbStates, RbConversation, RbOptional, RbLeave, rbHist
<1>12. ASSUME NEW outcome \in {"bound", "absent", "stuck"}, RbSensorLan(outcome) PROVE Scalars
  BY <1>12 DEF RbTyped, RbPlaces, RbStates, RbSensorLan, RbOptional, RbLeave, rbHist
<1>13. ASSUME NEW ok \in BOOLEAN, RbTurn(ok) PROVE Scalars
  BY <1>13 DEF RbTyped, RbPlaces, RbStates, RbTurn, RbWrite, RbLeave, rbHist
<1>14. ASSUME RbShutsDown PROVE Scalars
  BY <1>14 DEF RbTyped, RbPlaces, RbStates, RbShutsDown, RbLeave, rbHist
<1>15. ASSUME NEW ok \in BOOLEAN, RbPoll(ok) PROVE Scalars
  BY <1>15 DEF RbTyped, RbPlaces, RbStates, RbPoll, RbLeave, rbHist
<1>16. ASSUME RbServed PROVE Scalars
  BY <1>16 DEF RbTyped, RbPlaces, RbStates, RbServed, rbHist
<1>17. ASSUME NEW ok \in BOOLEAN, RbServeFails(ok) PROVE Scalars
  BY <1>17 DEF RbTyped, RbPlaces, RbStates, RbServeFails, RbLeave, rbHist
<1>18. ASSUME RbLanFails PROVE Scalars
  BY <1>18 DEF RbTyped, RbPlaces, RbStates, RbLanFails, rbHist
<1>19. ASSUME NEW ok \in BOOLEAN, RbLanCheck(ok) PROVE Scalars
  BY <1>19 DEF RbTyped, RbPlaces, RbStates, RbLanCheck, RbLeave, rbHist
<1>20. ASSUME NEW ok \in BOOLEAN, RbReport(ok) PROVE Scalars
  BY <1>20 DEF RbTyped, RbPlaces, RbStates, RbReport, RbLeave, rbHist
<1>21. ASSUME RbRecovered PROVE Scalars
  BY <1>21 DEF RbTyped, RbPlaces, RbStates, RbRecovered, RbLeave, rbHist
<1>22. ASSUME NEW ok \in BOOLEAN, RbRevoke(ok) PROVE Scalars
  BY <1>22 DEF RbTyped, RbPlaces, RbStates, RbRevoke, RbWrite, rbHist
<1>23. ASSUME NEW ok \in BOOLEAN, RbClose(ok) PROVE Scalars
  BY <1>23 DEF RbTyped, RbPlaces, RbStates, RbClose, rbHist
<1>24. ASSUME RbModulesStopped PROVE Scalars
  BY <1>0, <1>24 DEF RbTyped, RbPlaces, RbStates, RbModulesStopped, rbHist
<1>25. ASSUME NEW ok \in BOOLEAN, RbExit(ok) PROVE Scalars
  BY <1>25 DEF RbTyped, RbPlaces, RbStates, RbExit, RbWrite, rbHist
<1>26. ASSUME RbSignal PROVE Scalars
  BY <1>26 DEF RbTyped, RbPlaces, RbStates, RbSignal, rbHist
<1>27. ASSUME RbKill PROVE Scalars
  BY <1>27 DEF RbTyped, RbPlaces, RbStates, RbKill, rbHist
<1>28. ASSUME UNCHANGED rbVars PROVE Scalars
  BY <1>28 DEF RbTyped, rbVars
<1> HIDE DEF Scalars
<1>29. Scalars
  BY <1>1, <1>2, <1>3, <1>4, <1>5, <1>6, <1>7, <1>8, <1>9, <1>10, <1>11, <1>12, <1>13,
     <1>14, <1>15, <1>16, <1>17, <1>18, <1>19, <1>20, <1>21, <1>22, <1>23, <1>24, <1>25,
     <1>26, <1>27, <1>28 DEF RbNext
<1>30. RbShape'
  BY RbShapeStep
<1>31. QED
  BY <1>29, <1>30 DEF RbTyped, Scalars

(* The log: no module ran, or one more, or one less, or a service moved.   *)
LEMMA RbLogStep == ASSUME RbTyped, RbOwnInv, RbLogInv, [RbNext]_rbVars PROVE RbLogInv'
<1> PICK log, run, nxt, owned : log = rbLog /\ run = rbLoader.running /\ nxt = rbLoader.next /\ owned = rbOwned
  OBVIOUS
<1> PICK log2, run2, nxt2, owned2 :
        log2 = rbLog' /\ run2 = rbLoader'.running /\ nxt2 = rbLoader'.next /\ owned2 = rbOwned'
  OBVIOUS
<1>0. /\ RbShape /\ RbFirst(rbOwned) /\ RbLogOk(log, run, nxt, RbSvc(owned))
      /\ log \in Seq(RbEntries) /\ run \in Seq(RbNames) /\ nxt \in Nat /\ Len(RbModules) \in Nat
      /\ nxt \in 1 .. Len(RbModules) + 1
  BY RbFields DEF RbTyped, RbShape, RbOwnInv, RbLogInv
<1> SUFFICES RbLogOk(log2, run2, nxt2, RbSvc(owned2))
  BY DEF RbLogInv
<1>m. ASSUME NEW s \in RbServices, RbMoves(s) PROVE RbLogOk(log2, run2, nxt2, RbSvc(owned2))
  <2>1. run2 = run /\ nxt2 = nxt
    BY <1>m DEF RbMoves
  <2>2. CASE RbKeeps(owned, owned2, {}) /\ log2 = log
    <3>1. RbSvc(owned) \subseteq RbSvc(owned2)
      BY <2>2 DEF RbKeeps
    <3>2. RbLogOk(log, run, nxt, RbSvc(owned2))
      BY <1>0, <3>1, RbLogKept
    <3>3. QED
      BY <2>1, <2>2, <3>2
  <2>3. CASE RbKeeps(owned, owned2, {}) /\ s \in RbSvc(owned2) /\ RbGrown(log, RbUp(s), log2)
    <3>1. RbSvc(owned) \cup {s} \subseteq RbSvc(owned2)
      BY <2>3 DEF RbKeeps
    <3>2. RbLogOk(log2, run, nxt, RbSvc(owned2))
      BY <1>0, <2>3, <3>1, RbLogService
    <3>3. QED
      BY <2>1, <3>2
  <2>4. CASE RbKeeps(owned, owned2, {s}) /\ RbGrown(log, RbDown(s), log2)
    <3>1. RbSvc(owned) \ {s} \subseteq RbSvc(owned2)
      BY <2>4 DEF RbKeeps
    <3>2. RbLogOk(log2, run, nxt, RbSvc(owned2))
      BY <1>0, <2>4, <3>1, RbLogServiceDown
    <3>3. QED
      BY <2>1, <3>2
  <2>5. QED
    BY <1>m, <2>2, <2>3, <2>4 DEF RbMoves
<1>1. CASE RbQuiet
  <2>1. log2 = log /\ run2 = run /\ nxt2 = nxt /\ owned2 = owned
    BY <1>0, <1>1, RbQuietStill DEF RbStill
  <2>2. QED
    BY <1>0, <2>1
<1>2. ASSUME NEW found \in RbInputs, NEW ok \in BOOLEAN, RbLaunch(found, ok)
      PROVE  RbLogOk(log2, run2, nxt2, RbSvc(owned2))
  <2>1. log2 = <<>> /\ run2 = <<>>
    BY <1>2 DEF RbLaunch, RbNewLoader
  <2>2. Len(log2) = 0 /\ Len(run2) = 0
    BY <2>1
  <2>3. \A i \in 1 .. 0 : FALSE
    OBVIOUS
  <2>4. QED
    BY <2>2, <2>3 DEF RbLogOk, RbRunsOnce, RbKnown, RbStillUp, RbDownOnce, RbCovered, RbBehind,
                      RbReversed
<1>3. ASSUME NEW ok \in BOOLEAN, RbProvision(ok) PROVE RbLogOk(log2, run2, nxt2, RbSvc(owned2))
  <2>1. log2 = log /\ run2 = run /\ nxt2 = nxt
    BY <1>3 DEF RbProvision
  <2>2. owned = <<>>
    BY <1>3 DEF RbOwnInv, RbEarly, RbProvision
  <2>3. RbSvc(owned) \subseteq RbSvc(owned2)
    BY <2>2 DEF RbSvc
  <2>4. RbLogOk(log, run, nxt, RbSvc(owned2))
    BY <1>0, <2>3, RbLogKept
  <2>5. QED
    BY <2>1, <2>4
<1>4. ASSUME NEW ok \in BOOLEAN, RbStopModule(ok) PROVE RbLogOk(log2, run2, nxt2, RbSvc(owned2))
  <2>1. RbSvc(owned) = {}
    <3>1. rbAt = "rollback" \/ rbAt = "modules"
      BY <1>4 DEF RbStopModule
    <3>2. CASE rbAt = "modules"
      BY <3>2 DEF RbOwnInv, RbSvc
    <3>3. CASE rbAt = "rollback"
      <4>1. Len(owned) = 1 /\ owned[1] = "modules" /\ owned \in Seq(RbOwnable)
        BY <1>0, <3>3 DEF RbOwnInv, RbBooted, RbHasModules, RbShape
      <4>2. \A i \in DOMAIN owned : owned[i] = "modules"
        BY <4>1
      <4>3. "modules" \notin RbServices
        BY DEF RbServices
      <4>4. QED
        BY <4>2, <4>3 DEF RbSvc
    <3>4. QED
      BY <3>1, <3>2, <3>3
  <2> PICK e : e = RbDown(run[Len(run)])
    OBVIOUS
  <2>2. /\ RbGrown(log, e, log2) /\ owned2 = owned /\ run # <<>> /\ nxt2 = nxt
        /\ Len(run2) = Len(run) - 1 /\ \A p \in 1 .. Len(run) - 1 : run2[p] = run[p]
    BY <1>0, <1>4, RbStopEffect
  <2>3. RbLogOk(log, run, nxt, {})
    BY <1>0, <2>1
  <2>4. RbLogOk(log2, run2, nxt, {})
    BY <1>0, <2>2, <2>3, RbLogStop
  <2>5. QED
    BY <2>1, <2>2, <2>4
<1>5. ASSUME NEW ok \in BOOLEAN, RbServeFails(ok) \/ RbLanCheck(ok)
      PROVE  RbLogOk(log2, run2, nxt2, RbSvc(owned2))
  BY <1>5, <1>m, RbServiceSteps
<1>6. ASSUME NEW ok \in BOOLEAN, RbClose(ok) PROVE RbLogOk(log2, run2, nxt2, RbSvc(owned2))
  <2>1. CASE \E s \in RbServices : RbMoves(s)
    BY <1>m, <2>1
  <2>2. CASE rbOwned' = <<>> /\ RbSvc(rbOwned) = {} /\ UNCHANGED <<rbLoader, rbLog>>
    <3>1. log2 = log /\ run2 = run /\ nxt2 = nxt /\ RbSvc(owned) \subseteq RbSvc(owned2)
      BY <2>2
    <3>2. RbLogOk(log, run, nxt, RbSvc(owned2))
      BY <1>0, <3>1, RbLogKept
    <3>3. QED
      BY <3>1, <3>2
  <2>3. QED
    BY <1>0, <1>6, <2>1, <2>2, RbCloseEffect
<1>7. ASSUME NEW outcome \in {"bound", "absent", "stuck"}, RbConversation(outcome) \/ RbSensorLan(outcome)
      PROVE  RbLogOk(log2, run2, nxt2, RbSvc(owned2))
  BY <1>7, <1>m, RbServiceSteps
<1>8. ASSUME NEW exits \in BOOLEAN, NEW stopped \in BOOLEAN, RbLoadFails(exits, stopped)
      PROVE  RbLogOk(log2, run2, nxt2, RbSvc(owned2))
  <2>1. log2 = log /\ run2 = run /\ nxt2 = nxt + 1 /\ owned2 = owned
    BY <1>0, <1>8, RbLoadFailsEffect
  <2>2. nxt2 \in Nat /\ nxt2 >= nxt /\ RbSvc(owned) \subseteq RbSvc(owned2)
    BY <1>0, <2>1
  <2>3. RbLogOk(log, run, nxt2, RbSvc(owned2))
    BY <1>0, <2>2, RbLogKept
  <2>4. QED
    BY <2>1, <2>3
<1>9. ASSUME RbLoad PROVE RbLogOk(log2, run2, nxt2, RbSvc(owned2))
  <2> PICK m : m = RbModules[nxt]
    OBVIOUS
  <2> PICK e : e = RbUp(m)
    OBVIOUS
  <2>1. /\ RbGrown(log, e, log2) /\ nxt2 = nxt + 1
        /\ Len(run2) = Len(run) + 1 /\ run2[Len(run) + 1] = m
        /\ \A p \in 1 .. Len(run) : run2[p] = run[p]
    BY <1>0, <1>9, RbLoadEffect
  <2>2. nxt \in 1 .. Len(RbModules) /\ owned2 = owned
    BY <1>0, <1>9 DEF RbLoad
  <2>3. RbLogOk(log2, run2, nxt + 1, RbSvc(owned))
    BY <1>0, <2>1, <2>2, RbLogLoad
  <2>4. QED
    BY <2>1, <2>2, <2>3
<1>10. QED
  BY <1>1, <1>2, <1>3, <1>4, <1>5, <1>6, <1>7, <1>8, <1>9, RbSorts DEF RbOther

(* The list: the loader is first on it while modules run.                  *)
LEMMA RbOwnStep == ASSUME RbTyped, RbOwnInv, [RbNext]_rbVars PROVE RbOwnInv'
<1>0. RbShape /\ RbFirst(rbOwned)
  BY DEF RbTyped, RbOwnInv
<1>q. RbQuiet => RbStill
  BY <1>0, RbQuietStill
<1>1. ASSUME NEW found \in RbInputs, NEW ok \in BOOLEAN, RbLaunch(found, ok) PROVE RbOwnInv'
  <2>1. RbFirst(<<>>) /\ RbNewLoader.running = <<>>
    BY DEF RbFirst, RbNewLoader
  <2>2. QED
    BY <1>1, <2>1 DEF RbOwnInv, RbHasModules, RbEarly, RbBooted, RbLooping, RbLaunch
<1>2. ASSUME NEW ok \in BOOLEAN, RbWire(ok) PROVE RbOwnInv'
  BY <1>2 DEF RbOwnInv, RbHasModules, RbEarly, RbBooted, RbLooping, RbWire, RbLeave, rbHist
<1>3. ASSUME NEW ok \in BOOLEAN, RbContinuity(ok) PROVE RbOwnInv'
  BY <1>3 DEF RbOwnInv, RbHasModules, RbEarly, RbBooted, RbLooping, RbContinuity, rbHist
<1>4. ASSUME NEW ok \in BOOLEAN, RbProvision(ok) PROVE RbOwnInv'
  <2>1. rbOwned = <<>> /\ rbLoader = RbNewLoader
    BY <1>4 DEF RbOwnInv, RbEarly, RbProvision
  <2>2. /\ RbFirst(rbOwned')
        /\ rbOwned' # <<>> => Len(rbOwned') = 1 /\ rbOwned'[1] = "modules"
        /\ rbAt' = "loading" => rbOwned' # <<>>
    BY <1>0, <1>4, <2>1, RbProvisionEffect
  <2>3. RbNewLoader.running = <<>>
    BY DEF RbNewLoader
  <2>4. QED
    BY <1>4, <2>1, <2>2, <2>3 DEF RbOwnInv, RbHasModules, RbEarly, RbBooted, RbLooping, RbProvision
<1>5. CASE RbLoad
  BY <1>5 DEF RbOwnInv, RbHasModules, RbEarly, RbBooted, RbLooping, RbLoad, rbHist
<1>6. ASSUME NEW exits \in BOOLEAN, NEW stopped \in BOOLEAN, RbLoadFails(exits, stopped) PROVE RbOwnInv'
  <2>1. rbLoader'.running = rbLoader.running
    BY <1>0, <1>6, RbLoadFailsEffect
  <2>2. QED
    BY <1>6, <2>1 DEF RbOwnInv, RbHasModules, RbEarly, RbBooted, RbLooping, RbLoadFails, rbHist
<1>7. CASE RbLoaded
  <2>1. RbStill
    BY <1>7, <1>q DEF RbQuiet
  <2>2. QED
    BY <1>7, <2>1 DEF RbStill, RbOwnInv, RbHasModules, RbEarly, RbBooted, RbLooping, RbLoaded
<1>8. ASSUME NEW ok \in BOOLEAN, RbStopModule(ok) PROVE RbOwnInv'
  BY <1>8 DEF RbOwnInv, RbHasModules, RbEarly, RbBooted, RbLooping, RbStopModule, rbHist
<1>9. ASSUME NEW code \in {0, 1}, RbRolledBack(code) PROVE RbOwnInv'
  <2>1. RbStill
    BY <1>9, <1>q DEF RbQuiet
  <2>2. QED
    BY <1>9, <2>1 DEF RbStill, RbOwnInv, RbHasModules, RbEarly, RbBooted, RbLooping, RbRolledBack, RbLeave, rbHist
<1>10. ASSUME NEW ok \in BOOLEAN, RbPrepare(ok) PROVE RbOwnInv'
  BY <1>10 DEF RbOwnInv, RbHasModules, RbEarly, RbBooted, RbLooping, RbPrepare, RbLeave, rbHist
<1>11. ASSUME NEW outcome \in {"bound", "absent", "stuck"}, RbConversation(outcome) PROVE RbOwnInv'
  <2>1. \E s \in RbServices : RbMoves(s)
    BY <1>11, RbServiceSteps
  <2>2. rbLoader' = rbLoader /\ RbFirst(rbOwned') /\ rbOwned' # <<>> /\ rbOwned'[1] = "modules"
    BY <2>1 DEF RbMoves, RbKeeps
  <2>3. QED
    BY <1>11, <2>2 DEF RbOwnInv, RbHasModules, RbEarly, RbBooted, RbLooping, RbConversation, RbOptional, RbLeave
<1>12. ASSUME NEW outcome \in {"bound", "absent", "stuck"}, RbSensorLan(outcome) PROVE RbOwnInv'
  <2>1. \E s \in RbServices : RbMoves(s)
    BY <1>12, RbServiceSteps
  <2>2. rbLoader' = rbLoader /\ RbFirst(rbOwned') /\ rbOwned' # <<>> /\ rbOwned'[1] = "modules"
    BY <2>1 DEF RbMoves, RbKeeps
  <2>3. QED
    BY <1>12, <2>2 DEF RbOwnInv, RbHasModules, RbEarly, RbBooted, RbLooping, RbSensorLan, RbOptional, RbLeave
<1>13. ASSUME NEW ok \in BOOLEAN, RbTurn(ok) PROVE RbOwnInv'
  BY <1>13 DEF RbOwnInv, RbHasModules, RbEarly, RbBooted, RbLooping, RbTurn, RbWrite, RbLeave, rbHist
<1>14. CASE RbShutsDown
  BY <1>14 DEF RbOwnInv, RbHasModules, RbEarly, RbBooted, RbLooping, RbShutsDown, RbLeave, rbHist
<1>15. ASSUME NEW ok \in BOOLEAN, RbPoll(ok) PROVE RbOwnInv'
  BY <1>15 DEF RbOwnInv, RbHasModules, RbEarly, RbBooted, RbLooping, RbPoll, RbLeave, rbHist
<1>16. CASE RbServed
  BY <1>16 DEF RbOwnInv, RbHasModules, RbEarly, RbBooted, RbLooping, RbServed, rbHist
<1>17. ASSUME NEW ok \in BOOLEAN, RbServeFails(ok) PROVE RbOwnInv'
  <2>1. \E s \in RbServices : RbMoves(s)
    BY <1>17, RbServiceSteps
  <2>2. rbLoader' = rbLoader /\ RbFirst(rbOwned') /\ rbOwned' # <<>> /\ rbOwned'[1] = "modules"
    BY <2>1 DEF RbMoves, RbKeeps
  <2>3. QED
    BY <1>17, <2>2 DEF RbOwnInv, RbHasModules, RbEarly, RbBooted, RbLooping, RbServeFails, RbLeave
<1>18. CASE RbLanFails
  BY <1>18 DEF RbOwnInv, RbHasModules, RbEarly, RbBooted, RbLooping, RbLanFails, rbHist
<1>19. ASSUME NEW ok \in BOOLEAN, RbLanCheck(ok) PROVE RbOwnInv'
  <2>1. \E s \in RbServices : RbMoves(s)
    BY <1>19, RbServiceSteps
  <2>2. rbLoader' = rbLoader /\ RbFirst(rbOwned') /\ rbOwned' # <<>> /\ rbOwned'[1] = "modules"
    BY <2>1 DEF RbMoves, RbKeeps
  <2>3. QED
    BY <1>19, <2>2 DEF RbOwnInv, RbHasModules, RbEarly, RbBooted, RbLooping, RbLanCheck, RbLeave
<1>20. ASSUME NEW ok \in BOOLEAN, RbReport(ok) PROVE RbOwnInv'
  BY <1>20 DEF RbOwnInv, RbHasModules, RbEarly, RbBooted, RbLooping, RbReport, RbLeave, rbHist
<1>21. CASE RbRecovered
  BY <1>21 DEF RbOwnInv, RbHasModules, RbEarly, RbBooted, RbLooping, RbRecovered, RbLeave, rbHist
<1>22. ASSUME NEW ok \in BOOLEAN, RbRevoke(ok) PROVE RbOwnInv'
  BY <1>22 DEF RbOwnInv, RbHasModules, RbEarly, RbBooted, RbLooping, RbRevoke, RbWrite, rbHist
<1>23. ASSUME NEW ok \in BOOLEAN, RbClose(ok) PROVE RbOwnInv'
  <2>1. CASE rbOwned' = <<>> /\ UNCHANGED rbLoader /\ rbAt' = "modules"
    <3>1. RbFirst(<<>>)
      BY DEF RbFirst
    <3>2. QED
      BY <1>23, <2>1, <3>1 DEF RbOwnInv, RbHasModules, RbEarly, RbBooted, RbLooping, RbClose
  <2>2. CASE (\E s \in RbServices : RbMoves(s)) /\ rbAt' = rbAt
    <3>1. rbLoader' = rbLoader /\ RbFirst(rbOwned') /\ rbOwned' # <<>> /\ rbOwned'[1] = "modules"
      BY <2>2 DEF RbMoves, RbKeeps
    <3>2. QED
      BY <1>23, <2>2, <3>1 DEF RbOwnInv, RbHasModules, RbEarly, RbBooted, RbLooping, RbClose
  <2>3. QED
    BY <1>0, <1>23, <2>1, <2>2, RbCloseEffect
<1>24. CASE RbModulesStopped
  <2>1. RbStill
    BY <1>24, <1>q DEF RbQuiet
  <2>2. QED
    BY <1>24, <2>1 DEF RbStill, RbOwnInv, RbHasModules, RbEarly, RbBooted, RbLooping, RbModulesStopped, rbHist
<1>25. ASSUME NEW ok \in BOOLEAN, RbExit(ok) PROVE RbOwnInv'
  BY <1>25 DEF RbOwnInv, RbHasModules, RbEarly, RbBooted, RbLooping, RbExit, RbWrite, rbHist
<1>26. CASE RbSignal
  BY <1>26 DEF RbOwnInv, RbHasModules, RbEarly, RbBooted, RbLooping, RbSignal, rbHist
<1>27. CASE RbKill
  BY <1>27 DEF RbOwnInv, RbHasModules, RbEarly, RbBooted, RbLooping, RbKill, rbHist
<1>28. CASE UNCHANGED rbVars
  BY <1>28 DEF RbOwnInv, RbHasModules, RbEarly, RbBooted, RbLooping, rbVars
<1>29. QED
  BY <1>1, <1>2, <1>3, <1>4, <1>5, <1>6, <1>7, <1>8, <1>9, <1>10, <1>11, <1>12, <1>13,
     <1>14, <1>15, <1>16, <1>17, <1>18, <1>19, <1>20, <1>21, <1>22, <1>23, <1>24, <1>25,
     <1>26, <1>27, <1>28 DEF RbNext

(* The gate: what follows it goes on in the same session.                  *)
LEMMA RbSecureStep == ASSUME RbTyped, RbOwnInv, RbSecureInv, [RbNext]_rbVars PROVE RbSecureInv'
<1>0. RbShape /\ RbFirst(rbOwned)
  BY DEF RbTyped, RbOwnInv
<1>q. RbQuiet => RbStill
  BY <1>0, RbQuietStill
<1>1. ASSUME NEW found \in RbInputs, NEW ok \in BOOLEAN, RbLaunch(found, ok) PROVE RbSecureInv'
  <2>1. RbNewLoader.running = <<>>
    BY DEF RbNewLoader
  <2>2. QED
    BY <1>1, <2>1 DEF RbSecureInv, RbSecure, RbBooted, RbLooping, RbLaunch
<1>2. ASSUME NEW ok \in BOOLEAN, RbWire(ok) PROVE RbSecureInv'
  BY <1>2 DEF RbSecureInv, RbSecure, RbBooted, RbLooping, RbWire, RbLeave, rbHist
<1>3. ASSUME NEW ok \in BOOLEAN, RbContinuity(ok) PROVE RbSecureInv'
  <2>1. rbOwned = <<>> /\ rbLog = <<>> /\ rbLoader.running = <<>>
    BY <1>3 DEF RbOwnInv, RbEarly, RbContinuity, RbNewLoader
  <2>2. rbAt' = "pipeline" => RbVerify.allowed /\ ok
    BY <1>3 DEF RbContinuity, RbPassed
  <2>3. rbAt' = "pipeline" => rbSession' \in rbReceipts'
    BY <1>3, <2>2 DEF RbContinuity
  <2>4. QED
    BY <1>3, <2>1, <2>3 DEF RbSecureInv, RbSecure, RbBooted, RbLooping, RbContinuity
<1>4. ASSUME NEW ok \in BOOLEAN, RbProvision(ok) PROVE RbSecureInv'
  <2>1. rbLog = <<>> /\ rbLoader.running = <<>> /\ rbSession \in rbReceipts /\ rbOwned = <<>>
    BY <1>4 DEF RbOwnInv, RbEarly, RbProvision, RbNewLoader, RbSecureInv
  <2>2. CASE ok
    <3>1. rbContext' = "owner" => rbRead'.session = "owner" /\ rbRead'.present
      BY <1>4, <2>2 DEF RbProvision, RbContextBuilt, RbOwnerVerified, RbProfile, rbHist
    <3>2. rbContext' # "none"
      BY <1>4, <2>2 DEF RbProvision, RbContextBuilt, RbProfile
    <3>3. QED
      BY <1>4, <2>1, <3>1, <3>2 DEF RbSecureInv, RbSecure, RbBooted, RbLooping, RbProvision, rbHist
  <2>3. CASE ~ok
    BY <1>4, <2>1, <2>3 DEF RbSecureInv, RbSecure, RbBooted, RbLooping, RbProvision, rbHist
  <2>4. QED
    BY <2>2, <2>3
<1>5. CASE RbLoad
  BY <1>5 DEF RbSecureInv, RbSecure, RbBooted, RbLooping, RbLoad, rbHist
<1>6. ASSUME NEW exits \in BOOLEAN, NEW stopped \in BOOLEAN, RbLoadFails(exits, stopped) PROVE RbSecureInv'
  BY <1>6 DEF RbSecureInv, RbSecure, RbBooted, RbLooping, RbLoadFails, rbHist
<1>7. CASE RbLoaded
  <2>1. RbStill
    BY <1>7, <1>q DEF RbQuiet
  <2>2. QED
    BY <1>7, <2>1 DEF RbStill, RbSecureInv, RbSecure, RbBooted, RbLooping, RbLoaded, rbHist
<1>8. ASSUME NEW ok \in BOOLEAN, RbStopModule(ok) PROVE RbSecureInv'
  BY <1>8 DEF RbSecureInv, RbSecure, RbBooted, RbLooping, RbStopModule, rbHist
<1>9. ASSUME NEW code \in {0, 1}, RbRolledBack(code) PROVE RbSecureInv'
  <2>1. RbStill
    BY <1>9, <1>q DEF RbQuiet
  <2>2. QED
    BY <1>9, <2>1 DEF RbStill, RbSecureInv, RbSecure, RbBooted, RbLooping, RbRolledBack, RbLeave, rbHist
<1>10. ASSUME NEW ok \in BOOLEAN, RbPrepare(ok) PROVE RbSecureInv'
  BY <1>10 DEF RbSecureInv, RbSecure, RbBooted, RbLooping, RbPrepare, RbLeave, rbHist
<1>11. ASSUME NEW outcome \in {"bound", "absent", "stuck"}, RbConversation(outcome) PROVE RbSecureInv'
  BY <1>11 DEF RbSecureInv, RbSecure, RbBooted, RbLooping, RbConversation, RbOptional, RbLeave, rbHist
<1>12. ASSUME NEW outcome \in {"bound", "absent", "stuck"}, RbSensorLan(outcome) PROVE RbSecureInv'
  BY <1>12 DEF RbSecureInv, RbSecure, RbBooted, RbLooping, RbSensorLan, RbOptional, RbLeave, rbHist
<1>13. ASSUME NEW ok \in BOOLEAN, RbTurn(ok) PROVE RbSecureInv'
  BY <1>13 DEF RbSecureInv, RbSecure, RbBooted, RbLooping, RbTurn, RbWrite, RbLeave, rbHist
<1>14. CASE RbShutsDown
  BY <1>14 DEF RbSecureInv, RbSecure, RbBooted, RbLooping, RbShutsDown, RbLeave, rbHist
<1>15. ASSUME NEW ok \in BOOLEAN, RbPoll(ok) PROVE RbSecureInv'
  BY <1>15 DEF RbSecureInv, RbSecure, RbBooted, RbLooping, RbPoll, RbLeave, rbHist
<1>16. CASE RbServed
  BY <1>16 DEF RbSecureInv, RbSecure, RbBooted, RbLooping, RbServed, rbHist
<1>17. ASSUME NEW ok \in BOOLEAN, RbServeFails(ok) PROVE RbSecureInv'
  BY <1>17 DEF RbSecureInv, RbSecure, RbBooted, RbLooping, RbServeFails, RbLeave, rbHist
<1>18. CASE RbLanFails
  BY <1>18 DEF RbSecureInv, RbSecure, RbBooted, RbLooping, RbLanFails, rbHist
<1>19. ASSUME NEW ok \in BOOLEAN, RbLanCheck(ok) PROVE RbSecureInv'
  BY <1>19 DEF RbSecureInv, RbSecure, RbBooted, RbLooping, RbLanCheck, RbLeave, rbHist
<1>20. ASSUME NEW ok \in BOOLEAN, RbReport(ok) PROVE RbSecureInv'
  BY <1>20 DEF RbSecureInv, RbSecure, RbBooted, RbLooping, RbReport, RbLeave, rbHist
<1>21. CASE RbRecovered
  BY <1>21 DEF RbSecureInv, RbSecure, RbBooted, RbLooping, RbRecovered, RbLeave, rbHist
<1>22. ASSUME NEW ok \in BOOLEAN, RbRevoke(ok) PROVE RbSecureInv'
  BY <1>22 DEF RbSecureInv, RbSecure, RbBooted, RbLooping, RbRevoke, RbWrite, rbHist
<1>23. ASSUME NEW ok \in BOOLEAN, RbClose(ok) PROVE RbSecureInv'
  BY <1>23 DEF RbSecureInv, RbSecure, RbBooted, RbLooping, RbClose, rbHist
<1>24. CASE RbModulesStopped
  <2>1. RbStill
    BY <1>24, <1>q DEF RbQuiet
  <2>2. QED
    BY <1>24, <2>1 DEF RbStill, RbSecureInv, RbSecure, RbBooted, RbLooping, RbModulesStopped, rbHist
<1>25. ASSUME NEW ok \in BOOLEAN, RbExit(ok) PROVE RbSecureInv'
  BY <1>25 DEF RbSecureInv, RbSecure, RbBooted, RbLooping, RbExit, RbWrite, rbHist
<1>26. CASE RbSignal
  BY <1>26 DEF RbSecureInv, RbSecure, RbBooted, RbLooping, RbSignal, rbHist
<1>27. CASE RbKill
  BY <1>27 DEF RbSecureInv, RbSecure, RbBooted, RbLooping, RbKill, rbHist
<1>28. CASE UNCHANGED rbVars
  BY <1>28 DEF RbSecureInv, RbSecure, RbBooted, RbLooping, rbVars
<1>29. QED
  BY <1>1, <1>2, <1>3, <1>4, <1>5, <1>6, <1>7, <1>8, <1>9, <1>10, <1>11, <1>12, <1>13,
     <1>14, <1>15, <1>16, <1>17, <1>18, <1>19, <1>20, <1>21, <1>22, <1>23, <1>24, <1>25,
     <1>26, <1>27, <1>28 DEF RbNext

(* The status: ready is written where all modules run, and does not outlive *)
(* their stop unless its revocation was lost.                              *)
LEMMA RbReadyStep == ASSUME RbTyped, RbOwnInv, RbReadyInv, [RbNext]_rbVars PROVE RbReadyInv'
<1>0. RbShape /\ RbFirst(rbOwned)
  BY DEF RbTyped, RbOwnInv
<1>q. RbQuiet => RbStill
  BY <1>0, RbQuietStill
<1>f. /\ rbLoader.running \in Seq(RbNames) /\ rbLoader.next \in Nat /\ Len(RbModules) \in Nat
      /\ rbLoader.next \in 1 .. Len(RbModules) + 1
  BY <1>0, RbFields DEF RbShape
<1>1. ASSUME NEW found \in RbInputs, NEW ok \in BOOLEAN, RbLaunch(found, ok) PROVE RbReadyInv'
  <2>1. rbStatus'.session <= rbSession'
    <3>1. rbSession' = rbSession + 1 /\ rbSession \in Nat /\ rbStatus.session \in Nat /\ rbStatus.session <= rbSession
      BY <1>1 DEF RbLaunch, RbTyped, RbReadyInv
    <3>2. CASE ok
      BY <1>1, <3>1, <3>2 DEF RbLaunch
    <3>3. CASE ~ok
      <4>1. rbStatus' = rbStatus
        BY <1>1, <3>3 DEF RbLaunch
      <4>2. QED
        BY <3>1, <4>1
    <3>4. QED
      BY <3>2, <3>3
  <2>2. rbAt' # "off" => rbStatus'.state = "starting" /\ rbAt' = "wiring"
    BY <1>1 DEF RbLaunch
  <2>3. QED
    BY <1>1, <2>1, <2>2 DEF RbReadyInv, RbBooted, RbLooping
<1>2. ASSUME NEW ok \in BOOLEAN, RbWire(ok) PROVE RbReadyInv'
  BY <1>2 DEF RbReadyInv, RbBooted, RbLooping, RbWire, RbLeave, rbHist
<1>3. ASSUME NEW ok \in BOOLEAN, RbContinuity(ok) PROVE RbReadyInv'
  BY <1>3 DEF RbReadyInv, RbBooted, RbLooping, RbContinuity, rbHist
<1>4. ASSUME NEW ok \in BOOLEAN, RbProvision(ok) PROVE RbReadyInv'
  <2>1. rbLoader.running = <<>> /\ rbLoader.next = 1
    BY <1>4 DEF RbOwnInv, RbEarly, RbProvision, RbNewLoader
  <2>2. Len(<<>>) = 1 - 1 /\ \A i \in DOMAIN <<>> : FALSE
    OBVIOUS
  <2>3. QED
    BY <1>4, <2>1, <2>2 DEF RbReadyInv, RbBooted, RbLooping, RbProvision, rbHist
<1>5. CASE RbLoad
  <2> PICK run, run2 : run = rbLoader.running /\ run2 = rbLoader'.running
    OBVIOUS
  <2> PICK nxt : nxt = rbLoader.next
    OBVIOUS
  <2>1. /\ Len(run2) = Len(run) + 1 /\ run2[Len(run) + 1] = RbModules[nxt]
        /\ \A p \in 1 .. Len(run) : run2[p] = run[p]
        /\ rbLoader'.next = nxt + 1 /\ rbLoader'.failed = rbLoader.failed /\ RbShape'
    BY <1>0, <1>5, RbLoadEffect
  <2>2. /\ run \in Seq(RbNames) /\ nxt \in Nat /\ Len(run) \in Nat
        /\ DOMAIN run = 1 .. Len(run)
    BY <1>f
  <2>3. run2 \in Seq(RbNames)
    BY <2>1, RbFields DEF RbShape
  <2>4. DOMAIN run2 = 1 .. Len(run2)
    BY <2>3
  <2>5. ASSUME rbLoader.failed = {}
        PROVE  Len(run2) = (nxt + 1) - 1 /\ \A i \in DOMAIN run2 : run2[i] = RbModules[i]
    <3>1. Len(run) = nxt - 1 /\ \A i \in DOMAIN run : run[i] = RbModules[i]
      BY <1>5, <2>5 DEF RbReadyInv, RbLoad
    <3>2. \A i \in DOMAIN run2 : i \in 1 .. Len(run) \/ i = Len(run) + 1
      BY <2>1, <2>2, <2>4
    <3>3. Len(run) + 1 = nxt
      BY <2>2, <3>1
    <3>4. ASSUME NEW i \in DOMAIN run2 PROVE run2[i] = RbModules[i]
      <4>1. CASE i \in 1 .. Len(run)
        BY <2>1, <2>2, <3>1, <4>1
      <4>2. CASE i = Len(run) + 1
        BY <2>1, <3>3, <4>2
      <4>3. QED
        BY <3>2, <4>1, <4>2
    <3>5. Len(run2) = (nxt + 1) - 1
      BY <2>1, <2>2, <3>3
    <3>6. QED
      BY <3>4, <3>5
  <2>6. QED
    BY <1>5, <2>1, <2>5 DEF RbReadyInv, RbBooted, RbLooping, RbLoad, rbHist
<1>6. ASSUME NEW exits \in BOOLEAN, NEW stopped \in BOOLEAN, RbLoadFails(exits, stopped) PROVE RbReadyInv'
  <2>1. rbLoader'.failed # {}
    BY <1>0, <1>6, RbLoadFailsEffect
  <2>2. QED
    BY <1>6, <2>1 DEF RbReadyInv, RbBooted, RbLooping, RbLoadFails, rbHist
<1>7. CASE RbLoaded
  <2>1. RbStill
    BY <1>7, <1>q DEF RbQuiet
  <2>2. rbLoader.next = Len(RbModules) + 1
    BY <1>f, <1>7 DEF RbLoaded
  <2>3. QED
    BY <1>7, <2>1, <2>2 DEF RbStill, RbReadyInv, RbBooted, RbLooping, RbLoaded, rbHist
<1>8. ASSUME NEW ok \in BOOLEAN, RbStopModule(ok) PROVE RbReadyInv'
  BY <1>8 DEF RbReadyInv, RbBooted, RbLooping, RbStopModule, rbHist
<1>9. ASSUME NEW code \in {0, 1}, RbRolledBack(code) PROVE RbReadyInv'
  <2>1. RbStill
    BY <1>9, <1>q DEF RbQuiet
  <2>2. QED
    BY <1>9, <2>1 DEF RbStill, RbReadyInv, RbBooted, RbLooping, RbRolledBack, RbLeave, rbHist
<1>10. ASSUME NEW ok \in BOOLEAN, RbPrepare(ok) PROVE RbReadyInv'
  BY <1>10 DEF RbReadyInv, RbBooted, RbLooping, RbPrepare, RbLeave, rbHist
<1>11. ASSUME NEW outcome \in {"bound", "absent", "stuck"}, RbConversation(outcome) PROVE RbReadyInv'
  BY <1>11 DEF RbReadyInv, RbBooted, RbLooping, RbConversation, RbOptional, RbLeave, rbHist
<1>12. ASSUME NEW outcome \in {"bound", "absent", "stuck"}, RbSensorLan(outcome) PROVE RbReadyInv'
  BY <1>12 DEF RbReadyInv, RbBooted, RbLooping, RbSensorLan, RbOptional, RbLeave, rbHist
<1>13. ASSUME NEW ok \in BOOLEAN, RbTurn(ok) PROVE RbReadyInv'
  <2>1. rbAt' \in {"poll", "ending"} /\ UNCHANGED <<rbSession, rbRead, rbLoader>>
    BY <1>13 DEF RbTurn, RbLeave, rbHist
  <2>2. rbStatus' = rbStatus \/ rbStatus' = [session |-> rbSession, state |-> IF RbHealthy THEN "ready" ELSE "degraded"]
    BY <1>13 DEF RbTurn, RbWrite
  <2>3. rbStatus'.session <= rbSession'
    <3>1. rbSession \in Nat /\ rbStatus.session <= rbSession
      BY DEF RbTyped, RbReadyInv
    <3>2. CASE rbStatus' = rbStatus
      BY <2>1, <3>1, <3>2
    <3>3. CASE rbStatus' # rbStatus
      BY <2>1, <2>2, <3>1, <3>3
    <3>4. QED
      BY <3>2, <3>3
  <2>4. /\ rbRead.required \subseteq RbNames /\ rbLoader.next = Len(RbModules) + 1
        /\ rbLoader.failed = {} => /\ Len(rbLoader.running) = rbLoader.next - 1
                                  /\ \A i \in DOMAIN rbLoader.running : rbLoader.running[i] = RbModules[i]
    BY <1>13 DEF RbReadyInv, RbBooted, RbLooping, RbTurn
  <2>5. rbLoader.failed = {} => rbLoader.running = RbModules
    <3>1. SUFFICES ASSUME rbLoader.failed = {} PROVE rbLoader.running = RbModules
      OBVIOUS
    <3> PICK run : run = rbLoader.running
      OBVIOUS
    <3>2. /\ run \in Seq(STRING) /\ RbModules \in Seq(STRING) /\ Len(run) = Len(RbModules)
          /\ \A i \in DOMAIN run : run[i] = RbModules[i]
      <4>1. Len(run) = Len(RbModules) /\ \A i \in DOMAIN run : run[i] = RbModules[i]
        BY <1>f, <2>4, <3>1
      <4>2. RbNames \subseteq STRING /\ RbModules \in Seq(STRING)
        BY RbAssumption DEF RbNames
      <4>3. QED
        BY <1>f, <4>1, <4>2
    <3>3. QED
      BY <3>2, SeqEqual
  <2>6. RbHealthy => rbLoader.failed = {}
    BY DEF RbHealthy
  <2>7. rbStatus' = [session |-> rbSession, state |-> "ready"] =>
            rbLoader.running = RbModules
    <3>1. CASE rbStatus' = rbStatus
      BY <1>13, <3>1 DEF RbReadyInv, RbTurn
    <3>2. CASE rbStatus' = [session |-> rbSession, state |-> IF RbHealthy THEN "ready" ELSE "degraded"]
      BY <2>5, <2>6, <3>2
    <3>3. QED
      BY <2>2, <3>1, <3>2
  <2>8. QED
    BY <2>1, <2>3, <2>4, <2>7 DEF RbReadyInv, RbBooted, RbLooping
<1>14. CASE RbShutsDown
  BY <1>14 DEF RbReadyInv, RbBooted, RbLooping, RbShutsDown, RbLeave, rbHist
<1>15. ASSUME NEW ok \in BOOLEAN, RbPoll(ok) PROVE RbReadyInv'
  BY <1>15 DEF RbReadyInv, RbBooted, RbLooping, RbPoll, RbLeave, rbHist
<1>16. CASE RbServed
  BY <1>16 DEF RbReadyInv, RbBooted, RbLooping, RbServed, rbHist
<1>17. ASSUME NEW ok \in BOOLEAN, RbServeFails(ok) PROVE RbReadyInv'
  BY <1>17 DEF RbReadyInv, RbBooted, RbLooping, RbServeFails, RbLeave, rbHist
<1>18. CASE RbLanFails
  BY <1>18 DEF RbReadyInv, RbBooted, RbLooping, RbLanFails, rbHist
<1>19. ASSUME NEW ok \in BOOLEAN, RbLanCheck(ok) PROVE RbReadyInv'
  BY <1>19 DEF RbReadyInv, RbBooted, RbLooping, RbLanCheck, RbLeave, rbHist
<1>20. ASSUME NEW ok \in BOOLEAN, RbReport(ok) PROVE RbReadyInv'
  BY <1>20 DEF RbReadyInv, RbBooted, RbLooping, RbReport, RbLeave, rbHist
<1>21. CASE RbRecovered
  BY <1>21 DEF RbReadyInv, RbBooted, RbLooping, RbRecovered, RbLeave, rbHist
<1>22. ASSUME NEW ok \in BOOLEAN, RbRevoke(ok) PROVE RbReadyInv'
  <2>1. CASE ~ok
    <3>1. rbStatus' = rbStatus /\ rbLost'
      BY <1>22, <2>1 DEF RbRevoke, RbWrite
    <3>2. QED
      BY <1>22, <3>1 DEF RbReadyInv, RbBooted, RbLooping, RbRevoke, rbHist
  <2>2. CASE ok
    <3>1. rbStatus'.session = rbSession /\ rbStatus'.state # "ready"
      BY <1>22, <2>2 DEF RbRevoke, RbWrite
    <3>2. rbSession \in Nat
      BY DEF RbTyped
    <3>3. QED
      BY <1>22, <3>1, <3>2 DEF RbReadyInv, RbBooted, RbLooping, RbRevoke, rbHist
  <2>3. QED
    BY <2>1, <2>2
<1>23. ASSUME NEW ok \in BOOLEAN, RbClose(ok) PROVE RbReadyInv'
  BY <1>23 DEF RbReadyInv, RbBooted, RbLooping, RbClose, rbHist
<1>24. CASE RbModulesStopped
  <2>1. RbStill
    BY <1>24, <1>q DEF RbQuiet
  <2>2. QED
    BY <1>24, <2>1 DEF RbStill, RbReadyInv, RbBooted, RbLooping, RbModulesStopped, rbHist
<1>25. ASSUME NEW ok \in BOOLEAN, RbExit(ok) PROVE RbReadyInv'
  <2>1. CASE ~ok
    <3>1. rbStatus' = rbStatus /\ rbLost'
      BY <1>25, <2>1 DEF RbExit, RbWrite
    <3>2. QED
      BY <1>25, <3>1 DEF RbReadyInv, RbBooted, RbLooping, RbExit, rbHist
  <2>2. CASE ok
    <3>1. rbStatus'.session = rbSession /\ rbStatus'.state # "ready"
      BY <1>25, <2>2 DEF RbExit, RbWrite
    <3>2. rbSession \in Nat
      BY DEF RbTyped
    <3>3. QED
      BY <1>25, <3>1, <3>2 DEF RbReadyInv, RbBooted, RbLooping, RbExit, rbHist
  <2>3. QED
    BY <2>1, <2>2
<1>26. CASE RbSignal
  BY <1>26 DEF RbReadyInv, RbBooted, RbLooping, RbSignal, rbHist
<1>27. CASE RbKill
  BY <1>27 DEF RbReadyInv, RbBooted, RbLooping, RbKill, rbHist
<1>28. CASE UNCHANGED rbVars
  BY <1>28 DEF RbReadyInv, RbBooted, RbLooping, rbVars
<1>29. QED
  BY <1>1, <1>2, <1>3, <1>4, <1>5, <1>6, <1>7, <1>8, <1>9, <1>10, <1>11, <1>12, <1>13,
     <1>14, <1>15, <1>16, <1>17, <1>18, <1>19, <1>20, <1>21, <1>22, <1>23, <1>24, <1>25,
     <1>26, <1>27, <1>28 DEF RbNext

(* What raised: the loader remembers it until main knows of it.            *)
LEMMA RbFailStep == ASSUME RbTyped, RbOwnInv, RbFailInv, [RbNext]_rbVars PROVE RbFailInv'
<1>0. RbShape /\ RbFirst(rbOwned)
  BY DEF RbTyped, RbOwnInv
<1>q. RbQuiet => RbStill
  BY <1>0, RbQuietStill
<1>1. ASSUME NEW found \in RbInputs, NEW ok \in BOOLEAN, RbLaunch(found, ok) PROVE RbFailInv'
  <2>1. RbNewLoader.stuck = FALSE
    BY DEF RbNewLoader
  <2>2. QED
    BY <1>1, <2>1 DEF RbFailInv, RbFailureTold, RbHasModules, RbEarly, RbLooping, RbBarred, RbEnds, RbLaunch
<1>2. ASSUME NEW ok \in BOOLEAN, RbWire(ok) PROVE RbFailInv'
  BY <1>2 DEF RbFailInv, RbFailureTold, RbHasModules, RbEarly, RbLooping, RbBarred, RbEnds, RbWire, RbLeave, rbHist
<1>3. ASSUME NEW ok \in BOOLEAN, RbContinuity(ok) PROVE RbFailInv'
  BY <1>3 DEF RbFailInv, RbFailureTold, RbHasModules, RbEarly, RbLooping, RbBarred, RbEnds, RbContinuity, rbHist
<1>4. ASSUME NEW ok \in BOOLEAN, RbProvision(ok) PROVE RbFailInv'
  BY <1>4 DEF RbFailInv, RbFailureTold, RbHasModules, RbEarly, RbLooping, RbBarred, RbEnds, RbProvision, rbHist
<1>5. CASE RbLoad
  <2>1. rbLoader'.stuck = rbLoader.stuck
    BY <1>0, <1>5, RbLoadEffect
  <2>2. QED
    BY <1>5, <2>1 DEF RbFailInv, RbFailureTold, RbHasModules, RbEarly, RbLooping, RbBarred, RbEnds, RbLoad, rbHist
<1>6. ASSUME NEW exits \in BOOLEAN, NEW stopped \in BOOLEAN, RbLoadFails(exits, stopped) PROVE RbFailInv'
  <2>1. rbLoader'.stuck = ~stopped /\ rbRaised' = ~stopped /\ rbOwned' = rbOwned
    BY <1>0, <1>6, RbLoadFailsEffect DEF RbLoadFails
  <2>2. rbAt' = "rollback" \/ (rbAt' = "loading" /\ stopped)
    BY <1>6 DEF RbLoadFails
  <2>3. rbOwned # <<>> /\ rbOwned[1] = "modules"
    BY <1>6 DEF RbOwnInv, RbBooted, RbHasModules, RbLoadFails
  <2>4. QED
    BY <2>1, <2>2, <2>3 DEF RbFailInv, RbFailureTold, RbHasModules, RbEarly, RbLooping, RbBarred, RbEnds
<1>7. CASE RbLoaded
  <2>1. RbStill
    BY <1>7, <1>q DEF RbQuiet
  <2>2. QED
    BY <1>7, <2>1 DEF RbStill, RbFailInv, RbFailureTold, RbHasModules, RbEarly, RbLooping, RbBarred, RbEnds, RbLoaded, rbHist
<1>8. ASSUME NEW ok \in BOOLEAN, RbStopModule(ok) PROVE RbFailInv'
  <2>1. /\ rbLoader'.stuck = (rbLoader.stuck \/ ~ok) /\ rbOwned' = rbOwned
        /\ rbRaised' = (rbRaised \/ ~ok) /\ rbAt' = rbAt /\ rbFailed' = rbFailed
    BY <1>0, <1>8, RbStopEffect DEF RbStopModule
  <2>2. rbAt = "rollback" \/ rbAt = "modules"
    BY <1>8 DEF RbStopModule
  <2>3. rbAt = "rollback" => rbOwned # <<>> /\ rbOwned[1] = "modules"
    BY DEF RbOwnInv, RbBooted, RbHasModules
  <2>4. QED
    BY <2>1, <2>2, <2>3 DEF RbFailInv, RbFailureTold, RbHasModules, RbEarly, RbLooping, RbBarred, RbEnds
<1>9. ASSUME NEW code \in {0, 1}, RbRolledBack(code) PROVE RbFailInv'
  <2>1. RbStill
    BY <1>9, <1>q DEF RbQuiet
  <2>2. QED
    BY <1>9, <2>1 DEF RbStill, RbFailInv, RbFailureTold, RbHasModules, RbEarly, RbLooping, RbBarred, RbEnds, RbRolledBack, RbLeave, rbHist
<1>10. ASSUME NEW ok \in BOOLEAN, RbPrepare(ok) PROVE RbFailInv'
  BY <1>10 DEF RbFailInv, RbFailureTold, RbHasModules, RbEarly, RbLooping, RbBarred, RbEnds, RbPrepare, RbLeave, rbHist
<1>11. ASSUME NEW outcome \in {"bound", "absent", "stuck"}, RbConversation(outcome) PROVE RbFailInv'
  <2>1. \E s \in RbServices : RbMoves(s)
    BY <1>11, RbServiceSteps
  <2>2. rbLoader' = rbLoader /\ rbOwned' # <<>> /\ rbOwned'[1] = "modules"
    BY <2>1 DEF RbMoves, RbKeeps
  <2>3. QED
    BY <1>11, <2>2 DEF RbFailInv, RbFailureTold, RbHasModules, RbEarly, RbLooping, RbBarred, RbEnds, RbConversation, RbOptional, RbLeave, rbHist
<1>12. ASSUME NEW outcome \in {"bound", "absent", "stuck"}, RbSensorLan(outcome) PROVE RbFailInv'
  <2>1. \E s \in RbServices : RbMoves(s)
    BY <1>12, RbServiceSteps
  <2>2. rbLoader' = rbLoader /\ rbOwned' # <<>> /\ rbOwned'[1] = "modules"
    BY <2>1 DEF RbMoves, RbKeeps
  <2>3. QED
    BY <1>12, <2>2 DEF RbFailInv, RbFailureTold, RbHasModules, RbEarly, RbLooping, RbBarred, RbEnds, RbSensorLan, RbOptional, RbLeave, rbHist
<1>13. ASSUME NEW ok \in BOOLEAN, RbTurn(ok) PROVE RbFailInv'
  BY <1>13 DEF RbFailInv, RbFailureTold, RbHasModules, RbEarly, RbLooping, RbBarred, RbEnds, RbTurn, RbWrite, RbLeave, rbHist
<1>14. CASE RbShutsDown
  BY <1>14 DEF RbFailInv, RbFailureTold, RbHasModules, RbEarly, RbLooping, RbBarred, RbEnds, RbShutsDown, RbLeave, rbHist
<1>15. ASSUME NEW ok \in BOOLEAN, RbPoll(ok) PROVE RbFailInv'
  BY <1>15 DEF RbFailInv, RbFailureTold, RbHasModules, RbEarly, RbLooping, RbBarred, RbEnds, RbPoll, RbLeave, rbHist
<1>16. CASE RbServed
  BY <1>16 DEF RbFailInv, RbFailureTold, RbHasModules, RbEarly, RbLooping, RbBarred, RbEnds, RbServed, rbHist
<1>17. ASSUME NEW ok \in BOOLEAN, RbServeFails(ok) PROVE RbFailInv'
  <2>1. \E s \in RbServices : RbMoves(s)
    BY <1>17, RbServiceSteps
  <2>2. rbLoader' = rbLoader /\ rbOwned' # <<>> /\ rbOwned'[1] = "modules"
    BY <2>1 DEF RbMoves, RbKeeps
  <2>3. QED
    BY <1>17, <2>2 DEF RbFailInv, RbFailureTold, RbHasModules, RbEarly, RbLooping, RbBarred, RbEnds, RbServeFails, RbLeave, rbHist
<1>18. CASE RbLanFails
  BY <1>18 DEF RbFailInv, RbFailureTold, RbHasModules, RbEarly, RbLooping, RbBarred, RbEnds, RbLanFails, rbHist
<1>19. ASSUME NEW ok \in BOOLEAN, RbLanCheck(ok) PROVE RbFailInv'
  <2>1. \E s \in RbServices : RbMoves(s)
    BY <1>19, RbServiceSteps
  <2>2. rbLoader' = rbLoader /\ rbOwned' # <<>> /\ rbOwned'[1] = "modules"
    BY <2>1 DEF RbMoves, RbKeeps
  <2>3. QED
    BY <1>19, <2>2 DEF RbFailInv, RbFailureTold, RbHasModules, RbEarly, RbLooping, RbBarred, RbEnds, RbLanCheck, RbLeave, rbHist
<1>20. ASSUME NEW ok \in BOOLEAN, RbReport(ok) PROVE RbFailInv'
  BY <1>20 DEF RbFailInv, RbFailureTold, RbHasModules, RbEarly, RbLooping, RbBarred, RbEnds, RbReport, RbLeave, rbHist
<1>21. CASE RbRecovered
  BY <1>21 DEF RbFailInv, RbFailureTold, RbHasModules, RbEarly, RbLooping, RbBarred, RbEnds, RbRecovered, RbLeave, rbHist
<1>22. ASSUME NEW ok \in BOOLEAN, RbRevoke(ok) PROVE RbFailInv'
  BY <1>22 DEF RbFailInv, RbFailureTold, RbHasModules, RbEarly, RbLooping, RbBarred, RbEnds, RbRevoke, RbWrite, rbHist
<1>23. ASSUME NEW ok \in BOOLEAN, RbClose(ok) PROVE RbFailInv'
  <2>1. rbAt = "closing"
    BY <1>23 DEF RbClose
  <2>2. CASE rbAt' = "modules" /\ UNCHANGED <<rbLoader, rbFailed, rbRaised>>
    BY <2>1, <2>2 DEF RbFailInv, RbFailureTold, RbHasModules, RbEarly, RbLooping, RbBarred, RbEnds
  <2>3. CASE /\ \E s \in RbServices : RbMoves(s)
             /\ rbAt' = rbAt /\ rbRaised' = (rbRaised \/ ~ok) /\ rbFailed' = (rbFailed \/ ~ok)
    <3>1. rbLoader' = rbLoader /\ rbOwned' # <<>> /\ rbOwned'[1] = "modules"
      BY <2>3 DEF RbMoves, RbKeeps
    <3>2. QED
      BY <2>1, <2>3, <3>1 DEF RbFailInv, RbFailureTold, RbHasModules, RbEarly, RbLooping, RbBarred, RbEnds
  <2>4. QED
    BY <1>0, <1>23, <2>2, <2>3, RbCloseEffect
<1>24. CASE RbModulesStopped
  <2>1. RbStill
    BY <1>24, <1>q DEF RbQuiet
  <2>2. QED
    BY <1>24, <2>1 DEF RbStill, RbFailInv, RbFailureTold, RbHasModules, RbEarly, RbLooping, RbBarred, RbEnds, RbModulesStopped, rbHist
<1>25. ASSUME NEW ok \in BOOLEAN, RbExit(ok) PROVE RbFailInv'
  <2>1. rbAt = "closing" /\ ~RbHasModules
    BY <1>25 DEF RbExit, RbHasModules
  <2>2. rbRaised => rbFailed
    BY <2>1 DEF RbFailInv, RbEnds
  <2>3. rbAt' = "off" /\ rbRaised' = rbRaised /\ rbSession' = rbSession
    BY <1>25 DEF RbExit, rbHist
  <2>4. rbRaised /\ ok => rbStatus' = [session |-> rbSession, state |-> "failed"]
    BY <1>25, <2>2 DEF RbExit, RbWrite
  <2>5. ~ok => rbLost'
    BY <1>25 DEF RbExit
  <2>6. QED
    BY <2>3, <2>4, <2>5 DEF RbFailInv, RbFailureTold, RbHasModules, RbEarly, RbLooping, RbBarred, RbEnds
<1>26. CASE RbSignal
  BY <1>26 DEF RbFailInv, RbFailureTold, RbHasModules, RbEarly, RbLooping, RbBarred, RbEnds, RbSignal, rbHist
<1>27. CASE RbKill
  BY <1>27 DEF RbFailInv, RbFailureTold, RbHasModules, RbEarly, RbLooping, RbBarred, RbEnds, RbKill, rbHist
<1>28. CASE UNCHANGED rbVars
  BY <1>28 DEF RbFailInv, RbFailureTold, RbHasModules, RbEarly, RbLooping, RbBarred, RbEnds, rbVars
<1>29. QED
  BY <1>1, <1>2, <1>3, <1>4, <1>5, <1>6, <1>7, <1>8, <1>9, <1>10, <1>11, <1>12, <1>13,
     <1>14, <1>15, <1>16, <1>17, <1>18, <1>19, <1>20, <1>21, <1>22, <1>23, <1>24, <1>25,
     <1>26, <1>27, <1>28 DEF RbNext

(* The invariant holds at the start.                                       *)
LEMMA RbInitInv == RbInit => RbInv
<1> SUFFICES ASSUME RbInit PROVE RbInv
  OBVIOUS
<1>1. /\ rbLoader = RbNewLoader /\ RbNewLoader.running = <<>> /\ RbNewLoader.stuck = FALSE
      /\ rbOwned = <<>> /\ rbLog = <<>> /\ rbAt = "off"
  BY DEF RbInit, RbNewLoader
<1>2. RbShape
  <2>1. 1 \in 1 .. Len(RbModules) + 1
    BY RbAssumption
  <2>2. <<>> \in Seq(RbNames) /\ <<>> \in Seq(RbOwnable) /\ <<>> \in Seq(RbEntries)
    OBVIOUS
  <2>3. RbNewLoader \in RbLoaders
    BY <2>1, <2>2 DEF RbNewLoader, RbLoaders
  <2>4. QED
    BY <1>1, <2>2, <2>3 DEF RbShape
<1>3. RbTyped
  BY <1>2 DEF RbInit, RbTyped, RbPlaces, RbStates
<1>4. RbSecureInv
  BY <1>1 DEF RbInit, RbSecureInv, RbSecure, RbBooted, RbLooping
<1>5. RbReadyInv
  BY <1>1 DEF RbInit, RbReadyInv, RbBooted, RbLooping
<1>6. RbFailInv
  BY <1>1 DEF RbInit, RbFailInv, RbFailureTold, RbEarly, RbLooping, RbBarred, RbEnds
<1>7. RbOwnInv
  BY <1>1 DEF RbOwnInv, RbFirst, RbEarly, RbBooted, RbLooping
<1>8. RbLogInv
  <2>1. Len(rbLog) = 0 /\ Len(rbLoader.running) = 0
    BY <1>1
  <2>2. \A i \in 1 .. 0 : FALSE
    OBVIOUS
  <2>3. QED
    BY <2>1, <2>2 DEF RbLogInv, RbLogOk, RbRunsOnce, RbKnown, RbStillUp, RbDownOnce, RbCovered,
                      RbBehind, RbReversed
<1>9. QED
  BY <1>3, <1>4, <1>5, <1>6, <1>7, <1>8 DEF RbInv

(* Once nothing runs and nothing is owned, each entry that came up has one *)
(* that went down, and a module exactly one.                               *)
LEMMA RbInvCleaned == ASSUME RbInv PROVE RbCleanedUp
<1> SUFFICES ASSUME rbAt = "off", ~rbKilled, NEW i \in DOMAIN rbLog, rbLog[i].op = "up"
             PROVE  LET n == RbCount(RbDown(rbLog[i].of))
                    IN  n >= 1 /\ (rbLog[i].of \in RbNames => n = 1)
  BY DEF RbCleanedUp
<1> PICK x : x = rbLog[i].of
  OBVIOUS
<1> DEFINE L == Len(rbLog)
           D == {l \in DOMAIN rbLog : rbLog[l] = RbDown(x)}
<1>1. rbLog \in Seq(RbEntries) /\ rbOwned = <<>> /\ rbLoader.running = <<>>
  BY DEF RbInv, RbTyped, RbShape, RbOwnInv
<1>2. L \in Nat /\ DOMAIN rbLog = 1 .. L /\ i \in 1 .. L
  BY <1>1
<1>3. RbSvc(rbOwned) = {} /\ Len(rbLoader.running) = 0
  BY <1>1 DEF RbSvc
<1>4. RbDone(rbLog, i, x)
  <2>1. \/ RbDone(rbLog, i, x)
        \/ \E p \in 1 .. Len(rbLoader.running) : rbLoader.running[p] = x
        \/ x \in RbSvc(rbOwned)
    <3>1. RbCovered(rbLog, rbLoader.running, RbSvc(rbOwned))
      BY DEF RbInv, RbLogInv, RbLogOk
    <3>2. QED
      BY <1>2, <3>1 DEF RbCovered
  <2>2. \A p \in 1 .. 0 : FALSE
    OBVIOUS
  <2>3. QED
    BY <1>3, <2>1, <2>2
<1>5. PICK l \in i .. L : rbLog[l] = RbDown(x)
  BY <1>4 DEF RbDone
<1>6. l \in D
  BY <1>2, <1>5
<1>7. IsFiniteSet(D)
  <2>1. IsFiniteSet(1 .. L)
    <3> HIDE DEF L
    <3>1. 1 \in Int /\ L \in Int
      BY <1>2
    <3>2. QED
      BY <3>1, FS_Interval
  <2>2. D \subseteq 1 .. L
    BY <1>2
  <2>3. QED
    BY <2>1, <2>2, FS_Subset
<1>8. Cardinality(D) \in Nat /\ Cardinality(D) # 0
  BY <1>6, <1>7, FS_EmptySet, FS_CardinalityType
<1>9. ASSUME x \in RbNames PROVE Cardinality(D) = 1
  <2>1. RbDown(x).op = "down" /\ RbDown(x).of = x
    BY RbEntry
  <2>2. RbDownOnce(rbLog)
    BY DEF RbInv, RbLogInv, RbLogOk
  <2>3. \A k \in D : k = l
    BY <1>2, <1>6, <1>9, <2>1, <2>2 DEF RbDownOnce
  <2>4. D = {l}
    BY <1>6, <2>3
  <2>5. QED
    BY <2>4, FS_Singleton
<1>10. RbCount(RbDown(x)) = Cardinality(D)
  BY DEF RbCount
<1>11. QED
  BY <1>8, <1>9, <1>10

(* The parts together.                                                     *)
LEMMA RbInvSound == RbInv => RbSound
<1> SUFFICES ASSUME RbInv PROVE RbSound
  OBVIOUS
<1>1. RbSecure /\ RbFailureTold
  BY DEF RbInv, RbSecureInv, RbFailInv
<1>2. RbReadyTrue
  BY DEF RbInv, RbReadyInv, RbReadyTrue
<1>3. RbReverse
  <2>1. rbLog \in Seq(RbEntries)
    BY DEF RbInv, RbTyped, RbShape
  <2>2. DOMAIN rbLog = 1 .. Len(rbLog)
    BY <2>1
  <2>3. RbReversed(rbLog)
    BY DEF RbInv, RbLogInv, RbLogOk
  <2>4. QED
    BY <2>2, <2>3 DEF RbReverse, RbReversed
<1>4. QED
  BY <1>1, <1>2, <1>3, RbInvCleaned DEF RbSound

(* Every step keeps the invariant.                                         *)
LEMMA RbNextInv == RbInv /\ [RbNext]_rbVars => RbInv'
<1> SUFFICES ASSUME RbInv, [RbNext]_rbVars PROVE RbInv'
  OBVIOUS
<1>1. RbTyped /\ RbSecureInv /\ RbReadyInv /\ RbFailInv /\ RbOwnInv /\ RbLogInv
  BY DEF RbInv
<1>2. RbTyped'
  BY <1>1, RbTypedStep
<1>3. RbSecureInv'
  BY <1>1, RbSecureStep
<1>4. RbReadyInv'
  BY <1>1, RbReadyStep
<1>5. RbFailInv'
  BY <1>1, RbFailStep
<1>6. RbOwnInv'
  BY <1>1, RbOwnStep
<1>7. RbLogInv'
  BY <1>1, RbLogStep
<1>8. QED
  BY <1>2, <1>3, <1>4, <1>5, <1>6, <1>7 DEF RbInv

(* On every path of the Runtime process, for any modules, any files it     *)
(* finds and any number of launches and faults: a module runs only in a    *)
(* session whose receipt allowed the boot, ready in the status means that  *)
(* every module runs, a process that ends by itself has stopped each of    *)
(* them once and each service, modules in the reverse order of loading,    *)
(* and a stop that raised is told by its last status                       *)
(* (runtime_lifecycle.py, module_loader.py and the main of the Runtime).   *)
THEOREM BootAndCleanup == RbSpec => []RbSound
<1>1. RbInit => RbInv
  BY RbInitInv
<1>2. RbInv /\ [RbNext]_rbVars => RbInv'
  BY RbNextInv
<1>3. RbInv => RbSound
  BY RbInvSound
<1>4. QED
  BY <1>1, <1>2, <1>3, PTL DEF RbSpec

-----------------------------------------------------------------------------
(* The bounds of the boot, and a lifecycle that owns nothing twice.        *)

(* A process has a session; receipts and faults stay within their bounds.  *)
RbScalars ==
    /\ rbSession \in 0 .. RbLaunches /\ (rbAt # "off" => rbSession >= 1)
    /\ rbRead \in RbInputs /\ rbContext \in {"none", "guest", "absent owner", "owner"}
    /\ rbLan \in {"off", "on", "failed"} /\ rbConv \in BOOLEAN /\ rbShutdown \in BOOLEAN
    /\ rbReceipts \subseteq 1 .. RbLaunches /\ rbFaults \in 0 .. RbFaults

(* A service is bound where main is to bind it, and nowhere twice: before  *)
(* that place it is not on the list.                                       *)
RbUnbound == RbEarly \cup {"loading", "rollback", "gateway", "follower", "conversation"}
RbWithout(owned, s) == \A i \in DOMAIN owned : owned[i] # s
RbDistinct(owned) == \A i, j \in DOMAIN owned : owned[i] = owned[j] => i = j
RbListed ==
    /\ RbDistinct(rbOwned)
    /\ rbAt \in RbUnbound => RbWithout(rbOwned, "conversation")
    /\ rbAt \in RbUnbound \cup {"lan"} => RbWithout(rbOwned, "sensor-lan")

RbBounds == RbScalars /\ RbListed

(* A name that is not on the list may be appended to it.                   *)
LEMMA RbDistinctMore ==
    ASSUME NEW owned \in Seq(RbOwnable), RbDistinct(owned), NEW s \in RbServices,
           RbWithout(owned, s), NEW owned2, owned2 = Append(owned, s)
    PROVE  /\ RbDistinct(owned2)
           /\ \A x : x # s /\ RbWithout(owned, x) => RbWithout(owned2, x)
<1> PICK n : n = Len(owned)
  OBVIOUS
<1>1. s \in RbOwnable
  BY DEF RbOwnable
<1>2. n \in Nat /\ DOMAIN owned = 1 .. n
  OBVIOUS
<1>3. /\ owned2 \in Seq(RbOwnable) /\ Len(owned2) = n + 1
      /\ \A i \in 1 .. n : owned2[i] = owned[i]
      /\ owned2[n + 1] = s
  BY <1>1, AppendProperties
<1>4. DOMAIN owned2 = 1 .. n + 1
  BY <1>3
<1>5. \A i \in DOMAIN owned2 : i = n + 1 \/ i \in 1 .. n
  BY <1>2, <1>4
<1>6. RbDistinct(owned2)
  BY <1>2, <1>3, <1>5 DEF RbDistinct, RbWithout
<1>7. \A x : x # s /\ RbWithout(owned, x) => RbWithout(owned2, x)
  BY <1>2, <1>3, <1>5 DEF RbWithout
<1>8. QED
  BY <1>6, <1>7

(* The list without one of its members, wherever that was.                 *)
LEMMA RbDistinctLess ==
    ASSUME NEW owned \in Seq(RbOwnable), RbDistinct(owned), NEW c \in DOMAIN owned
    PROVE  RbDistinct(RemoveAt(owned, c))
<1> PICK n : n = Len(owned)
  OBVIOUS
<1> PICK o : o = RemoveAt(owned, c)
  OBVIOUS
<1>1. n \in Nat /\ DOMAIN owned = 1 .. n /\ c \in 1 .. n
  OBVIOUS
<1>2. /\ o \in Seq(RbOwnable) /\ Len(o) = n - 1
      /\ \A k \in 1 .. n - 1 : o[k] = IF k < c THEN owned[k] ELSE owned[k + 1]
  BY RbRemoved
<1>3. DOMAIN o = 1 .. n - 1
  BY <1>1, <1>2
<1>4. ASSUME NEW i \in 1 .. n - 1, NEW j \in 1 .. n - 1, o[i] = o[j] PROVE i = j
  <2> PICK a : a = IF i < c THEN i ELSE i + 1
    OBVIOUS
  <2> PICK b : b = IF j < c THEN j ELSE j + 1
    OBVIOUS
  <2>1. a \in 1 .. n /\ b \in 1 .. n
    BY <1>1
  <2>2. o[i] = owned[a] /\ o[j] = owned[b]
    BY <1>2
  <2>3. a = b
    BY <1>1, <1>4, <2>1, <2>2 DEF RbDistinct
  <2>4. QED
    BY <1>1, <2>3
<1>5. QED
  BY <1>3, <1>4 DEF RbDistinct

(* discard leaves a list without repetitions.                              *)
LEMMA RbDistinctDiscard ==
    ASSUME RbShape, RbDistinct(rbOwned), NEW s PROVE RbDistinct(RbDiscard(s))
<1> DEFINE at == {i \in DOMAIN rbOwned : rbOwned[i] = s}
<1>1. CASE at = {}
  BY <1>1 DEF RbDiscard
<1>2. CASE at # {}
  <2> PICK c : c = CHOOSE i \in at : TRUE
    OBVIOUS
  <2>1. c \in DOMAIN rbOwned
    BY <1>2
  <2>2. rbOwned \in Seq(RbOwnable)
    BY DEF RbShape
  <2>3. RbDistinct(RemoveAt(rbOwned, c))
    BY <2>1, <2>2, RbDistinctLess
  <2>4. QED
    BY <1>2, <2>3 DEF RbDiscard
<1>3. QED
  BY <1>1, <1>2

(* So does closing the last one.                                           *)
LEMMA RbDistinctFront ==
    ASSUME NEW owned \in Seq(RbOwnable), RbDistinct(owned), owned # <<>>
    PROVE  RbDistinct(Front(owned))
<1> PICK n : n = Len(owned)
  OBVIOUS
<1> PICK o : o = Front(owned)
  OBVIOUS
<1>1. /\ o \in Seq(RbOwnable) /\ Len(o) = n - 1 /\ n - 1 \in Nat
      /\ \A i \in 1 .. n - 1 : o[i] = owned[i]
  BY RbFront
<1>2. DOMAIN o = 1 .. n - 1 /\ DOMAIN owned = 1 .. n /\ n \in Nat
  BY <1>1
<1>3. \A i \in 1 .. n - 1 : i \in 1 .. n
  BY <1>2
<1>4. QED
  BY <1>1, <1>2, <1>3 DEF RbDistinct

(* Nothing is on the list, or the loader alone.                            *)
LEMMA RbShortList ==
    ASSUME NEW owned \in Seq(RbOwnable), owned # <<>> => Len(owned) = 1 /\ owned[1] = "modules"
    PROVE  /\ RbDistinct(owned)
           /\ \A s \in RbServices : RbWithout(owned, s)
<1>1. "modules" \notin RbServices
  BY DEF RbServices
<1>2. CASE owned = <<>>
  BY <1>2 DEF RbDistinct, RbWithout
<1>3. CASE owned # <<>>
  <2>1. DOMAIN owned = 1 .. 1 /\ owned[1] = "modules"
    BY <1>3
  <2>2. \A i \in DOMAIN owned : i = 1
    BY <2>1
  <2>3. QED
    BY <1>1, <2>1, <2>2 DEF RbDistinct, RbWithout
<1>4. QED
  BY <1>2, <1>3

(* The list has no repetitions after any step.                             *)
LEMMA RbListedStep ==
    ASSUME RbTyped, RbOwnInv, RbListed, [RbNext]_rbVars PROVE RbListed'
<1> PICK o : o = rbOwned'
  OBVIOUS
<1> PICK at : at = rbAt'
  OBVIOUS
<1>0. /\ RbShape /\ rbOwned \in Seq(RbOwnable) /\ RbDistinct(rbOwned)
      /\ "conversation" \in RbServices /\ "sensor-lan" \in RbServices
  BY DEF RbTyped, RbShape, RbListed, RbServices
<1> DEFINE Goal == /\ RbDistinct(o)
                   /\ at \in RbUnbound => RbWithout(o, "conversation")
                   /\ at \in RbUnbound \cup {"lan"} => RbWithout(o, "sensor-lan")
<1> SUFFICES Goal
  BY DEF RbListed
<1>s. ASSUME o \in Seq(RbOwnable), o # <<>> => Len(o) = 1 /\ o[1] = "modules" PROVE Goal
  BY <1>0, <1>s, RbShortList
<1>k. ASSUME o = rbOwned, at \in RbUnbound => rbAt \in RbUnbound,
             at = "lan" => rbAt \in RbUnbound \cup {"lan"}
      PROVE  Goal
  BY <1>k DEF RbListed
<1>p. ASSUME RbDistinct(o), at \notin RbUnbound \cup {"lan"} PROVE Goal
  BY <1>p
<1>1. ASSUME NEW found \in RbInputs, NEW ok \in BOOLEAN, RbLaunch(found, ok) PROVE Goal
  <2>1. o = <<>>
    BY <1>1 DEF RbLaunch
  <2>2. QED
    BY <1>s, <2>1
<1>2. ASSUME NEW ok \in BOOLEAN, RbProvision(ok) PROVE Goal
  <2>1. rbOwned = <<>>
    BY <1>2 DEF RbOwnInv, RbEarly, RbProvision
  <2>2. RbShape' /\ (rbOwned' # <<>> => Len(rbOwned') = 1 /\ rbOwned'[1] = "modules")
    BY <1>0, <1>2, <2>1, RbProvisionEffect
  <2>3. o \in Seq(RbOwnable)
    BY <2>2 DEF RbShape
  <2>4. QED
    BY <1>s, <2>2, <2>3
<1>3. ASSUME NEW ok \in BOOLEAN, RbStopModule(ok) PROVE Goal
  <2>1. o = rbOwned /\ at = rbAt
    BY <1>3 DEF RbStopModule
  <2>2. QED
    BY <1>k, <2>1
<1>4. ASSUME NEW ok \in BOOLEAN, RbServeFails(ok) PROVE Goal
  <2>1. RbDistinct(RbDiscard("conversation"))
    BY <1>0, RbDistinctDiscard
  <2>2. o = rbOwned \/ o = RbDiscard("conversation")
    BY <1>4 DEF RbServeFails
  <2>3. at \in {"lancheck", "ending"}
    BY <1>4 DEF RbServeFails, RbLeave
  <2>4. QED
    BY <1>0, <1>p, <2>1, <2>2, <2>3 DEF RbUnbound, RbEarly
<1>5. ASSUME NEW ok \in BOOLEAN, RbLanCheck(ok) PROVE Goal
  <2>1. RbDistinct(RbDiscard("sensor-lan"))
    BY <1>0, RbDistinctDiscard
  <2>2. o = rbOwned \/ o = RbDiscard("sensor-lan")
    BY <1>5 DEF RbLanCheck
  <2>3. at \in {"turn", "ending"}
    BY <1>5 DEF RbLanCheck, RbLeave
  <2>4. QED
    BY <1>0, <1>p, <2>1, <2>2, <2>3 DEF RbUnbound, RbEarly
<1>6. ASSUME NEW ok \in BOOLEAN, RbClose(ok) PROVE Goal
  <2>1. o = Front(rbOwned) /\ rbOwned # <<>>
    BY <1>6 DEF RbClose
  <2>2. RbDistinct(o)
    BY <1>0, <2>1, RbDistinctFront
  <2>3. at \in {"closing", "modules"}
    BY <1>6 DEF RbClose
  <2>4. QED
    BY <1>p, <2>2, <2>3 DEF RbUnbound, RbEarly
<1>7. ASSUME NEW outcome \in {"bound", "absent", "stuck"}, RbConversation(outcome) PROVE Goal
  <2>1. /\ rbAt = "conversation" /\ at \in {"lan", "ending"}
        /\ o = rbOwned \/ o = Append(rbOwned, "conversation")
    BY <1>7 DEF RbConversation, RbOptional, RbLeave
  <2>2. RbWithout(rbOwned, "conversation") /\ RbWithout(rbOwned, "sensor-lan")
    BY <2>1 DEF RbListed, RbUnbound
  <2>3. RbDistinct(o) /\ RbWithout(o, "sensor-lan")
    BY <1>0, <2>1, <2>2, RbDistinctMore
  <2>4. QED
    BY <2>1, <2>3 DEF RbUnbound, RbEarly
<1>8. ASSUME NEW outcome \in {"bound", "absent", "stuck"}, RbSensorLan(outcome) PROVE Goal
  <2>1. /\ rbAt = "lan" /\ at \in {"turn", "ending"}
        /\ o = rbOwned \/ o = Append(rbOwned, "sensor-lan")
    BY <1>8 DEF RbSensorLan, RbOptional, RbLeave
  <2>2. RbWithout(rbOwned, "sensor-lan")
    BY <2>1 DEF RbListed
  <2>3. RbDistinct(o)
    BY <1>0, <2>1, <2>2, RbDistinctMore
  <2>4. QED
    BY <1>p, <2>1, <2>3 DEF RbUnbound, RbEarly
<1>9. ASSUME NEW exits \in BOOLEAN, NEW stopped \in BOOLEAN, RbLoadFails(exits, stopped) PROVE Goal
  <2>1. o = rbOwned /\ rbAt = "loading" /\ at \in {"loading", "rollback"}
    BY <1>9 DEF RbLoadFails
  <2>2. QED
    BY <1>k, <2>1 DEF RbUnbound
<1>10. CASE RbLoad
  <2>1. o = rbOwned /\ at = rbAt
    BY <1>10 DEF RbLoad
  <2>2. QED
    BY <1>k, <2>1
<1>11. CASE RbQuiet
  <2>1. o = rbOwned
    BY <1>0, <1>11, RbQuietStill DEF RbStill
  <2>2. ((at \in RbUnbound => rbAt \in RbUnbound) /\ at # "lan") \/ at = rbAt
    <3>1. ASSUME NEW ok \in BOOLEAN, RbWire(ok) \/ RbContinuity(ok) \/ RbPrepare(ok)
          PROVE  rbAt \in RbUnbound /\ at # "lan"
      BY <3>1 DEF RbWire, RbContinuity, RbPrepare, RbLeave, RbUnbound, RbEarly
    <3>2. ASSUME NEW ok \in BOOLEAN,
                 RbTurn(ok) \/ RbPoll(ok) \/ RbReport(ok) \/ RbRevoke(ok) \/ RbExit(ok)
          PROVE  at \in {"poll", "serve", "recovery", "ending", "closing", "off"}
      BY <3>2 DEF RbTurn, RbPoll, RbReport, RbRevoke, RbExit, RbLeave
    <3>3. ASSUME NEW code \in {0, 1}, RbRolledBack(code) PROVE at \in {"ending", "report"}
      BY <3>3 DEF RbRolledBack, RbLeave
    <3>4. ASSUME RbLoaded PROVE rbAt \in RbUnbound /\ at # "lan"
      BY <3>4 DEF RbLoaded, RbUnbound
    <3>5. ASSUME RbShutsDown \/ RbServed \/ RbRecovered \/ RbModulesStopped \/ RbKill
          PROVE  at \in {"ending", "lancheck", "closing", "off"}
      BY <3>5 DEF RbShutsDown, RbServed, RbRecovered, RbModulesStopped, RbKill, RbLeave
    <3>6. ASSUME RbLanFails \/ RbSignal \/ UNCHANGED rbVars PROVE at = rbAt
      BY <3>6 DEF RbLanFails, RbSignal, rbVars
    <3>7. ASSUME at \in {"poll", "serve", "recovery", "ending", "closing", "off", "report", "lancheck"}
          PROVE  at \notin RbUnbound /\ at # "lan"
      BY <3>7 DEF RbUnbound, RbEarly
    <3>8. QED
      BY <1>11, <3>1, <3>2, <3>3, <3>4, <3>5, <3>6, <3>7 DEF RbQuiet
  <2>3. QED
    BY <1>k, <2>1, <2>2
<1> HIDE DEF Goal
<1>12. QED
  BY <1>1, <1>2, <1>3, <1>4, <1>5, <1>6, <1>7, <1>8, <1>9, <1>10, <1>11, RbSorts DEF RbOther

(* A step that may fail stays within the bound on faults.                  *)
LEMMA RbOkBound ==
    ASSUME NEW ok \in BOOLEAN, RbOk(ok), rbFaults \in 0 .. RbFaults PROVE rbFaults' \in 0 .. RbFaults
<1>1. RbFaults \in Nat
  BY RbAssumption
<1>2. QED
  BY <1>1 DEF RbOk

(* The other variables stay within theirs.                                 *)
LEMMA RbScalarsStep ==
    ASSUME RbTyped, RbScalars, [RbNext]_rbVars PROVE RbScalars'
<1>0. /\ RbLaunches \in Nat /\ RbFaults \in Nat /\ rbSession \in 0 .. RbLaunches
      /\ rbFaults \in 0 .. RbFaults /\ rbReceipts \subseteq 1 .. RbLaunches
  BY RbAssumption DEF RbScalars
<1>1. ASSUME NEW found \in RbInputs, NEW ok \in BOOLEAN, RbLaunch(found, ok) PROVE RbScalars'
  <2>1. rbSession' \in 0 .. RbLaunches /\ rbSession' >= 1
    BY <1>0, <1>1 DEF RbLaunch
  <2>2. rbFaults' \in 0 .. RbFaults
    BY <1>0, <1>1, RbOkBound DEF RbLaunch
  <2>3. QED
    BY <1>1, <2>1, <2>2 DEF RbScalars, RbLaunch
<1>2. ASSUME NEW ok \in BOOLEAN, RbContinuity(ok) PROVE RbScalars'
  <2>1. rbFaults' \in 0 .. RbFaults
    BY <1>0, <1>2, RbOkBound DEF RbContinuity
  <2>2. rbSession \in 1 .. RbLaunches
    <3>1. rbAt # "off" /\ rbSession \in 0 .. RbLaunches /\ (rbAt # "off" => rbSession >= 1)
      BY <1>2 DEF RbScalars, RbContinuity
    <3>2. QED
      BY <3>1, <1>0
  <2>3. rbReceipts' \subseteq rbReceipts \cup {rbSession}
    BY <1>2 DEF RbContinuity
  <2>4. rbReceipts' \subseteq 1 .. RbLaunches
    BY <1>0, <2>2, <2>3
  <2>5. UNCHANGED <<rbSession, rbRead, rbContext, rbLan, rbConv, rbShutdown>> /\ rbAt # "off"
    BY <1>2 DEF RbContinuity
  <2>6. QED
    BY <2>1, <2>4, <2>5 DEF RbScalars
<1>h. ASSUME UNCHANGED rbHist, rbAt # "off", rbFaults' \in 0 .. RbFaults,
             rbContext' \in {"none", "guest", "absent owner", "owner"}, rbLan' \in {"off", "on", "failed"},
             rbConv' \in BOOLEAN, rbShutdown' \in BOOLEAN
      PROVE  RbScalars'
  BY <1>h DEF RbScalars, rbHist
<1>k. ASSUME UNCHANGED <<rbHist, rbContext, rbLan, rbConv, rbShutdown>>, rbAt # "off",
             rbFaults' \in 0 .. RbFaults
      PROVE  RbScalars'
  BY <1>h, <1>k DEF RbScalars
<1>3. ASSUME NEW ok \in BOOLEAN,
             RbWire(ok) \/ RbStopModule(ok) \/ RbPrepare(ok) \/ RbTurn(ok) \/ RbPoll(ok)
             \/ RbReport(ok) \/ RbRevoke(ok) \/ RbExit(ok)
      PROVE  RbScalars'
  <2>1. /\ UNCHANGED <<rbHist, rbContext, rbLan, rbConv, rbShutdown>> /\ rbAt # "off" /\ RbOk(ok)
    BY <1>3 DEF RbWire, RbStopModule, RbPrepare, RbTurn, RbPoll, RbReport, RbRevoke, RbExit
  <2>2. QED
    BY <1>0, <1>k, <2>1, RbOkBound
<1>4. ASSUME NEW ok \in BOOLEAN, RbProvision(ok) PROVE RbScalars'
  <2>1. UNCHANGED <<rbHist, rbLan, rbConv, rbShutdown>> /\ rbAt # "off" /\ RbOk(ok)
    BY <1>4 DEF RbProvision
  <2>2. rbContext' \in {"none", "guest", "absent owner", "owner"}
    BY <1>4 DEF RbProvision, RbContextBuilt, RbProfile, RbScalars
  <2>3. QED
    BY <1>0, <1>h, <2>1, <2>2, RbOkBound DEF RbScalars
<1>5. ASSUME NEW ok \in BOOLEAN, RbServeFails(ok) PROVE RbScalars'
  <2>1. UNCHANGED <<rbHist, rbContext, rbLan, rbShutdown>> /\ rbAt # "off"
        /\ rbFaults < RbFaults /\ rbFaults' = rbFaults + 1
    BY <1>5 DEF RbServeFails
  <2>2. rbFaults' \in 0 .. RbFaults
    BY <1>0, <2>1
  <2>3. rbConv' \in BOOLEAN
    BY <1>5, Zenon DEF RbServeFails, RbScalars
  <2>4. QED
    BY <1>h, <2>1, <2>2, <2>3 DEF RbScalars
<1>6. ASSUME NEW ok \in BOOLEAN, RbLanCheck(ok) PROVE RbScalars'
  <2>1. UNCHANGED <<rbHist, rbContext, rbConv, rbShutdown>> /\ rbAt # "off"
        /\ rbLan' \in {"off", "on", "failed"} /\ (RbOk(ok) \/ rbFaults' = rbFaults)
    BY <1>6 DEF RbLanCheck, RbScalars
  <2>2. QED
    BY <1>0, <1>h, <2>1, RbOkBound DEF RbScalars
<1>7. ASSUME NEW ok \in BOOLEAN, RbClose(ok) PROVE RbScalars'
  <2>1. UNCHANGED <<rbHist, rbContext, rbConv, rbShutdown>> /\ rbAt # "off"
        /\ rbLan' \in {"off", "on", "failed"} /\ (RbOk(ok) \/ rbFaults' = rbFaults)
    BY <1>7 DEF RbClose, RbScalars
  <2>2. QED
    BY <1>0, <1>h, <2>1, RbOkBound DEF RbScalars
<1>8. ASSUME NEW outcome \in {"bound", "absent", "stuck"}, RbConversation(outcome) \/ RbSensorLan(outcome)
      PROVE  RbScalars'
  <2>1. /\ UNCHANGED <<rbHist, rbContext, rbShutdown>> /\ rbAt # "off" /\ RbOk(outcome # "stuck")
        /\ rbLan' \in {"off", "on", "failed"} /\ rbConv' \in BOOLEAN
    BY <1>8 DEF RbConversation, RbSensorLan, RbOptional, RbScalars
  <2>2. (outcome # "stuck") \in BOOLEAN
    OBVIOUS
  <2>3. rbFaults' \in 0 .. RbFaults
    BY <1>0, <2>1, <2>2, RbOkBound
  <2>4. QED
    BY <1>h, <2>1, <2>3 DEF RbScalars
<1>9. ASSUME NEW exits \in BOOLEAN, NEW stopped \in BOOLEAN, RbLoadFails(exits, stopped) PROVE RbScalars'
  <2>1. UNCHANGED <<rbHist, rbContext, rbLan, rbConv, rbShutdown>> /\ rbAt # "off"
        /\ rbFaults' \in 0 .. RbFaults
    BY <1>0, <1>9 DEF RbLoadFails
  <2>2. QED
    BY <1>k, <2>1
<1>10. ASSUME RbLoad \/ RbLoaded \/ RbShutsDown \/ RbServed \/ RbRecovered \/ RbModulesStopped
              \/ \E code \in {0, 1} : RbRolledBack(code)
       PROVE  RbScalars'
  <2>1. UNCHANGED <<rbHist, rbContext, rbLan, rbConv, rbShutdown, rbFaults>> /\ rbAt # "off"
    BY <1>10 DEF RbLoad, RbLoaded, RbShutsDown, RbServed, RbRecovered, RbModulesStopped, RbRolledBack
  <2>2. QED
    BY <1>0, <1>k, <2>1
<1>11. CASE RbLanFails
  <2>1. UNCHANGED <<rbHist, rbContext, rbConv, rbShutdown>> /\ rbAt # "off"
        /\ rbFaults' \in 0 .. RbFaults /\ rbLan' \in {"off", "on", "failed"}
    BY <1>0, <1>11 DEF RbLanFails
  <2>2. QED
    BY <1>h, <2>1 DEF RbScalars
<1>12. CASE RbSignal
  <2>1. UNCHANGED <<rbHist, rbContext, rbLan, rbConv, rbFaults>> /\ rbAt # "off" /\ rbShutdown' \in BOOLEAN
    BY <1>12 DEF RbSignal
  <2>2. QED
    BY <1>0, <1>h, <2>1 DEF RbScalars
<1>13. CASE RbKill
  <2>1. UNCHANGED <<rbSession, rbRead, rbReceipts, rbContext, rbLan, rbConv, rbShutdown>>
        /\ rbAt' = "off" /\ rbFaults' \in 0 .. RbFaults
    BY <1>0, <1>13 DEF RbKill
  <2>2. QED
    BY <2>1 DEF RbScalars
<1>14. CASE UNCHANGED rbVars
  BY <1>14 DEF RbScalars, rbVars
<1>15. QED
  BY <1>1, <1>2, <1>3, <1>4, <1>5, <1>6, <1>7, <1>8, <1>9, <1>10, <1>11, <1>12, <1>13, <1>14
     DEF RbNext

(* So the bounds are kept, beside the invariant.                           *)
LEMMA RbBoundsStep == RbInv /\ RbBounds /\ [RbNext]_rbVars => RbBounds'
  BY RbListedStep, RbScalarsStep DEF RbInv, RbBounds

(* They hold of a machine that was never started.                          *)
LEMMA RbBoundsInit == RbInit => RbBounds
<1>1. RbLaunches \in Nat /\ RbFaults \in Nat
  BY RbAssumption
<1>2. 0 \in 0 .. RbLaunches /\ 0 \in 0 .. RbFaults
  BY <1>1
<1>3. RbInit => RbScalars
  BY <1>2, Zenon DEF RbInit, RbScalars
<1>4. RbInit => RbListed
  BY DEF RbInit, RbListed, RbDistinct, RbWithout, RbUnbound, RbEarly
<1>5. QED
  BY <1>3, <1>4 DEF RbBounds

(* The types follow.                                                       *)
LEMMA RbTypes == RbInv /\ RbBounds => RbTypeOK
<1> SUFFICES ASSUME RbInv, RbBounds PROVE RbTypeOK
  OBVIOUS
<1>1. /\ rbAt \in RbPlaces /\ rbStatus \in [session : Nat, state : RbStates]
      /\ rbFailed \in BOOLEAN /\ rbRaised \in BOOLEAN /\ rbLost \in BOOLEAN /\ rbKilled \in BOOLEAN
      /\ rbLoader \in RbLoaders /\ rbOwned \in Seq(RbOwnable)
  BY DEF RbInv, RbTyped, RbShape
<1>2. /\ rbLoader.next \in 1 .. Len(RbModules) + 1 /\ rbLoader.failed \subseteq RbNames
      /\ rbLoader.running \in Seq(RbNames)
  BY <1>1, RbFields
<1>3. ASSUME NEW S, NEW s \in Seq(S) PROVE ToSet(s) \subseteq S
  BY <1>3 DEF ToSet
<1>4. ToSet(rbLoader.running) \subseteq RbNames
  BY <1>2, <1>3
<1>5. ToSet(rbOwned) \subseteq {"modules", "conversation", "sensor-lan"}
  <2>1. ToSet(rbOwned) \subseteq RbOwnable
    BY <1>1, <1>3
  <2>2. QED
    BY <2>1 DEF RbOwnable, RbServices
<1>6. IsInjective(rbOwned)
  BY DEF RbBounds, RbListed, RbDistinct, IsInjective
<1>7. rbStatus.session \in 0 .. RbLaunches
  <2>1. rbStatus.session \in Nat /\ rbStatus.session <= rbSession /\ rbSession \in 0 .. RbLaunches
    BY <1>1 DEF RbInv, RbReadyInv, RbBounds, RbScalars
  <2>2. RbLaunches \in Nat
    BY RbAssumption
  <2>3. QED
    BY <2>1, <2>2
<1>8. rbStatus.state \in RbStates
  BY <1>1
<1>9. QED
  BY <1>1, <1>2, <1>4, <1>5, <1>6, <1>7, <1>8 DEF RbTypeOK, RbBounds, RbScalars, RbStates

(* The lifecycle owns no resource twice, so that discard takes off what is *)
(* there and close stops each once; receipts are of sessions that had a    *)
(* process; for any modules, files found, faults and kills                 *)
(* (runtime_lifecycle.py).                                                 *)
THEOREM BootTypes == RbSpec => []RbTypeOK
<1> DEFINE I == RbInv /\ RbBounds
<1>1. RbInit => I
  BY RbInitInv, RbBoundsInit
<1>2. I /\ [RbNext]_rbVars => I'
  BY RbNextInv, RbBoundsStep
<1>3. I => RbTypeOK
  BY RbTypes
<1> HIDE DEF I
<1> QED
  BY <1>1, <1>2, <1>3, PTL DEF RbSpec

-----------------------------------------------------------------------------
(* Sums.  What is reserved on a node, and what the loaded packages take of *)
(* a budget, are counted unit by unit: as many pairs as the amounts add up *)
(* to.                                                                     *)

Units(S, a) == UNION {{x} \X (1 .. a[x]) : x \in S}

(* A pair is of one element and one of its units.                          *)
LEMMA UnitsIn ==
    ASSUME NEW S, NEW a, NEW y
    PROVE  y \in Units(S, a) <=> \E x \in S : y \in {x} \X (1 .. a[x])
BY DEF Units

(* Fewer elements have no larger sum.                                      *)
LEMMA FewerUnits ==
    ASSUME NEW T, NEW S \in SUBSET T, NEW a, IsFiniteSet(Units(T, a))
    PROVE  /\ IsFiniteSet(Units(S, a))
           /\ Cardinality(Units(S, a)) <= Cardinality(Units(T, a))
<1>1. Units(S, a) \subseteq Units(T, a)
  BY UnitsIn
<1>2. QED
  BY <1>1, FS_Subset

(* One element more adds its amount to the sum.                            *)
LEMMA OneMoreUnits ==
    ASSUME NEW S, NEW x, x \notin S, NEW a, a[x] \in Nat, IsFiniteSet(Units(S, a))
    PROVE  /\ IsFiniteSet(Units(S \cup {x}, a))
           /\ Cardinality(Units(S \cup {x}, a)) = Cardinality(Units(S, a)) + a[x]
<1> DEFINE U == Units(S, a)
           A == {x}
           B == 1 .. a[x]
           N == A \X B
<1>1. Units(S \cup {x}, a) = U \cup N
  <2>1. ASSUME NEW y PROVE y \in Units(S \cup {x}, a) <=> y \in U \cup N
    <3>1. y \in Units(S \cup {x}, a) <=> \E z \in S \cup {x} : y \in {z} \X (1 .. a[z])
      BY UnitsIn
    <3>2. y \in U <=> \E z \in S : y \in {z} \X (1 .. a[z])
      BY UnitsIn
    <3>3. QED
      BY <3>1, <3>2
  <2>2. QED
    BY <2>1
<1>2. U \cap N = {}
  <2>1. ASSUME NEW y \in U, y \in N PROVE FALSE
    <3>1. PICK z \in S : y \in {z} \X (1 .. a[z])
      BY UnitsIn
    <3>2. y[1] = z /\ y[1] = x
      BY <2>1, <3>1
    <3>3. QED
      BY <3>2
  <2>2. QED
    BY <2>1
<1>3. IsFiniteSet(A) /\ Cardinality(A) = 1
  BY FS_Singleton
<1>4. IsFiniteSet(B) /\ Cardinality(B) = a[x]
  <2>1. 1 \in Int /\ a[x] \in Int
    OBVIOUS
  <2>2. IsFiniteSet(B) /\ Cardinality(B) = IF 1 > a[x] THEN 0 ELSE a[x] - 1 + 1
    BY <2>1, FS_Interval
  <2>3. QED
    BY <2>2
<1> HIDE DEF A, B
<1>5. IsFiniteSet(N) /\ Cardinality(N) = Cardinality(A) * Cardinality(B)
  BY <1>3, <1>4, FS_Product
<1>6. 1 * a[x] = a[x]
  OBVIOUS
<1>7. Cardinality(N) = a[x]
  BY <1>3, <1>4, <1>5, <1>6
<1> HIDE DEF U, N
<1>8. IsFiniteSet(U) /\ Cardinality(U) \in Nat
  BY FS_CardinalityType DEF U
<1>9. IsFiniteSet(U \cup N)
      /\ Cardinality(U \cup N) = Cardinality(U) + Cardinality(N) - Cardinality(U \cap N)
  BY <1>5, <1>8, FS_Union
<1>10. Cardinality(U \cap N) = 0
  BY <1>2, FS_EmptySet
<1>11. Cardinality(U \cup N) = Cardinality(U) + a[x]
  BY <1>7, <1>8, <1>9, <1>10
<1>12. QED
  BY <1>1, <1>9, <1>11 DEF U

-----------------------------------------------------------------------------
(* Body resources.                                                         *)

RpMessages == [node : RpNodes, at : Int, free : Nat, ok : BOOLEAN]
RpLeases == [node : RpNodes, exp : Int]
RpReservations == [node : RpNodes, exp : Int, amount : Nat]
RpHolders ==
    [by : {RpNone, "submit", "refuse", "scan", "move", "recover"},
     work : RpWorks \cup {RpNone}, todo : SUBSET (RpWorks \X RpWorks)]
RpScans == [now : Int, affected : SUBSET RpWorks, failed : SUBSET RpNodes]

RpTyped ==
    /\ rpClock \in 0 .. RpEnd /\ rpSeen \in Int
    /\ rpNet \subseteq RpMessages /\ rpUp \subseteq RpNodes
    /\ rpAdv \in [RpNodes -> RpMessages \cup {RpNil}]
    /\ rpDeclared \subseteq RpWorks /\ rpReq \in [RpWorks -> Nat]
    /\ rpLease \in [RpWorks -> RpLeases \cup {RpNil}]
    /\ rpRefused \in [RpWorks -> SUBSET RpNodes]
    /\ rpHeld \in [RpWorks -> RpReservations \cup {RpNil}]
    /\ rpActive \subseteq RpWorks
    /\ rpSubmit \in [work : RpWorks \cup {RpNone}, at : {RpNone, "declared", "placed", "failed"}]
    /\ rpBusy \in RpHolders /\ rpScan \in RpScans /\ rpStray \subseteq RpWorks
    /\ rpBest \in [RpNodes -> Nat]

(* Where the dispatcher and the holder of the service lock are.            *)
RpLockInv ==
    /\ rpSubmit.at # RpNone => rpSubmit.work \in RpWorks
    /\ rpBusy.by # "recover" => rpBusy.todo = {}
    /\ rpBusy.by \in {RpNone, "scan", "move"} => rpBusy.work = RpNone
    /\ rpBusy.by \notin {"scan", "move"} => rpScan = RpNoScan
    /\ rpBusy.by = "submit" => rpSubmit.at = "placed"

(* A stored advertisement is one the node made.                            *)
RpAdvInv ==
    \A n \in RpNodes :
        rpAdv[n] # RpNil => rpAdv[n].node = n /\ rpAdv[n].free <= rpBest[n]

(* A leased work is active, or it is the one being submitted.              *)
RpOwnInv ==
    \A w \in RpWorks :
        rpLease[w] # RpNil =>
            w \in rpActive \/ (rpBusy.by = "submit" /\ rpSubmit = [work |-> w, at |-> "placed"])

(* The works of a recovery are active; the ledger has nothing that expired *)
(* before it.                                                              *)
RpScanInv ==
    /\ rpStray \subseteq rpActive /\ rpScan.affected \subseteq rpActive
    /\ rpBusy.by \in {"scan", "move"} =>
          \A w \in RpWorks : rpHeld[w] # RpNil => rpHeld[w].exp > rpScan.now

(* The works a recovery has still to do, and those and the one in hand.    *)
RpTodo == {p[1] : p \in rpBusy.todo} \cup {p[2] : p \in rpBusy.todo}
RpHand == RpTodo \cup ({rpBusy.work} \cap RpWorks)

(* A recovery whose scans agreed pairs every work with itself, and what is *)
(* in hand has no reservation; all works of another one are stray.         *)
RpPassInv ==
    \/ /\ RpHand \cap rpStray = {} /\ \A p \in rpBusy.todo : p[1] = p[2]
       /\ rpBusy.work \in RpWorks => rpHeld[rpBusy.work] = RpNil
    \/ RpHand \subseteq rpStray /\ rpBusy.by = "recover"

(* A reservation has the node and the expiry of its lease.                 *)
RpHeldOf(w) ==
    rpHeld[w] # RpNil =>
        /\ rpLease[w] # RpNil
        /\ rpLease[w].node = rpHeld[w].node /\ rpLease[w].exp = rpHeld[w].exp

(* A lease that declared needs has a reservation.                          *)
RpDueOf(w) ==
    rpLease[w] # RpNil /\ rpReq[w] > 0 /\ rpSeen < rpLease[w].exp => rpHeld[w] # RpNil

(* Leases and reservations agree, but for the stray works and those a      *)
(* recovery has moved and not released yet; the work in hand may be due.   *)
RpAgree ==
    \A w \in RpWorks \ (RpTodo \cup rpStray) : RpHeldOf(w) /\ (w # rpBusy.work => RpDueOf(w))

RpUnitsInv == \A n \in RpNodes : IsFiniteSet(RpUnits(n)) /\ RpCommitted(n) <= rpBest[n]

RpInv ==
    /\ RpTyped /\ RpLockInv /\ RpAdvInv /\ RpOwnInv /\ RpScanInv /\ RpPassInv
    /\ RpAgree /\ RpUnitsInv

(* A node's name is not the mark of an empty place, so a record of a node  *)
(* is not RpNil.                                                           *)
LEMMA RpSome ==
    /\ \A m \in RpMessages : m # RpNil
    /\ \A l \in RpLeases : l # RpNil
    /\ \A r \in RpReservations : r # RpNil
<1> SUFFICES ASSUME NEW r, r.node \in RpNodes PROVE r # RpNil
  BY DEF RpMessages, RpLeases, RpReservations
<1> QED
  BY RpAssumption DEF RpNil

(* The initial state.                                                      *)
LEMMA RpInitInv == RpInit => RpInv
<1> SUFFICES ASSUME RpInit PROVE RpInv
  OBVIOUS
<1>1. RpTyped
  BY RpAssumption DEF RpInit, RpTyped, RpIdle, RpHolders, RpNoScan, RpScans
<1>a. RpLockInv /\ RpAdvInv /\ RpOwnInv /\ RpScanInv
  BY DEF RpInit, RpLockInv, RpAdvInv, RpOwnInv, RpScanInv, RpIdle, RpNone, RpNoScan
<1>b. RpPassInv
  BY DEF RpInit, RpPassInv, RpIdle
<1>c. RpAgree
  BY DEF RpInit, RpAgree, RpHeldOf, RpDueOf
<1>2. RpLockInv /\ RpAdvInv /\ RpOwnInv /\ RpScanInv /\ RpPassInv /\ RpAgree
  BY <1>a, <1>b, <1>c
<1>3. ASSUME NEW n \in RpNodes PROVE IsFiniteSet(RpUnits(n)) /\ RpCommitted(n) <= rpBest[n]
  <2>1. RpHeldOn(n) = {}
    BY DEF RpInit, RpHeldOn
  <2>2. RpUnits(n) = {}
    BY <2>1 DEF RpUnits
  <2>3. rpBest[n] = 0
    BY DEF RpInit
  <2>4. QED
    BY <2>2, <2>3, FS_EmptySet DEF RpCommitted
<1>4. QED
  BY <1>1, <1>2, <1>3 DEF RpInv, RpUnitsInv

-----------------------------------------------------------------------------
(* Types.                                                                  *)

(* A time a caller may send is a number.                                   *)
LEMMA RpNowInt == RpTyped => RpNows \subseteq Int /\ rpClock \in Int
BY RpAssumption DEF RpTyped, RpNows

(* prune keeps stored advertisements or drops them.                        *)
LEMMA RpPrunedType ==
    ASSUME RpTyped, NEW now
    PROVE  /\ RpPruned(now) \in [RpNodes -> RpMessages \cup {RpNil}]
           /\ \A n \in RpNodes : RpPruned(now)[n] = rpAdv[n] \/ RpPruned(now)[n] = RpNil
BY DEF RpTyped, RpPruned

(* The prune of the ledger and of the leases keeps records or drops them.  *)
LEMMA RpUnexpiredType ==
    ASSUME NEW S, NEW f \in [RpWorks -> S \cup {RpNil}], NEW now
    PROVE  RpUnexpired(f, now) \in [RpWorks -> S \cup {RpNil}]
BY DEF RpUnexpired

(* It drops the ones that have expired.                                    *)
LEMMA RpUnexpiredAt ==
    ASSUME NEW f, NEW now, NEW w \in RpWorks
    PROVE  RpUnexpired(f, now)[w] = IF f[w] # RpNil /\ f[w].exp > now THEN f[w] ELSE RpNil
BY DEF RpUnexpired

(* A lease is a record of a node and an expiry.                            *)
LEMMA RpLeaseOnType ==
    ASSUME NEW n \in RpNodes, NEW now \in Int
    PROVE  RpLeaseOn(n, now) \in RpLeases
BY RpAssumption DEF RpLeaseOn, RpLeases

(* A reassignment gives the one work another lease, or none.               *)
LEMMA RpReassignType ==
    ASSUME RpTyped, NEW w \in RpWorks, rpLease[w] # RpNil, NEW now \in Int, NEW held,
           RpReassign(w, now, held)
    PROVE  /\ rpHeld' = held
           /\ rpLease' \in [RpWorks -> RpLeases \cup {RpNil}]
           /\ rpRefused' \in [RpWorks -> SUBSET RpNodes]
           /\ \A v \in RpWorks : v # w => rpLease'[v] = rpLease[v]
<1>1. rpHeld' = held
  BY DEF RpReassign
<1>2. rpLease[w].node \in RpNodes /\ rpUp \subseteq RpNodes /\ rpRefused[w] \subseteq RpNodes
  BY DEF RpTyped, RpLeases
<1>3. PICK l \in RpLeases \cup {RpNil}, R \in SUBSET RpNodes :
          /\ rpLease' = [rpLease EXCEPT ![w] = l]
          /\ rpRefused' = [rpRefused EXCEPT ![w] = R]
  <2> DEFINE refused == rpRefused[w] \cup {rpLease[w].node}
             unmet == {n \in rpUp \ refused : ~RpMeets(w, n)}
             met == (rpUp \ refused) \ unmet
  <2>1. refused \subseteq RpNodes /\ unmet \subseteq RpNodes /\ met \subseteq RpNodes
    BY <1>2
  <2>2. \/ \E n \in met, tried \in SUBSET unmet :
              /\ rpLease' = [rpLease EXCEPT ![w] = RpLeaseOn(n, now)]
              /\ rpRefused' = [rpRefused EXCEPT ![w] = refused \cup tried]
        \/ /\ rpLease' = [rpLease EXCEPT ![w] = RpNil]
           /\ rpRefused' = [rpRefused EXCEPT ![w] = refused \cup unmet]
    BY DEF RpReassign
  <2> HIDE DEF refused, unmet, met
  <2>3. CASE \E n \in met, tried \in SUBSET unmet :
              /\ rpLease' = [rpLease EXCEPT ![w] = RpLeaseOn(n, now)]
              /\ rpRefused' = [rpRefused EXCEPT ![w] = refused \cup tried]
    <3>1. PICK n \in met, tried \in SUBSET unmet :
              /\ rpLease' = [rpLease EXCEPT ![w] = RpLeaseOn(n, now)]
              /\ rpRefused' = [rpRefused EXCEPT ![w] = refused \cup tried]
      BY <2>3
    <3>2. RpLeaseOn(n, now) \in RpLeases
      BY <2>1, RpLeaseOnType
    <3>3. refused \cup tried \in SUBSET RpNodes
      BY <2>1
    <3>4. QED
      BY <3>1, <3>2, <3>3
  <2>4. CASE /\ rpLease' = [rpLease EXCEPT ![w] = RpNil]
             /\ rpRefused' = [rpRefused EXCEPT ![w] = refused \cup unmet]
    <3>1. refused \cup unmet \in SUBSET RpNodes
      BY <2>1
    <3>2. QED
      BY <2>4, <3>1
  <2>5. QED
    BY <2>2, <2>3, <2>4
<1>4. rpLease \in [RpWorks -> RpLeases \cup {RpNil}] /\ rpRefused \in [RpWorks -> SUBSET RpNodes]
  BY DEF RpTyped
<1>5. QED
  BY <1>1, <1>3, <1>4

(* A move ends the leases that have expired and gives the lost works       *)
(* others; what is left to do are pairs of affected and lost works, or     *)
(* nothing when the scans disagree on their number.                        *)
LEMMA RpMoveEffect ==
    ASSUME RpTyped, RpMove
    PROVE  /\ rpLease' \in [RpWorks -> RpLeases \cup {RpNil}]
           /\ rpRefused' \in [RpWorks -> SUBSET RpNodes] /\ rpUp' \subseteq RpNodes
           /\ \E lost \in SUBSET RpWorks :
                 /\ \A w \in lost : rpLease[w] # RpNil
                 /\ \A w \in RpWorks \ lost : rpLease'[w] = RpUnexpired(rpLease, rpScan.now)[w]
                 /\ rpStray' = IF lost = rpScan.affected THEN rpStray \ lost
                               ELSE rpStray \cup lost \cup rpScan.affected
                 /\ \/ lost # rpScan.affected /\ rpBusy' = RpIdle
                    \/ \E pair \in [rpScan.affected -> lost] :
                         /\ lost = rpScan.affected => \A w \in lost : pair[w] = w
                         /\ rpBusy' = [by |-> "recover", work |-> RpNone,
                                       todo |-> {<<w, pair[w]>> : w \in rpScan.affected}]
<1> DEFINE now == rpScan.now
           leases == RpUnexpired(rpLease, now)
           lost == {w \in RpWorks : leases[w] # RpNil /\ leases[w].node \in rpScan.failed}
           refused == [w \in RpWorks |->
                         rpRefused[w] \cup (IF w \in lost THEN {leases[w].node} ELSE {})]
<1>1. /\ rpRefused' = refused
      /\ rpStray' = IF lost = rpScan.affected THEN rpStray \ lost
                    ELSE rpStray \cup lost \cup rpScan.affected
      /\ rpUp' \subseteq rpUp
  BY DEF RpMove
<1>2. PICK to \in [lost -> RpNodes \cup {RpNone}] :
          rpLease' = [w \in RpWorks |-> IF w \notin lost THEN leases[w]
                                        ELSE IF to[w] = RpNone THEN RpNil
                                        ELSE RpLeaseOn(to[w], now)]
  BY DEF RpMove
<1>a. \/ lost # rpScan.affected /\ rpBusy' = RpIdle
      \/ \E pair \in [rpScan.affected -> lost] :
           /\ lost = rpScan.affected => \A w \in lost : pair[w] = w
           /\ rpBusy' = [by |-> "recover", work |-> RpNone,
                         todo |-> {<<w, pair[w]>> : w \in rpScan.affected}]
  <2>1. \/ Cardinality(lost) # Cardinality(rpScan.affected) /\ rpBusy' = RpIdle
        \/ \E pair \in Bijection(rpScan.affected, lost) :
             /\ lost = rpScan.affected => \A w \in lost : pair[w] = w
             /\ rpBusy' = [by |-> "recover", work |-> RpNone,
                           todo |-> {<<w, pair[w]>> : w \in rpScan.affected}]
    BY DEF RpMove
  <2> HIDE DEF lost
  <2>2. Bijection(rpScan.affected, lost) \subseteq [rpScan.affected -> lost]
    BY DEF Bijection, Injection
  <2>3. QED
    BY <2>1, <2>2
<1>3. rpLease \in [RpWorks -> RpLeases \cup {RpNil}] /\ rpUp \subseteq RpNodes
      /\ rpRefused \in [RpWorks -> SUBSET RpNodes] /\ now \in Int
  BY DEF RpTyped, RpScans
<1>4. leases \in [RpWorks -> RpLeases \cup {RpNil}]
  BY <1>3, RpUnexpiredType
<1>b. \A w \in RpWorks : leases[w] # RpNil => rpLease[w] # RpNil
  BY RpUnexpiredAt
<1> HIDE DEF leases
<1>5. lost \subseteq RpWorks /\ \A w \in lost : leases[w].node \in RpNodes /\ rpLease[w] # RpNil
  BY <1>4, <1>b DEF RpLeases
<1> HIDE DEF lost, now
<1>6. refused \in [RpWorks -> SUBSET RpNodes]
  BY <1>3, <1>5
<1> HIDE DEF refused
<1>7. ASSUME NEW w \in RpWorks PROVE rpLease'[w] \in RpLeases \cup {RpNil}
  <2>1. CASE w \notin lost
    BY <2>1, <1>2, <1>4
  <2>2. CASE w \in lost /\ to[w] = RpNone
    BY <2>2, <1>2
  <2>3. CASE w \in lost /\ to[w] # RpNone
    <3>1. to[w] \in RpNodes
      BY <2>3, <1>2
    <3>2. RpLeaseOn(to[w], now) \in RpLeases
      BY <3>1, <1>3, RpLeaseOnType
    <3>3. QED
      BY <3>2, <2>3, <1>2
  <2>4. QED
    BY <2>1, <2>2, <2>3
<1>8. rpLease' \in [RpWorks -> RpLeases \cup {RpNil}]
  BY <1>2, <1>7
<1>9. \A w \in RpWorks \ lost : rpLease'[w] = leases[w]
  BY <1>2
<1>10. \A w \in lost : rpLease[w] # RpNil
  BY <1>5
<1>11. rpRefused' \in [RpWorks -> SUBSET RpNodes] /\ rpUp' \subseteq RpNodes
  BY <1>1, <1>3, <1>6
<1>12. \A w \in RpWorks \ lost : rpLease'[w] = RpUnexpired(rpLease, rpScan.now)[w]
  BY <1>9 DEF leases, now
<1>13. lost \in SUBSET RpWorks
  BY <1>5
<1>14. rpStray' = IF lost = rpScan.affected THEN rpStray \ lost
                  ELSE rpStray \cup lost \cup rpScan.affected
  BY <1>1
<1>15. \E L \in SUBSET RpWorks :
          /\ \A w \in L : rpLease[w] # RpNil
          /\ \A w \in RpWorks \ L : rpLease'[w] = RpUnexpired(rpLease, rpScan.now)[w]
          /\ rpStray' = IF L = rpScan.affected THEN rpStray \ L
                        ELSE rpStray \cup L \cup rpScan.affected
          /\ \/ L # rpScan.affected /\ rpBusy' = RpIdle
             \/ \E pair \in [rpScan.affected -> L] :
                  /\ L = rpScan.affected => \A w \in L : pair[w] = w
                  /\ rpBusy' = [by |-> "recover", work |-> RpNone,
                                todo |-> {<<w, pair[w]>> : w \in rpScan.affected}]
  <2>1. WITNESS lost \in SUBSET RpWorks
  <2>2. QED
    BY <1>10, <1>12, <1>14, <1>a
<1>16. QED
  BY <1>8, <1>11, <1>15

(* What a placement does: the refusal of an active work, a failure, or a   *)
(* lease; the work then is the dispatcher's.                               *)
LEMMA RpPlaceEffect ==
    ASSUME RpTyped, NEW w \in RpWorks, RpPlace(w), w \notin rpActive
    PROVE  /\ rpAdv' = RpPruned(rpClock)
           /\ rpHeld' = RpUnexpired(rpHeld, rpClock)
           /\ rpReq' \in [RpWorks -> Nat] /\ \A v \in RpWorks : v # w => rpReq'[v] = rpReq[v]
           /\ rpLease' \in [RpWorks -> RpLeases \cup {RpNil}]
           /\ \A v \in RpWorks : v # w => rpLease'[v] = RpUnexpired(rpLease, rpClock)[v]
           /\ RpUnexpired(rpLease, rpClock)[w] # RpNil
                 => rpLease'[w] = RpUnexpired(rpLease, rpClock)[w]
           /\ \/ rpLease'[w] = RpNil /\ rpBusy' = rpBusy
                 /\ rpSubmit' = [work |-> w, at |-> "failed"]
              \/ rpBusy' = [by |-> "submit", work |-> w, todo |-> {}]
                 /\ rpSubmit' = [work |-> w, at |-> "placed"]
<1> DEFINE leases == RpUnexpired(rpLease, rpClock)
<1>1. /\ rpAdv' = RpPruned(rpClock)
      /\ rpHeld' = RpUnexpired(rpHeld, rpClock)
      /\ rpReq' = [rpReq EXCEPT ![w] = IF w \in rpDeclared THEN RpNeed[w] ELSE 0]
      /\ \/ /\ leases[w] = RpNil
            /\ rpLease' = leases /\ rpSubmit' = [work |-> w, at |-> "failed"]
            /\ UNCHANGED rpBusy
         \/ \E n \in RpAble(w) :
              /\ rpLease' = IF leases[w] # RpNil THEN leases
                            ELSE [leases EXCEPT ![w] = RpLeaseOn(n, rpClock)]
              /\ rpSubmit' = [work |-> w, at |-> "placed"]
              /\ rpBusy' = [by |-> "submit", work |-> w, todo |-> {}]
  BY DEF RpPlace
<1>2. rpReq' \in [RpWorks -> Nat] /\ \A v \in RpWorks : v # w => rpReq'[v] = rpReq[v]
  BY <1>1, RpAssumption DEF RpTyped
<1>3. leases \in [RpWorks -> RpLeases \cup {RpNil}]
  BY RpUnexpiredType DEF RpTyped
<1>4. RpAble(w) \subseteq RpNodes /\ rpClock \in Int
  BY RpNowInt DEF RpAble, RpTyped
<1> HIDE DEF leases
<1>5. CASE /\ leases[w] = RpNil
           /\ rpLease' = leases /\ rpSubmit' = [work |-> w, at |-> "failed"]
           /\ UNCHANGED rpBusy
  BY <1>1, <1>2, <1>3, <1>5 DEF leases
<1>6. CASE \E n \in RpAble(w) :
              /\ rpLease' = IF leases[w] # RpNil THEN leases
                            ELSE [leases EXCEPT ![w] = RpLeaseOn(n, rpClock)]
              /\ rpSubmit' = [work |-> w, at |-> "placed"]
              /\ rpBusy' = [by |-> "submit", work |-> w, todo |-> {}]
  <2>1. PICK n \in RpAble(w) :
              /\ rpLease' = IF leases[w] # RpNil THEN leases
                            ELSE [leases EXCEPT ![w] = RpLeaseOn(n, rpClock)]
              /\ rpSubmit' = [work |-> w, at |-> "placed"]
              /\ rpBusy' = [by |-> "submit", work |-> w, todo |-> {}]
    BY <1>6
  <2>2. RpLeaseOn(n, rpClock) \in RpLeases
    BY <1>4, RpLeaseOnType
  <2>3. /\ rpLease' \in [RpWorks -> RpLeases \cup {RpNil}]
        /\ \A v \in RpWorks : v # w => rpLease'[v] = leases[v]
        /\ leases[w] # RpNil => rpLease'[w] = leases[w]
    BY <2>1, <2>2, <1>3
  <2>4. QED
    BY <1>1, <1>2, <2>1, <2>3 DEF leases
<1>7. QED
  BY <1>1, <1>5, <1>6

(* Every step keeps the types and the places of the dispatcher and of the  *)
(* lock's holder.                                                          *)
LEMMA RpTypedStep == RpTyped /\ RpLockInv /\ [RpNext]_rpVars => RpTyped' /\ RpLockInv'
<1> SUFFICES ASSUME RpTyped, RpLockInv, [RpNext]_rpVars PROVE RpTyped' /\ RpLockInv'
  OBVIOUS
<1>1. ASSUME NEW m \in RpMessages, RpSent(m) PROVE RpTyped' /\ RpLockInv'
  BY <1>1 DEF RpSent, RpTyped, RpLockInv
<1>2. ASSUME NEW n \in RpNodes, NEW a \in RpAmounts, RpAdvertise(n, a) PROVE RpTyped' /\ RpLockInv'
  <2>1. RpAdvert(n, a, TRUE) \in RpMessages
    BY RpAssumption, RpNowInt DEF RpAdvert, RpMessages
  <2>2. QED
    BY <1>1, <1>2, <2>1 DEF RpAdvertise
<1>3. ASSUME NEW n \in RpNodes, RpWithdraw(n) PROVE RpTyped' /\ RpLockInv'
  <2>1. RpAdvert(n, 0, FALSE) \in RpMessages
    BY RpNowInt DEF RpAdvert, RpMessages
  <2>2. QED
    BY <1>1, <1>3, <2>1 DEF RpWithdraw
<1>4. ASSUME NEW m \in RpMessages, NEW now, RpRegister(m, now) PROVE RpTyped' /\ RpLockInv'
  <2>1. m.node \in RpNodes /\ m.free \in Nat
    BY DEF RpMessages
  <2>2. RpPruned(now) \in [RpNodes -> RpMessages \cup {RpNil}]
    BY RpPrunedType
  <2>3. RpStored(RpPruned(now), m) \in [RpNodes -> RpMessages \cup {RpNil}]
    BY <2>1, <2>2 DEF RpStored
  <2>4. rpAdv' \in [RpNodes -> RpMessages \cup {RpNil}]
    BY <2>2, <2>3, <1>4 DEF RpRegister
  <2>5. rpBest' \in [RpNodes -> Nat]
    BY <2>1, <1>4 DEF RpRegister, RpTyped
  <2>6. QED
    BY <2>4, <2>5, <1>4 DEF RpRegister, RpTyped, RpLockInv
<1>5. ASSUME NEW a \in RpAmounts, RpPublishLocal(a) PROVE RpTyped' /\ RpLockInv'
  <2>1. RpAdvert(RpLocal, a, TRUE) \in RpMessages
    BY RpAssumption, RpNowInt DEF RpAdvert, RpMessages
  <2>2. QED
    BY <1>4, <1>5, <2>1 DEF RpPublishLocal
<1>6. ASSUME RpEnsureReserved PROVE RpTyped' /\ RpLockInv'
  <2>1. PICK w \in RpWorks : w = rpBusy.work
    BY <1>6 DEF RpEnsureReserved, RpTyped, RpHolders
  <2>2. UNCHANGED <<rpClock, rpNet, rpUp, rpAdv, rpDeclared, rpReq, rpActive, rpScan,
                    rpSeen, rpStray, rpBest>>
    BY <1>6 DEF RpEnsureReserved
  <2>a. rpBusy.by \notin {RpNone, "scan", "move"} /\ rpScan = RpNoScan
    BY <2>1, RpAssumption DEF RpLockInv
  <2>b. ASSUME rpBusy' = [rpBusy EXCEPT !.work = RpNone]
        PROVE  /\ rpBusy' \in RpHolders /\ rpBusy'.by = rpBusy.by /\ rpBusy'.work = RpNone
               /\ rpBusy'.todo = rpBusy.todo
    BY <2>b DEF RpTyped, RpHolders
  <2>3. CASE /\ rpBusy' = [rpBusy EXCEPT !.work = RpNone]
             /\ UNCHANGED <<rpSubmit, rpLease, rpRefused, rpHeld>>
    BY <2>2, <2>3, <2>a, <2>b DEF RpTyped, RpLockInv
  <2>4. CASE /\ rpLease[w] # RpNil
             /\ RpReserve(w, rpLease[w].node)
             /\ rpBusy' = [rpBusy EXCEPT !.work = RpNone]
             /\ UNCHANGED <<rpSubmit, rpLease, rpRefused>>
    <3>1. [node |-> rpLease[w].node, exp |-> rpLease[w].exp, amount |-> rpReq[w]]
             \in RpReservations
      BY <2>1, <2>4 DEF RpTyped, RpLeases, RpReservations
    <3>2. rpHeld' \in [RpWorks -> RpReservations \cup {RpNil}]
      BY <2>4, <3>1 DEF RpReserve, RpTyped
    <3>3. QED
      BY <2>2, <2>4, <3>2, <2>a, <2>b DEF RpTyped, RpLockInv
  <2>5. CASE /\ rpLease[w] # RpNil
             /\ RpReassign(w, rpLease[w].exp - RpLeaseTime, rpHeld)
             /\ UNCHANGED <<rpBusy, rpSubmit>>
    <3>1. rpLease[w].exp - RpLeaseTime \in Int
      BY <2>1, <2>5, RpAssumption DEF RpTyped, RpLeases
    <3>2. /\ rpHeld' = rpHeld /\ rpLease' \in [RpWorks -> RpLeases \cup {RpNil}]
          /\ rpRefused' \in [RpWorks -> SUBSET RpNodes]
      BY <2>1, <2>5, <3>1, RpReassignType
    <3>3. QED
      BY <2>2, <2>5, <3>2 DEF RpTyped, RpLockInv
  <2>6. CASE /\ rpBusy' = RpIdle
             /\ rpSubmit' = IF rpBusy.by = "submit" THEN [rpSubmit EXCEPT !.at = "failed"]
                            ELSE rpSubmit
             /\ UNCHANGED <<rpLease, rpRefused, rpHeld>>
    <3>1. rpBusy' \in RpHolders
      BY <2>6 DEF RpIdle, RpHolders
    <3>2. /\ rpSubmit' \in [work : RpWorks \cup {RpNone},
                            at : {RpNone, "declared", "placed", "failed"}]
          /\ rpSubmit'.at # RpNone => rpSubmit'.work \in RpWorks
      BY <2>6 DEF RpTyped, RpLockInv, RpNone
    <3>3. QED
      BY <2>2, <2>6, <2>a, <3>1, <3>2 DEF RpTyped, RpLockInv, RpIdle, RpNone
  <2>7. QED
    BY <1>6, <2>1, <2>3, <2>4, <2>5, <2>6 DEF RpEnsureReserved
<1>7. ASSUME NEW w \in RpWorks, RpDeclare(w) PROVE RpTyped' /\ RpLockInv'
  <2>1. rpBusy.by # "submit"
    BY <1>7, RpAssumption DEF RpDeclare, RpLockInv, RpNone
  <2>2. QED
    BY <1>7, <2>1 DEF RpDeclare, RpTyped, RpLockInv
<1>8. ASSUME NEW w \in RpWorks, RpPlace(w) PROVE RpTyped' /\ RpLockInv'
  <2>1. UNCHANGED <<rpClock, rpNet, rpUp, rpRefused, rpActive, rpScan, rpStray, rpBest>>
    BY <1>8 DEF RpPlace
  <2>a. rpBusy = RpIdle /\ RpIdle.by = RpNone /\ rpScan = RpNoScan
    BY <1>8 DEF RpPlace, RpFree, RpIdle, RpLockInv, RpNone
  <2>2. CASE w \in rpActive
    <3>1. /\ rpSubmit' = [work |-> w, at |-> "failed"]
          /\ UNCHANGED <<rpAdv, rpDeclared, rpReq, rpLease, rpHeld, rpBusy, rpSeen>>
      BY <1>8, <2>2 DEF RpPlace
    <3>2. QED
      BY <2>1, <2>a, <3>1 DEF RpTyped, RpLockInv, RpNone
  <2>3. CASE w \notin rpActive
    <3>1. /\ rpSeen' = IF rpClock > rpSeen THEN rpClock ELSE rpSeen
          /\ rpDeclared' = rpDeclared \ {w}
      BY <1>8, <2>3 DEF RpPlace
    <3>2. rpSeen' \in Int
      BY <3>1, RpNowInt DEF RpTyped
    <3>3. rpAdv' \in [RpNodes -> RpMessages \cup {RpNil}]
      BY <1>8, <2>3, RpPlaceEffect, RpPrunedType
    <3>4. rpHeld' \in [RpWorks -> RpReservations \cup {RpNil}]
      <4>1. rpHeld' = RpUnexpired(rpHeld, rpClock)
        BY <1>8, <2>3, RpPlaceEffect
      <4>2. QED
        BY <4>1, RpUnexpiredType DEF RpTyped
    <3>5. /\ rpReq' \in [RpWorks -> Nat]
          /\ rpLease' \in [RpWorks -> RpLeases \cup {RpNil}]
          /\ \/ rpBusy' = rpBusy /\ rpSubmit' = [work |-> w, at |-> "failed"]
             \/ rpBusy' = [by |-> "submit", work |-> w, todo |-> {}]
                /\ rpSubmit' = [work |-> w, at |-> "placed"]
      BY <1>8, <2>3, RpPlaceEffect
    <3>6. rpBusy' \in RpHolders
      BY <3>5 DEF RpTyped, RpHolders
    <3>7. RpTyped'
      BY <2>1, <3>1, <3>2, <3>3, <3>4, <3>5, <3>6 DEF RpTyped
    <3>8. RpLockInv'
      BY <2>1, <2>a, <3>5 DEF RpLockInv, RpNone, RpIdle
    <3>9. QED
      BY <3>7, <3>8
  <2>4. QED
    BY <2>2, <2>3
<1>9. ASSUME NEW w \in RpWorks, RpComplete(w) PROVE RpTyped' /\ RpLockInv'
  BY <1>9 DEF RpComplete, RpTyped, RpLockInv
<1>10. ASSUME NEW p \in BOOLEAN, RpSubmitted(p) PROVE RpTyped' /\ RpLockInv'
  <2>1. rpSubmit.work \in RpWorks
    BY <1>10 DEF RpSubmitted, RpLockInv, RpNone
  <2>2. /\ rpBusy' = RpIdle /\ rpBusy.by = "submit"
        /\ UNCHANGED <<rpClock, rpNet, rpUp, rpAdv, rpDeclared, rpScan, rpSeen, rpStray, rpBest>>
    BY <1>10 DEF RpSubmitted
  <2>3. /\ rpActive' \subseteq RpWorks
        /\ \/ rpSubmit' = [work |-> RpNone, at |-> RpNone]
           \/ rpSubmit' = [rpSubmit EXCEPT !.at = "failed"]
    BY <1>10, <2>1 DEF RpSubmitted, RpTyped
  <2>4. /\ rpLease' \in [RpWorks -> RpLeases \cup {RpNil}]
        /\ rpHeld' \in [RpWorks -> RpReservations \cup {RpNil}]
        /\ rpReq' \in [RpWorks -> Nat] /\ rpRefused' \in [RpWorks -> SUBSET RpNodes]
    BY <1>10, <2>1 DEF RpSubmitted, RpTyped
  <2>5. rpBusy' \in RpHolders
    BY <2>2 DEF RpIdle, RpHolders
  <2>6. /\ rpSubmit' \in [work : RpWorks \cup {RpNone},
                          at : {RpNone, "declared", "placed", "failed"}]
        /\ rpSubmit'.at # RpNone => rpSubmit'.work \in RpWorks
    BY <2>1, <2>3 DEF RpTyped, RpNone
  <2>7. QED
    BY <2>2, <2>3, <2>4, <2>5, <2>6 DEF RpTyped, RpLockInv, RpIdle, RpNone
<1>11. ASSUME RpCancel PROVE RpTyped' /\ RpLockInv'
  <2>1. /\ rpDeclared' \subseteq RpWorks /\ rpReq' \in [RpWorks -> Nat]
        /\ rpHeld' \in [RpWorks -> RpReservations \cup {RpNil}]
    BY <1>11 DEF RpCancel, RpTyped
  <2>2. QED
    BY <1>11, <2>1 DEF RpCancel, RpTyped, RpLockInv, RpNone
<1>12. ASSUME NEW w \in RpWorks, NEW now \in RpNows, RpRefuse(w, now) PROVE RpTyped' /\ RpLockInv'
  <2>1. now \in Int
    BY RpNowInt
  <2>2. rpSeen' \in Int
    BY <1>12, <2>1 DEF RpRefuse, RpTyped
  <2>3. rpAdv' \in [RpNodes -> RpMessages \cup {RpNil}]
    BY <1>12, RpPrunedType DEF RpRefuse
  <2>4. /\ rpHeld' = [RpUnexpired(rpHeld, now) EXCEPT ![w] = RpNil]
        /\ rpLease' \in [RpWorks -> RpLeases \cup {RpNil}]
        /\ rpRefused' \in [RpWorks -> SUBSET RpNodes]
    BY <1>12, <2>1, RpReassignType DEF RpRefuse
  <2>5. rpHeld' \in [RpWorks -> RpReservations \cup {RpNil}]
    BY <2>4, RpUnexpiredType DEF RpTyped
  <2>6. /\ rpBusy' = [by |-> "refuse", work |-> w, todo |-> {}]
        /\ rpStray' \subseteq rpStray /\ rpBusy = RpIdle
        /\ UNCHANGED <<rpClock, rpNet, rpUp, rpDeclared, rpReq, rpActive, rpSubmit, rpScan, rpBest>>
    BY <1>12 DEF RpRefuse, RpFree
  <2>7. rpBusy' \in RpHolders
    BY <2>6 DEF RpHolders
  <2>8. rpScan = RpNoScan
    BY <2>6 DEF RpLockInv, RpIdle, RpNone
  <2>9. RpTyped'
    BY <2>2, <2>3, <2>4, <2>5, <2>6, <2>7 DEF RpTyped
  <2>10. QED
    BY <2>6, <2>8, <2>9 DEF RpLockInv, RpNone
<1>13. ASSUME NEW now \in RpNows, RpRecover(now) PROVE RpTyped' /\ RpLockInv'
  <2>1. now \in Int
    BY RpNowInt
  <2>2. rpSeen' \in Int
    BY <1>13, <2>1 DEF RpRecover, RpTyped
  <2>3. rpAdv' \in [RpNodes -> RpMessages \cup {RpNil}]
    BY <1>13, RpPrunedType DEF RpRecover
  <2>4. rpHeld' \in [RpWorks -> RpReservations \cup {RpNil}]
    BY <1>13, RpUnexpiredType DEF RpRecover, RpTyped
  <2>5. rpScan' \in RpScans
    <3>1. PICK A \in SUBSET RpWorks : rpScan' = [now |-> now, failed |-> {}, affected |-> A]
      BY <1>13 DEF RpRecover
    <3>2. QED
      BY <2>1, <3>1 DEF RpScans
  <2>6. rpBusy' = [by |-> "scan", work |-> RpNone, todo |-> {}]
    BY <1>13 DEF RpRecover, RpFree, RpIdle
  <2>7. rpBusy' \in RpHolders
    BY <2>6 DEF RpHolders
  <2>8. UNCHANGED <<rpClock, rpNet, rpUp, rpDeclared, rpReq, rpLease, rpRefused, rpActive,
                    rpSubmit, rpStray, rpBest>>
    BY <1>13 DEF RpRecover
  <2>9. RpTyped'
    BY <2>2, <2>3, <2>4, <2>5, <2>7, <2>8 DEF RpTyped
  <2>10. QED
    BY <2>6, <2>8, <2>9 DEF RpLockInv
<1>a. ASSUME RpRescan PROVE RpTyped' /\ RpLockInv'
  <2>1. rpScan' \in RpScans
    BY <1>a DEF RpRescan, RpTyped, RpScans
  <2>2. /\ rpBusy' \in RpHolders /\ rpBusy'.by = "move"
        /\ rpBusy'.work = rpBusy.work /\ rpBusy'.todo = rpBusy.todo /\ rpBusy.by = "scan"
    BY <1>a DEF RpRescan, RpTyped, RpHolders
  <2>3. RpTyped'
    BY <1>a, <2>1, <2>2 DEF RpRescan, RpTyped
  <2>4. rpSubmit' = rpSubmit
    BY <1>a DEF RpRescan
  <2>5. QED
    BY <2>2, <2>3, <2>4 DEF RpLockInv
<1>b. ASSUME RpMove PROVE RpTyped' /\ RpLockInv'
  <2>1. /\ rpLease' \in [RpWorks -> RpLeases \cup {RpNil}]
        /\ rpRefused' \in [RpWorks -> SUBSET RpNodes] /\ rpUp' \subseteq RpNodes
    BY <1>b, RpMoveEffect
  <2>2. PICK lost \in SUBSET RpWorks :
          /\ rpStray' = IF lost = rpScan.affected THEN rpStray \ lost
                        ELSE rpStray \cup lost \cup rpScan.affected
          /\ \/ lost # rpScan.affected /\ rpBusy' = RpIdle
             \/ \E pair \in [rpScan.affected -> lost] :
                  /\ lost = rpScan.affected => \A w \in lost : pair[w] = w
                  /\ rpBusy' = [by |-> "recover", work |-> RpNone,
                                todo |-> {<<w, pair[w]>> : w \in rpScan.affected}]
    BY <1>b, RpMoveEffect
  <2>3. rpScan.affected \subseteq RpWorks /\ rpStray \subseteq RpWorks
    BY DEF RpTyped, RpScans
  <2>4. rpStray' \subseteq RpWorks
    BY <2>2, <2>3
  <2>5. /\ rpBusy' \in RpHolders /\ rpBusy'.by \in {RpNone, "recover"} /\ rpBusy'.work = RpNone
        /\ rpBusy'.by # "recover" => rpBusy'.todo = {}
    <3>1. CASE rpBusy' = RpIdle
      BY <3>1 DEF RpIdle, RpHolders, RpNone
    <3>2. ASSUME NEW pair \in [rpScan.affected -> lost],
                 rpBusy' = [by |-> "recover", work |-> RpNone,
                            todo |-> {<<w, pair[w]>> : w \in rpScan.affected}]
          PROVE  rpBusy' \in RpHolders /\ rpBusy'.by = "recover" /\ rpBusy'.work = RpNone
      <4>1. {<<w, pair[w]>> : w \in rpScan.affected} \subseteq RpWorks \X RpWorks
        BY <2>3
      <4>2. QED
        BY <3>2, <4>1 DEF RpHolders
    <3>3. QED
      BY <2>2, <3>1, <3>2
  <2>6. /\ rpScan' = RpNoScan
        /\ UNCHANGED <<rpClock, rpNet, rpAdv, rpDeclared, rpReq, rpHeld, rpActive, rpSubmit,
                       rpSeen, rpBest>>
    BY <1>b DEF RpMove
  <2>7. rpScan' \in RpScans
    BY <2>6 DEF RpNoScan, RpScans
  <2>8. RpTyped'
    BY <2>1, <2>4, <2>5, <2>6, <2>7 DEF RpTyped
  <2>9. QED
    BY <2>5, <2>6, <2>8 DEF RpLockInv, RpNone
<1>14. ASSUME RpRecoverNext PROVE RpTyped' /\ RpLockInv'
  <2>1. PICK p \in rpBusy.todo :
          /\ IF rpLease[p[2]] # RpNil /\ ~RpMeets(p[2], rpLease[p[2]].node)
             THEN RpReassign(p[2], rpLease[p[2]].exp - RpLeaseTime, [rpHeld EXCEPT ![p[1]] = RpNil])
             ELSE rpHeld' = [rpHeld EXCEPT ![p[1]] = RpNil] /\ UNCHANGED <<rpLease, rpRefused>>
          /\ rpBusy' = [rpBusy EXCEPT !.work = p[2], !.todo = @ \ {p}]
    BY <1>14 DEF RpRecoverNext
  <2>2. PICK w \in RpWorks : w = p[2]
    BY DEF RpTyped, RpHolders
  <2>3. rpLease[w] # RpNil => rpLease[w].exp - RpLeaseTime \in Int
    BY <2>2, RpAssumption DEF RpTyped, RpLeases
  <2>4. /\ rpHeld' = [rpHeld EXCEPT ![p[1]] = RpNil]
        /\ rpLease' \in [RpWorks -> RpLeases \cup {RpNil}]
        /\ rpRefused' \in [RpWorks -> SUBSET RpNodes]
    BY <2>1, <2>2, <2>3, RpReassignType DEF RpTyped
  <2>5. UNCHANGED <<rpClock, rpNet, rpUp, rpAdv, rpDeclared, rpReq, rpActive, rpSubmit, rpScan,
                    rpSeen, rpStray, rpBest>>
    BY <1>14 DEF RpRecoverNext
  <2>6. rpHeld' \in [RpWorks -> RpReservations \cup {RpNil}]
    BY <2>4 DEF RpTyped
  <2>7. rpBusy' \in RpHolders /\ rpBusy'.by = "recover" /\ rpScan = RpNoScan
    <3>1. rpBusy.by = "recover"
      BY <1>14 DEF RpRecoverNext
    <3>2. rpScan = RpNoScan
      BY <3>1 DEF RpLockInv
    <3>3. QED
      BY <2>1, <2>2, <3>1, <3>2 DEF RpTyped, RpHolders
  <2>8. RpTyped'
    BY <2>4, <2>5, <2>6, <2>7 DEF RpTyped
  <2>9. QED
    BY <2>5, <2>7, <2>8 DEF RpLockInv, RpNone
<1>15. ASSUME RpUnlock PROVE RpTyped' /\ RpLockInv'
  <2>1. rpBusy' \in RpHolders
    BY <1>15 DEF RpUnlock, RpIdle, RpHolders
  <2>2. RpTyped'
    BY <1>15, <2>1 DEF RpUnlock, RpTyped
  <2>3. QED
    BY <1>15, <2>2 DEF RpUnlock, RpLockInv, RpIdle, RpNone
<1>16. ASSUME NEW n \in RpNodes, RpAvailability(n) PROVE RpTyped' /\ RpLockInv'
  BY <1>16 DEF RpAvailability, RpTyped, RpLockInv
<1>17. ASSUME RpTick PROVE RpTyped' /\ RpLockInv'
  BY <1>17, RpAssumption DEF RpTick, RpTyped, RpLockInv
<1>18. ASSUME UNCHANGED rpVars PROVE RpTyped' /\ RpLockInv'
  BY <1>18 DEF rpVars, RpTyped, RpLockInv
<1>19. rpNet \subseteq RpMessages
  BY DEF RpTyped
<1>20. QED
  BY <1>2, <1>3, <1>4, <1>5, <1>6, <1>7, <1>8, <1>9, <1>10, <1>11, <1>12, <1>13, <1>a, <1>b,
     <1>14, <1>15, <1>16, <1>17, <1>18, <1>19 DEF RpNext

-----------------------------------------------------------------------------
(* Advertisements.                                                         *)

(* What is stored of a node is what it said at some time, and no more than *)
(* the most it ever said.                                                  *)
LEMMA RpAdvStep == RpTyped /\ RpAdvInv /\ [RpNext]_rpVars => RpAdvInv'
<1> SUFFICES ASSUME RpTyped, RpAdvInv, [RpNext]_rpVars PROVE RpAdvInv'
  OBVIOUS
<1>1. ASSUME NEW now, rpAdv' = RpPruned(now) \/ rpAdv' = rpAdv, rpBest' = rpBest PROVE RpAdvInv'
  BY <1>1, RpPrunedType DEF RpAdvInv
<1>2. ASSUME NEW m \in RpMessages, NEW now, RpRegister(m, now) PROVE RpAdvInv'
  <2>1. m.node \in RpNodes /\ m.free \in Nat /\ rpBest \in [RpNodes -> Nat]
    BY DEF RpMessages, RpTyped
  <2>2. rpBest' = [rpBest EXCEPT ![m.node] = IF m.free > @ THEN m.free ELSE @]
    BY <1>2 DEF RpRegister
  <2>3. /\ m.free <= rpBest'[m.node]
        /\ \A n \in RpNodes : rpBest[n] <= rpBest'[n] /\ rpBest[n] \in Nat /\ rpBest'[n] \in Nat
    BY <2>1, <2>2
  <2>4. ASSUME NEW n \in RpNodes, rpAdv'[n] # RpNil
        PROVE  rpAdv'[n].node = n /\ rpAdv'[n].free <= rpBest'[n]
    <3>1. CASE rpAdv'[n] = rpAdv[n]
      <4>1. rpAdv[n].node = n /\ rpAdv[n].free <= rpBest[n]
        BY <2>4, <3>1 DEF RpAdvInv
      <4>2. rpAdv[n].free \in Nat
        BY <2>4, <3>1 DEF RpTyped, RpMessages
      <4>3. QED
        BY <3>1, <4>1, <4>2, <2>3
    <3>2. CASE rpAdv'[n] # rpAdv[n]
      <4>1. RpPruned(now) \in [RpNodes -> RpMessages \cup {RpNil}]
            /\ (RpPruned(now)[n] = rpAdv[n] \/ RpPruned(now)[n] = RpNil)
        BY RpPrunedType
      <4>2. rpAdv' = RpStored(RpPruned(now), m)
        BY <1>2, <2>4, <3>2, <4>1 DEF RpRegister
      <4>3. rpAdv'[n] = m /\ n = m.node
        BY <2>1, <2>4, <3>2, <4>1, <4>2 DEF RpStored
      <4>4. QED
        BY <4>3, <2>3
    <3>3. QED
      BY <3>1, <3>2
  <2>5. QED
    BY <2>4 DEF RpAdvInv
<1>3. ASSUME NEW a \in RpAmounts, RpPublishLocal(a) PROVE RpAdvInv'
  <2>1. RpAdvert(RpLocal, a, TRUE) \in RpMessages
    BY RpAssumption, RpNowInt DEF RpAdvert, RpMessages
  <2>2. QED
    BY <1>2, <1>3, <2>1 DEF RpPublishLocal
<1>4. ASSUME NEW w \in RpWorks, RpPlace(w) PROVE RpAdvInv'
  BY <1>1, <1>4 DEF RpPlace
<1>5. CASE UNCHANGED <<rpAdv, rpBest>>
  BY <1>1, <1>5
<1>6. rpNet \subseteq RpMessages
  BY DEF RpTyped
<1>7. CASE \E m \in rpNet, now \in RpNows : RpRegister(m, now)
  BY <1>2, <1>6, <1>7
<1>8. CASE \E w \in RpWorks, now \in RpNows : RpRefuse(w, now)
  BY <1>1, <1>8 DEF RpRefuse
<1>9. CASE \E now \in RpNows : RpRecover(now)
  BY <1>1, <1>9 DEF RpRecover
<1>10. CASE \E n \in RpNodes : (\E a \in RpAmounts : RpAdvertise(n, a)) \/ RpWithdraw(n)
                                \/ RpAvailability(n)
  BY <1>5, <1>10 DEF RpAdvertise, RpWithdraw, RpSent, RpAvailability
<1>11. CASE \/ RpEnsureReserved \/ \E w \in RpWorks : RpDeclare(w) \/ RpComplete(w)
            \/ \E p \in BOOLEAN : RpSubmitted(p)
  BY <1>5, <1>11 DEF RpEnsureReserved, RpDeclare, RpComplete, RpSubmitted
<1>12. CASE \/ RpCancel \/ RpRescan \/ RpMove \/ RpRecoverNext \/ RpUnlock \/ RpTick
            \/ UNCHANGED rpVars
  BY <1>5, <1>12 DEF RpCancel, RpRescan, RpMove, RpRecoverNext, RpUnlock, RpTick, rpVars
<1>13. QED
  BY <1>3, <1>4, <1>7, <1>8, <1>9, <1>10, <1>11, <1>12 DEF RpNext

-----------------------------------------------------------------------------
(* Leases and reservations.                                                *)

(* Pruning leases and ledger by one time, which the service has then seen, *)
(* keeps both halves; so does pruning the ledger alone.                    *)
LEMMA RpPruneOf ==
    ASSUME RpTyped, NEW now \in Int, NEW w \in RpWorks, RpHeldOf(w), RpDueOf(w),
           rpHeld'[w] = RpUnexpired(rpHeld, now)[w],
           rpLease'[w] \in {rpLease[w], RpUnexpired(rpLease, now)[w]},
           rpReq'[w] = rpReq[w], rpSeen' \in Int, now <= rpSeen', rpSeen <= rpSeen'
    PROVE  RpHeldOf(w)' /\ RpDueOf(w)'
<1>1. /\ rpHeld[w] \in RpReservations \cup {RpNil} /\ rpLease[w] \in RpLeases \cup {RpNil}
      /\ rpSeen \in Int
  BY DEF RpTyped
<1>2. /\ rpLease[w] # RpNil => rpLease[w].exp \in Int
      /\ rpHeld[w] # RpNil => rpHeld[w].exp \in Int
  BY <1>1 DEF RpReservations, RpLeases
<1>3. \/ rpHeld[w] # RpNil /\ rpHeld[w].exp > now /\ rpHeld'[w] = rpHeld[w]
      \/ ~(rpHeld[w] # RpNil /\ rpHeld[w].exp > now) /\ rpHeld'[w] = RpNil
  BY RpUnexpiredAt
<1>4. \/ rpLease'[w] = rpLease[w]
      \/ ~(rpLease[w] # RpNil /\ rpLease[w].exp > now) /\ rpLease'[w] = RpNil
  <2>1. RpUnexpired(rpLease, now)[w] = IF rpLease[w] # RpNil /\ rpLease[w].exp > now
                                       THEN rpLease[w] ELSE RpNil
    BY RpUnexpiredAt
  <2>2. QED
    BY <2>1
<1>5. RpHeldOf(w)'
  BY <1>2, <1>3, <1>4 DEF RpHeldOf
<1>6. RpDueOf(w)'
  BY <1>1, <1>2, <1>3, <1>4 DEF RpHeldOf, RpDueOf
<1>7. QED
  BY <1>5, <1>6

(* Every step keeps a leased work active or in submission: a raise during  *)
(* a submission would end it, and there is no reservation to raise for.    *)
LEMMA RpOwnStep ==
    RpTyped /\ RpLockInv /\ RpPassInv /\ RpOwnInv /\ [RpNext]_rpVars => RpOwnInv'
<1> SUFFICES ASSUME RpTyped, RpLockInv, RpPassInv, RpOwnInv, [RpNext]_rpVars PROVE RpOwnInv'
  OBVIOUS
<1>1. ASSUME \A v \in RpWorks : rpLease'[v] # RpNil => rpLease[v] # RpNil,
             UNCHANGED <<rpActive, rpSubmit>>, rpBusy.by = "submit" => rpBusy'.by = "submit"
      PROVE  RpOwnInv'
  BY <1>1 DEF RpOwnInv
<1>2. ASSUME \A v \in RpWorks : rpLease'[v] # RpNil => rpLease[v] # RpNil,
             rpActive' = rpActive,
             rpBusy.by # "submit" \/ rpSubmit.at # "placed" \/ rpSubmit.work \notin RpWorks
      PROVE  RpOwnInv'
  BY <1>2 DEF RpOwnInv
<1>3. RpFree => rpBusy.by # "submit"
  BY DEF RpFree, RpIdle, RpNone
<1>4. CASE RpEnsureReserved
  <2>1. PICK w \in RpWorks : w = rpBusy.work
    BY <1>4 DEF RpEnsureReserved, RpTyped, RpHolders
  <2>2. rpActive' = rpActive
    BY <1>4 DEF RpEnsureReserved
  <2>3. CASE rpBusy' = [rpBusy EXCEPT !.work = RpNone] /\ UNCHANGED <<rpSubmit, rpLease>>
    <3>1. rpBusy'.by = rpBusy.by
      BY <2>3 DEF RpTyped, RpHolders
    <3>2. QED
      BY <1>1, <2>2, <2>3, <3>1
  <2>4. CASE /\ rpLease[w] # RpNil
             /\ RpReassign(w, rpLease[w].exp - RpLeaseTime, rpHeld)
             /\ UNCHANGED <<rpBusy, rpSubmit>>
    <3>1. rpLease[w].exp - RpLeaseTime \in Int
      BY <2>1, <2>4, RpAssumption DEF RpTyped, RpLeases
    <3>2. \A v \in RpWorks : v # w => rpLease'[v] = rpLease[v]
      BY <2>1, <2>4, <3>1, RpReassignType
    <3>3. QED
      BY <1>1, <2>2, <2>4, <3>2
  <2>5. CASE rpHeld[w] # RpNil /\ UNCHANGED rpLease
    <3>1. rpBusy.by = "recover"
      BY <2>1, <2>5 DEF RpPassInv
    <3>2. QED
      BY <1>2, <2>2, <2>5, <3>1
  <2>6. QED
    BY <1>4, <2>1, <2>3, <2>4, <2>5 DEF RpEnsureReserved
<1>5. ASSUME NEW w \in RpWorks, RpPlace(w) PROVE RpOwnInv'
  <2>1. rpBusy.by # "submit" /\ rpActive' = rpActive
    BY <1>3, <1>5 DEF RpPlace
  <2>2. CASE w \in rpActive
    <3>1. rpLease' = rpLease
      BY <1>5, <2>2 DEF RpPlace
    <3>2. QED
      BY <1>2, <2>1, <3>1
  <2>3. CASE w \notin rpActive
    <3>1. /\ \A v \in RpWorks : v # w => rpLease'[v] = RpUnexpired(rpLease, rpClock)[v]
          /\ \/ rpLease'[w] = RpNil
             \/ rpBusy' = [by |-> "submit", work |-> w, todo |-> {}]
                /\ rpSubmit' = [work |-> w, at |-> "placed"]
      BY <1>5, <2>3, RpPlaceEffect
    <3>2. ASSUME NEW v \in RpWorks, v # w, rpLease'[v] # RpNil PROVE v \in rpActive
      <4>1. rpLease[v] # RpNil
        BY <3>1, <3>2, RpUnexpiredAt
      <4>2. QED
        BY <2>1, <4>1 DEF RpOwnInv
    <3>3. QED
      BY <2>1, <3>1, <3>2 DEF RpOwnInv
  <2>4. QED
    BY <2>2, <2>3
<1>6. ASSUME NEW w \in RpWorks, RpComplete(w) PROVE RpOwnInv'
  <2>1. /\ rpLease' = [rpLease EXCEPT ![w] = RpNil] /\ rpActive' = rpActive \ {w}
        /\ rpBusy.by # "submit"
    BY <1>3, <1>6 DEF RpComplete
  <2>2. \A v \in RpWorks : rpLease'[v] # RpNil => v # w /\ rpLease[v] # RpNil
    BY <2>1 DEF RpTyped
  <2>3. QED
    BY <2>1, <2>2 DEF RpOwnInv
<1>7. ASSUME NEW p \in BOOLEAN, RpSubmitted(p) PROVE RpOwnInv'
  <2>1. PICK w \in RpWorks : w = rpSubmit.work
    BY <1>7 DEF RpSubmitted, RpLockInv, RpNone
  <2>2. ASSUME NEW v \in RpWorks, v # w, rpLease[v] # RpNil PROVE v \in rpActive
    <3>1. rpSubmit # [work |-> v, at |-> "placed"]
      BY <2>1, <2>2
    <3>2. QED
      BY <2>2, <3>1 DEF RpOwnInv
  <2>3. CASE rpActive' = rpActive \cup {w} /\ rpLease' = rpLease
    BY <2>2, <2>3 DEF RpOwnInv
  <2>4. CASE rpActive' = rpActive /\ rpLease' = [rpLease EXCEPT ![w] = RpNil]
    <3>1. \A v \in RpWorks : rpLease'[v] # RpNil => v # w /\ rpLease[v] # RpNil
      BY <2>1, <2>4 DEF RpTyped
    <3>2. QED
      BY <2>2, <2>4, <3>1 DEF RpOwnInv
  <2>5. QED
    BY <1>7, <2>1, <2>3, <2>4 DEF RpSubmitted
<1>8. CASE RpCancel
  BY <1>2, <1>8 DEF RpCancel
<1>9. ASSUME NEW w \in RpWorks, NEW now \in RpNows, RpRefuse(w, now) PROVE RpOwnInv'
  <2>1. now \in Int
    BY RpNowInt
  <2>2. \A v \in RpWorks : v # w => rpLease'[v] = rpLease[v]
    BY <1>9, <2>1, RpReassignType DEF RpRefuse
  <2>3. rpActive' = rpActive /\ rpLease[w] # RpNil /\ rpBusy.by # "submit"
    BY <1>3, <1>9 DEF RpRefuse
  <2>4. QED
    BY <1>2, <2>2, <2>3
<1>10. CASE \E now \in RpNows : RpRecover(now)
  BY <1>2, <1>3, <1>10 DEF RpRecover
<1>11. CASE RpMove
  <2>1. \A v \in RpWorks : rpLease'[v] # RpNil => rpLease[v] # RpNil
    BY <1>11, RpMoveEffect, RpUnexpiredAt
  <2>2. rpActive' = rpActive /\ rpBusy.by # "submit"
    BY <1>11 DEF RpMove
  <2>3. QED
    BY <1>2, <2>1, <2>2
<1>12. CASE RpRecoverNext
  <2>1. PICK p \in rpBusy.todo :
          IF rpLease[p[2]] # RpNil /\ ~RpMeets(p[2], rpLease[p[2]].node)
          THEN RpReassign(p[2], rpLease[p[2]].exp - RpLeaseTime, [rpHeld EXCEPT ![p[1]] = RpNil])
          ELSE UNCHANGED rpLease
    BY <1>12 DEF RpRecoverNext
  <2>2. PICK w \in RpWorks : w = p[2]
    BY DEF RpTyped, RpHolders
  <2>3. rpLease[w] # RpNil => rpLease[w].exp - RpLeaseTime \in Int
    BY <2>2, RpAssumption DEF RpTyped, RpLeases
  <2>4. \A v \in RpWorks : rpLease'[v] # RpNil => rpLease[v] # RpNil
    BY <2>1, <2>2, <2>3, RpReassignType
  <2>5. rpActive' = rpActive /\ rpBusy.by # "submit"
    BY <1>12 DEF RpRecoverNext
  <2>6. QED
    BY <1>2, <2>4, <2>5
<1>13. CASE \/ RpRescan \/ RpUnlock
  BY <1>2, <1>13 DEF RpRescan, RpUnlock
<1>14. CASE \E w \in RpWorks : RpDeclare(w)
  <2>1. rpSubmit.work \notin RpWorks /\ UNCHANGED <<rpLease, rpActive>>
    BY <1>14, RpAssumption DEF RpDeclare
  <2>2. QED
    BY <1>2, <2>1
<1>15. CASE \E n \in RpNodes : (\E a \in RpAmounts : RpAdvertise(n, a)) \/ RpWithdraw(n)
                                \/ RpAvailability(n)
  BY <1>1, <1>15 DEF RpAdvertise, RpWithdraw, RpSent, RpAvailability
<1>16. CASE \E m \in rpNet, now \in RpNows : RpRegister(m, now)
  BY <1>1, <1>16 DEF RpRegister
<1>17. CASE \E a \in RpAmounts : RpPublishLocal(a)
  BY <1>1, <1>17 DEF RpPublishLocal, RpRegister
<1>18. CASE RpTick \/ UNCHANGED rpVars
  BY <1>1, <1>18 DEF RpTick, rpVars
<1>19. QED
  BY <1>4, <1>5, <1>6, <1>7, <1>8, <1>9, <1>10, <1>11, <1>12, <1>13, <1>14, <1>15, <1>16, <1>17,
     <1>18 DEF RpNext

(* Every step keeps the works of a recovery active, and the ledger without *)
(* what expired before its scans.                                          *)
LEMMA RpScanStep ==
    RpTyped /\ RpLockInv /\ RpOwnInv /\ RpScanInv /\ [RpNext]_rpVars => RpScanInv'
<1> SUFFICES ASSUME RpTyped, RpLockInv, RpOwnInv, RpScanInv, [RpNext]_rpVars PROVE RpScanInv'
  OBVIOUS
<1>1. ASSUME UNCHANGED <<rpStray, rpScan, rpBusy, rpHeld>>, rpActive \subseteq rpActive'
      PROVE  RpScanInv'
  BY <1>1 DEF RpScanInv
<1>2. ASSUME UNCHANGED rpScan, rpStray' \subseteq rpStray, rpActive \subseteq rpActive',
             rpBusy'.by \notin {"scan", "move"}
      PROVE  RpScanInv'
  BY <1>2 DEF RpScanInv
<1>3. RpFree => rpBusy.by = RpNone /\ rpScan = RpNoScan
  BY DEF RpFree, RpIdle, RpNone, RpLockInv
<1>4. CASE RpEnsureReserved
  <2>1. rpBusy.by \notin {"scan", "move"}
    BY <1>4 DEF RpEnsureReserved, RpLockInv
  <2>2. rpBusy'.by \notin {"scan", "move"}
    <3>1. CASE rpBusy' = [rpBusy EXCEPT !.work = RpNone]
      BY <2>1, <3>1 DEF RpTyped, RpHolders
    <3>2. CASE rpBusy' = rpBusy \/ rpBusy' = RpIdle
      BY <2>1, <3>2 DEF RpIdle, RpNone
    <3>3. QED
      BY <1>4, <3>1, <3>2 DEF RpEnsureReserved
  <2>3. UNCHANGED <<rpScan, rpStray, rpActive>>
    BY <1>4 DEF RpEnsureReserved
  <2>4. QED
    BY <1>2, <2>2, <2>3
<1>5. ASSUME NEW w \in RpWorks, RpPlace(w) PROVE RpScanInv'
  <2>1. UNCHANGED <<rpScan, rpStray, rpActive>> /\ rpBusy.by = RpNone
    BY <1>3, <1>5 DEF RpPlace
  <2>2. rpBusy' = rpBusy \/ rpBusy' = [by |-> "submit", work |-> w, todo |-> {}]
    BY <1>5 DEF RpPlace
  <2>3. QED
    BY <1>2, <2>1, <2>2 DEF RpNone
<1>6. ASSUME NEW w \in RpWorks, RpComplete(w) PROVE RpScanInv'
  BY <1>3, <1>6 DEF RpComplete, RpScanInv, RpNoScan, RpNone
<1>7. ASSUME NEW p \in BOOLEAN, RpSubmitted(p) PROVE RpScanInv'
  <2>1. UNCHANGED <<rpScan, rpStray>> /\ rpActive \subseteq rpActive' /\ rpBusy' = RpIdle
    BY <1>7 DEF RpSubmitted
  <2>2. QED
    BY <1>2, <2>1 DEF RpIdle, RpNone
<1>8. CASE RpCancel
  <2>1. UNCHANGED <<rpScan, rpStray, rpActive, rpBusy>>
    BY <1>8 DEF RpCancel
  <2>2. rpHeld' = rpHeld \/ \E w : rpHeld' = [rpHeld EXCEPT ![w] = RpNil]
    BY <1>8 DEF RpCancel
  <2>3. \A v \in RpWorks : rpHeld'[v] = rpHeld[v] \/ rpHeld'[v] = RpNil
    BY <2>2 DEF RpTyped
  <2>4. QED
    BY <2>1, <2>3 DEF RpScanInv
<1>9. CASE \E w \in RpWorks, now \in RpNows : RpRefuse(w, now)
  <2>1. /\ UNCHANGED <<rpScan, rpActive>> /\ rpStray' \subseteq rpStray
        /\ \E w : rpBusy' = [by |-> "refuse", work |-> w, todo |-> {}]
    BY <1>9 DEF RpRefuse
  <2>2. QED
    BY <1>2, <2>1
<1>10. ASSUME NEW now \in RpNows, RpRecover(now) PROVE RpScanInv'
  <2>1. /\ UNCHANGED <<rpActive, rpStray>> /\ rpBusy.by = RpNone
        /\ rpHeld' = RpUnexpired(rpHeld, now) /\ rpScan'.now = now
        /\ rpScan'.affected = {w \in RpWorks : /\ RpUnexpired(rpLease, now)[w] # RpNil
                                               /\ rpLease[w].node \notin rpUp}
    BY <1>3, <1>10 DEF RpRecover
  <2>2. ASSUME NEW w \in rpScan'.affected PROVE w \in rpActive
    <3>1. w \in RpWorks /\ rpLease[w] # RpNil
      BY <2>1, RpUnexpiredAt
    <3>2. QED
      BY <2>1, <3>1 DEF RpOwnInv, RpNone
  <2>3. \A w \in RpWorks : rpHeld'[w] # RpNil => rpHeld'[w].exp > rpScan'.now
    BY <2>1, RpUnexpiredAt
  <2>4. QED
    BY <2>1, <2>2, <2>3 DEF RpScanInv
<1>11. CASE RpRescan
  <2>1. /\ UNCHANGED <<rpActive, rpStray, rpHeld>> /\ rpBusy.by = "scan"
        /\ rpScan'.now = rpScan.now /\ rpScan'.affected = rpScan.affected
    BY <1>11 DEF RpRescan, RpTyped, RpScans
  <2>2. QED
    BY <2>1 DEF RpScanInv
<1>12. CASE RpMove
  <2>1. PICK lost \in SUBSET RpWorks :
          /\ \A w \in lost : rpLease[w] # RpNil
          /\ rpStray' = IF lost = rpScan.affected THEN rpStray \ lost
                        ELSE rpStray \cup lost \cup rpScan.affected
          /\ \/ rpBusy' = RpIdle
             \/ \E todo : rpBusy' = [by |-> "recover", work |-> RpNone, todo |-> todo]
    BY <1>12, RpMoveEffect
  <2>2. rpActive' = rpActive /\ rpScan' = RpNoScan /\ rpBusy.by = "move"
    BY <1>12 DEF RpMove
  <2>3. lost \subseteq rpActive
    BY <2>1, <2>2 DEF RpOwnInv
  <2>4. rpStray' \subseteq rpActive
    BY <2>1, <2>3 DEF RpScanInv
  <2>5. rpBusy'.by \notin {"scan", "move"}
    BY <2>1 DEF RpIdle, RpNone
  <2>6. QED
    BY <2>2, <2>4, <2>5 DEF RpScanInv, RpNoScan
<1>13. CASE RpRecoverNext
  <2>1. UNCHANGED <<rpScan, rpStray, rpActive>> /\ rpBusy.by = "recover"
    BY <1>13 DEF RpRecoverNext
  <2>2. rpBusy'.by = rpBusy.by
    BY <1>13 DEF RpRecoverNext, RpTyped, RpHolders
  <2>3. QED
    BY <1>2, <2>1, <2>2
<1>14. CASE RpUnlock
  BY <1>2, <1>14 DEF RpUnlock, RpIdle, RpNone
<1>15. CASE \E n \in RpNodes : (\E a \in RpAmounts : RpAdvertise(n, a)) \/ RpWithdraw(n)
                                \/ RpAvailability(n)
  BY <1>1, <1>15 DEF RpAdvertise, RpWithdraw, RpSent, RpAvailability
<1>16. CASE \E m \in rpNet, now \in RpNows : RpRegister(m, now)
  BY <1>1, <1>16 DEF RpRegister
<1>17. CASE \E a \in RpAmounts : RpPublishLocal(a)
  BY <1>1, <1>17 DEF RpPublishLocal, RpRegister
<1>18. CASE RpTick \/ UNCHANGED rpVars \/ \E w \in RpWorks : RpDeclare(w)
  BY <1>1, <1>18 DEF RpTick, rpVars, RpDeclare
<1>19. QED
  BY <1>4, <1>5, <1>6, <1>7, <1>8, <1>9, <1>10, <1>11, <1>12, <1>13, <1>14, <1>15, <1>16, <1>17,
     <1>18 DEF RpNext

(* Every step keeps a recovery's works either its own, each to be released *)
(* and reserved again, or stray.                                           *)
LEMMA RpPassStep ==
    RpTyped /\ RpLockInv /\ RpOwnInv /\ RpScanInv /\ RpAgree /\ RpPassInv /\ [RpNext]_rpVars
        => RpPassInv'
<1> SUFFICES ASSUME RpTyped, RpLockInv, RpOwnInv, RpScanInv, RpAgree, RpPassInv, [RpNext]_rpVars
             PROVE  RpPassInv'
  OBVIOUS
<1>1. ASSUME UNCHANGED <<rpBusy, rpStray>>,
             \A v \in RpWorks : rpHeld'[v] = rpHeld[v] \/ rpHeld'[v] = RpNil
      PROVE  RpPassInv'
  BY <1>1 DEF RpPassInv, RpHand, RpTodo
<1>2. ASSUME rpBusy'.todo = {}, rpBusy'.work \notin RpWorks PROVE RpPassInv'
  BY <1>2 DEF RpPassInv, RpHand, RpTodo
<1>3. RpFree => rpBusy.todo = {} /\ rpBusy.work \notin RpWorks
  BY RpAssumption DEF RpFree, RpIdle
<1>4. ASSUME NEW w \in RpWorks, rpBusy'.todo = {}, rpBusy'.work = w, w \notin rpStray',
             rpHeld'[w] = RpNil
      PROVE  RpPassInv'
  BY <1>4 DEF RpPassInv, RpHand, RpTodo
<1>5. CASE RpEnsureReserved
  <2>1. PICK w \in RpWorks : w = rpBusy.work
    BY <1>5 DEF RpEnsureReserved, RpTyped, RpHolders
  <2>2. rpStray' = rpStray
    BY <1>5 DEF RpEnsureReserved
  <2>3. CASE rpBusy' = [rpBusy EXCEPT !.work = RpNone]
    <3>1. rpBusy'.todo = rpBusy.todo /\ rpBusy'.work \notin RpWorks /\ rpBusy'.by = rpBusy.by
      BY <2>3, RpAssumption DEF RpTyped, RpHolders
    <3>2. RpTodo' = RpTodo
      BY <3>1 DEF RpTodo
    <3>3. RpHand' = RpTodo /\ RpTodo \subseteq RpHand
      BY <3>1, <3>2 DEF RpHand
    <3>4. QED
      BY <2>2, <3>1, <3>3 DEF RpPassInv
  <2>4. CASE rpBusy' = rpBusy /\ rpHeld' = rpHeld
    BY <1>1, <2>2, <2>4
  <2>5. CASE rpBusy' = RpIdle
    BY <1>2, <2>5, RpAssumption DEF RpIdle
  <2>6. QED
    BY <1>5, <2>3, <2>4, <2>5 DEF RpEnsureReserved, RpReassign
<1>6. ASSUME NEW w \in RpWorks, RpPlace(w) PROVE RpPassInv'
  <2>1. rpStray' = rpStray /\ RpFree
    BY <1>6 DEF RpPlace
  <2>2. CASE rpBusy' = rpBusy
    BY <1>2, <1>3, <2>1, <2>2
  <2>3. CASE w \notin rpActive
    <3>1. /\ rpHeld' = RpUnexpired(rpHeld, rpClock)
          /\ rpBusy' = rpBusy \/ rpBusy' = [by |-> "submit", work |-> w, todo |-> {}]
      BY <1>6, <2>3, RpPlaceEffect
    <3>2. w \notin rpStray /\ rpLease[w] = RpNil
      BY <2>1, <2>3 DEF RpScanInv, RpOwnInv, RpFree, RpIdle, RpNone
    <3>3. w \notin RpTodo
      BY <1>3, <2>1 DEF RpTodo
    <3>4. rpHeld[w] = RpNil
      BY <3>2, <3>3 DEF RpAgree, RpHeldOf
    <3>5. rpHeld'[w] = RpNil
      BY <3>1, <3>4, RpUnexpiredAt
    <3>6. CASE rpBusy' = [by |-> "submit", work |-> w, todo |-> {}]
      BY <1>4, <2>1, <3>2, <3>5, <3>6
    <3>7. QED
      BY <2>2, <3>1, <3>6
  <2>4. QED
    BY <1>6, <2>2, <2>3 DEF RpPlace
<1>7. CASE \E w \in RpWorks : RpComplete(w)
  BY <1>2, <1>3, <1>7 DEF RpComplete
<1>8. CASE (\E p \in BOOLEAN : RpSubmitted(p)) \/ RpUnlock
  <2>1. rpBusy' = RpIdle
    BY <1>8 DEF RpSubmitted, RpUnlock
  <2>2. QED
    BY <1>2, <2>1, RpAssumption DEF RpIdle
<1>9. CASE RpCancel
  <2>1. UNCHANGED <<rpStray, rpBusy>>
    BY <1>9 DEF RpCancel
  <2>2. rpHeld' = rpHeld \/ \E w : rpHeld' = [rpHeld EXCEPT ![w] = RpNil]
    BY <1>9 DEF RpCancel
  <2>3. \A v \in RpWorks : rpHeld'[v] = rpHeld[v] \/ rpHeld'[v] = RpNil
    BY <2>2 DEF RpTyped
  <2>4. QED
    BY <1>1, <2>1, <2>3
<1>10. ASSUME NEW w \in RpWorks, NEW now \in RpNows, RpRefuse(w, now) PROVE RpPassInv'
  <2>1. /\ rpHeld' = [RpUnexpired(rpHeld, now) EXCEPT ![w] = RpNil]
        /\ rpBusy' = [by |-> "refuse", work |-> w, todo |-> {}] /\ rpStray' = rpStray \ {w}
    BY <1>10 DEF RpRefuse, RpReassign
  <2>2. RpUnexpired(rpHeld, now) \in [RpWorks -> RpReservations \cup {RpNil}]
    BY RpUnexpiredType DEF RpTyped
  <2>3. rpHeld'[w] = RpNil
    BY <2>1, <2>2
  <2>4. QED
    BY <1>4, <2>1, <2>3
<1>11. CASE (\E now \in RpNows : RpRecover(now)) \/ RpRescan
  <2>1. rpBusy'.todo = {} /\ rpBusy'.work = RpNone
    <3>1. CASE RpRescan
      <4>1. rpBusy.todo = {} /\ rpBusy.work = RpNone
        BY <3>1 DEF RpRescan, RpLockInv
      <4>2. QED
        BY <3>1, <4>1 DEF RpRescan, RpTyped, RpHolders
    <3>2. CASE \E now \in RpNows : RpRecover(now)
      BY <3>2 DEF RpRecover, RpFree, RpIdle
    <3>3. QED
      BY <1>11, <3>1, <3>2
  <2>2. QED
    BY <1>2, <2>1, RpAssumption
<1>12. CASE RpMove
  <2>1. PICK lost \in SUBSET RpWorks :
          /\ rpStray' = IF lost = rpScan.affected THEN rpStray \ lost
                        ELSE rpStray \cup lost \cup rpScan.affected
          /\ \/ rpBusy' = RpIdle
             \/ \E pair \in [rpScan.affected -> lost] :
                  /\ lost = rpScan.affected => \A w \in lost : pair[w] = w
                  /\ rpBusy' = [by |-> "recover", work |-> RpNone,
                                todo |-> {<<w, pair[w]>> : w \in rpScan.affected}]
    BY <1>12, RpMoveEffect
  <2>2. CASE rpBusy' = RpIdle
    BY <1>2, <2>2, RpAssumption DEF RpIdle
  <2>3. ASSUME NEW pair \in [rpScan.affected -> lost],
               lost = rpScan.affected => \A w \in lost : pair[w] = w,
               rpBusy' = [by |-> "recover", work |-> RpNone,
                          todo |-> {<<w, pair[w]>> : w \in rpScan.affected}]
        PROVE  RpPassInv'
    <3>1. PICK T : T = {<<w, pair[w]>> : w \in rpScan.affected}
      OBVIOUS
    <3>2. \A p \in T : p[1] \in rpScan.affected /\ p[2] \in lost /\ p[2] = pair[p[1]]
      BY <2>3, <3>1
    <3>3. rpBusy'.by = "recover" /\ rpBusy'.todo = T /\ rpBusy'.work \notin RpWorks
      BY <2>3, <3>1, RpAssumption
    <3>4. RpHand' \subseteq rpScan.affected \cup lost
      BY <3>2, <3>3 DEF RpHand, RpTodo
    <3>5. CASE lost = rpScan.affected
      <4>1. \A p \in T : p[1] = p[2]
        BY <2>3, <3>2, <3>5
      <4>2. RpHand' \cap rpStray' = {}
        BY <2>1, <3>4, <3>5
      <4>3. QED
        BY <3>3, <4>1, <4>2 DEF RpPassInv
    <3>6. CASE lost # rpScan.affected
      BY <2>1, <3>3, <3>4, <3>6 DEF RpPassInv
    <3>7. QED
      BY <3>5, <3>6
  <2>4. QED
    BY <2>1, <2>2, <2>3
<1>13. CASE RpRecoverNext
  <2>1. PICK p \in rpBusy.todo :
          /\ \/ RpReassign(p[2], rpLease[p[2]].exp - RpLeaseTime, [rpHeld EXCEPT ![p[1]] = RpNil])
             \/ rpHeld' = [rpHeld EXCEPT ![p[1]] = RpNil]
          /\ rpBusy' = [rpBusy EXCEPT !.work = p[2], !.todo = @ \ {p}]
    BY <1>13 DEF RpRecoverNext
  <2>2. /\ rpHeld' = [rpHeld EXCEPT ![p[1]] = RpNil] /\ p[1] \in RpWorks /\ p[2] \in RpWorks
        /\ rpBusy'.work = p[2] /\ rpBusy'.todo = rpBusy.todo \ {p} /\ rpBusy'.by = rpBusy.by
    BY <2>1 DEF RpReassign, RpTyped, RpHolders
  <2>3. RpHand' \subseteq RpHand
    BY <2>2 DEF RpHand, RpTodo
  <2>4. rpStray' = rpStray
    BY <1>13 DEF RpRecoverNext
  <2>5. rpHeld'[p[1]] = RpNil
    BY <2>2 DEF RpTyped
  <2>6. QED
    BY <2>2, <2>3, <2>4, <2>5 DEF RpPassInv
<1>14. CASE \E n \in RpNodes : (\E a \in RpAmounts : RpAdvertise(n, a)) \/ RpWithdraw(n)
                                \/ RpAvailability(n)
  BY <1>1, <1>14 DEF RpAdvertise, RpWithdraw, RpSent, RpAvailability
<1>15. CASE \E m \in rpNet, now \in RpNows : RpRegister(m, now)
  BY <1>1, <1>15 DEF RpRegister
<1>16. CASE \E a \in RpAmounts : RpPublishLocal(a)
  BY <1>1, <1>16 DEF RpPublishLocal, RpRegister
<1>17. CASE RpTick \/ UNCHANGED rpVars \/ \E w \in RpWorks : RpDeclare(w)
  BY <1>1, <1>17 DEF RpTick, rpVars, RpDeclare
<1>18. QED
  BY <1>5, <1>6, <1>7, <1>8, <1>9, <1>10, <1>11, <1>12, <1>13, <1>14, <1>15, <1>16, <1>17 DEF RpNext

(* Every step keeps the agreement.                                         *)
LEMMA RpAgreeStep ==
    RpTyped /\ RpLockInv /\ RpScanInv /\ RpPassInv /\ RpAgree /\ [RpNext]_rpVars => RpAgree'
<1> SUFFICES ASSUME RpTyped, RpLockInv, RpScanInv, RpPassInv, RpAgree, [RpNext]_rpVars
             PROVE  RpAgree'
  OBVIOUS
<1>1. CASE UNCHANGED <<rpLease, rpHeld, rpReq, rpBusy, rpSeen, rpStray>>
  BY <1>1 DEF RpAgree, RpHeldOf, RpDueOf, RpTodo
<1>2. RpFree => RpTodo = {} /\ rpBusy.work = RpNone /\ \A w \in RpWorks : w # rpBusy.work
  BY RpAssumption DEF RpFree, RpIdle, RpTodo
<1>a. ASSUME rpBusy'.todo = {} PROVE RpTodo' = {}
  BY <1>a DEF RpTodo
<1>3. CASE RpEnsureReserved
  <2>1. PICK w \in RpWorks : w = rpBusy.work
    BY <1>3 DEF RpEnsureReserved, RpTyped, RpHolders
  <2>2. UNCHANGED <<rpReq, rpSeen, rpStray>>
    BY <1>3 DEF RpEnsureReserved
  <2>a. ASSUME rpBusy' = [rpBusy EXCEPT !.work = RpNone] PROVE RpTodo' = RpTodo
    <3>1. rpBusy'.todo = rpBusy.todo
      BY <2>a DEF RpTyped, RpHolders
    <3>2. QED
      BY <3>1 DEF RpTodo
  <2>b. w \notin rpStray => rpHeld[w] = RpNil
    BY <2>1 DEF RpPassInv, RpHand
  <2>c. rpHeld[w] # RpNil => RpTodo \subseteq rpStray
    BY <2>1 DEF RpPassInv, RpHand
  <2>3. CASE /\ rpLease[w] = RpNil \/ ~(rpReq[w] > 0) \/ rpHeld[w] # RpNil
             /\ rpBusy' = [rpBusy EXCEPT !.work = RpNone] /\ UNCHANGED <<rpLease, rpHeld>>
    <3>2. RpDueOf(w)
      BY <2>1, <2>3 DEF RpDueOf
    <3>3. ASSUME NEW v \in RpWorks \ (RpTodo \cup rpStray) PROVE RpHeldOf(v)' /\ RpDueOf(v)'
      <4>1. RpHeldOf(v) /\ RpDueOf(v)
        BY <2>1, <3>2 DEF RpAgree
      <4>2. QED
        BY <4>1, <2>2, <2>3 DEF RpHeldOf, RpDueOf
    <3>4. QED
      BY <2>2, <2>3, <2>a, <3>3 DEF RpAgree
  <2>4. CASE /\ rpLease[w] # RpNil
             /\ RpReserve(w, rpLease[w].node)
             /\ rpBusy' = [rpBusy EXCEPT !.work = RpNone] /\ UNCHANGED rpLease
    <3>2. PICK r \in RpReservations :
              /\ rpHeld' = [rpHeld EXCEPT ![w] = r]
              /\ r.node = rpLease[w].node /\ r.exp = rpLease[w].exp
      <4>1. /\ rpLease[w].node \in RpNodes /\ rpLease[w].exp \in Int /\ rpReq[w] \in Nat
        BY <2>4 DEF RpTyped, RpLeases
      <4>2. [node |-> rpLease[w].node, exp |-> rpLease[w].exp, amount |-> rpReq[w]]
               \in RpReservations
        BY <4>1 DEF RpReservations
      <4>3. QED
        BY <4>2, <2>4 DEF RpReserve
    <3>3. /\ rpHeld'[w] = r
          /\ \A v \in RpWorks : v # w => rpHeld'[v] = rpHeld[v]
      BY <2>1, <3>2 DEF RpTyped
    <3>4. RpHeldOf(w)' /\ RpDueOf(w)'
      BY <2>4, <3>2, <3>3, RpSome DEF RpHeldOf, RpDueOf
    <3>5. ASSUME NEW v \in RpWorks \ (RpTodo \cup rpStray), v # w PROVE RpHeldOf(v)' /\ RpDueOf(v)'
      <4>1. RpHeldOf(v) /\ RpDueOf(v)
        BY <2>1, <3>5 DEF RpAgree
      <4>2. QED
        BY <4>1, <2>2, <2>4, <3>3, <3>5 DEF RpHeldOf, RpDueOf
    <3>6. QED
      BY <2>2, <2>4, <2>a, <3>4, <3>5 DEF RpAgree
  <2>5. CASE /\ rpLease[w] # RpNil
             /\ RpReassign(w, rpLease[w].exp - RpLeaseTime, rpHeld) /\ UNCHANGED rpBusy
    <3>1. rpLease[w].exp - RpLeaseTime \in Int
      BY <2>1, <2>5, RpAssumption DEF RpTyped, RpLeases
    <3>2. /\ rpHeld' = rpHeld
          /\ \A v \in RpWorks : v # w => rpLease'[v] = rpLease[v]
      BY <2>1, <2>5, <3>1, RpReassignType
    <3>3. ASSUME NEW v \in RpWorks \ (RpTodo \cup rpStray)
          PROVE  RpHeldOf(v)' /\ (v # w => RpDueOf(v)')
      <4>1. RpHeldOf(v) /\ (v # w => RpDueOf(v))
        BY <2>1 DEF RpAgree
      <4>2. QED
        BY <4>1, <2>2, <2>5, <2>b, <3>2 DEF RpHeldOf, RpDueOf
    <3>4. RpTodo' = RpTodo
      BY <2>5 DEF RpTodo
    <3>5. QED
      BY <2>1, <2>2, <2>5, <3>3, <3>4 DEF RpAgree
  <2>6. CASE rpHeld[w] # RpNil /\ UNCHANGED <<rpLease, rpHeld>>
    <3>1. ASSUME NEW v \in RpWorks \ rpStray PROVE RpHeldOf(v)' /\ RpDueOf(v)'
      <4>1. RpHeldOf(v) /\ RpDueOf(v)
        BY <2>1, <2>6, <2>b, <2>c DEF RpAgree
      <4>2. QED
        BY <4>1, <2>2, <2>6 DEF RpHeldOf, RpDueOf
    <3>2. QED
      BY <2>2, <3>1 DEF RpAgree
  <2>7. QED
    BY <1>3, <2>1, <2>3, <2>4, <2>5, <2>6 DEF RpEnsureReserved
<1>4. ASSUME NEW w \in RpWorks, RpPlace(w) PROVE RpAgree'
  <2>1. CASE w \in rpActive
    BY <1>1, <1>4, <2>1 DEF RpPlace
  <2>2. CASE w \notin rpActive
    <3>1. /\ RpFree /\ rpStray' = rpStray
          /\ rpSeen' = IF rpClock > rpSeen THEN rpClock ELSE rpSeen
      BY <1>4, <2>2 DEF RpPlace
    <3>2. rpClock \in Int /\ rpSeen \in Int
      BY RpNowInt DEF RpTyped
    <3>3. rpSeen' \in Int /\ rpClock <= rpSeen' /\ rpSeen <= rpSeen'
      BY <3>1, <3>2
    <3>4. /\ rpHeld' = RpUnexpired(rpHeld, rpClock)
          /\ \A v \in RpWorks : v # w => rpReq'[v] = rpReq[v]
          /\ \A v \in RpWorks : v # w => rpLease'[v] = RpUnexpired(rpLease, rpClock)[v]
          /\ RpUnexpired(rpLease, rpClock)[w] # RpNil
                 => rpLease'[w] = RpUnexpired(rpLease, rpClock)[w]
          /\ \/ rpLease'[w] = RpNil /\ rpBusy' = rpBusy
             \/ rpBusy' = [by |-> "submit", work |-> w, todo |-> {}]
      BY <1>4, <2>2, RpPlaceEffect
    <3>5. ASSUME NEW v \in RpWorks \ rpStray PROVE RpHeldOf(v) /\ RpDueOf(v)
      BY <1>2, <3>1 DEF RpAgree
    <3>6. ASSUME NEW v \in RpWorks \ rpStray, v # w PROVE RpHeldOf(v)' /\ RpDueOf(v)'
      BY <3>2, <3>3, <3>4, <3>5, <3>6, RpPruneOf
    <3>7. w \notin rpStray => RpHeldOf(w)'
      <4>1. SUFFICES ASSUME rpHeld'[w] # RpNil, w \notin rpStray
                     PROVE  /\ rpLease'[w] # RpNil
                            /\ rpLease'[w].node = rpHeld'[w].node
                            /\ rpLease'[w].exp = rpHeld'[w].exp
        BY DEF RpHeldOf
      <4>2. rpHeld[w] # RpNil /\ rpHeld[w].exp > rpClock /\ rpHeld'[w] = rpHeld[w]
        BY <3>4, <4>1, RpUnexpiredAt
      <4>3. /\ rpLease[w] # RpNil
            /\ rpLease[w].node = rpHeld[w].node /\ rpLease[w].exp = rpHeld[w].exp
        BY <3>5, <4>1, <4>2 DEF RpHeldOf
      <4>4. RpUnexpired(rpLease, rpClock)[w] = rpLease[w]
        <5>1. rpLease[w] # RpNil /\ rpLease[w].exp > rpClock
          BY <4>2, <4>3
        <5>2. QED
          BY <5>1, RpUnexpiredAt
      <4>5. QED
        BY <3>4, <4>2, <4>3, <4>4
    <3>8. rpLease'[w] = RpNil => RpDueOf(w)'
      BY DEF RpDueOf
    <3>9. QED
      BY <3>1, <3>4, <3>6, <3>7, <3>8 DEF RpAgree
  <2>3. QED
    BY <2>1, <2>2
<1>5. ASSUME NEW w \in RpWorks, rpBusy' = rpBusy \/ rpBusy' = RpIdle, rpSeen' = rpSeen,
             rpBusy' = RpIdle => rpBusy.todo = {} /\ rpBusy.work = RpNone,
             rpStray \subseteq rpStray' \cup {w},
             \A v \in RpWorks : v # w => /\ rpLease'[v] = rpLease[v] /\ rpHeld'[v] = rpHeld[v]
                                         /\ rpReq'[v] = rpReq[v],
             rpHeld'[w] = RpNil, rpLease'[w] = RpNil \/ rpReq'[w] = 0
      PROVE  RpAgree'
  <2>1. RpHeldOf(w)' /\ RpDueOf(w)'
    BY <1>5 DEF RpHeldOf, RpDueOf
  <2>2. ASSUME NEW v \in RpWorks \ (RpTodo \cup rpStray), v # w
        PROVE  RpHeldOf(v)' /\ (v # rpBusy.work => RpDueOf(v)')
    <3>1. RpHeldOf(v) /\ (v # rpBusy.work => RpDueOf(v))
      BY DEF RpAgree
    <3>2. QED
      BY <3>1, <2>2, <1>5 DEF RpHeldOf, RpDueOf
  <2>3. rpBusy'.todo = rpBusy.todo /\ rpBusy'.work = rpBusy.work
    BY <1>5 DEF RpIdle
  <2>4. RpTodo' = RpTodo
    BY <2>3 DEF RpTodo
  <2>5. QED
    BY <1>5, <2>1, <2>2, <2>3, <2>4 DEF RpAgree
<1>6. ASSUME NEW w \in RpWorks, RpComplete(w) PROVE RpAgree'
  <2>1. /\ \A v \in RpWorks : v # w => /\ rpLease'[v] = rpLease[v] /\ rpHeld'[v] = rpHeld[v]
                                       /\ rpReq'[v] = rpReq[v]
        /\ rpHeld'[w] = RpNil /\ rpLease'[w] = RpNil
    BY <1>6 DEF RpComplete, RpTyped
  <2>2. rpBusy' = rpBusy /\ rpSeen' = rpSeen /\ rpBusy = RpIdle /\ rpStray' = rpStray \ {w}
    BY <1>6 DEF RpComplete, RpFree
  <2>3. QED
    BY <1>5, <2>1, <2>2 DEF RpIdle
<1>7. ASSUME NEW p \in BOOLEAN, RpSubmitted(p) PROVE RpAgree'
  <2>1. PICK w \in RpWorks : w = rpSubmit.work
    BY <1>7 DEF RpSubmitted, RpLockInv, RpNone
  <2>2. /\ rpBusy.work = RpNone /\ rpBusy.todo = {} /\ rpSeen' = rpSeen /\ rpBusy' = RpIdle
        /\ rpStray' = rpStray /\ rpBusy.by = "submit" /\ rpSubmit.at = "placed"
    BY <1>7 DEF RpSubmitted, RpLockInv
  <2>3. ASSUME NEW v \in RpWorks \ rpStray PROVE RpHeldOf(v) /\ RpDueOf(v)
    BY <2>2, RpAssumption DEF RpAgree, RpTodo
  <2>4. CASE UNCHANGED <<rpLease, rpHeld, rpReq>>
    BY <2>2, <2>3, <2>4 DEF RpAgree, RpHeldOf, RpDueOf
  <2>5. CASE /\ rpLease' = [rpLease EXCEPT ![w] = RpNil]
             /\ rpHeld' = [rpHeld EXCEPT ![w] = IF rpLease[w] = RpNil THEN @ ELSE RpNil]
             /\ rpReq' = [rpReq EXCEPT ![w] = IF rpLease[w] = RpNil THEN @ ELSE 0]
    <3>1. /\ \A v \in RpWorks : v # w => /\ rpLease'[v] = rpLease[v] /\ rpHeld'[v] = rpHeld[v]
                                         /\ rpReq'[v] = rpReq[v]
          /\ rpLease'[w] = RpNil
          /\ rpLease[w] = RpNil => rpHeld'[w] = rpHeld[w]
          /\ rpLease[w] # RpNil => rpHeld'[w] = RpNil
      BY <2>1, <2>5 DEF RpTyped
    <3>2. CASE w \notin rpStray
      <4>1. rpHeld'[w] = RpNil
        BY <2>1, <2>3, <3>1, <3>2 DEF RpHeldOf
      <4>2. QED
        BY <1>5, <2>2, <3>1, <4>1
    <3>3. CASE w \in rpStray
      <4>1. ASSUME NEW v \in RpWorks \ rpStray PROVE RpHeldOf(v)' /\ RpDueOf(v)'
        BY <2>2, <2>3, <3>1, <3>3 DEF RpHeldOf, RpDueOf
      <4>2. QED
        BY <2>2, <4>1 DEF RpAgree
    <3>4. QED
      BY <3>2, <3>3
  <2>6. QED
    BY <1>7, <2>1, <2>4, <2>5 DEF RpSubmitted
<1>8. CASE RpCancel
  <2>1. PICK w \in RpWorks : w = rpSubmit.work
    BY <1>8 DEF RpCancel, RpLockInv, RpNone
  <2>2. CASE RpNeed[w] > 0
    <3>1. /\ rpReq' = [rpReq EXCEPT ![w] = 0] /\ rpHeld' = [rpHeld EXCEPT ![w] = RpNil]
          /\ UNCHANGED <<rpLease, rpBusy, rpSeen, rpStray>>
      BY <1>8, <2>1, <2>2 DEF RpCancel
    <3>2. /\ \A v \in RpWorks : v # w => /\ rpLease'[v] = rpLease[v] /\ rpHeld'[v] = rpHeld[v]
                                         /\ rpReq'[v] = rpReq[v]
          /\ rpHeld'[w] = RpNil /\ rpReq'[w] = 0
      BY <2>1, <3>1 DEF RpTyped
    <3>3. RpHeldOf(w)' /\ RpDueOf(w)'
      BY <3>2 DEF RpHeldOf, RpDueOf
    <3>4. ASSUME NEW v \in RpWorks \ (RpTodo \cup rpStray), v # w
          PROVE  RpHeldOf(v)' /\ (v # rpBusy.work => RpDueOf(v)')
      <4>1. RpHeldOf(v) /\ (v # rpBusy.work => RpDueOf(v))
        BY DEF RpAgree
      <4>2. QED
        BY <3>1, <3>2, <3>4, <4>1 DEF RpHeldOf, RpDueOf
    <3>5. RpTodo' = RpTodo
      BY <3>1 DEF RpTodo
    <3>6. QED
      BY <3>1, <3>3, <3>4, <3>5 DEF RpAgree
  <2>3. CASE ~(RpNeed[w] > 0)
    BY <1>1, <1>8, <2>1, <2>3 DEF RpCancel
  <2>4. QED
    BY <2>2, <2>3
<1>9. ASSUME NEW w \in RpWorks, NEW now \in RpNows, RpRefuse(w, now) PROVE RpAgree'
  <2>1. now \in Int /\ rpSeen \in Int
    BY RpNowInt DEF RpTyped
  <2>2. /\ RpFree /\ rpSeen' = IF now > rpSeen THEN now ELSE rpSeen
        /\ rpReq' = rpReq /\ rpBusy' = [by |-> "refuse", work |-> w, todo |-> {}]
        /\ rpStray' = rpStray \ {w}
    BY <1>9 DEF RpRefuse
  <2>3. rpSeen' \in Int /\ now <= rpSeen' /\ rpSeen <= rpSeen'
    BY <2>1, <2>2
  <2>4. /\ rpHeld' = [RpUnexpired(rpHeld, now) EXCEPT ![w] = RpNil]
        /\ \A v \in RpWorks : v # w => rpLease'[v] = rpLease[v]
    BY <1>9, <2>1, RpReassignType DEF RpRefuse
  <2>5. RpUnexpired(rpHeld, now) \in [RpWorks -> RpReservations \cup {RpNil}]
    BY RpUnexpiredType DEF RpTyped
  <2>6. /\ rpHeld'[w] = RpNil
        /\ \A v \in RpWorks : v # w => rpHeld'[v] = RpUnexpired(rpHeld, now)[v]
    BY <2>4, <2>5
  <2>7. ASSUME NEW v \in RpWorks \ rpStray, v # w PROVE RpHeldOf(v)' /\ RpDueOf(v)'
    <3>1. RpHeldOf(v) /\ RpDueOf(v)
      BY <1>2, <2>2 DEF RpAgree
    <3>2. QED
      BY <2>1, <2>2, <2>3, <2>4, <2>6, <2>7, <3>1, RpPruneOf
  <2>8. RpHeldOf(w)'
    BY <2>6 DEF RpHeldOf
  <2>9. QED
    BY <2>2, <2>7, <2>8 DEF RpAgree
<1>10. ASSUME NEW now \in RpNows, RpRecover(now) PROVE RpAgree'
  <2>1. now \in Int /\ rpSeen \in Int
    BY RpNowInt DEF RpTyped
  <2>2. /\ RpFree /\ rpReq' = rpReq /\ rpLease' = rpLease /\ rpStray' = rpStray
        /\ rpSeen' = IF now > rpSeen THEN now ELSE rpSeen
        /\ rpHeld' = RpUnexpired(rpHeld, now)
    BY <1>10 DEF RpRecover
  <2>3. rpSeen' \in Int /\ now <= rpSeen' /\ rpSeen <= rpSeen'
    BY <2>1, <2>2
  <2>4. ASSUME NEW v \in RpWorks \ rpStray PROVE RpHeldOf(v)' /\ RpDueOf(v)'
    <3>1. RpHeldOf(v) /\ RpDueOf(v)
      BY <1>2, <2>2 DEF RpAgree
    <3>2. QED
      BY <2>1, <2>2, <2>3, <3>1, RpPruneOf
  <2>5. QED
    BY <2>2, <2>4 DEF RpAgree
<1>b. CASE RpRescan
  <2>1. /\ UNCHANGED <<rpLease, rpHeld, rpReq, rpSeen, rpStray>>
        /\ rpBusy'.todo = rpBusy.todo /\ rpBusy'.work = rpBusy.work
    BY <1>b DEF RpRescan, RpTyped, RpHolders
  <2>2. RpTodo' = RpTodo
    BY <2>1 DEF RpTodo
  <2>3. QED
    BY <2>1, <2>2 DEF RpAgree, RpHeldOf, RpDueOf
<1>c. CASE RpMove
  <2>1. PICK lost \in SUBSET RpWorks :
          /\ \A w \in RpWorks \ lost : rpLease'[w] = RpUnexpired(rpLease, rpScan.now)[w]
          /\ rpStray' = IF lost = rpScan.affected THEN rpStray \ lost
                        ELSE rpStray \cup lost \cup rpScan.affected
          /\ \/ lost # rpScan.affected /\ rpBusy' = RpIdle
             \/ \E pair \in [rpScan.affected -> lost] :
                  rpBusy' = [by |-> "recover", work |-> RpNone,
                             todo |-> {<<w, pair[w]>> : w \in rpScan.affected}]
    BY <1>c, RpMoveEffect
  <2>2. /\ rpBusy.by = "move" /\ UNCHANGED <<rpHeld, rpReq, rpSeen>>
    BY <1>c DEF RpMove
  <2>3. rpBusy.work = RpNone /\ RpTodo = {}
    BY <2>2 DEF RpLockInv, RpTodo
  <2>4. lost = rpScan.affected => lost \subseteq RpTodo'
    <3>1. SUFFICES ASSUME lost = rpScan.affected PROVE lost \subseteq RpTodo'
      OBVIOUS
    <3>2. PICK pair \in [rpScan.affected -> lost] :
              rpBusy' = [by |-> "recover", work |-> RpNone,
                         todo |-> {<<w, pair[w]>> : w \in rpScan.affected}]
      BY <2>1, <3>1
    <3>3. ASSUME NEW w \in lost PROVE w \in RpTodo'
      <4>1. <<w, pair[w]>> \in rpBusy'.todo /\ <<w, pair[w]>>[1] = w
        BY <3>1, <3>2
      <4>2. QED
        BY <4>1 DEF RpTodo
    <3>4. QED
      BY <3>3
  <2>5. ASSUME NEW v \in RpWorks \ (lost \cup rpStray) PROVE RpHeldOf(v)' /\ RpDueOf(v)'
    <3>1. RpHeldOf(v) /\ RpDueOf(v)
      BY <2>3, RpAssumption DEF RpAgree
    <3>2. rpLease'[v] = IF rpLease[v] # RpNil /\ rpLease[v].exp > rpScan.now
                        THEN rpLease[v] ELSE RpNil
      BY <2>1, RpUnexpiredAt
    <3>3. rpHeld[v] # RpNil => rpHeld[v].exp > rpScan.now
      BY <2>2 DEF RpScanInv
    <3>4. QED
      BY <2>2, <3>1, <3>2, <3>3 DEF RpHeldOf, RpDueOf
  <2>6. RpWorks \ (RpTodo' \cup rpStray') \subseteq RpWorks \ (lost \cup rpStray)
    BY <2>1, <2>4
  <2>7. QED
    BY <2>5, <2>6 DEF RpAgree
<1>11. CASE RpRecoverNext
  <2>1. PICK p \in rpBusy.todo :
          /\ IF rpLease[p[2]] # RpNil /\ ~RpMeets(p[2], rpLease[p[2]].node)
             THEN RpReassign(p[2], rpLease[p[2]].exp - RpLeaseTime, [rpHeld EXCEPT ![p[1]] = RpNil])
             ELSE rpHeld' = [rpHeld EXCEPT ![p[1]] = RpNil] /\ UNCHANGED <<rpLease, rpRefused>>
          /\ rpBusy' = [rpBusy EXCEPT !.work = p[2], !.todo = @ \ {p}]
    BY <1>11 DEF RpRecoverNext
  <2>2. PICK a \in RpWorks, w \in RpWorks : a = p[1] /\ w = p[2]
    BY DEF RpTyped, RpHolders
  <2>3. rpBusy'.work = w /\ rpBusy'.todo = rpBusy.todo \ {p}
    BY <2>1, <2>2 DEF RpTyped, RpHolders
  <2>4. rpLease[w] # RpNil => rpLease[w].exp - RpLeaseTime \in Int
    BY <2>2, RpAssumption DEF RpTyped, RpLeases
  <2>5. /\ rpHeld' = [rpHeld EXCEPT ![a] = RpNil]
        /\ \A v \in RpWorks : v # w => rpLease'[v] = rpLease[v]
    BY <2>1, <2>2, <2>4, RpReassignType
  <2>6. /\ rpHeld'[a] = RpNil
        /\ \A v \in RpWorks : v # a => rpHeld'[v] = rpHeld[v]
    BY <2>2, <2>5 DEF RpTyped
  <2>7. rpReq' = rpReq /\ rpSeen' = rpSeen /\ rpBusy.work = RpNone /\ rpStray' = rpStray
    BY <1>11 DEF RpRecoverNext
  <2>8. RpTodo \subseteq RpTodo' \cup {a, w} /\ {a, w} \subseteq RpTodo
    BY <2>2, <2>3 DEF RpTodo
  <2>9. a = w \/ {a, w} \subseteq rpStray
    BY <2>2, <2>8 DEF RpPassInv, RpHand
  <2>10. ASSUME NEW v \in RpWorks \ (RpTodo \cup rpStray)
         PROVE  RpHeldOf(v)' /\ RpDueOf(v)'
    <3>1. RpHeldOf(v) /\ RpDueOf(v) /\ v # a /\ v # w
      BY <2>7, <2>8, RpAssumption DEF RpAgree
    <3>2. QED
      BY <2>5, <2>6, <2>7, <3>1 DEF RpHeldOf, RpDueOf
  <2>11. ASSUME NEW v \in RpWorks \ (RpTodo' \cup rpStray), v \in RpTodo
         PROVE  RpHeldOf(v)' /\ v = w
    <3>1. v = a /\ v = w
      BY <2>8, <2>9, <2>11
    <3>2. QED
      BY <2>6, <3>1 DEF RpHeldOf
  <2>12. QED
    BY <2>3, <2>7, <2>10, <2>11 DEF RpAgree
<1>12. CASE RpUnlock
  <2>1. /\ rpBusy.todo = {} /\ rpBusy.work = RpNone /\ rpBusy' = RpIdle
        /\ UNCHANGED <<rpLease, rpHeld, rpReq, rpSeen, rpStray>>
    BY <1>12 DEF RpUnlock
  <2>2. RpTodo = {} /\ RpTodo' = {} /\ rpBusy'.work = rpBusy.work
    BY <2>1 DEF RpTodo, RpIdle
  <2>3. QED
    BY <2>1, <2>2 DEF RpAgree, RpHeldOf, RpDueOf
<1>13. CASE \E n \in RpNodes : (\E a \in RpAmounts : RpAdvertise(n, a)) \/ RpWithdraw(n)
                                \/ RpAvailability(n)
  BY <1>1, <1>13 DEF RpAdvertise, RpWithdraw, RpSent, RpAvailability
<1>14. CASE \E m \in rpNet, now \in RpNows : RpRegister(m, now)
  BY <1>1, <1>14 DEF RpRegister
<1>15. CASE \E a \in RpAmounts : RpPublishLocal(a)
  BY <1>1, <1>15 DEF RpPublishLocal, RpRegister
<1>16. CASE \E w \in RpWorks : RpDeclare(w)
  BY <1>1, <1>16 DEF RpDeclare
<1>17. CASE RpTick \/ UNCHANGED rpVars
  BY <1>1, <1>17 DEF RpTick, rpVars
<1>18. QED
  BY <1>3, <1>4, <1>6, <1>7, <1>8, <1>9, <1>10, <1>b, <1>c, <1>11, <1>12, <1>13, <1>14, <1>15,
     <1>16, <1>17 DEF RpNext

-----------------------------------------------------------------------------
(* The sum of the reservations on a node.                                  *)

RpOn(f, n) == {w \in RpWorks : f[w] # RpNil /\ f[w].node = n}
RpUnitsOf(f, n) == UNION {{w} \X (1 .. f[w].amount) : w \in RpOn(f, n)}

(* It is the sum of their amounts.                                         *)
LEMMA RpUnitsSum ==
    ASSUME NEW f, NEW n, NEW g, \A w \in RpOn(f, n) : g[w] = f[w]
    PROVE  RpUnitsOf(f, n) = Units(RpOn(f, n), [w \in RpWorks |-> g[w].amount])
<1> DEFINE a == [w \in RpWorks |-> g[w].amount]
<1>1. ASSUME NEW w \in RpOn(f, n) PROVE a[w] = f[w].amount
  BY DEF RpOn
<1> HIDE DEF a
<1>2. QED
  BY <1>1 DEF RpUnitsOf, Units, a

(* A ledger that only drops reservations, or makes them on other nodes,    *)
(* commits no more of this one.                                            *)
LEMMA RpFewer ==
    ASSUME NEW f, NEW g, NEW n, IsFiniteSet(RpUnitsOf(f, n)),
           \A w \in RpWorks : g[w] = f[w] \/ g[w] = RpNil \/ g[w].node # n
    PROVE  /\ IsFiniteSet(RpUnitsOf(g, n))
           /\ Cardinality(RpUnitsOf(g, n)) <= Cardinality(RpUnitsOf(f, n))
<1> DEFINE a == [w \in RpWorks |-> f[w].amount]
<1>1. \A w \in RpOn(g, n) : f[w] = g[w]
  BY DEF RpOn
<1>2. RpOn(g, n) \subseteq RpOn(f, n)
  BY <1>1 DEF RpOn
<1>3. RpUnitsOf(g, n) = Units(RpOn(g, n), a) /\ RpUnitsOf(f, n) = Units(RpOn(f, n), a)
  BY <1>1, RpUnitsSum
<1> HIDE DEF a
<1>4. QED
  BY <1>2, <1>3, FewerUnits

(* The ledger g is f with one reservation more, of k units on node n.      *)
RpAdds(f, g, n, w, k) ==
    /\ f[w] = RpNil /\ g[w] # RpNil /\ g[w].node = n /\ g[w].amount = k
    /\ \A v \in RpWorks : v # w => g[v] = f[v]

(* A new reservation adds its amount to the sum.                           *)
LEMMA RpOneMore ==
    ASSUME NEW f, NEW g, NEW n, NEW w \in RpWorks, NEW k \in Nat,
           IsFiniteSet(RpUnitsOf(f, n)), RpAdds(f, g, n, w, k)
    PROVE  /\ IsFiniteSet(RpUnitsOf(g, n))
           /\ Cardinality(RpUnitsOf(g, n)) = Cardinality(RpUnitsOf(f, n)) + k
<1> DEFINE a == [v \in RpWorks |-> g[v].amount]
<1>1. w \notin RpOn(f, n) /\ \A v \in RpOn(f, n) : g[v] = f[v]
  BY DEF RpOn, RpAdds
<1>2. RpOn(g, n) = RpOn(f, n) \cup {w}
  BY DEF RpOn, RpAdds
<1>3. RpUnitsOf(f, n) = Units(RpOn(f, n), a) /\ RpUnitsOf(g, n) = Units(RpOn(g, n), a)
  BY <1>1, RpUnitsSum
<1>4. a[w] = k
  BY DEF RpAdds
<1> HIDE DEF a
<1>5. a[w] \in Nat /\ IsFiniteSet(Units(RpOn(f, n), a))
  BY <1>3, <1>4
<1>6. /\ IsFiniteSet(Units(RpOn(f, n) \cup {w}, a))
      /\ Cardinality(Units(RpOn(f, n) \cup {w}, a)) = Cardinality(Units(RpOn(f, n), a)) + a[w]
  BY <1>1, <1>5, OneMoreUnits
<1>7. QED
  BY <1>2, <1>3, <1>4, <1>6

(* Every step keeps what is reserved on a node within the most it ever     *)
(* said it had: a reservation is made only when the stored advertisement   *)
(* covers it beside the others.                                            *)
LEMMA RpUnitsStep ==
    RpTyped /\ RpAdvInv /\ RpUnitsInv /\ [RpNext]_rpVars => RpUnitsInv'
<1> SUFFICES ASSUME RpTyped, RpAdvInv, RpUnitsInv, [RpNext]_rpVars,
                    NEW n \in RpNodes
             PROVE  (IsFiniteSet(RpUnits(n)) /\ RpCommitted(n) <= rpBest[n])'
  BY DEF RpUnitsInv
<1>1. /\ RpUnits(n) = RpUnitsOf(rpHeld, n) /\ RpUnits(n)' = RpUnitsOf(rpHeld', n)
      /\ RpCommitted(n) = Cardinality(RpUnitsOf(rpHeld, n))
      /\ RpCommitted(n)' = Cardinality(RpUnitsOf(rpHeld', n))
  BY DEF RpUnits, RpUnitsOf, RpOn, RpHeldOn, RpCommitted
<1>2. /\ IsFiniteSet(RpUnitsOf(rpHeld, n))
      /\ Cardinality(RpUnitsOf(rpHeld, n)) <= rpBest[n]
      /\ Cardinality(RpUnitsOf(rpHeld, n)) \in Nat
  BY <1>1, FS_CardinalityType DEF RpUnitsInv
<1>3. rpBest[n] \in Nat /\ rpHeld \in [RpWorks -> RpReservations \cup {RpNil}]
  BY DEF RpTyped
<1>4. ASSUME rpBest'[n] \in Nat, rpBest[n] <= rpBest'[n],
             \A w \in RpWorks : \/ rpHeld'[w] = rpHeld[w] \/ rpHeld'[w] = RpNil
                                \/ rpHeld'[w].node # n
      PROVE  (IsFiniteSet(RpUnits(n)) /\ RpCommitted(n) <= rpBest[n])'
  <2>1. /\ IsFiniteSet(RpUnitsOf(rpHeld', n))
        /\ Cardinality(RpUnitsOf(rpHeld', n)) <= Cardinality(RpUnitsOf(rpHeld, n))
    BY <1>2, <1>4, RpFewer
  <2>2. Cardinality(RpUnitsOf(rpHeld', n)) \in Nat
    BY <2>1, FS_CardinalityType
  <2>3. Cardinality(RpUnitsOf(rpHeld', n)) <= rpBest'[n]
    BY <2>1, <2>2, <1>2, <1>3, <1>4
  <2>4. QED
    BY <1>1, <2>1, <2>3
<1>5. ASSUME rpBest' = rpBest,
             \A w \in RpWorks : rpHeld'[w] = rpHeld[w] \/ rpHeld'[w] = RpNil
      PROVE  (IsFiniteSet(RpUnits(n)) /\ RpCommitted(n) <= rpBest[n])'
  BY <1>3, <1>4, <1>5
<1>6. CASE UNCHANGED <<rpHeld, rpBest>>
  BY <1>5, <1>6
<1>7. ASSUME NEW m \in RpMessages, NEW now, RpRegister(m, now)
      PROVE  (IsFiniteSet(RpUnits(n)) /\ RpCommitted(n) <= rpBest[n])'
  <2>1. m.node \in RpNodes /\ m.free \in Nat /\ rpBest \in [RpNodes -> Nat]
    BY DEF RpMessages, RpTyped
  <2>2. /\ rpHeld' = rpHeld
        /\ rpBest' = [rpBest EXCEPT ![m.node] = IF m.free > @ THEN m.free ELSE @]
    BY <1>7 DEF RpRegister
  <2>3. rpBest'[n] \in Nat /\ rpBest[n] <= rpBest'[n]
    BY <2>1, <2>2
  <2>4. QED
    BY <1>4, <2>2, <2>3
<1>8. CASE \E a \in RpAmounts : RpPublishLocal(a)
  <2>1. PICK a \in RpAmounts : RpPublishLocal(a)
    BY <1>8
  <2>2. RpAdvert(RpLocal, a, TRUE) \in RpMessages
    BY RpAssumption, RpNowInt DEF RpAdvert, RpMessages
  <2>3. QED
    BY <1>7, <2>1, <2>2 DEF RpPublishLocal
<1>9. CASE \E m \in rpNet, now \in RpNows : RpRegister(m, now)
  <2>1. rpNet \subseteq RpMessages
    BY DEF RpTyped
  <2>2. QED
    BY <1>7, <1>9, <2>1
<1>10. CASE RpEnsureReserved
  <2>1. PICK w \in RpWorks : w = rpBusy.work
    BY <1>10 DEF RpEnsureReserved, RpTyped, RpHolders
  <2>2. rpBest' = rpBest
    BY <1>10 DEF RpEnsureReserved
  <2>3. CASE rpHeld' = rpHeld
    BY <1>6, <2>2, <2>3
  <2>4. CASE rpLease[w] # RpNil /\ rpHeld[w] = RpNil /\ RpReserve(w, rpLease[w].node)
    <3>1. PICK h \in RpNodes, e \in Int, k \in Nat :
              h = rpLease[w].node /\ e = rpLease[w].exp /\ k = rpReq[w]
      BY <2>4 DEF RpTyped, RpLeases
    <3>2. /\ RpFits(h, k)
          /\ rpHeld' = [rpHeld EXCEPT ![w] = [node |-> h, exp |-> e, amount |-> k]]
      BY <2>4, <3>1 DEF RpReserve
    <3>3. PICK r : r = [node |-> h, exp |-> e, amount |-> k]
      OBVIOUS
    <3>4. r.node = h /\ r.amount = k /\ r # RpNil
      BY <3>3, RpSome DEF RpReservations
    <3>5. rpHeld'[w] = r /\ \A v \in RpWorks : v # w => rpHeld'[v] = rpHeld[v]
      BY <1>3, <3>2, <3>3
    <3>6. CASE h # n
      BY <1>3, <1>4, <2>2, <3>4, <3>5, <3>6
    <3>7. CASE h = n
      <4>1. /\ IsFiniteSet(RpUnitsOf(rpHeld', n))
            /\ Cardinality(RpUnitsOf(rpHeld', n)) = Cardinality(RpUnitsOf(rpHeld, n)) + k
        <5>1. RpAdds(rpHeld, rpHeld', n, w, k)
          BY <2>4, <3>4, <3>5, <3>7 DEF RpAdds
        <5>2. QED
          BY <1>2, <5>1, RpOneMore
      <4>2. rpAdv[n] # RpNil /\ rpAdv[n].free - Cardinality(RpUnitsOf(rpHeld, n)) >= k
        BY <1>1, <3>2, <3>7 DEF RpFits, RpCurrent
      <4>3. rpAdv[n].free \in Nat /\ rpAdv[n].free <= rpBest[n]
        BY <4>2 DEF RpTyped, RpMessages, RpAdvInv
      <4>4. Cardinality(RpUnitsOf(rpHeld, n)) + k <= rpBest[n]
        BY <1>2, <1>3, <4>2, <4>3
      <4>5. QED
        BY <1>1, <2>2, <4>1, <4>4
    <3>8. QED
      BY <3>6, <3>7
  <2>5. QED
    BY <1>10, <2>1, <2>3, <2>4 DEF RpEnsureReserved, RpReassign
<1>11. CASE \E w \in RpWorks : RpPlace(w)
  <2>1. PICK w \in RpWorks : RpPlace(w)
    BY <1>11
  <2>2. rpBest' = rpBest
    BY <2>1 DEF RpPlace
  <2>3. rpHeld' = rpHeld \/ rpHeld' = RpUnexpired(rpHeld, rpClock)
    BY <2>1 DEF RpPlace
  <2>4. QED
    BY <1>5, <2>2, <2>3, RpUnexpiredAt
<1>12. CASE \E w \in RpWorks : RpComplete(w)
  <2>1. PICK w \in RpWorks : RpComplete(w)
    BY <1>12
  <2>2. rpBest' = rpBest /\ rpHeld' = [rpHeld EXCEPT ![w] = RpNil]
    BY <2>1 DEF RpComplete
  <2>3. QED
    BY <1>3, <1>5, <2>2
<1>13. CASE \E p \in BOOLEAN : RpSubmitted(p)
  <2>1. rpBest' = rpBest
    BY <1>13 DEF RpSubmitted
  <2>2. \/ rpHeld' = rpHeld
        \/ \E w : rpHeld' = [rpHeld EXCEPT ![w] = IF rpLease[w] = RpNil THEN @ ELSE RpNil]
    BY <1>13 DEF RpSubmitted
  <2>3. QED
    BY <1>3, <1>5, <2>1, <2>2
<1>14. CASE RpCancel
  <2>1. rpBest' = rpBest
    BY <1>14 DEF RpCancel
  <2>2. rpHeld' = rpHeld \/ \E w : rpHeld' = [rpHeld EXCEPT ![w] = RpNil]
    BY <1>14 DEF RpCancel
  <2>3. QED
    BY <1>3, <1>5, <2>1, <2>2
<1>15. CASE \E w \in RpWorks, now \in RpNows : RpRefuse(w, now)
  <2>1. PICK w \in RpWorks, now \in RpNows : RpRefuse(w, now)
    BY <1>15
  <2>2. rpBest' = rpBest /\ rpHeld' = [RpUnexpired(rpHeld, now) EXCEPT ![w] = RpNil]
    BY <2>1 DEF RpRefuse, RpReassign
  <2>3. RpUnexpired(rpHeld, now) \in [RpWorks -> RpReservations \cup {RpNil}]
    BY <1>3, RpUnexpiredType
  <2>4. \A v \in RpWorks : rpHeld'[v] = RpUnexpired(rpHeld, now)[v] \/ rpHeld'[v] = RpNil
    BY <2>2, <2>3
  <2>5. QED
    BY <1>5, <2>2, <2>4, RpUnexpiredAt
<1>16. CASE \E now \in RpNows : RpRecover(now)
  <2>1. PICK now \in RpNows : RpRecover(now)
    BY <1>16
  <2>2. rpBest' = rpBest /\ rpHeld' = RpUnexpired(rpHeld, now)
    BY <2>1 DEF RpRecover
  <2>3. QED
    BY <1>5, <2>2, RpUnexpiredAt
<1>17. CASE RpRecoverNext
  <2>1. rpBest' = rpBest
    BY <1>17 DEF RpRecoverNext
  <2>2. \E w : rpHeld' = [rpHeld EXCEPT ![w] = RpNil]
    BY <1>17 DEF RpRecoverNext, RpReassign
  <2>3. QED
    BY <1>3, <1>5, <2>1, <2>2
<1>18. CASE \E k \in RpNodes : (\E a \in RpAmounts : RpAdvertise(k, a)) \/ RpWithdraw(k)
                                \/ RpAvailability(k)
  BY <1>6, <1>18 DEF RpAdvertise, RpWithdraw, RpSent, RpAvailability
<1>19. CASE \/ RpUnlock \/ RpTick \/ UNCHANGED rpVars \/ \E w \in RpWorks : RpDeclare(w)
            \/ RpRescan \/ RpMove
  BY <1>6, <1>19 DEF RpUnlock, RpTick, rpVars, RpDeclare, RpRescan, RpMove
<1>20. QED
  BY <1>8, <1>9, <1>10, <1>11, <1>12, <1>13, <1>14, <1>15, <1>16, <1>17, <1>18, <1>19 DEF RpNext

(* Every step keeps the invariant.                                         *)
LEMMA RpNextInv == RpInv /\ [RpNext]_rpVars => RpInv'
<1> SUFFICES ASSUME RpInv, [RpNext]_rpVars PROVE RpInv'
  OBVIOUS
<1>1. /\ RpTyped /\ RpLockInv /\ RpAdvInv /\ RpUnitsInv
      /\ RpOwnInv /\ RpScanInv /\ RpPassInv /\ RpAgree
  BY DEF RpInv
<1>2. RpTyped' /\ RpLockInv'
  BY <1>1, RpTypedStep
<1>3. RpAdvInv' /\ RpUnitsInv'
  BY <1>1, RpAdvStep, RpUnitsStep
<1>4. RpOwnInv' /\ RpScanInv'
  BY <1>1, RpOwnStep, RpScanStep
<1>5. RpPassInv' /\ RpAgree'
  BY <1>1, RpPassStep, RpAgreeStep
<1>6. QED
  BY <1>2, <1>3, <1>4, <1>5 DEF RpInv

(* The invariant gives the types and both halves of what placement         *)
(* promises.                                                               *)
LEMMA RpInvSound == RpInv => RpTypeOK /\ RpSound
<1> SUFFICES ASSUME RpInv PROVE RpTypeOK /\ RpSound
  OBVIOUS
<1>1. RpTypeOK
  <2>1. RpTyped
    BY DEF RpInv
  <2>2. ASSUME NEW n \in RpNodes PROVE rpAdv[n] = RpNil \/ rpAdv[n].node = n
    BY DEF RpInv, RpAdvInv
  <2>3. ASSUME NEW w \in RpWorks PROVE rpLease[w] = RpNil \/ rpLease[w].node \in RpNodes
    BY <2>1 DEF RpTyped, RpLeases
  <2>4. /\ rpBusy.todo \subseteq RpWorks \X RpWorks
        /\ rpScan.affected \subseteq RpWorks /\ rpScan.failed \subseteq RpNodes
    BY <2>1 DEF RpTyped, RpHolders, RpScans
  <2>5. QED
    BY <2>1, <2>2, <2>3, <2>4 DEF RpTyped, RpTypeOK
<1>2. RpNotOvercommitted
  BY DEF RpInv, RpUnitsInv, RpNotOvercommitted
<1>3. RpReserved
  <2>1. SUFFICES ASSUME RpFree, NEW w \in RpWorks \ rpStray
                 PROVE  /\ rpLease[w] # RpNil /\ rpReq[w] > 0 /\ rpSeen < rpLease[w].exp =>
                              /\ rpHeld[w] # RpNil
                              /\ rpHeld[w].node = rpLease[w].node
                              /\ rpHeld[w].exp = rpLease[w].exp
                        /\ rpHeld[w] # RpNil =>
                              rpLease[w] # RpNil /\ rpLease[w].node = rpHeld[w].node
    BY DEF RpReserved
  <2>2. w \notin RpTodo /\ w # rpBusy.work
    BY <2>1, RpAssumption DEF RpFree, RpIdle, RpTodo
  <2>3. RpHeldOf(w) /\ RpDueOf(w)
    BY <2>2 DEF RpInv, RpAgree
  <2>4. QED
    BY <2>3 DEF RpHeldOf, RpDueOf
<1>4. QED
  BY <1>1, <1>2, <1>3 DEF RpSound

(* Placement with body resources, for any works, nodes, needs, ages, lease *)
(* times and any advertisements however late or repeated: outside a        *)
(* service call a leased work with needs has its reservation on the leased *)
(* node until the lease ends, no reservation is without its lease, and the *)
(* reservations on a node never add up to more than it once advertised     *)
(* (resource_reservations.py, resource_aware_work_proposals.py).           *)
THEOREM PlacementReserved == RpSpec => [](RpTypeOK /\ RpSound)
<1>1. RpInit => RpInv
  BY RpInitInv
<1>2. RpInv /\ [RpNext]_rpVars => RpInv'
  BY RpNextInv
<1>3. RpInv => RpTypeOK /\ RpSound
  BY RpInvSound
<1>4. QED
  BY <1>1, <1>2, <1>3, PTL DEF RpSpec

-----------------------------------------------------------------------------
(* Module packages.                                                        *)

MpEntries == [image : MpImages \cup {MpAbsent}, enabled : BOOLEAN]
MpRecords ==
    [state : MpStates, image : MpImages \cup {MpAbsent}, code : MpImages \cup {MpAbsent},
     swapped : BOOLEAN, snapshot : 0 .. MpWork, returned : BOOLEAN]
MpLoadings ==
    [package : MpPackages, entry : MpEntries, image : MpImages \cup {MpAbsent}, swapped : BOOLEAN]

MpTyped ==
    /\ mpStore \in [MpPackages -> MpImages \cup {MpAbsent}]
    /\ mpFile \in [generation : 0 .. MpWrites, entries : [MpPackages -> MpEntries],
                   verifies : BOOLEAN]
    /\ mpRegistry \in [generation : 0 .. MpWrites, entries : [MpPackages -> MpEntries]]
    /\ mpPending # <<>> => mpPending[1] \in MpLoadings
    /\ mpRec \in [MpPackages -> MpRecords]
    /\ mpSnapshots \in [MpPackages -> 0 .. MpWork]
    /\ mpLive \in [MpPackages -> -1 .. MpWork]
    /\ mpLoads \in [MpPackages -> 0 .. MpLoads]

(* Where an instance is: none before the load and after the unload; a      *)
(* loaded one has the last snapshot before it and an active one has it     *)
(* behind it.                                                              *)
MpInstance ==
    \A p \in MpPackages :
        /\ mpRec[p].state \in MpAdmitted => mpRec[p].image \in MpImages /\ mpLive[p] >= 0
        /\ mpRec[p].state \in {"UNKNOWN", "UNLOADED"} => mpLive[p] = -1
        /\ mpRec[p].state = "LOADED" => mpRec[p].snapshot = mpSnapshots[p]
        /\ mpRec[p].state = "ACTIVE" => mpLive[p] >= mpSnapshots[p]

(* A load that has verified its package: it is admitted, no other is until *)
(* it ends, and storage holds what was verified unless it was written.     *)
MpLoadInv ==
    mpPending # <<>> /\ mpPending[1].image # MpAbsent =>
        /\ mpRec[MpManifest[mpPending[1].image].package_id].state \in {"UNKNOWN", "UNLOADED"}
        /\ MpUsage + MpManifest[mpPending[1].image].budget <= MpBudget
        /\ mpPending[1].swapped \/ mpStore[mpPending[1].package] = mpPending[1].image

(* The enabled entries of a registry the owner's key verifies are the      *)
(* owner's; so are those of the library's copy and of a resolution.        *)
MpSignedOnly(entries) ==
    \A p \in MpPackages : entries[p].enabled => <<p, entries[p].image>> \in mpSigned

MpTrustInv ==
    /\ mpFile.generation = 0 \/ mpFile.verifies => MpSignedOnly(mpFile.entries)
    /\ MpSignedOnly(mpRegistry.entries)
    /\ mpPending # <<>> => <<mpPending[1].package, mpPending[1].entry.image>> \in mpSigned
    /\ MpReturnedTrusted

MpUsed == MpUnits({p \in MpPackages : mpRec[p].state \in MpAdmitted})

MpBudgetInv == IsFiniteSet(MpUsed) /\ Cardinality(MpUsed) <= MpBudget

MpInv == MpTyped /\ MpInstance /\ MpLoadInv /\ MpTrustInv /\ MpBudgetInv

(* The initial state.                                                      *)
LEMMA MpInitInv == MpInit => MpInv
<1> SUFFICES ASSUME MpInit PROVE MpInv
  OBVIOUS
<1>1. 0 \in 0 .. MpWork /\ 0 \in 0 .. MpWrites /\ 0 \in 0 .. MpLoads /\ -1 \in -1 .. MpWork
  BY MpAssumption
<1>2. MpNoEntry \in MpEntries /\ MpNoRecord \in MpRecords
  BY <1>1 DEF MpNoEntry, MpEntries, MpNoRecord, MpRecords, MpStates
<1>3. MpNoRegistry \in [generation : 0 .. MpWrites, entries : [MpPackages -> MpEntries]]
  BY <1>1, <1>2 DEF MpNoRegistry
<1>4. MpTyped
  BY <1>1, <1>2, <1>3 DEF MpInit, MpTyped
<1>5. MpInstance
  BY DEF MpInit, MpInstance, MpNoRecord, MpAdmitted
<1>6. MpTrustInv
  BY DEF MpInit, MpTrustInv, MpSignedOnly, MpNoRegistry, MpNoEntry, MpReturnedTrusted, MpNoRecord
<1>7. MpBudgetInv
  <2>1. {p \in MpPackages : mpRec[p].state \in MpAdmitted} = {}
    BY DEF MpInit, MpNoRecord, MpAdmitted
  <2>2. MpUsed = {}
    BY <2>1 DEF MpUsed, MpUnits
  <2>3. QED
    BY <2>2, FS_EmptySet, MpAssumption DEF MpBudgetInv
<1>8. MpLoadInv
  BY DEF MpInit, MpLoadInv
<1>9. QED
  BY <1>4, <1>5, <1>6, <1>7, <1>8 DEF MpInv

-----------------------------------------------------------------------------
(* Types.                                                                  *)

(* A change of state of one record leaves its image and the others alone.  *)
LEMMA MpSetEffect ==
    ASSUME MpTyped, NEW p \in MpPackages, NEW s \in MpStates, MpSet(p, s)
    PROVE  /\ mpRec' \in [MpPackages -> MpRecords]
           /\ mpRec'[p].state = s
           /\ mpRec'[p].image = mpRec[p].image /\ mpRec'[p].returned = mpRec[p].returned
           /\ mpRec'[p].code = mpRec[p].code /\ mpRec'[p].swapped = mpRec[p].swapped
           /\ mpRec'[p].snapshot = mpRec[p].snapshot
           /\ \A q \in MpPackages : q # p => mpRec'[q] = mpRec[q]
<1>1. mpRec \in [MpPackages -> MpRecords]
  BY DEF MpTyped
<1>2. PICK r : r = [mpRec[p] EXCEPT !.state = s]
  OBVIOUS
<1>3. /\ r \in MpRecords /\ r.state = s /\ r.image = mpRec[p].image
      /\ r.returned = mpRec[p].returned /\ r.snapshot = mpRec[p].snapshot
      /\ r.code = mpRec[p].code /\ r.swapped = mpRec[p].swapped
  BY <1>1, <1>2 DEF MpRecords
<1>4. mpRec' = [mpRec EXCEPT ![p] = r]
  BY <1>1, <1>2 DEF MpSet
<1>5. QED
  BY <1>1, <1>3, <1>4

(* A lifecycle step takes one admitted record to another state, keeps its  *)
(* image and leaves the registry alone.                                    *)
MpMoved(p) ==
    /\ mpRec' \in [MpPackages -> MpRecords]
    /\ mpRec[p].state \in MpAdmitted
    /\ mpPending = <<>> \/ mpRec' = mpRec
    /\ mpRec'[p].image = mpRec[p].image /\ mpRec'[p].returned = mpRec[p].returned
    /\ mpRec'[p].code = mpRec[p].code /\ mpRec'[p].swapped = mpRec[p].swapped
    /\ mpLive' \in [MpPackages -> -1 .. MpWork]
    /\ mpSnapshots' \in [MpPackages -> 0 .. MpWork]
    /\ \A q \in MpPackages : q # p => /\ mpRec'[q] = mpRec[q] /\ mpLive'[q] = mpLive[q]
                                      /\ mpSnapshots'[q] = mpSnapshots[q]
    /\ UNCHANGED <<mpStore, mpFile, mpRegistry, mpPending, mpSigned, mpLoads>>

(* What the step makes of the record and its instance.                     *)
MpStepped(p) ==
    \/ mpRec'[p].state = "FAILED"
    \/ /\ mpRec[p].state = "LOADED" /\ mpRec'[p].state = "ACTIVE"
       /\ mpLive'[p] = mpRec[p].snapshot /\ mpSnapshots'[p] = mpSnapshots[p]
    \/ /\ mpRec[p].state = "ACTIVE" /\ mpRec'[p].state = "ACTIVE"
       /\ mpLive'[p] = mpLive[p] + 1 /\ mpSnapshots'[p] = mpSnapshots[p]
    \/ /\ mpRec[p].state \in {"ACTIVE", "QUIESCED"}
       /\ mpRec'[p].state \in {"QUIESCED", "STOPPED"} /\ mpLive'[p] = mpLive[p]
    \/ mpRec'[p].state = "UNLOADED" /\ mpLive'[p] = -1

(* The six lifecycle operations, one by one.                               *)
LEMMA MpLifecycle ==
    ASSUME MpTyped, MpInstance, NEW p \in MpPackages,
           MpStart(p) \/ MpPublish(p) \/ MpQuiesce(p) \/ MpSnapshot(p) \/ MpStop(p) \/ MpUnload(p)
    PROVE  MpMoved(p) /\ MpStepped(p)
<1> USE DEF MpRequire
<1>1. /\ mpRec \in [MpPackages -> MpRecords] /\ mpRec[p].snapshot \in 0 .. MpWork
      /\ mpSnapshots \in [MpPackages -> 0 .. MpWork]
      /\ mpLive \in [MpPackages -> -1 .. MpWork] /\ mpLive[p] \in -1 .. MpWork
      /\ MpWork \in Nat
  BY MpAssumption DEF MpTyped, MpRecords
<1>2. {"ACTIVE", "FAILED", "QUIESCED", "STOPPED", "UNLOADED"} \subseteq MpStates
  BY DEF MpStates, MpAdmitted
<1>3. 0 .. MpWork \subseteq -1 .. MpWork /\ -1 \in -1 .. MpWork
  BY <1>1
<1>4. ASSUME NEW s \in {"ACTIVE", "FAILED", "QUIESCED", "STOPPED", "UNLOADED"}, MpSet(p, s)
      PROVE  /\ mpRec' \in [MpPackages -> MpRecords]
             /\ mpRec'[p].state = s
             /\ mpRec'[p].image = mpRec[p].image /\ mpRec'[p].returned = mpRec[p].returned
             /\ mpRec'[p].code = mpRec[p].code /\ mpRec'[p].swapped = mpRec[p].swapped
             /\ \A q \in MpPackages : q # p => mpRec'[q] = mpRec[q]
  BY <1>2, <1>4, MpSetEffect
<1>5. CASE MpStart(p)
  <2>1. /\ mpPending = <<>> /\ mpRec[p].state = "LOADED"
        /\ UNCHANGED <<mpStore, mpFile, mpRegistry, mpPending, mpSnapshots, mpSigned, mpLoads>>
    BY <1>5 DEF MpStart
  <2>2. CASE MpSet(p, "ACTIVE") /\ mpLive' = [mpLive EXCEPT ![p] = mpRec[p].snapshot]
    <3>1. /\ mpLive' \in [MpPackages -> -1 .. MpWork] /\ mpLive'[p] = mpRec[p].snapshot
          /\ \A q \in MpPackages : q # p => mpLive'[q] = mpLive[q]
      BY <1>1, <1>3, <2>2
    <3>2. QED
      BY <1>1, <1>4, <2>1, <2>2, <3>1 DEF MpMoved, MpStepped, MpAdmitted
  <2>3. CASE MpSet(p, "FAILED") /\ UNCHANGED mpLive
    BY <1>1, <1>4, <2>1, <2>3 DEF MpMoved, MpStepped, MpAdmitted
  <2>4. QED
    BY <1>5, <2>2, <2>3 DEF MpStart
<1>6. CASE MpPublish(p)
  <2>1. /\ mpRec[p].state = "ACTIVE" /\ mpLive[p] < MpWork
        /\ mpLive' = [mpLive EXCEPT ![p] = mpLive[p] + 1]
        /\ UNCHANGED <<mpStore, mpFile, mpRegistry, mpPending, mpRec, mpSnapshots, mpSigned, mpLoads>>
    BY <1>6 DEF MpPublish
  <2>2. mpLive[p] + 1 \in -1 .. MpWork
    BY <1>1, <2>1
  <2>3. /\ mpLive' \in [MpPackages -> -1 .. MpWork] /\ mpLive'[p] = mpLive[p] + 1
        /\ \A q \in MpPackages : q # p => mpLive'[q] = mpLive[q]
    BY <1>1, <2>1, <2>2
  <2>4. QED
    BY <1>1, <2>1, <2>3 DEF MpMoved, MpStepped, MpAdmitted
<1>7. CASE MpQuiesce(p)
  BY <1>1, <1>4, <1>7 DEF MpQuiesce, MpMoved, MpStepped, MpAdmitted
<1>8. CASE MpSnapshot(p)
  <2>1. /\ mpPending = <<>> /\ mpRec[p].state = "QUIESCED"
        /\ UNCHANGED <<mpStore, mpFile, mpRegistry, mpPending, mpLive, mpSigned, mpLoads>>
        /\ \/ /\ mpRec' = [mpRec EXCEPT ![p].snapshot = mpLive[p]]
              /\ mpSnapshots' = [mpSnapshots EXCEPT ![p] = mpLive[p]]
           \/ MpSet(p, "FAILED") /\ UNCHANGED mpSnapshots
    BY <1>8 DEF MpSnapshot
  <2>2. CASE MpSet(p, "FAILED") /\ UNCHANGED mpSnapshots
    BY <1>1, <1>4, <2>1, <2>2 DEF MpMoved, MpStepped, MpAdmitted
  <2>3. CASE /\ mpRec' = [mpRec EXCEPT ![p].snapshot = mpLive[p]]
             /\ mpSnapshots' = [mpSnapshots EXCEPT ![p] = mpLive[p]]
    <3>1. mpLive[p] \in 0 .. MpWork
      BY <1>1, <2>1 DEF MpInstance, MpAdmitted
    <3>2. /\ mpSnapshots' \in [MpPackages -> 0 .. MpWork]
          /\ \A q \in MpPackages : q # p => mpSnapshots'[q] = mpSnapshots[q]
      BY <1>1, <2>3, <3>1
    <3>3. PICK r : r = [mpRec[p] EXCEPT !.snapshot = mpLive[p]]
      OBVIOUS
    <3>4. /\ r \in MpRecords /\ r.state = mpRec[p].state /\ r.image = mpRec[p].image
          /\ r.returned = mpRec[p].returned
          /\ r.code = mpRec[p].code /\ r.swapped = mpRec[p].swapped
      BY <1>1, <3>1, <3>3 DEF MpRecords
    <3>5. mpRec' = [mpRec EXCEPT ![p] = r]
      BY <1>1, <2>3, <3>3
    <3>6. /\ mpRec' \in [MpPackages -> MpRecords] /\ mpRec'[p] = r
          /\ \A q \in MpPackages : q # p => mpRec'[q] = mpRec[q]
      BY <1>1, <3>4, <3>5
    <3>7. QED
      BY <1>1, <2>1, <3>2, <3>4, <3>6 DEF MpMoved, MpStepped, MpAdmitted
  <2>4. QED
    BY <2>1, <2>2, <2>3
<1>9. CASE MpStop(p)
  BY <1>1, <1>4, <1>9 DEF MpStop, MpMoved, MpStepped, MpAdmitted
<1>10. CASE MpUnload(p)
  <2>1. /\ mpPending = <<>> /\ mpRec[p].state = "STOPPED" /\ MpSet(p, "UNLOADED")
        /\ mpLive' = [mpLive EXCEPT ![p] = -1]
        /\ UNCHANGED <<mpStore, mpFile, mpRegistry, mpPending, mpSnapshots, mpSigned, mpLoads>>
    BY <1>10 DEF MpUnload
  <2>2. /\ mpLive' \in [MpPackages -> -1 .. MpWork] /\ mpLive'[p] = -1
        /\ \A q \in MpPackages : q # p => mpLive'[q] = mpLive[q]
    BY <1>1, <1>3, <2>1
  <2>3. QED
    BY <1>1, <1>4, <2>1, <2>2 DEF MpMoved, MpStepped, MpAdmitted
<1>11. QED
  BY <1>5, <1>6, <1>7, <1>8, <1>9, <1>10

(* An import that does anything loads one package that was not there: with *)
(* the last snapshot of it, within the budget, and returned only if it is  *)
(* what the resolved entry names; its code is what was verified unless     *)
(* storage was written.                                                    *)
MpLoaded(q, i) ==
    /\ q = MpManifest[i].package_id
    /\ mpRec[q].state \in {"UNKNOWN", "UNLOADED"}
    /\ MpUsage + MpManifest[i].budget <= MpBudget
    /\ mpRec' \in [MpPackages -> MpRecords]
    /\ mpRec'[q].state = "LOADED" /\ mpRec'[q].image = i
    /\ mpRec'[q].snapshot = mpSnapshots[q]
    /\ mpRec'[q].returned => q = mpPending[1].package /\ i = mpPending[1].entry.image
    /\ mpRec'[q].code = i \/ mpRec'[q].swapped
    /\ mpLive' \in [MpPackages -> -1 .. MpWork] /\ mpLive'[q] = 0
    /\ mpLoads' \in [MpPackages -> 0 .. MpLoads]
    /\ \A p \in MpPackages : p # q => mpRec'[p] = mpRec[p] /\ mpLive'[p] = mpLive[p]

(* The import of a verified package, from whatever storage then holds.     *)
LEMMA MpImportEffect ==
    ASSUME MpTyped, MpLoadInv, NEW imports \in BOOLEAN, MpImport(imports)
    PROVE  /\ mpPending # <<>> /\ mpPending' = <<>>
           /\ UNCHANGED <<mpStore, mpFile, mpRegistry, mpSnapshots, mpSigned>>
           /\ \/ UNCHANGED <<mpRec, mpLive, mpLoads>>
              \/ \E q \in MpPackages, i \in MpImages : MpLoaded(q, i)
<1>1. /\ mpPending # <<>> /\ mpPending[1].image # MpAbsent /\ mpPending' = <<>>
      /\ UNCHANGED <<mpStore, mpFile, mpRegistry, mpSnapshots, mpSigned>>
  BY DEF MpImport
<1>2. PICK l \in MpLoadings : l = mpPending[1]
  BY <1>1 DEF MpTyped
<1>3. PICK i \in MpImages : i = l.image
  BY <1>1, <1>2 DEF MpLoadings
<1>4. PICK q \in MpPackages : q = MpManifest[i].package_id
  BY MpAssumption
<1>5. PICK code \in MpImages \cup {MpAbsent} : code = mpStore[l.package]
  BY DEF MpTyped, MpLoadings
<1>6. /\ mpRec[q].state \in {"UNKNOWN", "UNLOADED"}
      /\ MpUsage + MpManifest[i].budget <= MpBudget
      /\ l.swapped \/ code = i
  BY <1>1, <1>2, <1>3, <1>4, <1>5 DEF MpLoadInv
<1>7. \/ UNCHANGED <<mpRec, mpLive, mpLoads>>
      \/ /\ mpLoads[q] < MpLoads
         /\ mpRec' = [mpRec EXCEPT ![q] = MpNewRecord(l, code)]
         /\ mpLive' = [mpLive EXCEPT ![q] = 0]
         /\ mpLoads' = [mpLoads EXCEPT ![q] = mpLoads[q] + 1]
  BY <1>2, <1>3, <1>4, <1>5 DEF MpImport
<1>8. ASSUME mpLoads[q] < MpLoads,
             mpRec' = [mpRec EXCEPT ![q] = MpNewRecord(l, code)],
             mpLive' = [mpLive EXCEPT ![q] = 0],
             mpLoads' = [mpLoads EXCEPT ![q] = mpLoads[q] + 1]
      PROVE  MpLoaded(q, i)
  <2>1. /\ mpRec \in [MpPackages -> MpRecords] /\ mpLive \in [MpPackages -> -1 .. MpWork]
        /\ mpLoads \in [MpPackages -> 0 .. MpLoads] /\ mpSnapshots[q] \in 0 .. MpWork
        /\ mpLoads[q] \in 0 .. MpLoads
    BY DEF MpTyped
  <2>2. PICK r : r = MpNewRecord(l, code)
    OBVIOUS
  <2>3. r = [state |-> "LOADED", image |-> i, code |-> code, swapped |-> l.swapped,
             snapshot |-> mpSnapshots[q], returned |-> MpAgrees(l.package, l.entry, i)]
    BY <1>3, <1>4, <2>2 DEF MpNewRecord
  <2>4. MpAgrees(l.package, l.entry, i) \in BOOLEAN /\ l.swapped \in BOOLEAN
    BY DEF MpAgrees, MpMatches, MpLoadings
  <2>5. r \in MpRecords
    BY <2>1, <2>3, <2>4 DEF MpRecords, MpStates, MpAdmitted
  <2>6. /\ mpRec' \in [MpPackages -> MpRecords] /\ mpRec'[q] = r
        /\ \A v \in MpPackages : v # q => mpRec'[v] = mpRec[v]
    BY <1>8, <2>1, <2>2, <2>5
  <2>7. /\ mpLive' \in [MpPackages -> -1 .. MpWork] /\ mpLive'[q] = 0
        /\ \A v \in MpPackages : v # q => mpLive'[v] = mpLive[v]
    <3>1. 0 \in -1 .. MpWork
      BY MpAssumption
    <3>2. QED
      BY <1>8, <2>1, <3>1
  <2>8. mpLoads' \in [MpPackages -> 0 .. MpLoads]
    <3>1. mpLoads[q] + 1 \in 0 .. MpLoads
      BY <1>8, <2>1, MpAssumption
    <3>2. QED
      BY <1>8, <2>1, <3>1
  <2>9. r.returned => q = mpPending[1].package /\ i = mpPending[1].entry.image
    BY <1>2, <1>4, <2>3 DEF MpAgrees, MpMatches
  <2>10. r.state = "LOADED" /\ r.image = i /\ r.snapshot = mpSnapshots[q]
    BY <2>3
  <2>11. r.code = i \/ r.swapped
    BY <1>6, <2>3
  <2>12. QED
    BY <1>4, <1>6, <2>6, <2>7, <2>8, <2>9, <2>10, <2>11 DEF MpLoaded
<1>9. QED
  BY <1>1, <1>7, <1>8

(* What a load in progress becomes: verified and admitted, or refused.     *)
LEMMA MpLoadEffect ==
    ASSUME MpTyped, MpLoad
    PROVE  /\ mpPending # <<>>
           /\ UNCHANGED <<mpStore, mpFile, mpRegistry, mpRec, mpSnapshots, mpLive, mpSigned, mpLoads>>
           /\ \/ mpPending' = <<>>
              \/ \E i \in MpImages, l \in MpLoadings :
                    /\ mpPending' = <<l>> /\ l.image = i
                    /\ l.package = mpPending[1].package /\ l.entry = mpPending[1].entry
                    /\ i = mpStore[l.package]
                    /\ mpRec[MpManifest[i].package_id].state \in {"UNKNOWN", "UNLOADED"}
                    /\ MpUsage + MpManifest[i].budget <= MpBudget
<1>1. /\ mpPending # <<>>
      /\ UNCHANGED <<mpStore, mpFile, mpRegistry, mpRec, mpSnapshots, mpLive, mpSigned, mpLoads>>
  BY DEF MpLoad
<1>2. PICK o \in MpLoadings : o = mpPending[1]
  BY <1>1 DEF MpTyped
<1>3. PICK i \in MpImages \cup {MpAbsent} : i = mpStore[o.package]
  BY DEF MpTyped, MpLoadings
<1>4. PICK l : l = [o EXCEPT !.image = i, !.swapped = FALSE]
  OBVIOUS
<1>5. /\ l \in MpLoadings /\ l.image = i /\ l.package = o.package /\ l.entry = o.entry
  BY <1>4 DEF MpLoadings
<1>6. \/ mpPending' = <<>>
      \/ /\ mpPending' = <<l>> /\ MpVerify(i) /\ MpAdmits(i)
         /\ mpRec[MpManifest[i].package_id].state \in {"UNKNOWN", "UNLOADED"}
  BY <1>2, <1>3, <1>4 DEF MpLoad
<1>7. CASE /\ mpPending' = <<l>> /\ MpVerify(i) /\ MpAdmits(i)
           /\ mpRec[MpManifest[i].package_id].state \in {"UNKNOWN", "UNLOADED"}
  <2>1. i \in MpImages
    BY <1>7 DEF MpVerify
  <2>2. MpUsage + MpManifest[i].budget <= MpBudget
    BY <1>7 DEF MpAdmits
  <2>3. QED
    BY <1>1, <1>2, <1>3, <1>5, <1>7, <2>1, <2>2
<1>8. QED
  BY <1>1, <1>6, <1>7

(* What a write to storage does to the load in progress.                   *)
LEMMA MpStorageEffect ==
    ASSUME MpTyped, NEW p \in MpPackages, NEW i \in MpImages \cup {MpAbsent},
           MpStorageChange(p, i)
    PROVE  /\ mpStore' \in [MpPackages -> MpImages \cup {MpAbsent}]
           /\ UNCHANGED <<mpFile, mpRegistry, mpRec, mpSnapshots, mpLive, mpSigned, mpLoads>>
           /\ \/ /\ mpPending' = mpPending
                 /\ mpPending # <<>> => mpStore'[mpPending[1].package] = mpStore[mpPending[1].package]
              \/ \E l \in MpLoadings :
                    /\ mpPending # <<>> /\ mpPending' = <<l>> /\ l.swapped
                    /\ l.package = mpPending[1].package /\ l.entry = mpPending[1].entry
                    /\ l.image = mpPending[1].image
<1>1. /\ mpStore' \in [MpPackages -> MpImages \cup {MpAbsent}]
      /\ \A q \in MpPackages : q # p => mpStore'[q] = mpStore[q]
      /\ UNCHANGED <<mpFile, mpRegistry, mpRec, mpSnapshots, mpLive, mpSigned, mpLoads>>
  BY DEF MpStorageChange, MpTyped
<1>2. CASE mpPending = <<>>
  BY <1>1, <1>2 DEF MpStorageChange
<1>3. CASE mpPending # <<>>
  <2>1. PICK o \in MpLoadings : o = mpPending[1]
    BY <1>3 DEF MpTyped
  <2>2. PICK l : l = [o EXCEPT !.swapped = TRUE]
    OBVIOUS
  <2>3. /\ l \in MpLoadings /\ l.swapped /\ l.package = o.package /\ l.entry = o.entry
        /\ l.image = o.image /\ o.package \in MpPackages
    BY <2>2 DEF MpLoadings
  <2>4. IF o.package = p THEN mpPending' = <<l>> ELSE mpPending' = mpPending
    BY <1>3, <2>1, <2>2 DEF MpStorageChange
  <2>5. QED
    BY <1>1, <1>3, <2>1, <2>3, <2>4
<1>4. QED
  BY <1>2, <1>3

(* What the library keeps of the file when it reads it.                    *)
LEMMA MpReadType ==
    ASSUME MpTyped
    PROVE  /\ MpRead \in [generation : 0 .. MpWrites, entries : [MpPackages -> MpEntries]]
           /\ MpNoRegistry \in [generation : 0 .. MpWrites, entries : [MpPackages -> MpEntries]]
<1>1. MpNoEntry \in MpEntries /\ 0 \in 0 .. MpWrites
  BY MpAssumption DEF MpNoEntry, MpEntries
<1>2. QED
  BY <1>1 DEF MpTyped, MpRead, MpNoRegistry

(* Every step keeps the types.                                             *)
LEMMA MpTypedStep == MpTyped /\ MpInstance /\ MpLoadInv /\ [MpNext]_mpVars => MpTyped'
<1> SUFFICES ASSUME MpTyped, MpInstance, MpLoadInv, [MpNext]_mpVars PROVE MpTyped'
  OBVIOUS
<1>1. CASE MpReloadRegistry
  <2>1. mpRegistry' \in [generation : 0 .. MpWrites, entries : [MpPackages -> MpEntries]]
    BY <1>1, MpReadType DEF MpReloadRegistry, MpTyped
  <2>2. QED
    BY <1>1, <2>1 DEF MpReloadRegistry, MpTyped
<1>a. CASE MpLoad
  <2>1. mpPending' # <<>> => mpPending'[1] \in MpLoadings
    BY <1>a, MpLoadEffect
  <2>2. UNCHANGED <<mpStore, mpFile, mpRegistry, mpRec, mpSnapshots, mpLive, mpLoads>>
    BY <1>a, MpLoadEffect
  <2>3. QED
    BY <2>1, <2>2 DEF MpTyped
<1>2. ASSUME NEW imports \in BOOLEAN, MpImport(imports) PROVE MpTyped'
  <2>1. /\ mpRec' \in [MpPackages -> MpRecords] /\ mpLive' \in [MpPackages -> -1 .. MpWork]
        /\ mpLoads' \in [MpPackages -> 0 .. MpLoads]
    <3>1. \/ UNCHANGED <<mpRec, mpLive, mpLoads>>
          \/ \E q \in MpPackages, i \in MpImages : MpLoaded(q, i)
      BY <1>2, MpImportEffect
    <3>2. QED
      BY <3>1 DEF MpLoaded, MpTyped
  <2>2. mpPending' = <<>> /\ UNCHANGED <<mpStore, mpFile, mpRegistry, mpSnapshots>>
    BY <1>2, MpImportEffect
  <2>3. QED
    BY <2>1, <2>2 DEF MpTyped
<1>3. ASSUME NEW p \in MpPackages, NEW enabled \in BOOLEAN, MpApprove(p, enabled) PROVE MpTyped'
  <2>1. PICK e : e = [image |-> mpStore[p], enabled |-> enabled]
    OBVIOUS
  <2>2. e \in MpEntries
    BY <2>1 DEF MpEntries, MpTyped
  <2>3. /\ mpFile.generation < MpWrites
        /\ mpFile' = [generation |-> mpFile.generation + 1,
                      entries |-> [mpFile.entries EXCEPT ![p] = e], verifies |-> TRUE]
        /\ UNCHANGED <<mpStore, mpRegistry, mpPending, mpRec, mpSnapshots, mpLive, mpLoads>>
    BY <1>3, <2>1 DEF MpApprove
  <2>4. mpFile.generation + 1 \in 0 .. MpWrites
    BY <2>3, MpAssumption DEF MpTyped
  <2>5. [mpFile.entries EXCEPT ![p] = e] \in [MpPackages -> MpEntries]
    BY <2>2 DEF MpTyped
  <2>6. mpFile' \in [generation : 0 .. MpWrites, entries : [MpPackages -> MpEntries],
                     verifies : BOOLEAN]
    BY <2>3, <2>4, <2>5
  <2>7. QED
    BY <2>3, <2>6 DEF MpTyped
<1>4. ASSUME NEW p \in MpPackages, NEW i \in MpImages, MpFileDamaged(p, i) PROVE MpTyped'
  <2>1. PICK e : e = [image |-> i, enabled |-> TRUE]
    OBVIOUS
  <2>2. e \in MpEntries
    BY <2>1 DEF MpEntries
  <2>3. mpFile' = [mpFile EXCEPT !.verifies = FALSE, !.entries[p] = e]
    BY <1>4, <2>1 DEF MpFileDamaged
  <2>4. PICK E : E = [mpFile.entries EXCEPT ![p] = e]
    OBVIOUS
  <2>5. E \in [MpPackages -> MpEntries]
    BY <2>2, <2>4 DEF MpTyped
  <2>6. mpFile' = [generation |-> mpFile.generation, entries |-> E, verifies |-> FALSE]
    BY <2>3, <2>4 DEF MpTyped
  <2>7. mpFile' \in [generation : 0 .. MpWrites, entries : [MpPackages -> MpEntries],
                     verifies : BOOLEAN]
    BY <2>5, <2>6 DEF MpTyped
  <2>8. QED
    BY <1>4, <2>7 DEF MpFileDamaged, MpTyped
<1>5. ASSUME NEW p \in MpPackages, NEW i \in MpImages \cup {MpAbsent}, MpStorageChange(p, i)
      PROVE  MpTyped'
  <2>1. mpPending' # <<>> => mpPending'[1] \in MpLoadings
    BY <1>5, MpStorageEffect DEF MpTyped
  <2>2. QED
    BY <1>5, <2>1, MpStorageEffect DEF MpTyped
<1>6. ASSUME NEW p \in MpPackages, MpResolve(p) PROVE MpTyped'
  <2>1. PICK e : e = MpRead.entries[p]
    OBVIOUS
  <2>2. e \in MpEntries
    BY <2>1, MpReadType
  <2>a. PICK l : l = [package |-> p, entry |-> e, image |-> MpAbsent, swapped |-> FALSE]
    OBVIOUS
  <2>b. l \in MpLoadings
    BY <2>2, <2>a DEF MpLoadings
  <2>3. mpPending' = <<>> \/ mpPending' = <<l>>
    BY <1>6, <2>1, <2>a DEF MpResolve
  <2>4. mpPending' # <<>> => mpPending'[1] \in MpLoadings
    BY <2>b, <2>3
  <2>5. mpRegistry' \in [generation : 0 .. MpWrites, entries : [MpPackages -> MpEntries]]
    BY <1>6, MpReadType DEF MpResolve
  <2>6. QED
    BY <1>6, <2>4, <2>5 DEF MpResolve, MpTyped
<1>7. ASSUME NEW p \in MpPackages,
             MpStart(p) \/ MpPublish(p) \/ MpQuiesce(p) \/ MpSnapshot(p) \/ MpStop(p) \/ MpUnload(p)
      PROVE  MpTyped'
  <2>1. MpMoved(p)
    BY <1>7, MpLifecycle
  <2>2. QED
    BY <2>1 DEF MpMoved, MpTyped
<1>8. CASE UNCHANGED mpVars
  BY <1>8 DEF mpVars, MpTyped
<1>9. QED
  BY <1>1, <1>a, <1>2, <1>3, <1>4, <1>5, <1>6, <1>7, <1>8 DEF MpNext

-----------------------------------------------------------------------------
(* Instances.                                                              *)

(* Every step keeps each record in step with its instance and its last     *)
(* snapshot.                                                               *)
LEMMA MpInstanceStep == MpTyped /\ MpInstance /\ MpLoadInv /\ [MpNext]_mpVars => MpInstance'
<1> SUFFICES ASSUME MpTyped, MpInstance, MpLoadInv, [MpNext]_mpVars PROVE MpInstance'
  OBVIOUS
<1>1. CASE UNCHANGED <<mpRec, mpLive, mpSnapshots>>
  BY <1>1 DEF MpInstance
<1>2. ASSUME NEW imports \in BOOLEAN, MpImport(imports) PROVE MpInstance'
  <2>1. mpSnapshots' = mpSnapshots
    BY <1>2, MpImportEffect
  <2>2. CASE UNCHANGED <<mpRec, mpLive, mpLoads>>
    BY <1>1, <2>1, <2>2
  <2>3. CASE \E q \in MpPackages, i \in MpImages : MpLoaded(q, i)
    BY <2>1, <2>3 DEF MpLoaded, MpInstance
  <2>4. QED
    BY <1>2, <2>2, <2>3, MpImportEffect
<1>3. ASSUME NEW p \in MpPackages,
             MpStart(p) \/ MpPublish(p) \/ MpQuiesce(p) \/ MpSnapshot(p) \/ MpStop(p) \/ MpUnload(p)
      PROVE  MpInstance'
  <2>1. MpMoved(p) /\ MpStepped(p)
    BY <1>3, MpLifecycle
  <2>2. /\ mpLive[p] \in Int /\ mpSnapshots[p] \in Int
        /\ mpRec[p].snapshot \in Int /\ mpRec[p].snapshot >= 0
    BY MpAssumption DEF MpTyped, MpRecords
  <2>3. /\ mpRec'[p].state \in MpAdmitted => mpRec'[p].image \in MpImages /\ mpLive'[p] >= 0
        /\ mpRec'[p].state \in {"UNKNOWN", "UNLOADED"} => mpLive'[p] = -1
        /\ mpRec'[p].state = "LOADED" => mpRec'[p].snapshot = mpSnapshots'[p]
        /\ mpRec'[p].state = "ACTIVE" => mpLive'[p] >= mpSnapshots'[p]
    BY <2>1, <2>2 DEF MpMoved, MpStepped, MpInstance, MpAdmitted
  <2>4. QED
    BY <2>1, <2>3 DEF MpMoved, MpInstance
<1>4. CASE MpReloadRegistry \/ MpLoad \/ UNCHANGED mpVars
  BY <1>1, <1>4 DEF MpReloadRegistry, MpLoad, mpVars
<1>5. CASE \E p \in MpPackages : \/ \E enabled \in BOOLEAN : MpApprove(p, enabled)
                                 \/ \E i \in MpImages : MpFileDamaged(p, i)
                                 \/ \E i \in MpImages \cup {MpAbsent} : MpStorageChange(p, i)
                                 \/ MpResolve(p)
  BY <1>1, <1>5 DEF MpApprove, MpFileDamaged, MpStorageChange, MpResolve
<1>6. QED
  BY <1>2, <1>3, <1>4, <1>5 DEF MpNext

(* Every step keeps what a verified load relies on.                        *)
LEMMA MpLoadInvStep == MpTyped /\ MpInstance /\ MpLoadInv /\ [MpNext]_mpVars => MpLoadInv'
<1> SUFFICES ASSUME MpTyped, MpInstance, MpLoadInv, [MpNext]_mpVars PROVE MpLoadInv'
  OBVIOUS
<1>1. ASSUME mpRec' = mpRec PROVE MpUsage' = MpUsage
  BY <1>1 DEF MpUsage, MpUnits
<1>2. CASE mpPending' = <<>>
  BY <1>2 DEF MpLoadInv
<1>3. CASE UNCHANGED <<mpPending, mpStore, mpRec>>
  BY <1>1, <1>3 DEF MpLoadInv
<1>4. CASE MpLoad
  <2>1. CASE mpPending' # <<>>
    <3>1. PICK i \in MpImages, l \in MpLoadings :
             /\ mpPending' = <<l>> /\ l.image = i
             /\ i = mpStore[l.package]
             /\ mpRec[MpManifest[i].package_id].state \in {"UNKNOWN", "UNLOADED"}
             /\ MpUsage + MpManifest[i].budget <= MpBudget
      BY <1>4, <2>1, MpLoadEffect
    <3>2. mpStore' = mpStore /\ mpRec' = mpRec /\ MpUsage' = MpUsage
      BY <1>1, <1>4, MpLoadEffect
    <3>3. mpPending'[1] = l
      BY <3>1
    <3>4. QED
      BY <3>1, <3>2, <3>3 DEF MpLoadInv
  <2>2. QED
    BY <1>2, <2>1
<1>5. ASSUME NEW p \in MpPackages, NEW i \in MpImages \cup {MpAbsent}, MpStorageChange(p, i)
      PROVE  MpLoadInv'
  <2>1. mpRec' = mpRec /\ MpUsage' = MpUsage
    BY <1>1, <1>5, MpStorageEffect
  <2>2. CASE /\ mpPending' = mpPending
             /\ mpPending # <<>> => mpStore'[mpPending[1].package] = mpStore[mpPending[1].package]
    BY <2>1, <2>2 DEF MpLoadInv
  <2>3. CASE \E l \in MpLoadings :
                /\ mpPending # <<>> /\ mpPending' = <<l>> /\ l.swapped
                /\ l.image = mpPending[1].image
    <3>1. PICK l \in MpLoadings : /\ mpPending # <<>> /\ mpPending' = <<l>> /\ l.swapped
                                  /\ l.image = mpPending[1].image
      BY <2>3
    <3>2. mpPending'[1] = l
      BY <3>1
    <3>3. QED
      BY <2>1, <3>1, <3>2 DEF MpLoadInv
  <2>4. QED
    BY <1>5, <2>2, <2>3, MpStorageEffect
<1>6. ASSUME NEW p \in MpPackages, MpResolve(p) PROVE MpLoadInv'
  <2>1. mpPending' # <<>> => mpPending'[1].image = MpAbsent
    BY <1>6 DEF MpResolve
  <2>2. QED
    BY <2>1 DEF MpLoadInv
<1>7. ASSUME NEW p \in MpPackages,
             MpStart(p) \/ MpPublish(p) \/ MpQuiesce(p) \/ MpSnapshot(p) \/ MpStop(p) \/ MpUnload(p)
      PROVE  MpLoadInv'
  <2>1. /\ UNCHANGED <<mpPending, mpStore>>
        /\ mpPending = <<>> \/ mpRec' = mpRec
    BY <1>7, MpLifecycle DEF MpMoved
  <2>2. QED
    BY <1>2, <1>3, <2>1
<1>8. CASE \E imports \in BOOLEAN : MpImport(imports)
  BY <1>2, <1>8 DEF MpImport
<1>9. CASE \/ MpReloadRegistry \/ UNCHANGED mpVars
           \/ \E p \in MpPackages : \/ \E enabled \in BOOLEAN : MpApprove(p, enabled)
                                    \/ \E i \in MpImages : MpFileDamaged(p, i)
  BY <1>3, <1>9 DEF MpReloadRegistry, MpApprove, MpFileDamaged, mpVars
<1>10. QED
  BY <1>4, <1>5, <1>6, <1>7, <1>8, <1>9 DEF MpNext

-----------------------------------------------------------------------------
(* Trust.                                                                  *)

(* Signing only adds: what was the owner's stays so.                       *)
LEMMA MpSignedGrows ==
    ASSUME NEW E, MpSignedOnly(E), mpSigned \subseteq mpSigned'
    PROVE  \A p \in MpPackages : E[p].enabled => <<p, E[p].image>> \in mpSigned'
BY DEF MpSignedOnly

(* What the library reads from the file is signed, or it has nothing.      *)
LEMMA MpReadSigned ==
    ASSUME MpTyped, MpTrustInv
    PROVE  /\ MpSignedOnly(MpRead.entries) /\ MpSignedOnly(MpNoRegistry.entries)
           /\ MpReadable => MpSignedOnly(mpFile.entries)
<1>1. MpReadable => MpSignedOnly(mpFile.entries)
  BY DEF MpTrustInv, MpReadable
<1>2. MpSignedOnly(MpNoRegistry.entries)
  BY DEF MpSignedOnly, MpNoRegistry, MpNoEntry
<1>3. CASE mpRegistry.generation = 0 /\ MpReadable
  BY <1>1, <1>2, <1>3 DEF MpRead
<1>4. CASE ~(mpRegistry.generation = 0 /\ MpReadable)
  BY <1>1, <1>2, <1>4 DEF MpRead, MpTrustInv
<1>5. QED
  BY <1>1, <1>2, <1>3, <1>4

(* Every step keeps the chain from the owner's signature to the record the *)
(* library returns.                                                        *)
LEMMA MpTrustStep ==
    MpTyped /\ MpInstance /\ MpLoadInv /\ MpTrustInv /\ [MpNext]_mpVars => MpTrustInv'
<1> SUFFICES ASSUME MpTyped, MpInstance, MpLoadInv, MpTrustInv, [MpNext]_mpVars PROVE MpTrustInv'
  OBVIOUS
<1>a. CASE MpLoad
  <2>1. /\ mpPending # <<>> /\ UNCHANGED <<mpFile, mpRegistry, mpRec, mpSigned>>
        /\ mpPending' # <<>> => /\ mpPending'[1].package = mpPending[1].package
                               /\ mpPending'[1].entry = mpPending[1].entry
    BY <1>a, MpLoadEffect
  <2>2. QED
    BY <2>1 DEF MpTrustInv, MpSignedOnly, MpReturnedTrusted
<1>1. CASE UNCHANGED <<mpFile, mpRegistry, mpPending, mpRec, mpSigned>>
  BY <1>1 DEF MpTrustInv, MpSignedOnly, MpReturnedTrusted
<1>2. CASE MpReloadRegistry
  <2>1. UNCHANGED <<mpFile, mpPending, mpRec, mpSigned>>
    BY <1>2 DEF MpReloadRegistry
  <2>2. MpSignedOnly(mpRegistry'.entries)
    <3>1. CASE MpReadable
      <4>1. mpRegistry'.entries = mpFile.entries
        BY <1>2, <3>1 DEF MpReloadRegistry
      <4>2. QED
        BY <3>1, <4>1, MpReadSigned
    <3>2. CASE ~MpReadable
      <4>1. mpRegistry'.entries = MpNoRegistry.entries
        BY <1>2, <3>2 DEF MpReloadRegistry
      <4>2. QED
        BY <4>1, MpReadSigned
    <3>3. QED
      BY <3>1, <3>2
  <2>3. QED
    BY <2>1, <2>2 DEF MpTrustInv, MpSignedOnly, MpReturnedTrusted
<1>3. ASSUME NEW imports \in BOOLEAN, MpImport(imports) PROVE MpTrustInv'
  <2>1. /\ mpPending # <<>> /\ mpPending' = <<>>
        /\ UNCHANGED <<mpFile, mpRegistry, mpSigned>>
    BY <1>3, MpImportEffect
  <2>2. MpReturnedTrusted'
    <3>1. CASE UNCHANGED mpRec
      BY <2>1, <3>1 DEF MpTrustInv, MpReturnedTrusted
    <3>2. CASE \E q \in MpPackages, i \in MpImages : MpLoaded(q, i)
      <4>1. PICK q \in MpPackages, i \in MpImages : MpLoaded(q, i)
        BY <3>2
      <4>2. mpRec'[q].returned => /\ <<q, mpRec'[q].image>> \in mpSigned
                                  /\ mpRec'[q].code = mpRec'[q].image \/ mpRec'[q].swapped
        BY <2>1, <4>1 DEF MpLoaded, MpTrustInv
      <4>3. ASSUME NEW p \in MpPackages, p # q, mpRec'[p].returned
            PROVE  /\ <<p, mpRec'[p].image>> \in mpSigned
                   /\ mpRec'[p].code = mpRec'[p].image \/ mpRec'[p].swapped
        BY <4>1, <4>3 DEF MpLoaded, MpTrustInv, MpReturnedTrusted
      <4>4. QED
        BY <2>1, <4>2, <4>3 DEF MpReturnedTrusted
    <3>3. QED
      BY <1>3, <3>1, <3>2, MpImportEffect
  <2>3. QED
    BY <2>1, <2>2 DEF MpTrustInv, MpSignedOnly
<1>4. ASSUME NEW p \in MpPackages, NEW enabled \in BOOLEAN, MpApprove(p, enabled) PROVE MpTrustInv'
  <2>1. PICK e : e = [image |-> mpStore[p], enabled |-> enabled]
    OBVIOUS
  <2>2. /\ mpFile.generation = 0 \/ mpFile.verifies
        /\ mpFile' = [generation |-> mpFile.generation + 1,
                      entries |-> [mpFile.entries EXCEPT ![p] = e], verifies |-> TRUE]
        /\ mpSigned' = mpSigned \cup {<<p, e.image>>}
        /\ UNCHANGED <<mpRegistry, mpPending, mpRec>>
    BY <1>4, <2>1 DEF MpApprove
  <2>3. mpSigned \subseteq mpSigned' /\ <<p, e.image>> \in mpSigned'
    BY <2>2
  <2>4. PICK E : E = [mpFile.entries EXCEPT ![p] = e]
    OBVIOUS
  <2>5. E[p] = e /\ \A q \in MpPackages : q # p => E[q] = mpFile.entries[q]
    BY <2>4 DEF MpTyped
  <2>6. \A q \in MpPackages : mpFile.entries[q].enabled => <<q, mpFile.entries[q].image>> \in mpSigned'
    BY <2>2, <2>3, MpSignedGrows DEF MpTrustInv
  <2>7. \A q \in MpPackages : E[q].enabled => <<q, E[q].image>> \in mpSigned'
    BY <2>3, <2>5, <2>6
  <2>8. mpFile'.entries = E
    BY <2>2, <2>4
  <2>9. \A q \in MpPackages : mpRegistry.entries[q].enabled
                                 => <<q, mpRegistry.entries[q].image>> \in mpSigned'
    BY <2>3, MpSignedGrows DEF MpTrustInv
  <2>10. MpSignedOnly(mpFile.entries)' /\ MpSignedOnly(mpRegistry.entries)'
    BY <2>2, <2>7, <2>8, <2>9 DEF MpSignedOnly
  <2>11. MpReturnedTrusted'
    BY <2>2, <2>3 DEF MpTrustInv, MpReturnedTrusted
  <2>12. mpPending # <<>> => <<mpPending[1].package, mpPending[1].entry.image>> \in mpSigned'
    BY <2>3 DEF MpTrustInv
  <2>13. QED
    BY <2>2, <2>10, <2>11, <2>12 DEF MpTrustInv
<1>5. ASSUME NEW p \in MpPackages, NEW i \in MpImages, MpFileDamaged(p, i) PROVE MpTrustInv'
  <2>1. mpFile'.verifies = FALSE /\ mpFile'.generation = mpFile.generation
        /\ mpFile.generation \in Int /\ mpFile.generation > 0
    BY <1>5 DEF MpFileDamaged, MpTyped
  <2>2. UNCHANGED <<mpRegistry, mpPending, mpRec, mpSigned>>
    BY <1>5 DEF MpFileDamaged
  <2>3. ~(mpFile'.generation = 0 \/ mpFile'.verifies)
    BY <2>1
  <2>4. QED
    BY <2>2, <2>3 DEF MpTrustInv, MpSignedOnly, MpReturnedTrusted
<1>6. ASSUME NEW p \in MpPackages, NEW i \in MpImages \cup {MpAbsent}, MpStorageChange(p, i)
      PROVE  MpTrustInv'
  <2>1. UNCHANGED <<mpFile, mpRegistry, mpRec, mpSigned>>
    BY <1>6, MpStorageEffect
  <2>2. mpPending' # <<>> => /\ mpPending # <<>>
                            /\ mpPending'[1].package = mpPending[1].package
                            /\ mpPending'[1].entry = mpPending[1].entry
    BY <1>6, MpStorageEffect
  <2>3. QED
    BY <2>1, <2>2 DEF MpTrustInv, MpSignedOnly, MpReturnedTrusted
<1>7. ASSUME NEW p \in MpPackages, MpResolve(p) PROVE MpTrustInv'
  <2>1. PICK e : e = MpRead.entries[p]
    OBVIOUS
  <2>2. /\ mpRegistry' = MpRead
        /\ \/ mpPending' = <<>>
           \/ e.enabled /\ mpPending' = <<[package |-> p, entry |-> e, image |-> MpAbsent,
                                            swapped |-> FALSE]>>
        /\ UNCHANGED <<mpFile, mpRec, mpSigned>>
    BY <1>7, <2>1 DEF MpResolve
  <2>3. e.enabled => <<p, e.image>> \in mpSigned
    BY <2>1, MpReadSigned DEF MpSignedOnly
  <2>4. mpPending' # <<>> => <<mpPending'[1].package, mpPending'[1].entry.image>> \in mpSigned
    BY <2>2, <2>3
  <2>5. MpSignedOnly(mpRegistry'.entries)
    BY <2>2, MpReadSigned
  <2>6. QED
    BY <2>2, <2>4, <2>5 DEF MpTrustInv, MpSignedOnly, MpReturnedTrusted
<1>8. ASSUME NEW p \in MpPackages,
             MpStart(p) \/ MpPublish(p) \/ MpQuiesce(p) \/ MpSnapshot(p) \/ MpStop(p) \/ MpUnload(p)
      PROVE  MpTrustInv'
  <2>1. MpMoved(p)
    BY <1>8, MpLifecycle
  <2>2. MpReturnedTrusted'
    BY <2>1 DEF MpMoved, MpTrustInv, MpReturnedTrusted
  <2>3. QED
    BY <2>1, <2>2 DEF MpMoved, MpTrustInv, MpSignedOnly
<1>9. CASE UNCHANGED mpVars
  BY <1>1, <1>9 DEF mpVars
<1>10. QED
  BY <1>a, <1>2, <1>3, <1>4, <1>5, <1>6, <1>7, <1>8, <1>9 DEF MpNext

-----------------------------------------------------------------------------
(* The budget.                                                             *)

MpIn(f) == {p \in MpPackages : f[p].state \in MpAdmitted}
MpUnitsOf(f) == UNION {{p} \X (1 .. MpManifest[f[p].image].budget) : p \in MpIn(f)}

(* The units of the admitted packages add up their budgets.                *)
LEMMA MpUnitsSum ==
    ASSUME NEW f, NEW g, \A p \in MpIn(f) : g[p].image = f[p].image
    PROVE  MpUnitsOf(f) = Units(MpIn(f), [p \in MpPackages |-> MpManifest[g[p].image].budget])
<1> DEFINE a == [p \in MpPackages |-> MpManifest[g[p].image].budget]
<1>1. ASSUME NEW p \in MpIn(f) PROVE a[p] = MpManifest[f[p].image].budget
  BY DEF MpIn
<1> HIDE DEF a
<1>2. QED
  BY <1>1 DEF MpUnitsOf, Units, a

(* Records that only leave the admitted states take no more of the budget. *)
LEMMA MpFewer ==
    ASSUME NEW f, NEW g, IsFiniteSet(MpUnitsOf(f)),
           \A p \in MpIn(g) : p \in MpIn(f) /\ g[p].image = f[p].image
    PROVE  IsFiniteSet(MpUnitsOf(g)) /\ Cardinality(MpUnitsOf(g)) <= Cardinality(MpUnitsOf(f))
<1> DEFINE a == [p \in MpPackages |-> MpManifest[f[p].image].budget]
<1>1. MpIn(g) \subseteq MpIn(f) /\ \A p \in MpIn(g) : f[p].image = g[p].image
  OBVIOUS
<1>2. MpUnitsOf(g) = Units(MpIn(g), a) /\ MpUnitsOf(f) = Units(MpIn(f), a)
  BY <1>1, MpUnitsSum
<1> HIDE DEF a
<1>3. QED
  BY <1>1, <1>2, FewerUnits

(* A package more adds its budget.                                         *)
LEMMA MpOneMore ==
    ASSUME NEW f, NEW g, NEW q \in MpPackages, IsFiniteSet(MpUnitsOf(f)),
           q \notin MpIn(f), q \in MpIn(g), MpManifest[g[q].image].budget \in Nat,
           \A p \in MpPackages : p # q => g[p] = f[p]
    PROVE  /\ IsFiniteSet(MpUnitsOf(g))
           /\ Cardinality(MpUnitsOf(g)) = Cardinality(MpUnitsOf(f)) + MpManifest[g[q].image].budget
<1> DEFINE a == [p \in MpPackages |-> MpManifest[g[p].image].budget]
<1>1. \A p \in MpIn(f) : g[p].image = f[p].image
  BY DEF MpIn
<1>2. MpIn(g) = MpIn(f) \cup {q}
  BY DEF MpIn
<1>3. MpUnitsOf(f) = Units(MpIn(f), a) /\ MpUnitsOf(g) = Units(MpIn(g), a)
  BY <1>1, MpUnitsSum
<1>4. a[q] = MpManifest[g[q].image].budget
  OBVIOUS
<1> HIDE DEF a
<1>5. a[q] \in Nat /\ IsFiniteSet(Units(MpIn(f), a))
  BY <1>3, <1>4
<1>6. /\ IsFiniteSet(Units(MpIn(f) \cup {q}, a))
      /\ Cardinality(Units(MpIn(f) \cup {q}, a)) = Cardinality(Units(MpIn(f), a)) + a[q]
  BY <1>5, OneMoreUnits
<1>7. QED
  BY <1>2, <1>3, <1>4, <1>6

(* Every step keeps the admitted packages within the budget: a load is     *)
(* admitted only when its own budget fits beside the others.               *)
LEMMA MpBudgetStep ==
    MpTyped /\ MpInstance /\ MpLoadInv /\ MpBudgetInv /\ [MpNext]_mpVars => MpBudgetInv'
<1> SUFFICES ASSUME MpTyped, MpInstance, MpLoadInv, MpBudgetInv, [MpNext]_mpVars PROVE MpBudgetInv'
  OBVIOUS
<1>1. MpUsed = MpUnitsOf(mpRec) /\ MpUsed' = MpUnitsOf(mpRec')
  BY DEF MpUsed, MpUnits, MpUnitsOf, MpIn
<1>2. /\ IsFiniteSet(MpUnitsOf(mpRec)) /\ Cardinality(MpUnitsOf(mpRec)) <= MpBudget
      /\ Cardinality(MpUnitsOf(mpRec)) \in Nat /\ MpBudget \in Nat
  BY <1>1, FS_CardinalityType, MpAssumption DEF MpBudgetInv
<1>3. CASE UNCHANGED mpRec
  BY <1>1, <1>3 DEF MpBudgetInv
<1>4. ASSUME \A p \in MpIn(mpRec') : p \in MpIn(mpRec) /\ mpRec'[p].image = mpRec[p].image
      PROVE  MpBudgetInv'
  <2>1. /\ IsFiniteSet(MpUnitsOf(mpRec'))
        /\ Cardinality(MpUnitsOf(mpRec')) <= Cardinality(MpUnitsOf(mpRec))
    BY <1>2, <1>4, MpFewer
  <2>2. Cardinality(MpUnitsOf(mpRec')) \in Nat
    BY <2>1, FS_CardinalityType
  <2>3. Cardinality(MpUnitsOf(mpRec')) <= MpBudget
    BY <1>2, <2>1, <2>2
  <2>4. QED
    BY <1>1, <2>1, <2>3 DEF MpBudgetInv
<1>5. ASSUME NEW imports \in BOOLEAN, MpImport(imports) PROVE MpBudgetInv'
  <2>1. CASE \E q \in MpPackages, i \in MpImages : MpLoaded(q, i)
    <3>1. PICK q \in MpPackages, i \in MpImages : MpLoaded(q, i)
      BY <2>1
    <3>2. MpManifest[i].budget \in Nat /\ mpRec'[q].image = i
      BY <3>1, MpAssumption DEF MpLoaded
    <3>3. /\ q \notin MpIn(mpRec) /\ q \in MpIn(mpRec')
          /\ \A p \in MpPackages : p # q => mpRec'[p] = mpRec[p]
      BY <3>1 DEF MpLoaded, MpIn, MpAdmitted
    <3>4. /\ IsFiniteSet(MpUnitsOf(mpRec'))
          /\ Cardinality(MpUnitsOf(mpRec'))
                = Cardinality(MpUnitsOf(mpRec)) + MpManifest[mpRec'[q].image].budget
      <4>1. MpManifest[mpRec'[q].image].budget \in Nat
        BY <3>2
      <4>2. QED
        BY <1>2, <3>3, <4>1, MpOneMore
    <3>5. Cardinality(MpUnitsOf(mpRec)) + MpManifest[i].budget <= MpBudget
      <4>1. MpUsage = Cardinality(MpUsed)
        BY DEF MpUsage, MpUsed
      <4>2. QED
        BY <1>1, <3>1, <4>1 DEF MpLoaded
    <3>6. QED
      BY <1>1, <3>2, <3>4, <3>5 DEF MpBudgetInv
  <2>2. QED
    BY <1>3, <1>5, <2>1, MpImportEffect
<1>6. ASSUME NEW p \in MpPackages,
             MpStart(p) \/ MpPublish(p) \/ MpQuiesce(p) \/ MpSnapshot(p) \/ MpStop(p) \/ MpUnload(p)
      PROVE  MpBudgetInv'
  <2>1. MpMoved(p)
    BY <1>6, MpLifecycle
  <2>2. QED
    BY <1>4, <2>1 DEF MpMoved, MpIn
<1>7. CASE MpReloadRegistry \/ MpLoad \/ UNCHANGED mpVars
  BY <1>3, <1>7 DEF MpReloadRegistry, MpLoad, mpVars
<1>8. CASE \E p \in MpPackages : \/ \E enabled \in BOOLEAN : MpApprove(p, enabled)
                                 \/ \E i \in MpImages : MpFileDamaged(p, i)
                                 \/ \E i \in MpImages \cup {MpAbsent} : MpStorageChange(p, i)
                                 \/ MpResolve(p)
  BY <1>3, <1>8 DEF MpApprove, MpFileDamaged, MpStorageChange, MpResolve
<1>9. QED
  BY <1>5, <1>6, <1>7, <1>8 DEF MpNext

(* Every step keeps the invariant.                                         *)
LEMMA MpNextInv == MpInv /\ [MpNext]_mpVars => MpInv'
BY MpTypedStep, MpInstanceStep, MpLoadInvStep, MpTrustStep, MpBudgetStep DEF MpInv

(* The invariant gives the types and the three promises.                   *)
LEMMA MpInvSound == MpInv => MpTypeOK /\ MpSound
<1> SUFFICES ASSUME MpInv PROVE MpTypeOK /\ MpSound
  OBVIOUS
<1>1. MpTyped /\ MpInstance /\ MpTrustInv /\ MpBudgetInv
  BY DEF MpInv
<1>2. MpTypeOK
  BY <1>1 DEF MpTyped, MpTypeOK, MpRecords
<1>3. {p \in MpPackages : mpLive[p] >= 0 /\ mpRec[p].state # "FAILED"}
         = {p \in MpPackages : mpRec[p].state \in MpAdmitted}
  <2>1. ASSUME NEW p \in MpPackages
        PROVE  mpLive[p] >= 0 /\ mpRec[p].state # "FAILED" <=> mpRec[p].state \in MpAdmitted
    <3>1. mpRec[p].state \in MpStates
      BY <1>1 DEF MpTyped, MpRecords
    <3>2. QED
      BY <1>1, <3>1 DEF MpInstance, MpStates, MpAdmitted
  <2>2. QED
    BY <2>1
<1>4. MpWithinBudget
  BY <1>1, <1>3 DEF MpBudgetInv, MpUsed, MpWithinBudget
<1>5. MpStateCarried /\ MpReturnedTrusted
  BY <1>1 DEF MpInstance, MpStateCarried, MpTrustInv
<1>6. QED
  BY <1>2, <1>4, <1>5 DEF MpSound

(* The package manager, for any packages, images, manifests, budget and    *)
(* any order of signing, changes of storage, loads, failures and unloads:  *)
(* the packages that did not fail stay within the budget, a restarted      *)
(* package has its last snapshot, and a package the library returned was   *)
(* verified as one the owner signed and runs that code, unless storage was *)
(* written between the verification and the import (module_package.py,     *)
(* trusted_module_library.py).                                             *)
THEOREM PackagesTrusted == MpSpec => [](MpTypeOK /\ MpSound)
<1>1. MpInit => MpInv
  BY MpInitInv
<1>2. MpInv /\ [MpNext]_mpVars => MpInv'
  BY MpNextInv
<1>3. MpInv => MpTypeOK /\ MpSound
  BY MpInvSound
<1>4. QED
  BY <1>1, <1>2, <1>3, PTL DEF MpSpec
=============================================================================
