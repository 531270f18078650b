----------------------- MODULE SpecialistNode_proofs -----------------------
(***************************************************************************)
(* Proofs about the specialist node, for any set of works and any number   *)
(* of slots.                                                               *)
(***************************************************************************)
EXTENDS SpecialistNode, FiniteSetTheorems, TLAPS

(* The state each of these proofs goes by, in one inductive invariant: the *)
(* types, the runs of each handler, the agreement with Runtime, and a      *)
(* finite set of slots.                                                    *)
SlotInv == IsFiniteSet(active) /\ SlotsBounded

NodeInv == TypeOK /\ RunInv /\ ActiveAgrees /\ SlotInv

(* The initial state.                                                      *)
LEMMA InitInv == Init => NodeInv
<1> SUFFICES ASSUME Init PROVE NodeInv
  OBVIOUS
<1>1. TypeOK
  BY DEF Init, TypeOK
<1>2. RunInv /\ ActiveAgrees
  BY DEF Init, RunInv, RunRecorded, ActiveAgrees
<1>3. SlotInv
  BY FS_EmptySet, TasksAssumption DEF Init, SlotInv, SlotsBounded
<1> QED BY <1>1, <1>2, <1>3 DEF NodeInv

(* A work taken on fills a free slot; every other step keeps or frees      *)
(* slots.                                                                  *)
LEMMA SlotStep ==
    ASSUME SlotInv,
           \/ active' \subseteq active
           \/ \E w : ~Full /\ active' = active \cup {w}
    PROVE  SlotInv'
<1>1. CASE active' \subseteq active
  <2>1. IsFiniteSet(active') /\ Cardinality(active') <= Cardinality(active)
    BY <1>1, FS_Subset DEF SlotInv
  <2>2. Cardinality(active') \in Nat /\ Cardinality(active) \in Nat
    BY <2>1, FS_CardinalityType DEF SlotInv
  <2> QED BY <2>1, <2>2, TasksAssumption DEF SlotInv, SlotsBounded
<1>2. CASE \E w : ~Full /\ active' = active \cup {w}
  <2> PICK w : ~Full /\ active' = active \cup {w}
    BY <1>2
  <2>1. IsFiniteSet(active') /\ Cardinality(active') \in {Cardinality(active), Cardinality(active) + 1}
    BY FS_AddElement DEF SlotInv
  <2>2. Cardinality(active) \in Nat
    BY FS_CardinalityType DEF SlotInv
  <2> QED BY <2>1, <2>2, TasksAssumption DEF SlotInv, SlotsBounded, Full
<1> QED BY <1>1, <1>2

(* What receive_offer may do to the slots and the lease.                   *)
LEMMA OfferInv ==
    ASSUME NodeInv, NEW w \in Works, NEW e \in BOOLEAN, ReceiveOffer(w, e) PROVE NodeInv'
<1> USE DEF NodeInv
<1>1. \/ UNCHANGED <<active, runs, lease>>
      \/ /\ w \notin active /\ lease' = [lease EXCEPT ![w] = "none"]
         /\ UNCHANGED <<active, runs>>
      \/ /\ w \notin active /\ lease' = [lease EXCEPT ![w] = "accepted"]
         /\ UNCHANGED <<active, runs>>
      \/ /\ w \notin active /\ lease' = [lease EXCEPT ![w] = "accepted"] /\ ~Full
         /\ active' = active \cup {w} /\ runs' = [runs EXCEPT ![w] = 0]
  <2>1. CASE w \in completed \cup active /\ UNCHANGED <<active, runs, lease>>
    BY <2>1
  <2>2. CASE /\ w \notin completed \cup active /\ UNCHANGED <<active, runs>>
             /\ \E reply \in Replies(lease[w] # "none") :
                  lease' = IF Applied(reply) THEN [lease EXCEPT ![w] = "none"] ELSE lease
    BY <2>2
  <2>3. CASE /\ w \notin completed \cup active /\ ~Refuses(w, e)
             /\ \E reply \in Replies(lease[w] # "none") :
                  /\ lease' = IF Applied(reply) THEN [lease EXCEPT ![w] = "accepted"] ELSE lease
                  /\ TakeOn(w, reply)
    <3> PICK reply \in Replies(lease[w] # "none") :
               /\ lease' = IF Applied(reply) THEN [lease EXCEPT ![w] = "accepted"] ELSE lease
               /\ TakeOn(w, reply)
      BY <2>3
    <3>1. ~Full
      BY <2>3 DEF Refuses
    <3>2. CASE reply = "ok"
      BY <2>3, <3>1, <3>2 DEF TakeOn, Applied
    <3>3. CASE reply # "ok"
      BY <2>3, <3>3 DEF TakeOn
    <3> QED BY <3>2, <3>3
  <2> QED BY <2>1, <2>2, <2>3 DEF ReceiveOffer
<1>2. up /\ pc = "idle" /\ pc' = "saving" /\ UNCHANGED <<up, result, completed, draining,
                                                         quarantined, handling, file, scar, unsaved, lost>>
  BY DEF ReceiveOffer, Idle
<1>3. TypeOK'
  BY <1>1, <1>2 DEF TypeOK
<1>4. RunInv'
  BY <1>1, <1>2 DEF TypeOK, RunInv, RunRecorded
<1>5. ActiveAgrees'
  BY <1>1, <1>2 DEF TypeOK, ActiveAgrees
<1>6. SlotInv'
  BY <1>1, SlotStep
<1> QED BY <1>3, <1>4, <1>5, <1>6

(* Runtime places a work or takes it back.                                 *)
LEMMA RuntimeInv ==
    ASSUME NodeInv, NEW w \in Works, Place(w) \/ TakeBack(w) PROVE NodeInv'
<1> USE DEF NodeInv
<1>1. UNCHANGED <<up, memVars, file, runs, scar, unsaved>>
  BY DEF Place, TakeBack, histVars
<1>2. TypeOK'
  BY <1>1 DEF Place, TakeBack, memVars, histVars, TypeOK
<1>3. RunInv'
  BY <1>1 DEF memVars, RunInv, RunRecorded
<1>4. ActiveAgrees'
  BY <1>1 DEF memVars, Place, TakeBack, histVars, ActiveAgrees, TypeOK
<1>5. SlotInv'
  BY <1>1, SlotStep DEF memVars
<1> QED BY <1>2, <1>3, <1>4, <1>5

(* The handler of an unfinished task is entered for the first time.        *)
LEMMA RunAcceptedInv ==
    ASSUME NodeInv, NEW w \in Works, RunAccepted(w) PROVE NodeInv'
<1> USE DEF NodeInv
<1>1. TypeOK'
  BY DEF RunAccepted, TypeOK
<1>2. RunInv'
  BY DEF RunAccepted, Idle, TypeOK, RunInv, RunRecorded
<1>3. ActiveAgrees'
  BY DEF RunAccepted, ActiveAgrees
<1>4. SlotInv'
  BY SlotStep DEF RunAccepted
<1> QED BY <1>1, <1>2, <1>3, <1>4

(* A report to Runtime from a task that has its result.                    *)
LEMMA ReportInv ==
    ASSUME NodeInv, NEW w \in active, NEW pending \in SUBSET Works,
           ReportCompletion(w, pending), w \in pending, result \subseteq pending,
           pending \subseteq result \cup {w},
           \/ pc = "running" /\ handling = w /\ handling' = NoWork
           \/ pc = "idle" /\ UNCHANGED handling,
           pc' = "saving", UNCHANGED <<up, draining, quarantined, file, runs, scar>>
    PROVE  NodeInv'
<1> USE DEF NodeInv
<1>1. \/ /\ active' = active \ {w} /\ result' = pending \ {w} /\ completed' = completed \cup {w}
         /\ unsaved' = unsaved \ {w} /\ lost' = lost \ {w}
      \/ /\ result' = pending /\ UNCHANGED <<active, completed, unsaved>>
         /\ lost' \in {lost, lost \cup {w}}
  BY DEF ReportCompletion
<1>2. \/ lease' = lease
      \/ lease' = [lease EXCEPT ![w] = "none"] /\ (w \in lost' \/ w \notin active')
  BY DEF ReportCompletion, Applied, Replies
<1>3. TypeOK'
  BY <1>1, <1>2 DEF TypeOK
<1>4. RunInv'
  BY <1>1 DEF TypeOK, RunInv, RunRecorded
<1>5. ActiveAgrees'
  BY <1>1, <1>2 DEF TypeOK, ActiveAgrees
<1>6. SlotInv'
  BY <1>1, SlotStep
<1> QED BY <1>3, <1>4, <1>5, <1>6

(* The handler returns.                                                    *)
LEMMA FinishRunInv == ASSUME NodeInv, FinishRun PROVE NodeInv'
<1>1. handling \in active /\ KeepResult(handling) \in SUBSET Works
  BY DEF NodeInv, RunInv, TypeOK, FinishRun, KeepResult
<1>2. ReportCompletion(handling, KeepResult(handling))
  BY DEF FinishRun
<1>3. /\ pc = "running" /\ handling' = NoWork /\ pc' = "saving"
      /\ UNCHANGED <<up, draining, quarantined, file, runs, scar>>
  BY DEF FinishRun
<1>4. handling \in KeepResult(handling) /\ result \subseteq KeepResult(handling)
      /\ KeepResult(handling) \subseteq result \cup {handling}
  BY DEF KeepResult
<1> HIDE DEF NodeInv
<1> QED BY <1>1, <1>2, <1>3, <1>4, ReportInv

(* A stored result is reported again.                                      *)
LEMMA RetryInv == ASSUME NodeInv, NEW w \in Works, RetryCompletion(w) PROVE NodeInv'
<1>1. result \in SUBSET Works /\ w \in result /\ w \in active
  BY DEF NodeInv, TypeOK, RunInv, RetryCompletion
<1>2. /\ ReportCompletion(w, result) /\ pc = "idle" /\ pc' = "saving"
      /\ UNCHANGED <<up, draining, quarantined, handling, file, runs, scar>>
  BY DEF RetryCompletion, Idle
<1> QED BY <1>1, <1>2, ReportInv

(* A save, of a request, a heartbeat or a maintenance call.                *)
LEMMA SaveInv ==
    ASSUME NodeInv, Save, pc' \in {pc, "idle"}, pc' = pc \/ pc = "saving",
           draining' \in BOOLEAN, quarantined' \in BOOLEAN, scar' \in BOOLEAN,
           UNCHANGED <<up, active, result, completed, handling, lease, runs, lost>>
    PROVE  NodeInv'
<1> USE DEF NodeInv
<1>1. TypeOK'
  BY DEF Save, TypeOK
<1>2. RunInv'
  BY DEF Save, TypeOK, RunInv, RunRecorded
<1>3. ActiveAgrees'
  BY DEF ActiveAgrees
<1>4. SlotInv'
  BY SlotStep
<1> QED BY <1>1, <1>2, <1>3, <1>4

(* The steps that are a save and a flag.                                   *)
LEMMA SavingInv ==
    ASSUME NodeInv, EndRequest \/ Heartbeat \/ Drain \/ Resume \/ Quarantine \/ ClearQuarantine
    PROVE  NodeInv'
<1>1. draining \in BOOLEAN /\ quarantined \in BOOLEAN /\ scar \in BOOLEAN
  BY DEF NodeInv, TypeOK
<1>2. CASE EndRequest
  BY <1>1, <1>2, SaveInv DEF EndRequest
<1>3. CASE Heartbeat
  BY <1>1, <1>3, SaveInv DEF Heartbeat, memVars
<1>4. CASE Drain
  BY <1>1, <1>4, SaveInv DEF Drain
<1>5. CASE Resume
  BY <1>1, <1>5, SaveInv DEF Resume
<1>6. CASE Quarantine
  BY <1>1, <1>6, SaveInv DEF Quarantine
<1>7. CASE ClearQuarantine
  BY <1>1, <1>7, SaveInv DEF ClearQuarantine
<1> QED BY <1>2, <1>3, <1>4, <1>5, <1>6, <1>7

(* The process ends and boots.                                             *)
LEMMA RestartInv == ASSUME NodeInv, Stop \/ Boot PROVE NodeInv'
<1> USE DEF NodeInv
<1>1. CASE Stop
  <2>1. TypeOK'
    BY <1>1 DEF Stop, TypeOK
  <2>2. RunInv' /\ ActiveAgrees'
    BY <1>1 DEF Stop, RunInv, RunRecorded, ActiveAgrees
  <2>3. SlotInv'
    BY <1>1, SlotStep DEF Stop
  <2> QED BY <2>1, <2>2, <2>3
<1>2. CASE Boot
  <2>1. TypeOK'
    BY <1>2 DEF Boot, TypeOK
  <2>2. RunInv' /\ ActiveAgrees'
    BY <1>2 DEF Boot, RunInv, RunRecorded, ActiveAgrees
  <2>3. SlotInv'
    BY <1>2, SlotStep DEF Boot
  <2> QED BY <2>1, <2>2, <2>3
<1> QED BY <1>1, <1>2

(* Every step preserves the invariant.                                     *)
LEMMA NextInv == NodeInv /\ [Next]_vars => NodeInv'
<1> SUFFICES ASSUME NodeInv, [Next]_vars PROVE NodeInv'
  OBVIOUS
<1>1. CASE \E w \in Works : Place(w) \/ TakeBack(w) \/ RunAccepted(w) \/ RetryCompletion(w)
  BY <1>1, RuntimeInv, RunAcceptedInv, RetryInv
<1>2. CASE \E w \in Works, expired \in BOOLEAN : ReceiveOffer(w, expired)
  BY <1>2, OfferInv
<1>3. CASE FinishRun
  BY <1>3, FinishRunInv
<1>4. CASE EndRequest \/ Heartbeat \/ Drain \/ Resume \/ Quarantine \/ ClearQuarantine
  BY <1>4, SavingInv
<1>5. CASE Stop \/ Boot
  BY <1>5, RestartInv
<1>6. CASE UNCHANGED vars
  BY <1>6, SlotStep
  DEF NodeInv, vars, memVars, histVars, TypeOK, RunInv, RunRecorded, ActiveAgrees
<1> QED BY <1>1, <1>2, <1>3, <1>4, <1>5, <1>6 DEF Next

(* The invariant holds in every reachable state.                           *)
THEOREM Invariance == Spec => []NodeInv
BY InitInv, NextInv, PTL DEF Spec

(* Type correctness of the node's state.                                   *)
THEOREM TypeCorrect == Spec => []TypeOK
<1>1. NodeInv => TypeOK
  BY DEF NodeInv
<1> QED BY <1>1, Invariance, PTL

(* A handler is entered at most once for an acceptance, whatever offers,   *)
(* run requests and completion retries repeat.                             *)
THEOREM RunsOnce == Spec => []HandlerOnce
<1>1. NodeInv => HandlerOnce
  BY DEF NodeInv, RunInv, HandlerOnce
<1> QED BY <1>1, Invariance, PTL

(* A task whose handler was entered is in the state file, or its save      *)
(* raised.                                                                 *)
THEOREM RunsRecorded == Spec => []RunRecorded
<1>1. NodeInv => RunRecorded
  BY DEF NodeInv, RunInv
<1> QED BY <1>1, Invariance, PTL

(* The thread in a handler runs a task that has no result, and a task that *)
(* waits has not run: run_accepted decides under the lock it releases      *)
(* before it calls the handler.                                            *)
THEOREM RunsTracked == Spec => []RunInv
<1>1. NodeInv => RunInv
  BY DEF NodeInv
<1> QED BY <1>1, Invariance, PTL

(* Runtime has every task of the node accepted, unless it took the lease   *)
(* back or closed it in a call whose reply was lost.                       *)
THEOREM Agreement == Spec => []ActiveAgrees
<1>1. NodeInv => ActiveAgrees
  BY DEF NodeInv
<1> QED BY <1>1, Invariance, PTL

(* The node never has more tasks than slots.                               *)
THEOREM WithinLimit == Spec => []SlotsBounded
<1>1. NodeInv => SlotsBounded
  BY DEF NodeInv, SlotInv
<1> QED BY <1>1, Invariance, PTL

=============================================================================
