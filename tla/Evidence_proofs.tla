--------------------------- MODULE Evidence_proofs ---------------------------
(***************************************************************************)
(* Proofs about the five components that carry evidence of the body to     *)
(* Runtime: the published camera frame, the snapshot file the organs merge *)
(* their records into, the sensor fabric behind the LAN ingress, the       *)
(* witnesses of a seat, and the microphone, position, power and token      *)
(* senses.  Each is proved about on its own: they share no state.          *)
(***************************************************************************)
EXTENDS CurrentFrame, BodyState, SensorLan, SeatSense, BodySenses, FiniteSetTheorems, TLAPS

-----------------------------------------------------------------------------
(* The current camera frame.                                               *)

CfSpec == CfInit /\ [][CfNext]_cfVars

CfFiles == [inode : Nat, modified : Nat, id : Nat, kind : CfKinds, made : Nat]
CfContents == [id : Nat, kind : CfKinds, modified : Nat, stamp : Nat]

CfTyped ==
    /\ cfNow \in Nat /\ cfWrites \in Nat
    /\ cfUp \in CfFiles /\ cfBefore \in CfFiles
    /\ cfBytes \in CfContents /\ cfTemp \in CfContents /\ cfTarget \in CfContents
    /\ cfAt \in {"idle", "opened", "read", "captured", "written"}

(* The upstream file's time of modification only grows, so equality before *)
(* and after the read pins the content between them; past the check the    *)
(* bytes are whole and stamped with their own time, and past the write the *)
(* temporary file is those bytes.                                          *)
CfInv ==
    /\ CfTyped
    /\ cfBefore.modified <= cfUp.modified
    /\ cfAt = "read" => /\ cfBytes.stamp = cfBefore.modified
                        /\ cfBefore.modified <= cfBytes.modified
                        /\ cfBytes.modified <= cfUp.modified
    /\ cfAt \in {"captured", "written"} =>
          cfBytes.kind = "whole" /\ cfBytes.stamp = cfBytes.modified
    /\ cfAt = "written" => cfTemp = cfBytes
    /\ CfTrueFrame

(* The invariant of the publisher holds initially.                         *)
LEMMA CfInitInv == CfInit => CfInv
  BY DEF CfInit, CfInv, CfTyped, CfFiles, CfContents, CfAbsent, CfNoBytes, CfKinds, CfTrueFrame

(* The invariant of the publisher is preserved, also by the upstream       *)
(* writer between any two steps of the cycle.                              *)
LEMMA CfStepInv == CfInv /\ [CfNext]_cfVars => CfInv'
  <1> SUFFICES ASSUME CfInv, [CfNext]_cfVars PROVE CfInv'
    OBVIOUS
  <1> USE DEF CfInv, CfTyped, CfFiles, CfContents, CfKinds
  <1>1. ASSUME NEW kind \in CfKinds, CfRenamed(kind) PROVE CfInv'
    BY <1>1 DEF CfRenamed, CfTrueFrame
  <1>2. CASE CfTruncated
    <2>1. cfUp' = [inode |-> cfUp.inode, modified |-> cfUp.modified + 1, id |-> cfWrites + 1,
                   kind |-> "truncated", made |-> cfNow]
      BY <1>2 DEF CfTruncated
    <2>2. QED
      BY <1>2, <2>1 DEF CfTruncated, CfTrueFrame
  <1>3. CASE CfRewritten
    <2>1. cfUp' = [inode |-> cfUp.inode, modified |-> cfUp.modified + 1, id |-> cfUp.id,
                   kind |-> "whole", made |-> cfNow]
      BY <1>3 DEF CfRewritten
    <2>2. QED
      BY <1>3, <2>1 DEF CfRewritten, CfTrueFrame
  <1>4. CASE CfTick
    BY <1>4 DEF CfTick, CfTrueFrame
  <1>5. CASE CfStat
    BY <1>5 DEF CfStat, CfTrueFrame
  <1>6. CASE CfRead
    BY <1>6 DEF CfRead, CfTrueFrame
  <1>7. CASE CfCheck
    BY <1>7 DEF CfCheck, CfUnchanged, CfInspect, CfTrueFrame
  <1>8. ASSUME NEW outcome \in CfOutcomes, CfProcess(outcome) PROVE CfInv'
    BY <1>8 DEF CfProcess, CfProcessEnds, CfInspect, CfTrueFrame
  <1>9. CASE CfWriteTemp
    BY <1>9 DEF CfWriteTemp, CfTrueFrame
  <1>10. CASE CfPublish
    BY <1>10 DEF CfPublish, CfReplace, CfNoBytes, CfTrueFrame
  <1>11. ASSUME NEW killed \in BOOLEAN, CfAbort(killed) PROVE CfInv'
    BY <1>11 DEF CfAbort, CfNoBytes, CfTrueFrame
  <1>12. CASE UNCHANGED cfVars
    BY <1>12 DEF cfVars, CfTrueFrame
  <1>13. QED
    BY <1>1, <1>2, <1>3, <1>4, <1>5, <1>6, <1>7, <1>8, <1>9, <1>10, <1>11, <1>12 DEF CfNext

(* CfTrueFrame: the published frame is whole and stamped with the time of  *)
(* its own content (capture and publish of current_frame_publisher.py),    *)
(* for any ages, clocks and number of upstream writes.                     *)
THEOREM TrueFrame == CfSpec => []CfTrueFrame
  <1>1. CfInv => CfTrueFrame
    BY DEF CfInv
  <1>2. QED
    BY <1>1, CfInitInv, CfStepInv, PTL DEF CfSpec

(* The publisher keeps its types.                                          *)
LEMMA CfTypesStep == CfInv /\ CfTypeOK /\ [CfNext]_cfVars => CfTypeOK'
  <1> SUFFICES ASSUME CfInv, CfTypeOK, [CfNext]_cfVars PROVE CfTypeOK'
    OBVIOUS
  <1>1. CfTyped'
    BY CfStepInv DEF CfInv
  <1>2. cfNow' \in 0 .. CfEnd
    BY CfAssumption DEF CfTypeOK, CfNext, cfVars, CfRenamed, CfTruncated, CfRewritten, CfTick,
                        CfStat, CfRead, CfCheck, CfProcess, CfWriteTemp, CfPublish, CfAbort
  <1>3. cfWrites' \in 0 .. CfWrites
    BY CfAssumption DEF CfTypeOK, CfNext, cfVars, CfRenamed, CfTruncated, CfRewritten, CfTick,
                        CfStat, CfRead, CfCheck, CfProcess, CfWriteTemp, CfPublish, CfAbort
  <1>4. QED
    BY <1>1, <1>2, <1>3 DEF CfTyped, CfTypeOK, CfFiles, CfContents

(* They hold initially.                                                    *)
LEMMA CfTypesInit == CfInit => CfTypeOK
  BY CfAssumption DEF CfInit, CfTypeOK, CfAbsent, CfNoBytes, CfKinds

(* The publisher of the current frame keeps its types for any ages, clocks *)
(* and writers (publish_current_frame of current_frame_publisher.py).      *)
THEOREM FrameTypes == CfSpec => []CfTypeOK
<1> DEFINE I == CfInv /\ CfTypeOK
<1>1. CfInit => I
  BY CfInitInv, CfTypesInit
<1>2. I /\ [CfNext]_cfVars => I'
  BY CfStepInv, CfTypesStep
<1>3. I => CfTypeOK
  BY DEF CfTypeOK
<1> HIDE DEF I
<1> QED
  BY <1>1, <1>2, <1>3, PTL DEF CfSpec

-----------------------------------------------------------------------------
(* The snapshot file of the body state.                                    *)

BsStates == {"UNKNOWN", "ONLINE", "DEGRADED", "FAILED"}
BsTables == [BsFamilies -> [BsModules -> [at : Nat, after : BsStates]]]
BsRecords == [family : BsFamilies, module : BsModules, at : Nat, after : BsStates]

BsTyped ==
    /\ bsAt \in [BsModules -> {"sense", "publish", "merge"}]
    /\ bsCycle \in [BsModules -> Seq(BsRecords)]
    /\ bsMem \in BsTables /\ bsSnapshot \in BsTables
    /\ bsDone \in [BsFamilies -> [BsModules -> Nat]]
    /\ bsWall \in Nat

(* The process that merges is the one that holds the lock, and the table   *)
(* it holds is the file's with some records replaced by newer ones: nobody *)
(* else replaces the file meanwhile.                                       *)
BsInv ==
    /\ BsTyped
    /\ \A m \in BsModules : bsAt[m] = "merge" <=> bsLock = m
    /\ bsLock # BsNobody =>
          \A f \in BsFamilies, m \in BsModules : bsMem[f][m].at >= bsSnapshot[f][m].at
    /\ BsMerged

(* The empty table is a table.                                             *)
LEMMA BsEmptyTable == BsEmpty \in BsTables /\ \A f \in BsFamilies, m \in BsModules : BsEmpty[f][m].at = 0
  BY DEF BsEmpty, BsTables, BsNothing, BsStates

(* The invariant of the body state holds initially.                        *)
LEMMA BsInitInv == BsInit => BsInv
  BY BsEmptyTable, BsNobodyAssumption
     DEF BsInit, BsInv, BsTyped, BsMerged, BsNobody

(* What a merged record does to one entry of the table: the entry keeps    *)
(* its type and never gets older.                                          *)
LEMMA BsNewestEntry ==
    ASSUME NEW held \in [at : Nat, after : BsStates], NEW r \in BsRecords
    PROVE  BsNewest(held, r) \in [at : Nat, after : BsStates] /\ BsNewest(held, r).at >= held.at
  BY DEF BsNewest, BsRecords

(* A process that ends leaves the files alone, and frees the lock if it    *)
(* was the holder.                                                         *)
LEMMA BsExitInv ==
    ASSUME BsInv, NEW m \in BsModules, BsExit(m),
           UNCHANGED <<bsSnapshot, bsDone, bsWall>>
    PROVE  BsInv'
  <1>1. BsTyped'
    BY BsEmptyTable DEF BsInv, BsTyped, BsExit
  <1>2. ASSUME NEW k \in BsModules PROVE (bsAt[k] = "merge" <=> bsLock = k)'
    BY <1>2, BsNobodyAssumption DEF BsInv, BsTyped, BsExit
  <1>3. ASSUME bsLock' # BsNobody, NEW f \in BsFamilies, NEW k \in BsModules
        PROVE  (bsMem[f][k].at >= bsSnapshot[f][k].at)'
    BY <1>3 DEF BsInv, BsExit
  <1>4. QED
    BY <1>1, <1>2, <1>3 DEF BsInv, BsMerged

(* The invariant of the body state is preserved by every step, of the      *)
(* organs, the host, the clock and the follower.                           *)
LEMMA BsStepInv == BsInv /\ [BsNext]_bsVars => BsInv'
  <1> SUFFICES ASSUME BsInv, [BsNext]_bsVars PROVE BsInv'
    OBVIOUS
  <1>1. ASSUME NEW m \in BsModules, BsObserve(m) PROVE BsInv'
    <2>1. BsSensorEvent(m) \in BsRecords /\ BsHealthEvent(m, "ONLINE") \in BsRecords
      BY DEF BsSensorEvent, BsHealthEvent, BsRecords, BsFamilies, BsStates, BsInv, BsTyped
    <2>2. bsCycle' \in [BsModules -> Seq(BsRecords)]
      BY <1>1, <2>1 DEF BsObserve, BsInv, BsTyped
    <2>3. QED
      BY <1>1, <2>2 DEF BsObserve, BsInv, BsTyped, BsMerged
  <1>2. ASSUME NEW m \in BsModules, NEW d \in BsDetails, BsMarkFailure(m, d) PROVE BsInv'
    <2>1. \A s \in {"DEGRADED", "FAILED"} : BsHealthEvent(m, s) \in BsRecords
      BY DEF BsHealthEvent, BsRecords, BsFamilies, BsStates, BsInv, BsTyped
    <2>2. bsCycle' \in [BsModules -> Seq(BsRecords)]
      BY <1>2, <2>1 DEF BsMarkFailure, BsInv, BsTyped
    <2>3. QED
      BY <1>2, <2>2 DEF BsMarkFailure, BsInv, BsTyped, BsMerged
  <1>3. ASSUME NEW m \in BsModules, BsAcquire(m) PROVE BsInv'
    <2>1. /\ bsMem' = bsSnapshot /\ bsLock' = m /\ bsLock = BsNobody
          /\ UNCHANGED <<bsCycle, bsSnapshot, bsDone, bsWall>>
      BY <1>3 DEF BsAcquire, BsLoad
    <2>2. BsTyped'
      BY <1>3, <2>1 DEF BsAcquire, BsInv, BsTyped
    <2>3. ASSUME NEW k \in BsModules PROVE (bsAt[k] = "merge" <=> bsLock = k)'
      BY <1>3, <2>1, BsNobodyAssumption DEF BsAcquire, BsInv, BsTyped
    <2>4. ASSUME NEW f \in BsFamilies, NEW k \in BsModules
          PROVE  (bsMem[f][k].at >= bsSnapshot[f][k].at)'
      BY <2>1 DEF BsInv, BsTyped, BsTables
    <2>5. QED
      BY <2>1, <2>2, <2>3, <2>4 DEF BsInv, BsMerged
  <1>4. ASSUME NEW m \in BsModules, BsMerge(m) PROVE BsInv'
    <2> DEFINE r == Head(bsCycle[m])
    <2>1. r \in BsRecords /\ Tail(bsCycle[m]) \in Seq(BsRecords)
      BY <1>4 DEF BsMerge, BsInv, BsTyped
    <2>2. CASE BsFull(r.family, m)
      BY <1>4, <2>2, BsExitInv DEF BsMerge
    <2>3. CASE ~BsFull(r.family, m)
      <3> DEFINE e == BsNewest(bsMem[r.family][m], r)
      <3>1. bsMem' = [bsMem EXCEPT ![r.family][m] = BsNewest(@, r)]
        BY <1>4, <2>3, Zenon DEF BsMerge
      <3>2. bsCycle' = [bsCycle EXCEPT ![m] = Tail(@)]
        BY <1>4, <2>3 DEF BsMerge
      <3>3. UNCHANGED <<bsAt, bsLock, bsSnapshot, bsDone, bsWall>>
        BY <1>4, <2>3 DEF BsMerge
      <3>4. r.family \in BsFamilies /\ bsMem[r.family][m] \in [at : Nat, after : BsStates]
        <4> HIDE DEF r
        <4>1. r.family \in BsFamilies
          BY <2>1 DEF BsRecords
        <4>2. QED
          BY <4>1 DEF BsInv, BsTyped, BsTables
      <3>5. e \in [at : Nat, after : BsStates] /\ e.at >= bsMem[r.family][m].at
        BY <2>1, <3>4, BsNewestEntry
      <3>6. ASSUME NEW f \in BsFamilies, NEW k \in BsModules
            PROVE  bsMem'[f][k] = IF f = r.family /\ k = m THEN e ELSE bsMem[f][k]
        BY <3>1, <3>4 DEF BsInv, BsTyped, BsTables
      <3>7. bsMem' \in BsTables
        BY <3>1, <3>4, <3>5 DEF BsInv, BsTyped, BsTables
      <3>8. BsTyped'
        BY <2>1, <3>1, <3>2, <3>3, <3>7 DEF BsInv, BsTyped
      <3>9. ASSUME bsLock # BsNobody, NEW f \in BsFamilies, NEW k \in BsModules
            PROVE  (bsMem[f][k].at >= bsSnapshot[f][k].at)'
        <4>1. bsMem[f][k].at >= bsSnapshot[f][k].at
          BY <3>9 DEF BsInv
        <4>2. bsMem[f][k].at \in Nat /\ bsSnapshot[f][k].at \in Nat /\ e.at \in Nat
          BY <3>5 DEF BsInv, BsTyped, BsTables
        <4>3. QED
          BY <3>3, <3>5, <3>6, <4>1, <4>2
      <3>10. QED
        BY <3>3, <3>8, <3>9 DEF BsInv, BsMerged
    <2>4. QED
      BY <2>2, <2>3
  <1>5. ASSUME NEW m \in BsModules, BsWrite(m) PROVE BsInv'
    <2>1. /\ bsLock = m /\ bsLock # BsNobody /\ bsLock' = BsNobody
          /\ bsSnapshot' = bsMem /\ bsMem' = BsEmpty
          /\ UNCHANGED <<bsCycle, bsWall>>
      BY <1>5, BsNobodyAssumption DEF BsWrite, BsInv
    <2>2. bsDone' \in [BsFamilies -> [BsModules -> Nat]]
      BY <1>5 DEF BsWrite, BsInv, BsTyped, BsTables
    <2>3. BsTyped'
      BY <1>5, <2>1, <2>2, BsEmptyTable DEF BsWrite, BsInv, BsTyped
    <2>4. ASSUME NEW k \in BsModules PROVE (bsAt[k] = "merge" <=> bsLock = k)'
      BY <1>5, <2>1, BsNobodyAssumption DEF BsWrite, BsInv, BsTyped
    <2>5. ASSUME NEW f \in BsFamilies, NEW k \in BsModules
          PROVE  (bsSnapshot[f][k].at >= bsDone[f][k])'
      <3>1. bsDone'[f][k] = IF k = m THEN bsMem[f][m].at ELSE bsDone[f][k]
        BY <1>5 DEF BsWrite, BsInv, BsTyped
      <3>2. bsMem[f][k].at >= bsSnapshot[f][k].at /\ bsSnapshot[f][k].at >= bsDone[f][k]
        BY <2>1 DEF BsInv, BsMerged
      <3>3. bsMem[f][k].at \in Nat /\ bsSnapshot[f][k].at \in Nat /\ bsDone[f][k] \in Nat
        BY DEF BsInv, BsTyped, BsTables
      <3>4. QED
        BY <2>1, <3>1, <3>2, <3>3
    <2>6. QED
      BY <2>1, <2>3, <2>4, <2>5 DEF BsInv, BsMerged
  <1>6. ASSUME NEW m \in BsModules, BsCrash(m) PROVE BsInv'
    BY <1>6, BsExitInv DEF BsCrash
  <1>7. CASE BsReboot
    BY <1>7, BsEmptyTable, BsNobodyAssumption DEF BsReboot, BsInv, BsTyped, BsMerged
  <1>8. ASSUME NEW t \in 1 .. BsClockMax, BsClock(t) PROVE BsInv'
    BY <1>8, BsAssumption DEF BsClock, bsProducer, BsInv, BsTyped, BsMerged
  <1>9. ASSUME UNCHANGED <<bsProducer, bsWall>> PROVE BsInv'
    BY <1>9 DEF bsProducer, BsInv, BsTyped, BsMerged
  <1>10. CASE BsPrime \/ BsReportCurrent \/ BsPoll \/ BsRuntimeStop
    BY <1>9, <1>10 DEF BsPrime, BsReportCurrent, BsPoll, BsRuntimeStop
  <1>11. CASE UNCHANGED bsVars
    BY <1>9, <1>11 DEF bsVars, bsProducer
  <1>12. QED
    BY <1>1, <1>2, <1>3, <1>4, <1>5, <1>6, <1>7, <1>8, <1>10, <1>11 DEF BsNext

(* BsMerged: no publication that returned is lost from the snapshot file   *)
(* (publish_many of body_state_bridge.py), for any number of organs,       *)
(* crashes, reboots and clock steps.                                       *)
THEOREM NoPublicationLost == BsSpec => []BsMerged
  <1>1. BsInv => BsMerged
    BY DEF BsInv
  <1>2. QED
    BY <1>1, BsInitInv, BsStepInv, PTL DEF BsSpec

(* The journal and the follower's place in it; a cycle's records.          *)
BsBounds ==
    /\ BsTypeOK /\ bsAdapter = [m \in BsModules |-> bsAdapter[m]]
    /\ bsJournal \in Seq(BsRecords)

(* A process that ends leaves an empty cycle and a new adapter.            *)
LEMMA BsExitBounds ==
    ASSUME BsInv, BsBounds, NEW m \in BsModules, BsExit(m)
    PROVE  /\ bsAdapter' = [k \in BsModules |-> bsAdapter'[k]]
           /\ \A k \in BsModules : bsAdapter'[k].state \in BsStates /\ Len(bsCycle'[k]) <= 2
           /\ bsLock' \in BsModules \cup {BsNobody}
  <1>1. /\ bsAdapter' = [bsAdapter EXCEPT ![m] = BsNewAdapter]
        /\ bsCycle' = [bsCycle EXCEPT ![m] = <<>>]
        /\ bsLock' = IF bsLock = m THEN BsNobody ELSE bsLock
    BY DEF BsExit
  <1>2. Len(<<>>) = 0 /\ BsNewAdapter.state \in BsStates
    BY DEF BsNewAdapter, BsStates
  <1>3. ASSUME NEW k \in BsModules PROVE bsAdapter'[k].state \in BsStates /\ Len(bsCycle'[k]) <= 2
    <2>1. CASE k = m
      <3>1. bsAdapter'[k] = BsNewAdapter /\ bsCycle'[k] = <<>>
        BY <1>1, <2>1 DEF BsBounds, BsInv, BsTyped
      <3>2. QED
        BY <1>2, <3>1
    <2>2. CASE k # m
      <3>1. bsAdapter'[k] = bsAdapter[k] /\ bsCycle'[k] = bsCycle[k]
        BY <1>1, <2>2 DEF BsBounds, BsInv, BsTyped
      <3>2. QED
        BY <3>1 DEF BsBounds, BsTypeOK, BsStates
    <2>3. QED
      BY <2>1, <2>2
  <1>4. bsAdapter' = [k \in BsModules |-> bsAdapter'[k]]
    BY <1>1 DEF BsBounds
  <1>5. QED
    BY <1>1, <1>3, <1>4 DEF BsBounds, BsTypeOK

(* The types and bounds of the body state are kept by every step.          *)
LEMMA BsBoundsStep == BsInv /\ BsBounds /\ [BsNext]_bsVars => BsBounds'
  <1> SUFFICES ASSUME BsInv, BsBounds, [BsNext]_bsVars PROVE BsBounds'
    OBVIOUS
  <1>1. /\ bsAdapter = [k \in BsModules |-> bsAdapter[k]]
        /\ \A k \in BsModules : bsAdapter[k].state \in BsStates /\ Len(bsCycle[k]) <= 2
        /\ bsLock \in BsModules \cup {BsNobody}
        /\ bsCycle \in [BsModules -> Seq(BsRecords)]
    BY DEF BsBounds, BsTypeOK, BsInv, BsTyped, BsStates
  <1>2. /\ bsJournal \in Seq(BsRecords) /\ Len(bsJournal) \in Nat
        /\ Len(bsJournal) <= BsEvents /\ bsOffset \in 0 .. BsEvents
        /\ bsRuntime \in {"down", "primed", "armed"} /\ BsEvents \in Nat
    BY BsAssumption DEF BsBounds, BsTypeOK
  <1>3. \A m \in BsModules : bsAt'[m] \in {"sense", "publish", "merge"}
    BY BsStepInv DEF BsInv, BsTyped
  <1>4. ASSUME /\ bsAdapter' = [k \in BsModules |-> bsAdapter'[k]]
               /\ \A k \in BsModules : bsAdapter'[k].state \in BsStates /\ Len(bsCycle'[k]) <= 2
               /\ bsLock' \in BsModules \cup {BsNobody},
               bsJournal' \in Seq(BsRecords) /\ Len(bsJournal') <= BsEvents,
               bsOffset' \in 0 .. BsEvents, bsRuntime' \in {"down", "primed", "armed"}
        PROVE  BsBounds'
    BY <1>3, <1>4 DEF BsBounds, BsTypeOK, BsStates
  <1>5. ASSUME NEW m \in BsModules, NEW a, NEW c, a.state \in BsStates, Len(c) <= 2,
               bsAdapter' = [bsAdapter EXCEPT ![m] = a], bsCycle' = [bsCycle EXCEPT ![m] = c],
               UNCHANGED <<bsLock, bsJournal, bsOffset, bsRuntime>>
        PROVE  BsBounds'
    <2>1. ASSUME NEW k \in BsModules
          PROVE  bsAdapter'[k].state \in BsStates /\ Len(bsCycle'[k]) <= 2
      BY <1>1, <1>5
    <2>2. bsAdapter' = [k \in BsModules |-> bsAdapter'[k]]
      BY <1>1, <1>5
    <2>3. QED
      BY <1>1, <1>2, <1>4, <1>5, <2>1, <2>2
  <1>6. ASSUME NEW m \in BsModules, BsObserve(m) PROVE BsBounds'
    <2>1. PICK c : /\ c = (IF bsAdapter[m].state = "ONLINE" THEN <<BsSensorEvent(m)>>
                           ELSE <<BsSensorEvent(m), BsHealthEvent(m, "ONLINE")>>)
                   /\ bsCycle' = [bsCycle EXCEPT ![m] = c]
      BY <1>6 DEF BsObserve
    <2>2. Len(c) <= 2
      BY <2>1
    <2>3. PICK a : /\ a = [BsNewAdapter EXCEPT !.state = "ONLINE"]
                   /\ bsAdapter' = [bsAdapter EXCEPT ![m] = a]
      BY <1>6 DEF BsObserve
    <2>4. a.state \in BsStates
      BY <2>3 DEF BsNewAdapter, BsStates
    <2>5. UNCHANGED <<bsLock, bsJournal, bsOffset, bsRuntime>>
      BY <1>6 DEF BsObserve, bsFollower
    <2>6. QED
      BY <1>5, <2>1, <2>2, <2>3, <2>4, <2>5
  <1>7. ASSUME NEW m \in BsModules, NEW d \in BsDetails, BsMarkFailure(m, d) PROVE BsBounds'
    <2>a. PICK n : n = IF bsAdapter[m].failures < BsThreshold
                       THEN bsAdapter[m].failures + 1 ELSE BsThreshold
      OBVIOUS
    <2>b. PICK st : st = IF n >= BsThreshold THEN "FAILED" ELSE "DEGRADED"
      OBVIOUS
    <2>c. PICK c : c = IF st = bsAdapter[m].state /\ d = bsAdapter[m].detail THEN <<>>
                       ELSE <<BsHealthEvent(m, st)>>
      OBVIOUS
    <2>0. st \in {"FAILED", "DEGRADED"} /\ c \in {<<>>, <<BsHealthEvent(m, st)>>}
      BY <2>b, <2>c
    <2>1. /\ st \in {"FAILED", "DEGRADED"} /\ c \in {<<>>, <<BsHealthEvent(m, st)>>}
          /\ bsAdapter' = [bsAdapter EXCEPT ![m] = [state |-> st, failures |-> n, detail |-> d]]
          /\ bsCycle' = [bsCycle EXCEPT ![m] = c]
      BY <1>7, <2>a, <2>b, <2>c, <2>0 DEF BsMarkFailure
    <2>2. Len(c) <= 2
      <3>1. \A x : Len(<<x>>) = 1 /\ Len(<<>>) = 0
        OBVIOUS
      <3>2. Len(c) = 0 \/ Len(c) = 1
        BY <2>0, <3>1, Zenon
      <3>3. QED
        BY <3>2
    <2>3. [state |-> st, failures |-> n, detail |-> d].state \in BsStates
      BY <2>1 DEF BsStates
    <2>4. UNCHANGED <<bsLock, bsJournal, bsOffset, bsRuntime>>
      BY <1>7 DEF BsMarkFailure, bsFollower
    <2>5. QED
      BY <1>5, <2>1, <2>2, <2>3, <2>4
  <1>8. ASSUME NEW m \in BsModules, BsAcquire(m) PROVE BsBounds'
    BY <1>1, <1>2, <1>4, <1>8 DEF BsAcquire, bsFollower
  <1>9. ASSUME NEW m \in BsModules, BsMerge(m) PROVE BsBounds'
    <2> DEFINE r == Head(bsCycle[m])
    <2>1. bsCycle[m] \in Seq(BsRecords) /\ bsCycle[m] # <<>> /\ Len(bsCycle[m]) <= 2
      BY <1>1, <1>9 DEF BsMerge
    <2>2. r \in BsRecords /\ Len(Tail(bsCycle[m])) <= 2
      BY <2>1
    <2>3. bsJournal' = Append(bsJournal, r) /\ Len(bsJournal) < BsEvents
          /\ UNCHANGED <<bsOffset, bsRuntime>>
      BY <1>9 DEF BsMerge, BsJournalled, bsFollower
    <2>4. BsFull(r.family, m) => BsExit(m)
      BY <1>9 DEF BsMerge
    <2>5. ~BsFull(r.family, m) => /\ bsCycle' = [bsCycle EXCEPT ![m] = Tail(@)]
                                  /\ UNCHANGED <<bsAdapter, bsLock>>
      BY <1>9 DEF BsMerge
    <2> HIDE DEF r
    <2>6. bsJournal' \in Seq(BsRecords) /\ Len(bsJournal') <= BsEvents
      BY <1>2, <2>2, <2>3
    <2>7. CASE BsExit(m)
      BY <1>2, <1>4, <2>3, <2>6, <2>7, BsExitBounds
    <2>8. CASE bsCycle' = [bsCycle EXCEPT ![m] = Tail(@)] /\ UNCHANGED <<bsAdapter, bsLock>>
      <3>1. ASSUME NEW k \in BsModules PROVE Len(bsCycle'[k]) <= 2
        BY <1>1, <2>2, <2>8
      <3>2. QED
        BY <1>1, <1>2, <1>4, <2>3, <2>6, <2>8, <3>1
    <2>9. QED
      BY <2>4, <2>5, <2>7, <2>8
  <1>10. ASSUME NEW m \in BsModules, BsWrite(m) PROVE BsBounds'
    BY <1>1, <1>2, <1>4, <1>10 DEF BsWrite, bsFollower
  <1>11. ASSUME NEW m \in BsModules, BsCrash(m) PROVE BsBounds'
    <2>1. BsExit(m) /\ UNCHANGED <<bsJournal, bsOffset, bsRuntime>>
      BY <1>11 DEF BsCrash, bsFollower
    <2>2. QED
      BY <1>2, <1>4, <2>1, BsExitBounds
  <1>12. CASE BsReboot
    <2>1. /\ bsAdapter' = [m \in BsModules |-> BsNewAdapter]
          /\ bsCycle' = [m \in BsModules |-> <<>>] /\ bsLock' = BsNobody
          /\ bsRuntime' = "down" /\ bsOffset' = 0 /\ UNCHANGED bsJournal
      BY <1>12 DEF BsReboot
    <2>2. Len(<<>>) = 0 /\ BsNewAdapter.state \in BsStates
      BY DEF BsNewAdapter, BsStates
    <2>3. ASSUME NEW k \in BsModules
          PROVE  bsAdapter'[k].state \in BsStates /\ Len(bsCycle'[k]) <= 2
      BY <2>1, <2>2
    <2>4. bsAdapter' = [k \in BsModules |-> bsAdapter'[k]]
      BY <2>1
    <2>5. QED
      BY <1>2, <1>4, <2>1, <2>3, <2>4
  <1>13. ASSUME UNCHANGED bsProducer, bsOffset' \in {bsOffset, Len(bsJournal)},
                bsRuntime' \in {"down", "primed", "armed"}
         PROVE  BsBounds'
    <2>1. UNCHANGED <<bsAdapter, bsCycle, bsLock, bsJournal>> /\ bsOffset' \in 0 .. BsEvents
      BY <1>2, <1>13 DEF bsProducer
    <2>2. QED
      BY <1>1, <1>2, <1>4, <1>13, <2>1
  <1>14. CASE \E t \in 1 .. BsClockMax : BsClock(t)
    BY <1>2, <1>13, <1>14 DEF BsClock, bsFollower
  <1>15. CASE BsPrime
    BY <1>13, <1>15 DEF BsPrime
  <1>16. CASE BsReportCurrent
    BY <1>13, <1>16 DEF BsReportCurrent
  <1>17. CASE BsPoll
    <2>1. bsOffset' = Len(bsJournal) /\ UNCHANGED <<bsRuntime, bsProducer>>
      BY <1>17 DEF BsPoll
    <2>2. QED
      BY <1>2, <1>13, <2>1
  <1>18. CASE BsRuntimeStop
    BY <1>13, <1>18 DEF BsRuntimeStop
  <1>19. CASE UNCHANGED bsVars
    BY <1>2, <1>13, <1>19 DEF bsVars, bsProducer
  <1>20. QED
    BY <1>6, <1>7, <1>8, <1>9, <1>10, <1>11, <1>12, <1>14, <1>15, <1>16, <1>17, <1>18, <1>19
       DEF BsNext

(* They hold initially.                                                    *)
LEMMA BsBoundsInit == BsInit => BsBounds
  <1> SUFFICES ASSUME BsInit PROVE BsBounds
    OBVIOUS
  <1>1. bsJournal = <<>> /\ Len(bsJournal) = 0 /\ bsJournal \in Seq(BsRecords)
    BY DEF BsInit
  <1>2. ASSUME NEW m \in BsModules
        PROVE  /\ bsAdapter[m].state \in {"UNKNOWN", "ONLINE", "DEGRADED", "FAILED"}
               /\ bsAt[m] \in {"sense", "publish", "merge"} /\ Len(bsCycle[m]) <= 2
    <2>1. Len(<<>>) = 0
      OBVIOUS
    <2>2. bsCycle[m] = <<>> /\ bsAdapter[m] = BsNewAdapter /\ bsAt[m] = "sense"
      BY DEF BsInit
    <2>3. QED
      BY <2>1, <2>2 DEF BsNewAdapter
  <1>3. bsAdapter = [m \in BsModules |-> bsAdapter[m]]
    BY DEF BsInit
  <1>4. QED
    BY <1>1, <1>2, <1>3, BsAssumption DEF BsInit, BsBounds, BsTypeOK

(* A cycle publishes at most its module and its sensor, and the follower   *)
(* never reads past the end of the journal, for any modules, faults and    *)
(* restarts (publish_many and the journal follower).                       *)
THEOREM BodyTypes == BsSpec => []BsTypeOK
<1> DEFINE I == BsInv /\ BsBounds
<1>1. BsInit => I
  BY BsInitInv, BsBoundsInit
<1>2. I /\ [BsNext]_bsVars => I'
  BY BsStepInv, BsBoundsStep
<1>3. I => BsTypeOK
  BY DEF BsBounds
<1> HIDE DEF I
<1> QED
  BY <1>1, <1>2, <1>3, PTL DEF BsSpec

-----------------------------------------------------------------------------
(* The sensor fabric behind the LAN ingress.                               *)

SlSpec == SlInit /\ [][SlNext]_slVars

SlHealths == {"unknown"} \cup {e.health : e \in {d \in SlEvents : d.kind = "observation"}}
SlLives == {"discovered"} \cup {e.state : e \in {d \in SlEvents : d.kind = "lifecycle"}}
SlRecords == [caps : SUBSET SlCapabilities, state : SlLives, recv : Int, health : SlHealths]
SlReadings == [recv : Nat, health : SlHealths]
SlFrames == [session : Sessions, seq : Nat, event : SlEvents]

(* The fabric: a sensor without a record has had nothing routed, so a new  *)
(* record may start without evidence.                                      *)
SlFabricInv ==
    /\ DOMAIN slSensor \subseteq SlSensors /\ slSensor \in [DOMAIN slSensor -> SlRecords]
    /\ slIndex \in [SlCapabilities -> SUBSET SlSensors]
    /\ slRouted \in [SlSensors -> SUBSET SlReadings]
    /\ \A s \in SlSensors \ DOMAIN slSensor : slRouted[s] = {}
    /\ SensorSnapshotNewest /\ SensorIndexExact

(* The ingress: nothing of a session that is not tracked was published,    *)
(* and the tracked sequence is the largest published.                      *)
SlIngressInv ==
    /\ slSession \in Sessions /\ slNextSeq \in Nat /\ slNet \subseteq SlFrames
    /\ DOMAIN slLast \subseteq Sessions /\ slLast \in [DOMAIN slLast -> Nat]
    /\ slPublished \in [Sessions -> Seq(Nat)]
    /\ \A n \in Sessions : IF n \in DOMAIN slLast
                           THEN \A i \in DOMAIN slPublished[n] : slPublished[n][i] <= slLast[n]
                           ELSE slPublished[n] = <<>>
    /\ SensorOrdered

(* The record a sensor has, or starts with, is a record.                   *)
LEMMA SlRecordTyped ==
    ASSUME SlFabricInv, NEW s \in SlSensors
    PROVE  Record(s) \in SlRecords
  BY DEF SlFabricInv, Record, SlKnown, NewRecord, SlRecords, SlLives, SlHealths

(* Storing a record changes the record of that sensor and no other.        *)
LEMMA SlPut ==
    ASSUME SlFabricInv, NEW s \in SlSensors, NEW r \in SlRecords, PutRecord(s, r)
    PROVE  /\ DOMAIN slSensor' = DOMAIN slSensor \cup {s}
           /\ DOMAIN slSensor' \subseteq SlSensors
           /\ slSensor' \in [DOMAIN slSensor' -> SlRecords]
           /\ slSensor'[s] = r
           /\ \A t \in DOMAIN slSensor \ {s} : slSensor'[t] = slSensor[t]
  BY DEF SlFabricInv, PutRecord

(* Storing a record with the same evidence keeps the snapshot newest.      *)
LEMMA SlSameEvidence ==
    ASSUME SlFabricInv, NEW s \in SlSensors, NEW r \in SlRecords, PutRecord(s, r),
           r.recv = Record(s).recv, r.health = Record(s).health, slRouted' = slRouted
    PROVE  SensorSnapshotNewest'
  <1>1. SUFFICES ASSUME NEW t \in DOMAIN slSensor'
                 PROVE  IF slRouted[t] = {} THEN slSensor'[t].recv = -1
                        ELSE /\ \A o \in slRouted[t] : o.recv <= slSensor'[t].recv
                             /\ [recv |-> slSensor'[t].recv, health |-> slSensor'[t].health]
                                   \in slRouted[t]
    BY DEF SensorSnapshotNewest
  <1>2. CASE t \in DOMAIN slSensor
    <2>1. slSensor'[t].recv = slSensor[t].recv /\ slSensor'[t].health = slSensor[t].health
      BY <1>2, SlPut DEF Record, SlKnown
    <2>2. QED
      BY <1>2, <2>1 DEF SlFabricInv, SensorSnapshotNewest
  <1>3. CASE t \notin DOMAIN slSensor
    <2>1. t = s
      BY <1>3, SlPut
    <2>2. slRouted[t] = {}
      BY <1>3, <2>1 DEF SlFabricInv
    <2>3. slSensor'[t].recv = -1
      BY <1>3, <2>1, SlPut DEF Record, SlKnown, NewRecord
    <2>4. QED
      BY <2>2, <2>3
  <1>4. QED
    BY <1>2, <1>3

(* Storing a record with the same capabilities keeps the index exact.      *)
LEMMA SlSameIndex ==
    ASSUME SlFabricInv, NEW s \in SlSensors, NEW r \in SlRecords, PutRecord(s, r),
           r.caps = Record(s).caps, slIndex' = slIndex
    PROVE  SensorIndexExact'
  <1>1. SUFFICES ASSUME NEW c \in SlCapabilities
                 PROVE  slIndex[c] = {t \in DOMAIN slSensor' : c \in slSensor'[t].caps}
    BY DEF SensorIndexExact
  <1>2. slIndex[c] = {t \in DOMAIN slSensor : c \in slSensor[t].caps}
    BY DEF SlFabricInv, SensorIndexExact
  <1>3. s \in DOMAIN slSensor => slSensor'[s].caps = slSensor[s].caps
    BY SlPut DEF Record, SlKnown
  <1>4. s \notin DOMAIN slSensor => slSensor'[s].caps = {}
    BY SlPut DEF Record, SlKnown, NewRecord
  <1>5. /\ DOMAIN slSensor' = DOMAIN slSensor \cup {s}
        /\ DOMAIN slSensor' \subseteq SlSensors
        /\ slSensor' \in [DOMAIN slSensor' -> SlRecords]
        /\ slSensor'[s] = r
        /\ \A t \in DOMAIN slSensor \ {s} : slSensor'[t] = slSensor[t]
    BY SlPut
  <1>6. ASSUME NEW t PROVE t \in slIndex[c] <=> t \in DOMAIN slSensor' /\ c \in slSensor'[t].caps
    BY <1>2, <1>3, <1>4, <1>5
  <1>7. QED
    BY <1>6

(* Whatever event the bridge hands to the fabric, the fabric's invariant   *)
(* is preserved.                                                           *)
LEMMA SlHandleInv ==
    ASSUME SlFabricInv, NEW e \in SlEvents, HandleEvent(e)
    PROVE  SlFabricInv'
  <1> DEFINE s == e.sensor
             q == Record(s)
  <1>1. s \in SlSensors /\ q \in SlRecords
    BY SlRecordTyped, SlEventAssumption
  <1>2. CASE e.kind = "capabilities" /\ RegisterCapabilities(e)
    <2> DEFINE r == [q EXCEPT !.caps = e.caps]
    <2>1. PutRecord(s, r) /\ slIndex' = Reindex(s, e.caps) /\ slRouted' = slRouted
      BY <1>2 DEF RegisterCapabilities
    <2>2. /\ r \in SlRecords /\ r.caps = e.caps
          /\ r.recv = q.recv /\ r.health = q.health
      BY <1>1, <1>2, SlEventAssumption DEF SlRecords
    <2> HIDE DEF r, q, s
    <2>3. SensorSnapshotNewest'
      BY <1>1, <2>1, <2>2, SlSameEvidence DEF q
    <2>4. SensorIndexExact'
      <3>1. SUFFICES ASSUME NEW c \in SlCapabilities
                     PROVE  slIndex'[c] = {t \in DOMAIN slSensor' : c \in slSensor'[t].caps}
        BY DEF SensorIndexExact
      <3>2. slIndex[c] = {t \in DOMAIN slSensor : c \in slSensor[t].caps}
        BY DEF SlFabricInv, SensorIndexExact
      <3>3. slIndex'[c] = IF c \in e.caps THEN slIndex[c] \cup {s} ELSE slIndex[c] \ {s}
        BY <2>1 DEF Reindex
      <3>4. /\ DOMAIN slSensor' = DOMAIN slSensor \cup {s}
            /\ DOMAIN slSensor' \subseteq SlSensors
            /\ slSensor' \in [DOMAIN slSensor' -> SlRecords]
            /\ slSensor'[s] = r
            /\ \A t \in DOMAIN slSensor \ {s} : slSensor'[t] = slSensor[t]
        BY <1>1, <2>1, <2>2, SlPut
      <3>5. ASSUME NEW t
            PROVE  t \in slIndex'[c] <=> t \in DOMAIN slSensor' /\ c \in slSensor'[t].caps
        BY <2>2, <3>2, <3>3, <3>4
      <3>6. QED
        BY <3>5
    <2>5. slIndex' \in [SlCapabilities -> SUBSET SlSensors]
      BY <1>1, <2>1 DEF Reindex, SlFabricInv
    <2>6. QED
      BY <1>1, <2>1, <2>2, <2>3, <2>4, <2>5, SlPut DEF SlFabricInv
  <1>3. CASE e.kind = "lifecycle" /\ ApplyLifecycle(e)
    <2> DEFINE r == [q EXCEPT !.state = e.state]
    <2>1. PutRecord(s, r) /\ slIndex' = slIndex /\ slRouted' = slRouted
      BY <1>3 DEF ApplyLifecycle
    <2>2. /\ r \in SlRecords /\ r.caps = q.caps
          /\ r.recv = q.recv /\ r.health = q.health
      BY <1>1, <1>3 DEF SlRecords, SlLives
    <2> HIDE DEF r, q, s
    <2>3. SensorSnapshotNewest' /\ SensorIndexExact'
      BY <1>1, <2>1, <2>2, SlSameEvidence, SlSameIndex DEF q
    <2>4. QED
      BY <1>1, <2>1, <2>2, <2>3, SlPut DEF SlFabricInv
  <1>4. CASE e.kind = "observation" /\ SlRoutable(e) /\ RouteObservation(e)
    <2> DEFINE o == [recv |-> e.recv, health |-> e.health]
               r == IF Newer(q, e) THEN [q EXCEPT !.recv = e.recv, !.health = e.health] ELSE q
    <2>1. s \in DOMAIN slSensor /\ q = slSensor[s]
      BY <1>4 DEF SlRoutable, SlKnown, Record
    <2>2. /\ PutRecord(s, r) /\ slIndex' = slIndex
          /\ slRouted' = [slRouted EXCEPT ![s] = @ \cup {o}]
      BY <1>4, <2>1 DEF RouteObservation
    <2>3. o \in SlReadings
      BY <1>4, SlEventAssumption DEF SlReadings, SlHealths
    <2>4. /\ r \in SlRecords /\ r.caps = q.caps
          /\ IF e.recv >= q.recv THEN r.recv = e.recv /\ r.health = e.health ELSE r = q
      <3>1. e.recv \in Nat /\ e.health \in SlHealths
        BY <1>4, SlEventAssumption DEF SlHealths
      <3>2. CASE e.recv >= q.recv
        <4>1. r = [caps |-> q.caps, state |-> q.state, recv |-> e.recv, health |-> e.health]
          BY <1>1, <3>2 DEF Newer, SlRecords
        <4>2. QED
          BY <1>1, <3>1, <3>2, <4>1 DEF SlRecords
      <3>3. CASE ~(e.recv >= q.recv)
        BY <1>1, <3>3 DEF Newer
      <3>4. QED
        BY <3>2, <3>3
    <2>5. slRouted' \in [SlSensors -> SUBSET SlReadings]
      BY <1>1, <2>2, <2>3 DEF SlFabricInv
    <2>6. slRouted'[s] = slRouted[s] \cup {o} /\ \A t \in SlSensors \ {s} : slRouted'[t] = slRouted[t]
      BY <1>1, <2>2 DEF SlFabricInv
    <2>7. o.recv = e.recv /\ o.health = e.health /\ e.recv \in Nat
      BY <1>4, SlEventAssumption
    <2> HIDE DEF r, q, s, o
    <2>8. SensorIndexExact'
      BY <1>1, <2>2, <2>4, SlSameIndex DEF q
    <2>9. SensorSnapshotNewest'
      <3>1. SUFFICES ASSUME NEW t \in DOMAIN slSensor'
                     PROVE  IF slRouted'[t] = {} THEN slSensor'[t].recv = -1
                            ELSE /\ \A p \in slRouted'[t] : p.recv <= slSensor'[t].recv
                                 /\ [recv |-> slSensor'[t].recv, health |-> slSensor'[t].health]
                                       \in slRouted'[t]
        BY DEF SensorSnapshotNewest
      <3>2. CASE t # s
        <4>1. t \in DOMAIN slSensor /\ slSensor'[t] = slSensor[t] /\ slRouted'[t] = slRouted[t]
          <5>0. /\ DOMAIN slSensor' = DOMAIN slSensor \cup {s}
                /\ DOMAIN slSensor' \subseteq SlSensors
                /\ \A u \in DOMAIN slSensor \ {s} : slSensor'[u] = slSensor[u]
            BY <1>1, <2>2, <2>4, SlPut
          <5>1. t \in DOMAIN slSensor /\ t \in SlSensors /\ slSensor'[t] = slSensor[t]
            BY <3>2, <5>0
          <5>2. QED
            BY <2>6, <3>2, <5>1
        <4>2. QED
          BY <4>1 DEF SlFabricInv, SensorSnapshotNewest
      <3>3. CASE t = s
        <4>1. slSensor'[t] = r /\ slRouted'[t] = slRouted[s] \cup {o}
          BY <1>1, <2>2, <2>4, <2>6, <3>3, SlPut
        <4>2. IF slRouted[s] = {} THEN q.recv = -1
              ELSE /\ \A p \in slRouted[s] : p.recv <= q.recv
                   /\ [recv |-> q.recv, health |-> q.health] \in slRouted[s]
          BY <2>1 DEF SlFabricInv, SensorSnapshotNewest
        <4>3. q.recv \in Int /\ \A p \in slRouted[s] : p.recv \in Nat
          BY <1>1 DEF SlRecords, SlReadings, SlFabricInv
        <4>4. CASE e.recv >= q.recv
          <5>1. \A p \in slRouted'[t] : p.recv <= r.recv
            BY <2>4, <2>7, <4>1, <4>2, <4>3, <4>4
          <5>2. [recv |-> r.recv, health |-> r.health] = o
            BY <2>4, <4>4 DEF o
          <5>3. QED
            BY <4>1, <5>1, <5>2
        <4>5. CASE ~(e.recv >= q.recv)
          <5>1. r = q /\ slRouted[s] # {} /\ e.recv <= q.recv
            BY <2>4, <2>7, <4>2, <4>3, <4>5
          <5>2. QED
            BY <2>7, <4>1, <4>2, <5>1
        <4>6. QED
          BY <4>4, <4>5
      <3>4. QED
        BY <3>2, <3>3
    <2>10. /\ DOMAIN slSensor' = DOMAIN slSensor \cup {s}
           /\ DOMAIN slSensor' \subseteq SlSensors
           /\ slSensor' \in [DOMAIN slSensor' -> SlRecords]
           /\ slSensor'[s] = r
           /\ \A t \in DOMAIN slSensor \ {s} : slSensor'[t] = slSensor[t]
      BY <1>1, <2>2, <2>4, SlPut
    <2>11. \A t \in SlSensors \ DOMAIN slSensor' : slRouted'[t] = {}
      BY <2>6, <2>10 DEF SlFabricInv
    <2>12. QED
      BY <2>2, <2>5, <2>8, <2>9, <2>10, <2>11 DEF SlFabricInv
  <1>5. QED
    BY <1>2, <1>3, <1>4 DEF HandleEvent

(* Both parts hold initially, and again when Runtime restarts.             *)
LEMMA SlInitInv == SlInit => SlFabricInv /\ SlIngressInv
  BY SlAssumption
     DEF SlInit, SlFabricInv, SlIngressInv, SensorSnapshotNewest, SensorIndexExact,
         SensorOrdered, Sessions

(* An admitted frame is newer than all that was published of its session.  *)
LEMMA SlServeInv ==
    ASSUME SlIngressInv, NEW f \in slNet, ServeOnce(f)
    PROVE  SlIngressInv'
  <1>1. f.session \in Sessions /\ f.seq \in Nat
    BY DEF SlIngressInv, SlFrames
  <1>2. PICK n \in Sessions, q \in Nat : n = f.session /\ q = f.seq
    BY <1>1
  <1>3. /\ slLast' = [k \in DOMAIN slLast \cup {n} |-> IF k = n THEN q ELSE slLast[k]]
        /\ slPublished' = [slPublished EXCEPT ![n] = Append(@, q)]
        /\ n \in DOMAIN slLast => q > slLast[n]
        /\ UNCHANGED <<slSession, slNextSeq, slNet>>
    BY <1>2 DEF ServeOnce, TakeSequence, InOrder
  <1>4. /\ DOMAIN slLast' = DOMAIN slLast \cup {n} /\ slLast'[n] = q
        /\ \A k \in DOMAIN slLast \ {n} : slLast'[k] = slLast[k]
        /\ slLast' \in [DOMAIN slLast' -> Nat] /\ DOMAIN slLast' \subseteq Sessions
    BY <1>3 DEF SlIngressInv
  <1>5. /\ slPublished[n] \in Seq(Nat) /\ slPublished'[n] = Append(slPublished[n], q)
        /\ \A k \in Sessions \ {n} : slPublished'[k] = slPublished[k]
        /\ slPublished' \in [Sessions -> Seq(Nat)]
    BY <1>3 DEF SlIngressInv
  <1>6. \A i \in DOMAIN slPublished[n] : slPublished[n][i] < q
    <2>1. CASE n \in DOMAIN slLast
      <3>1. slLast[n] \in Nat /\ slLast[n] < q
        BY <1>3, <2>1 DEF SlIngressInv
      <3>2. \A i \in DOMAIN slPublished[n] : slPublished[n][i] \in Nat /\ slPublished[n][i] <= slLast[n]
        BY <1>5, <2>1 DEF SlIngressInv
      <3>3. QED
        BY <3>1, <3>2
    <2>2. CASE n \notin DOMAIN slLast
      BY <2>2 DEF SlIngressInv
    <2>3. QED
      BY <2>1, <2>2
  <1>7. /\ DOMAIN slPublished'[n] = DOMAIN slPublished[n] \cup {Len(slPublished[n]) + 1}
        /\ slPublished'[n][Len(slPublished[n]) + 1] = q
        /\ \A i \in DOMAIN slPublished[n] : /\ slPublished'[n][i] = slPublished[n][i]
                                            /\ i \in 1 .. Len(slPublished[n])
    BY <1>5
  <1>8. \A i \in DOMAIN slPublished'[n] : slPublished'[n][i] <= slLast'[n]
    <2>1. \A i \in DOMAIN slPublished[n] : slPublished[n][i] \in Nat
      BY <1>5
    <2>2. \A i \in DOMAIN slPublished[n] : slPublished'[n][i] <= q
      BY <1>6, <1>7, <2>1
    <2>3. slLast'[n] = q /\ q <= q
      BY <1>4
    <2>4. QED
      BY <1>7, <2>2, <2>3
  <1>9. \A i, j \in DOMAIN slPublished'[n] : i < j => slPublished'[n][i] < slPublished'[n][j]
    <2>1. \A i, j \in DOMAIN slPublished[n] : i < j => slPublished[n][i] < slPublished[n][j]
      BY DEF SlIngressInv, SensorOrdered
    <2>2. SUFFICES ASSUME NEW i \in DOMAIN slPublished'[n], NEW j \in DOMAIN slPublished'[n], i < j
                   PROVE  slPublished'[n][i] < slPublished'[n][j]
      OBVIOUS
    <2>3. i \in DOMAIN slPublished[n]
      <3>0. PICK m \in Nat : m = Len(slPublished[n])
        BY <1>5
      <3>1. \A k \in DOMAIN slPublished'[n] : k \in 1 .. m + 1
        BY <1>7, <3>0
      <3>2. i # m + 1
        BY <2>2, <3>1
      <3>3. QED
        BY <1>7, <3>0, <3>2
    <2>4. CASE j \in DOMAIN slPublished[n]
      BY <1>7, <2>1, <2>2, <2>3, <2>4
    <2>5. CASE j = Len(slPublished[n]) + 1
      BY <1>6, <1>7, <2>3, <2>5
    <2>6. QED
      BY <1>7, <2>4, <2>5
  <1>10. ASSUME NEW k \in Sessions
         PROVE  /\ IF k \in DOMAIN slLast'
                   THEN \A i \in DOMAIN slPublished'[k] : slPublished'[k][i] <= slLast'[k]
                   ELSE slPublished'[k] = <<>>
                /\ \A i, j \in DOMAIN slPublished'[k] :
                      i < j => slPublished'[k][i] < slPublished'[k][j]
    <2>1. CASE k = n
      BY <1>4, <1>8, <1>9, <2>1
    <2>2. CASE k # n
      BY <1>4, <1>5, <2>2 DEF SlIngressInv, SensorOrdered
    <2>3. QED
      BY <2>1, <2>2
  <1>11. QED
    BY <1>3, <1>4, <1>5, <1>10 DEF SlIngressInv, SensorOrdered

(* Both parts are preserved by every step of the node, the network, the    *)
(* listener, the consumers and a restart of Runtime.                       *)
LEMMA SlStepInv ==
    (SlFabricInv /\ SlIngressInv) /\ [SlNext]_slVars => (SlFabricInv /\ SlIngressInv)'
  <1> SUFFICES ASSUME SlFabricInv, SlIngressInv, [SlNext]_slVars
               PROVE  SlFabricInv' /\ SlIngressInv'
    OBVIOUS
  <1>1. ASSUME UNCHANGED <<slSensor, slIndex, slRouted>> PROVE SlFabricInv'
    BY <1>1 DEF SlFabricInv, SensorSnapshotNewest, SensorIndexExact
  <1>2. ASSUME UNCHANGED <<slSession, slNextSeq, slNet, slLast, slPublished>>
        PROVE  SlIngressInv'
    BY <1>2 DEF SlIngressInv, SensorOrdered
  <1>3. ASSUME NEW e \in SlEvents, Send(e) PROVE SlFabricInv' /\ SlIngressInv'
    <2>1. SlFabricInv'
      BY <1>1, <1>3 DEF Send, slFabric
    <2>2. [session |-> slSession, seq |-> slNextSeq, event |-> e] \in SlFrames
      BY DEF SlIngressInv, SlFrames
    <2>3. slNet' \subseteq SlFrames
      BY <1>3, <2>2 DEF SlIngressInv, Send
    <2>4. QED
      BY <1>3, <2>1, <2>3 DEF Send, SlIngressInv, SensorOrdered
  <1>4. ASSUME NEW f \in slNet, ServeOnce(f) PROVE SlFabricInv' /\ SlIngressInv'
    <2>1. f.event \in SlEvents
      BY DEF SlIngressInv, SlFrames
    <2>2. CASE HandleEvent(f.event)
      BY <1>4, <2>1, <2>2, SlHandleInv, SlServeInv
    <2>3. CASE UNCHANGED slFabric
      BY <1>1, <1>4, <2>3, SlServeInv DEF slFabric
    <2>4. QED
      BY <1>4, <2>2, <2>3 DEF ServeOnce
  <1>5. ASSUME NEW u \in SlSubscribers, Subscribe(u) PROVE SlFabricInv' /\ SlIngressInv'
    BY <1>1, <1>2, <1>5 DEF Subscribe, slFabric
  <1>6. CASE NodeRestart
    <2>1. slSession' \in Sessions /\ slNextSeq' \in Nat
      BY <1>6, SlAssumption DEF NodeRestart, SlIngressInv, Sessions
    <2>2. QED
      BY <1>1, <1>6, <2>1 DEF NodeRestart, slFabric, SlIngressInv, SensorOrdered
  <1>7. CASE DrainDeliveries
    BY <1>1, <1>2, <1>7 DEF DrainDeliveries
  <1>8. CASE RuntimeRestart
    BY <1>8 DEF RuntimeRestart, SlFabricInv, SlIngressInv, SensorSnapshotNewest,
                SensorIndexExact, SensorOrdered
  <1>9. CASE UNCHANGED slVars
    BY <1>1, <1>2, <1>9 DEF slVars
  <1>10. QED
    BY <1>3, <1>4, <1>5, <1>6, <1>7, <1>8, <1>9 DEF SlNext

(* SensorSound: messages of a session are published in order and once, the *)
(* snapshot is the newest reading and the index is the declarations (admit *)
(* of sensor_lan_ingress.py and the fabric of sensor_fabric.py), for any   *)
(* events, sessions and restarts.                                          *)
THEOREM SensorEvidence == SlSpec => []SensorSound
  <1>1. SlFabricInv /\ SlIngressInv => SensorSound
    BY DEF SlFabricInv, SlIngressInv, SensorSound
  <1>2. QED
    BY <1>1, SlInitInv, SlStepInv, PTL DEF SlSpec

(* The frames of the present session are numbered below the next number,   *)
(* and none is of a later session: each message sent adds a frame, so the  *)
(* numbers stay below the bound on messages.                               *)
SlSentInv ==
    /\ IsFiniteSet(slNet) /\ slNextSeq <= Cardinality(slNet) /\ Cardinality(slNet) <= SlMessages
    /\ \A f \in slNet : /\ f.session <= slSession /\ f.seq < SlMessages
                        /\ f.session = slSession => f.seq < slNextSeq

(* The bridge's queue and the session table keep their bounds.             *)
SlBounds ==
    /\ SlSentInv /\ IsFiniteSet(slSubs) /\ slSubs \subseteq SlSubscribers
    /\ Cardinality(DOMAIN slLast) <= SlMaxSessions
    /\ slPending \in 0 .. SlMaxPending /\ slDropped \in Nat

(* A session table is finite.                                              *)
LEMMA SlTableFinite ==
    ASSUME NEW T, T \subseteq Sessions
    PROVE  IsFiniteSet(T) /\ Cardinality(T) \in Nat
  <1>1. IsFiniteSet(Sessions)
    <2>1. 1 \in Int /\ SlStarts \in Int
      BY SlAssumption
    <2>2. QED
      BY <2>1, FS_Interval DEF Sessions
  <1>2. QED
    BY <1>1, FS_Subset, FS_CardinalityType

(* A message sent is a new frame.                                          *)
LEMMA SlSendBounds ==
    ASSUME SlIngressInv, SlSentInv, NEW e \in SlEvents, Send(e)
    PROVE  SlSentInv'
  <1> DEFINE new == [session |-> slSession, seq |-> slNextSeq, event |-> e]
  <1>1. /\ Cardinality(slNet) < SlMessages /\ slNextSeq' = slNextSeq + 1
        /\ slNet' = slNet \cup {new} /\ slSession' = slSession
        /\ slNextSeq \in Nat /\ slSession \in Nat
    BY SlAssumption DEF Send, SlIngressInv, Sessions
  <1>2. new \notin slNet
    BY <1>1 DEF SlSentInv
  <1>3. Cardinality(slNet) \in Nat
    BY FS_CardinalityType DEF SlSentInv
  <1>4. IsFiniteSet(slNet') /\ Cardinality(slNet') = Cardinality(slNet) + 1
    BY <1>1, <1>2, FS_AddElement DEF SlSentInv
  <1>5. slNextSeq < SlMessages /\ SlMessages \in Nat
    BY <1>1, <1>3, SlAssumption DEF SlSentInv
  <1>6. ASSUME NEW f \in slNet'
        PROVE  /\ f.session <= slSession' /\ f.seq < SlMessages
               /\ f.session = slSession' => f.seq < slNextSeq'
    <2>1. CASE f \in slNet
      <3>1. f.seq \in Nat
        BY <2>1 DEF SlIngressInv, SlFrames
      <3>2. QED
        BY <1>1, <2>1, <3>1 DEF SlSentInv
    <2>2. CASE f = new
      BY <1>1, <1>5, <2>2
    <2>3. QED
      BY <1>1, <2>1, <2>2
  <1> HIDE DEF new
  <1>7. QED
    BY <1>1, <1>3, <1>4, <1>6, SlAssumption DEF SlSentInv

(* An observation queues no more deliveries than the bridge holds; what it *)
(* drops it counts.                                                        *)
LEMMA SlHandleBounds ==
    ASSUME SlBounds, NEW e \in SlEvents, HandleEvent(e)
    PROVE  slPending' \in 0 .. SlMaxPending /\ slDropped' \in Nat
  <1>1. CASE UNCHANGED <<slPending, slDropped>>
    BY <1>1 DEF SlBounds
  <1>2. CASE RouteObservation(e)
    <2> DEFINE n == Cardinality(SlEligible(e))
    <2>1. n \in Nat
      <3>1. SlEligible(e) \subseteq slSubs
        BY DEF SlEligible
      <3>2. QED
        BY <3>1, FS_Subset, FS_CardinalityType DEF SlBounds
    <2>2. /\ slPending' = IF slPending + n > SlMaxPending THEN SlMaxPending ELSE slPending + n
          /\ slDropped' = slDropped + (slPending + n) - slPending'
      BY <1>2 DEF RouteObservation
    <2> HIDE DEF n
    <2>3. QED
      BY <2>1, <2>2, SlAssumption DEF SlBounds
  <1>3. QED
    BY <1>1, <1>2 DEF HandleEvent, RegisterCapabilities, ApplyLifecycle

(* The bounds are kept by every step.                                      *)
LEMMA SlBoundsStep ==
    SlFabricInv /\ SlIngressInv /\ SlBounds /\ [SlNext]_slVars => SlBounds'
  <1> SUFFICES ASSUME SlFabricInv, SlIngressInv, SlBounds, [SlNext]_slVars PROVE SlBounds'
    OBVIOUS
  <1>1. ASSUME UNCHANGED <<slNet, slSession, slNextSeq>> PROVE SlSentInv'
    BY <1>1 DEF SlBounds, SlSentInv
  <1>2. ASSUME NEW e \in SlEvents, Send(e) PROVE SlBounds'
    BY <1>2, SlSendBounds DEF SlBounds, Send, slFabric
  <1>3. ASSUME NEW f \in slNet, ServeOnce(f) PROVE SlBounds'
    <2>1. f.event \in SlEvents /\ f.session \in Sessions
      BY DEF SlIngressInv, SlFrames
    <2>2. slPending' \in 0 .. SlMaxPending /\ slDropped' \in Nat
      <3>1. CASE HandleEvent(f.event)
        BY <2>1, <3>1, SlHandleBounds
      <3>2. CASE UNCHANGED slFabric
        BY <3>2 DEF slFabric, SlBounds
      <3>3. QED
        BY <1>3, <3>1, <3>2 DEF ServeOnce
    <2>3. Cardinality(DOMAIN slLast') <= SlMaxSessions
      <3> DEFINE D == DOMAIN slLast
      <3>1. DOMAIN slLast' = D \cup {f.session} /\ (f.session \in D \/ Cardinality(D) < SlMaxSessions)
        BY <1>3 DEF ServeOnce, TakeSequence, Tracked
      <3>2. D \subseteq Sessions /\ Cardinality(D) <= SlMaxSessions
        BY DEF SlIngressInv, SlBounds
      <3>3. IsFiniteSet(D) /\ Cardinality(D) \in Nat
        BY <3>2, SlTableFinite
      <3> HIDE DEF D
      <3>4. CASE f.session \in D
        <4>1. D \cup {f.session} = D
          BY <3>4
        <4>2. QED
          BY <3>1, <3>2, <4>1
      <3>5. CASE f.session \notin D
        <4>1. Cardinality(D \cup {f.session}) = Cardinality(D) + 1
          BY <3>3, <3>5, FS_AddElement
        <4>2. QED
          BY <3>1, <3>3, <3>5, <4>1, SlAssumption
      <3>6. QED
        BY <3>4, <3>5
    <2>4. UNCHANGED <<slSession, slNextSeq, slNet, slSubs>>
      BY <1>3 DEF ServeOnce
    <2>5. QED
      BY <1>1, <2>2, <2>3, <2>4 DEF SlBounds
  <1>4. ASSUME NEW u \in SlSubscribers, Subscribe(u) PROVE SlBounds'
    <2>1. slSubs' = slSubs \cup {u}
      BY <1>4 DEF Subscribe
    <2>2. IsFiniteSet(slSubs') /\ slSubs' \subseteq SlSubscribers
      BY <2>1, FS_AddElement DEF SlBounds
    <2>3. UNCHANGED <<slSession, slNextSeq, slNet, slLast, slPending, slDropped>>
      BY <1>4 DEF Subscribe, slFabric
    <2>4. QED
      BY <1>1, <2>2, <2>3 DEF SlBounds
  <1>5. CASE NodeRestart
    <2>1. /\ slSession' = slSession + 1 /\ slNextSeq' = 0 /\ slNet' = slNet
          /\ UNCHANGED <<slLast, slSubs, slPending, slDropped>>
      BY <1>5 DEF NodeRestart, slFabric
    <2>2. Cardinality(slNet) \in Nat /\ slSession \in Nat
      BY FS_CardinalityType, SlAssumption DEF SlBounds, SlSentInv, SlIngressInv, Sessions
    <2>3. \A f \in slNet : f.session \in Nat
      BY SlAssumption DEF SlIngressInv, SlFrames, Sessions
    <2>4. SlSentInv'
      BY <2>1, <2>2, <2>3 DEF SlBounds, SlSentInv
    <2>5. QED
      BY <2>1, <2>4 DEF SlBounds
  <1>6. CASE DrainDeliveries
    <2>1. slPending' \in 0 .. SlMaxPending
      BY <1>6, SlAssumption DEF DrainDeliveries, SlBounds
    <2>2. QED
      BY <1>1, <1>6, <2>1 DEF DrainDeliveries, SlBounds
  <1>7. CASE RuntimeRestart
    <2>1. DOMAIN slLast' = {} /\ Cardinality(DOMAIN slLast') = 0 /\ IsFiniteSet(slSubs')
      BY <1>7, FS_EmptySet DEF RuntimeRestart
    <2>2. QED
      BY <1>1, <1>7, <2>1, SlAssumption DEF RuntimeRestart, SlBounds
  <1>8. CASE UNCHANGED slVars
    BY <1>1, <1>8 DEF slVars, SlBounds
  <1>9. QED
    BY <1>2, <1>3, <1>4, <1>5, <1>6, <1>7, <1>8 DEF SlNext

(* They hold initially.                                                    *)
LEMMA SlBoundsInit == SlInit => SlBounds
  <1> SUFFICES ASSUME SlInit PROVE SlBounds
    OBVIOUS
  <1>1. DOMAIN slLast = {} /\ slNet = {} /\ slSubs = {}
    BY DEF SlInit
  <1>2. IsFiniteSet({}) /\ Cardinality({}) = 0
    BY FS_EmptySet
  <1>3. SlSentInv
    BY <1>1, <1>2, SlAssumption DEF SlInit, SlSentInv
  <1>4. QED
    BY <1>1, <1>2, <1>3, SlAssumption DEF SlInit, SlBounds

(* With the invariant they give the types.                                 *)
LEMMA SlBoundsTypes == SlFabricInv /\ SlIngressInv /\ SlBounds => SlTypeOK
  <1> SUFFICES ASSUME SlFabricInv, SlIngressInv, SlBounds PROVE SlTypeOK
    OBVIOUS
  <1>1. Cardinality(slNet) \in Nat
    BY FS_CardinalityType DEF SlBounds, SlSentInv
  <1>2. slNextSeq \in 0 .. SlMessages
    BY <1>1, SlAssumption DEF SlIngressInv, SlBounds, SlSentInv
  <1>3. ASSUME NEW f \in slNet PROVE f.session \in Sessions /\ f.seq \in 0 .. SlMessages - 1
    BY SlAssumption DEF SlIngressInv, SlFrames, SlBounds, SlSentInv
  <1>4. \A s \in DOMAIN slSensor : slSensor[s].caps \subseteq SlCapabilities
    BY DEF SlFabricInv, SlRecords
  <1>5. QED
    BY <1>2, <1>3, <1>4 DEF SlTypeOK, SlBounds, SlFabricInv, SlIngressInv

(* What a sensor node can make Runtime remember is bounded: the session    *)
(* table of sensor_lan_ingress.py and the queue of                         *)
(* sensor_fabric_event_bridge.py stay within their limits, and every       *)
(* sensor is indexed under known capabilities, for any events, sessions    *)
(* and restarts.                                                           *)
THEOREM SensorTypes == SlSpec => []SlTypeOK
<1> DEFINE I == SlFabricInv /\ SlIngressInv /\ SlBounds
<1>1. SlInit => I
  BY SlInitInv, SlBoundsInit
<1>2. I /\ [SlNext]_slVars => I'
  BY SlStepInv, SlBoundsStep
<1>3. I => SlTypeOK
  BY SlBoundsTypes
<1> HIDE DEF I
<1> QED
  BY <1>1, <1>2, <1>3, PTL DEF SlSpec

-----------------------------------------------------------------------------
(* The seat's witnesses.                                                   *)

(* An adapter object.  One whose last reason is a failed write has not     *)
(* been observed since: below the threshold it is degraded.                *)
SnAdapters ==
    [st : SnStates, boot : 0 .. SnBoots, seq : 0 .. SnSeqs, up : 0 .. 1, age : -1 .. SnOld,
     stale : BOOLEAN, fails : 0 .. SnThreshold, why : SnReasons]

SnCounted(a) == a.why = "io" /\ a.fails < SnThreshold => a.st = "DEGRADED"

SnRecords ==
    /\ snShown \in [SnWitnesses -> [st : SnStates, at : 0 .. SnClock]]
    /\ snSaid \in [SnWitnesses -> 0 .. SnClock]

SnTyped ==
    /\ snOn \in SnConfigs
    /\ snAdapter \in [SnWitnesses -> SnAdapters]
    /\ \A w \in SnWitnesses : SnCounted(snAdapter[w])
    /\ SnRecords
    /\ snPc \in {"open", "read", "stale", "map", "fail", "down"}
    /\ snTodo \in Seq(SnWitnesses)
    /\ snWhy \in SnReasons

(* The body state shows the adapter's state, or a record later than the    *)
(* last one written.                                                       *)
SnAgrees(a, w) == a.st # "UNKNOWN" => snShown[w].st = a.st \/ snShown[w].at > snSaid[w]
SnAgreed(w) == SnAgrees(snAdapter[w], w)

(* The handler will visit w, and what it marks there it will publish.      *)
SnOwed(w) == /\ \E i \in DOMAIN snTodo : snTodo[i] = w
             /\ SnMarkFailure(snAdapter[w], snWhy).told

(* What is left to visit is enabled; a report on its way to the body map   *)
(* is one that was parsed; and what the body state does not show of an     *)
(* adapter is owed by the handler, or the process is down.                 *)
SnInv ==
    /\ SnTyped
    /\ \A i \in DOMAIN snTodo : SnEnabled(snTodo[i])
    /\ snPc = "map" => snReport[1].health \in SnStates /\ SnEnabled("map")
    /\ snPc \in {"open", "read", "stale", "map"} =>
         \A w \in SnWitnesses : SnAgreed(w)
    /\ snPc = "fail" =>
         \A w \in SnWitnesses : SnAgreed(w) \/ SnOwed(w)

(* A new adapter is one.                                                   *)
LEMMA SnNewAdapter == SnNew \in SnAdapters /\ SnNew.why = "none" /\ SnCounted(SnNew)
BY SnAssumption DEF SnNew, SnAdapters, SnStates, SnReasons, SnCounted, SnOld

(* What every cycle of an adapter does: it is told unless the state stays, *)
(* and if its write fails, the mark of that failure is told.               *)
SnGoodCycle(a, c) ==
    /\ c.adapter \in SnAdapters /\ SnCounted(c.adapter) /\ c.told \in BOOLEAN
    /\ ~c.told => c.adapter.st = a.st

SnOwing(a, c) == SnMarkFailure(c.adapter, "io").told \/ c.adapter.st = a.st

(* An observation and a rejection are good cycles, and owing ones: their   *)
(* adapter's reason is not a failed write.                                 *)
LEMMA SnObserved ==
    ASSUME NEW a \in SnAdapters, NEW n \in SnStamps, NEW h \in SnStates
    PROVE  SnGoodCycle(a, SnObserve(a, n, h)) /\ SnOwing(a, SnObserve(a, n, h))
<1> DEFINE b == [st |-> h, boot |-> n.boot, seq |-> n.seq, up |-> n.up, age |-> 0,
                 stale |-> FALSE, fails |-> 0, why |-> "none"]
<1>1. n.boot \in 0 .. SnBoots /\ n.seq \in 0 .. SnSeqs /\ n.up \in 0 .. 1 /\ 0 \in -1 .. SnOld
  BY SnAssumption DEF SnStamps, SnOld
<1>2. b \in SnAdapters /\ b.st = h /\ b.why = "none"
  BY <1>1, SnAssumption DEF SnAdapters, SnReasons
<1>3. SnObserve(a, n, h).adapter = b
      /\ SnObserve(a, n, h).told = ((a.boot # 0 /\ n.boot # a.boot) \/ a.st # h)
  BY DEF SnObserve, SnCycle, SnNew
<1>4. SnMarkFailure(b, "io").told
  BY <1>2 DEF SnMarkFailure, SnCycle
<1> HIDE DEF b
<1> QED BY <1>2, <1>3, <1>4 DEF SnGoodCycle, SnOwing, SnCounted

LEMMA SnMapObserved ==
    ASSUME NEW a \in SnAdapters, NEW h \in SnStates
    PROVE  SnGoodCycle(a, SnMapObserve(a, h)) /\ SnOwing(a, SnMapObserve(a, h))
<1> DEFINE b == [st |-> h, boot |-> 0, seq |-> 0, up |-> 0, age |-> 0,
                 stale |-> FALSE, fails |-> 0, why |-> "none"]
<1>1. 0 \in 0 .. SnBoots /\ 0 \in 0 .. SnSeqs /\ 0 \in -1 .. SnOld
  BY SnAssumption DEF SnOld
<1>2. b \in SnAdapters /\ b.st = h /\ b.why = "none"
  BY <1>1, SnAssumption DEF SnAdapters, SnReasons
<1>3. SnMapObserve(a, h).adapter = b /\ SnMapObserve(a, h).told = (a.st # h)
  BY DEF SnMapObserve, SnCycle, SnNew
<1>4. SnMarkFailure(b, "io").told
  BY <1>2 DEF SnMarkFailure, SnCycle
<1> HIDE DEF b
<1> QED BY <1>2, <1>3, <1>4 DEF SnGoodCycle, SnOwing, SnCounted

LEMMA SnRejected ==
    ASSUME NEW a \in SnAdapters, SnCounted(a), NEW why \in SnReasons, why # "io"
    PROVE  SnGoodCycle(a, SnReject(a, why)) /\ SnOwing(a, SnReject(a, why))
<1> DEFINE b == [a EXCEPT !.st = "DEGRADED", !.why = why]
<1>1. b \in SnAdapters /\ b.why = why
  BY DEF SnAdapters, SnStates
<1>2. SnMarkFailure(b, "io").told
  BY <1>1 DEF SnMarkFailure, SnCycle
<1>3. CASE a.why = why
  BY <1>3 DEF SnReject, SnCycle, SnGoodCycle, SnOwing
<1>4. CASE a.why # why
  <2>1. SnReject(a, why).adapter = b /\ SnReject(a, why).told
    BY <1>4 DEF SnReject, SnCycle
  <2> HIDE DEF b
  <2> QED BY <2>1, <1>1, <1>2 DEF SnGoodCycle, SnOwing, SnCounted
<1> QED BY <1>3, <1>4

(* Going stale is, too: an adapter whose reason is a failed write was      *)
(* degraded already, or its next failure makes it failed.                  *)
LEMMA SnStaled ==
    ASSUME NEW a \in SnAdapters, SnCounted(a)
    PROVE  SnGoodCycle(a, SnCheckStale(a)) /\ SnOwing(a, SnCheckStale(a))
<1> DEFINE b == [a EXCEPT !.st = "DEGRADED", !.stale = TRUE]
<1>1. b \in SnAdapters /\ b.why = a.why /\ b.fails = a.fails /\ b.st = "DEGRADED"
  BY DEF SnAdapters, SnStates
<1>a. a.fails \in 0 .. SnThreshold /\ SnThreshold \in Nat
  BY SnAssumption DEF SnAdapters
<1>2. SnMarkFailure(b, "io").told \/ b.st = a.st
  <2>1. CASE a.why # "io"
    BY <2>1, <1>1 DEF SnMarkFailure, SnCycle
  <2>2. CASE a.why = "io" /\ a.fails < SnThreshold
    BY <2>2, <1>1 DEF SnCounted
  <2>3. CASE a.fails >= SnThreshold
    BY <2>3, <1>1, <1>a DEF SnMarkFailure, SnCycle, SnLesser
  <2> QED BY <2>1, <2>2, <2>3, <1>a
<1>3. CASE a.age = -1 \/ a.stale \/ a.age <= SnStaleAfter
  BY <1>3 DEF SnCheckStale, SnCycle, SnGoodCycle, SnOwing
<1>4. CASE ~(a.age = -1 \/ a.stale \/ a.age <= SnStaleAfter)
  <2>1. SnCheckStale(a).adapter = b /\ SnCheckStale(a).told
    BY <1>4 DEF SnCheckStale, SnCycle
  <2> HIDE DEF b
  <2> QED BY <2>1, <1>1, <1>2 DEF SnGoodCycle, SnOwing, SnCounted
<1> QED BY <1>3, <1>4

(* The mark of a failure is a good cycle.                                  *)
LEMMA SnMarked ==
    ASSUME NEW a \in SnAdapters, SnCounted(a), NEW why \in SnReasons
    PROVE  SnGoodCycle(a, SnMarkFailure(a, why))
<1> DEFINE n == SnLesser(a.fails + 1, SnThreshold)
           st == IF n >= SnThreshold THEN "FAILED" ELSE "DEGRADED"
           b == [a EXCEPT !.fails = n]
           d == [a EXCEPT !.fails = n, !.st = st, !.why = why]
<1>1. n \in 0 .. SnThreshold
  BY SnAssumption DEF SnLesser, SnAdapters
<1>2. st \in SnStates /\ (n < SnThreshold => st = "DEGRADED")
  BY <1>1, SnAssumption DEF SnStates
<1> HIDE DEF n, st
<1>3. b \in SnAdapters /\ b.fails = n /\ b.st = a.st /\ b.why = a.why
  BY <1>1 DEF SnAdapters
<1>4. d \in SnAdapters /\ d.fails = n /\ d.st = st /\ d.why = why
  BY <1>1, <1>2 DEF SnAdapters
<1> HIDE DEF b, d
<1>5. CASE a.st = st /\ a.why = why
  <2>1. SnMarkFailure(a, why) = SnCycle(b, FALSE)
    BY <1>5 DEF SnMarkFailure, n, st, b
  <2> QED BY <2>1, <1>2, <1>3, <1>5 DEF SnCycle, SnGoodCycle, SnCounted
<1>6. CASE ~(a.st = st /\ a.why = why)
  <2>1. SnMarkFailure(a, why) = SnCycle(d, TRUE)
    BY <1>6 DEF SnMarkFailure, n, st, d
  <2> QED BY <2>1, <1>2, <1>4 DEF SnCycle, SnGoodCycle, SnCounted
<1> QED BY <1>5, <1>6

(* Time passes for the adapters and changes nothing else of them.          *)
LEMMA SnAging ==
    ASSUME NEW ads \in [SnWitnesses -> SnAdapters], NEW d \in 0 .. 1,
           \A w \in SnWitnesses : SnCounted(ads[w])
    PROVE  /\ SnAged(ads, d) \in [SnWitnesses -> SnAdapters]
           /\ \A w \in SnWitnesses : /\ SnCounted(SnAged(ads, d)[w])
                                     /\ SnAged(ads, d)[w].st = ads[w].st
<1> SUFFICES ASSUME NEW w \in SnWitnesses
             PROVE  /\ SnAged(ads, d)[w] \in SnAdapters /\ SnCounted(SnAged(ads, d)[w])
                    /\ SnAged(ads, d)[w].st = ads[w].st
  BY DEF SnAged
<1> DEFINE b == [ads[w] EXCEPT !.age = SnLesser(@ + d, SnOld)]
<1>1. SnLesser(ads[w].age + d, SnOld) \in -1 .. SnOld
  BY SnAssumption DEF SnLesser, SnOld, SnAdapters
<1>2. b \in SnAdapters /\ b.st = ads[w].st /\ b.why = ads[w].why /\ b.fails = ads[w].fails
  BY <1>1 DEF SnAdapters
<1>3. SnAged(ads, d)[w] \in {ads[w], b}
  BY DEF SnAged
<1> HIDE DEF b
<1> QED BY <1>2, <1>3 DEF SnCounted

(* A cycle of w is written: its health if the cycle tells it.              *)
SnWritten(w, c) ==
    \/ /\ c.told
       /\ \E t \in 0 .. SnClock :
            /\ snShown' = [snShown EXCEPT ![w] = SnApply(@, c.adapter.st, t)]
            /\ snSaid' = [snSaid EXCEPT ![w] = t]
    \/ ~c.told /\ UNCHANGED <<snShown, snSaid>>

SnUnwritten == UNCHANGED <<snShown, snSaid>>

(* A good cycle that is written keeps body state and adapters in agreement *)
(* for every witness but those it does not concern.                        *)
LEMMA SnTells ==
    ASSUME NEW ads \in [SnWitnesses -> SnAdapters], SnRecords,
           \A v \in SnWitnesses : SnCounted(ads[v]),
           NEW w \in SnWitnesses, NEW c, SnGoodCycle(ads[w], c),
           snAdapter' = [ads EXCEPT ![w] = c.adapter], SnWritten(w, c)
    PROVE  /\ snAdapter' \in [SnWitnesses -> SnAdapters] /\ SnRecords'
           /\ \A v \in SnWitnesses : SnCounted(snAdapter'[v])
           /\ \A v \in SnWitnesses \ {w} : snAdapter'[v] = ads[v] /\ snShown'[v] = snShown[v]
                                           /\ snSaid'[v] = snSaid[v]
           /\ SnAgrees(ads[w], w) \/ c.told => SnAgreed(w)'
<1>1. /\ snAdapter' \in [SnWitnesses -> SnAdapters] /\ snAdapter'[w] = c.adapter
      /\ \A v \in SnWitnesses \ {w} : snAdapter'[v] = ads[v]
  BY DEF SnGoodCycle
<1>2. \A v \in SnWitnesses : SnCounted(snAdapter'[v])
  BY <1>1 DEF SnGoodCycle
<1>3. CASE c.told
  <2>1. PICK t \in 0 .. SnClock :
          /\ snShown' = [snShown EXCEPT ![w] = SnApply(@, c.adapter.st, t)]
          /\ snSaid' = [snSaid EXCEPT ![w] = t]
    BY <1>3 DEF SnWritten
  <2>2. PICK r : r = SnApply(snShown[w], c.adapter.st, t)
    OBVIOUS
  <2>3. c.adapter.st \in SnStates
    BY <1>1 DEF SnGoodCycle, SnAdapters
  <2>4. /\ r \in [st : SnStates, at : 0 .. SnClock]
        /\ r.st = c.adapter.st \/ r.at > t
    <3>1. snShown[w] \in [st : SnStates, at : 0 .. SnClock] /\ t \in Int /\ SnClock \in Nat
      BY SnAssumption DEF SnRecords
    <3>2. CASE t < snShown[w].at
      BY <2>2, <3>1, <3>2 DEF SnApply
    <3>3. CASE ~(t < snShown[w].at)
      <4>1. r = [st |-> c.adapter.st, at |-> t]
        BY <2>2, <3>3 DEF SnApply
      <4>2. QED
        BY <2>3, <4>1
    <3>4. QED
      BY <3>2, <3>3
  <2>5. /\ snShown' = [snShown EXCEPT ![w] = r] /\ snShown'[w] = r /\ snSaid'[w] = t
        /\ \A v \in SnWitnesses \ {w} : snShown'[v] = snShown[v] /\ snSaid'[v] = snSaid[v]
    BY <2>1, <2>2 DEF SnRecords
  <2>6. SnRecords'
    BY <2>1, <2>4, <2>5 DEF SnRecords
  <2>7. SnAgreed(w)'
    BY <1>1, <2>4, <2>5 DEF SnAgreed, SnAgrees
  <2>8. QED
    BY <1>1, <1>2, <2>5, <2>6, <2>7
<1>4. CASE ~c.told
  <2>1. UNCHANGED <<snShown, snSaid>> /\ c.adapter.st = ads[w].st
    BY <1>4 DEF SnWritten, SnGoodCycle
  <2>2. SnAgrees(ads[w], w) => SnAgreed(w)'
    BY <1>1, <2>1 DEF SnAgrees, SnAgreed
  <2>3. QED
    BY <1>1, <1>2, <1>4, <2>1, <2>2 DEF SnRecords
<1> QED BY <1>3, <1>4

(* The enabled witnesses are a sequence of witnesses with the radar.       *)
LEMMA SnOnFacts ==
    ASSUME snOn \in SnConfigs
    PROVE  /\ snOn \in Seq(SnWitnesses) /\ SnEnabled("radar")
           /\ \A i \in DOMAIN snOn : SnEnabled(snOn[i])
BY SnAssumption DEF SnEnabled

(* A publication of an enabled witness from a state in which all agree:    *)
(* written, all agree; failed, the handler owes what is not shown.         *)
SnAll(ads) == /\ ads \in [SnWitnesses -> SnAdapters]
              /\ \A w \in SnWitnesses : SnCounted(ads[w]) /\ SnAgrees(ads[w], w)

SnSettled == /\ snAdapter' \in [SnWitnesses -> SnAdapters] /\ SnRecords'
             /\ \A w \in SnWitnesses : SnCounted(snAdapter'[w])
             /\ \A w \in SnWitnesses : SnAgreed(w)'

SnHandled == /\ snAdapter' \in [SnWitnesses -> SnAdapters] /\ SnRecords'
             /\ \A w \in SnWitnesses : SnCounted(snAdapter'[w])
             /\ snPc' = "fail" /\ snTodo' = snOn /\ snWhy' \in SnReasons
             /\ \A w \in SnWitnesses : SnAgreed(w)' \/ SnOwed(w)'

(* A written cycle settles.                                                *)
LEMMA SnSettles ==
    ASSUME NEW ads, SnAll(ads), SnRecords, NEW w \in SnWitnesses, NEW c,
           SnGoodCycle(ads[w], c), snAdapter' = [ads EXCEPT ![w] = c.adapter], SnWritten(w, c)
    PROVE  SnSettled
<1>1. /\ snAdapter' \in [SnWitnesses -> SnAdapters] /\ SnRecords'
      /\ \A v \in SnWitnesses : SnCounted(snAdapter'[v])
      /\ \A v \in SnWitnesses \ {w} : snAdapter'[v] = ads[v] /\ snShown'[v] = snShown[v]
                                      /\ snSaid'[v] = snSaid[v]
      /\ SnAgrees(ads[w], w) \/ c.told => SnAgreed(w)'
  BY SnTells DEF SnAll
<1>2. SnAgreed(w)'
  BY <1>1 DEF SnAll
<1>3. \A v \in SnWitnesses \ {w} : SnAgreed(v)'
  BY <1>1 DEF SnAll, SnAgrees, SnAgreed
<1> QED BY <1>1, <1>2, <1>3 DEF SnSettled

(* A failed write leaves the handler owing.                                *)
LEMMA SnHandles ==
    ASSUME NEW ads, SnAll(ads), SnRecords, NEW w \in SnWitnesses, NEW c,
           SnGoodCycle(ads[w], c), SnOwing(ads[w], c), snOn \in SnConfigs, SnEnabled(w),
           snAdapter' = [ads EXCEPT ![w] = c.adapter], SnUnwritten, SnToHandler("io")
    PROVE  SnHandled
<1>1. /\ snAdapter' \in [SnWitnesses -> SnAdapters] /\ snAdapter'[w] = c.adapter
      /\ \A v \in SnWitnesses \ {w} : snAdapter'[v] = ads[v]
  BY DEF SnGoodCycle, SnAll
<1>2. \A v \in SnWitnesses : SnCounted(snAdapter'[v])
  BY <1>1 DEF SnGoodCycle, SnAll
<1>3. snPc' = "fail" /\ snTodo' = snOn /\ snWhy' = "io" /\ snWhy' \in SnReasons
  BY DEF SnToHandler, SnReasons
<1>4. SnAgreed(w)' \/ SnOwed(w)'
  <2>1. CASE c.adapter.st = ads[w].st
    BY <2>1, <1>1 DEF SnAll, SnAgrees, SnAgreed, SnUnwritten
  <2>2. CASE SnMarkFailure(c.adapter, "io").told
    <3>1. SnMarkFailure(snAdapter'[w], snWhy').told
      BY <2>2, <1>1, <1>3
    <3>2. \E i \in DOMAIN snTodo' : snTodo'[i] = w
      BY <1>3 DEF SnEnabled
    <3> QED BY <3>1, <3>2 DEF SnOwed, SnMarkFailure
  <2> QED BY <2>1, <2>2 DEF SnOwing
<1>5. \A v \in SnWitnesses \ {w} : SnAgreed(v)'
  BY <1>1 DEF SnAll, SnAgrees, SnAgreed, SnUnwritten
<1>6. SnRecords'
  BY DEF SnRecords, SnUnwritten
<1> QED BY <1>1, <1>2, <1>3, <1>4, <1>5, <1>6 DEF SnHandled

(* An exception that changes no state of an adapter.                       *)
LEMMA SnRaises ==
    ASSUME NEW ads, SnAll(ads), SnRecords, snAdapter' = ads, SnUnwritten,
           NEW why \in SnReasons, SnToHandler(why)
    PROVE  SnHandled
BY DEF SnAll, SnHandled, SnToHandler, SnUnwritten, SnRecords, SnAgrees, SnAgreed

(* A turn that ends with the adapters as they were.                        *)
LEMMA SnPasses ==
    ASSUME NEW ads, SnAll(ads), SnRecords, snAdapter' = ads, SnUnwritten
    PROVE  SnSettled
BY DEF SnAll, SnSettled, SnUnwritten, SnRecords, SnAgrees, SnAgreed

(* All agree while the bridge is not in its handler.                       *)
LEMMA SnAllAgree ==
    ASSUME SnInv, snPc \in {"open", "read", "stale", "map"}
    PROVE  /\ SnAll(snAdapter) /\ SnRecords /\ snOn \in SnConfigs
           /\ \A d \in 0 .. 1 : SnAll(SnAged(snAdapter, d))
<1>1. /\ snAdapter \in [SnWitnesses -> SnAdapters] /\ SnRecords /\ snOn \in SnConfigs
      /\ \A w \in SnWitnesses : SnCounted(snAdapter[w]) /\ SnAgreed(w)
  BY DEF SnInv, SnTyped
<1>2. ASSUME NEW d \in 0 .. 1 PROVE SnAll(SnAged(snAdapter, d))
  BY <1>1, SnAging DEF SnAll, SnAgrees, SnAgreed
<1> QED BY <1>1, <1>2 DEF SnAll, SnAgreed

(* A turn ends with all in agreement, or in the handler.                   *)
LEMMA SnTurnEnds ==
    ASSUME SnInv, UNCHANGED snOn, (SnSettled /\ SnBack) \/ SnHandled
    PROVE  SnInv'
<1>1. snOn \in SnConfigs /\ snOn' = snOn
  BY DEF SnInv, SnTyped
<1>2. snOn \in Seq(SnWitnesses) /\ \A i \in DOMAIN snOn : SnEnabled(snOn[i])
  BY <1>1, SnOnFacts
<1>3. CASE SnSettled /\ SnBack
  BY <1>1, <1>3 DEF SnSettled, SnBack, SnInv, SnTyped, SnReasons
<1>4. CASE SnHandled
  BY <1>1, <1>2, <1>4 DEF SnHandled, SnInv, SnTyped, SnEnabled
<1> QED BY <1>3, <1>4

(* A rejected line.                                                        *)
LEMMA SnRefused ==
    ASSUME SnInv, snPc = "read", NEW d \in 0 .. 1, NEW w \in SnWitnesses, SnEnabled(w),
           NEW why \in SnReasons, why # "io", NEW short,
           SnRefuse(w, SnAged(snAdapter, d), why, short)
    PROVE  (SnSettled /\ SnBack) \/ SnHandled
<1> DEFINE ads == SnAged(snAdapter, d)
           c == SnReject(ads[w], why)
<1>1. SnAll(ads) /\ SnRecords /\ snOn \in SnConfigs
  BY SnAllAgree
<1> HIDE DEF ads
<1>2. SnGoodCycle(ads[w], c) /\ SnOwing(ads[w], c)
  BY <1>1, SnRejected DEF SnAll
<1> HIDE DEF c
<1>3. CASE SnPublish(w, ads, c, FALSE, SnBack, SnToHandler("io"))
  <2>1. /\ snAdapter' = [ads EXCEPT ![w] = c.adapter]
        /\ (SnWritten(w, c) /\ SnBack) \/ (SnUnwritten /\ SnToHandler("io"))
    BY <1>3 DEF SnPublish, SnWritten, SnUnwritten
  <2>2. CASE SnWritten(w, c) /\ SnBack
    BY <1>1, <1>2, <2>1, <2>2, SnSettles
  <2>3. CASE SnUnwritten /\ SnToHandler("io")
    BY <1>1, <1>2, <2>1, <2>3, SnHandles
  <2> QED BY <2>1, <2>2, <2>3
<1>4. CASE snAdapter' = ads /\ SnUnwritten /\ SnToHandler("detail")
  BY <1>1, <1>4, SnRaises DEF SnReasons
<1> QED BY <1>3, <1>4 DEF SnRefuse, SnUnwritten, ads, c

(* Where a published line of w goes on: the pressure report to the map.    *)
SnOnward(w, r) ==
    \/ SnBack
    \/ /\ w = "pressure" /\ SnEnabled("map") /\ snPc' = "map" /\ snReport' = <<r>>
       /\ UNCHANGED <<snTodo, snWhy>>

(* A line of a witness.                                                    *)
LEMMA SnTaken ==
    ASSUME SnInv, snPc = "read", NEW w \in SnWitnesses, NEW r, NEW n \in SnStamps,
           r.parsed => r.health \in SnStates,
           SnTake(w, r, n, SnOnward(w, r))
    PROVE  \/ SnSettled /\ SnBack
           \/ SnHandled
           \/ /\ SnSettled /\ SnEnabled("map") /\ snPc' = "map" /\ snReport' = <<r>>
              /\ r.health \in SnStates /\ UNCHANGED <<snTodo, snWhy>>
<1>1. PICK d \in 0 .. 1 :
        \/ ~SnEnabled(w) /\ snAdapter' = SnAged(snAdapter, d) /\ SnUnwritten /\ SnBack
        \/ SnEnabled(w) /\ SnRefuse(w, SnAged(snAdapter, d), "invalid", r.short)
        \/ SnEnabled(w) /\ SnRefuse(w, SnAged(snAdapter, d), "replay", TRUE)
        \/ /\ SnEnabled(w) /\ r.parsed
           /\ SnPublish(w, SnAged(snAdapter, d), SnObserve(SnAged(snAdapter, d)[w], n, r.health),
                        TRUE, SnOnward(w, r), SnToHandler("io"))
  BY DEF SnTake, SnUnwritten
<1> DEFINE ads == SnAged(snAdapter, d)
           c == SnObserve(ads[w], n, r.health)
<1>2. SnAll(ads) /\ SnRecords /\ snOn \in SnConfigs
  BY SnAllAgree
<1>3. CASE ~SnEnabled(w) /\ snAdapter' = ads /\ SnUnwritten /\ SnBack
  BY <1>2, <1>3, SnPasses
<1>4. CASE SnEnabled(w) /\ SnRefuse(w, ads, "invalid", r.short)
  BY <1>4, SnRefused DEF SnReasons
<1>5. CASE SnEnabled(w) /\ SnRefuse(w, ads, "replay", TRUE)
  BY <1>5, SnRefused DEF SnReasons
<1>6. CASE SnEnabled(w) /\ r.parsed /\ SnPublish(w, ads, c, TRUE, SnOnward(w, r), SnToHandler("io"))
  <2> HIDE DEF ads
  <2>1. SnGoodCycle(ads[w], c) /\ SnOwing(ads[w], c) /\ r.health \in SnStates
    BY <1>2, <1>6, SnObserved DEF SnAll
  <2> HIDE DEF c
  <2>2. /\ snAdapter' = [ads EXCEPT ![w] = c.adapter]
        /\ (SnWritten(w, c) /\ SnOnward(w, r)) \/ (SnUnwritten /\ SnToHandler("io"))
    BY <1>6 DEF SnPublish, SnWritten, SnUnwritten
  <2>3. CASE SnWritten(w, c) /\ SnOnward(w, r)
    <3>1. SnSettled
      BY <1>2, <2>1, <2>2, <2>3, SnSettles
    <3> QED BY <2>1, <2>3, <3>1 DEF SnOnward
  <2>4. CASE SnUnwritten /\ SnToHandler("io")
    BY <1>2, <1>6, <2>1, <2>2, <2>4, SnHandles
  <2> QED BY <2>2, <2>3, <2>4
<1> QED BY <1>1, <1>3, <1>4, <1>5, <1>6

(* A line of any schema: the turn ends, or a parsed report goes on.        *)
LEMMA SnLineInv ==
    ASSUME SnInv, SnRadarLine \/ SnBeatLine \/ SnPressureLine \/ SnOtherLine
    PROVE  SnInv'
<1>1. SnInv /\ snPc = "read" /\ UNCHANGED snOn
  BY DEF SnRadarLine, SnBeatLine, SnPressureLine, SnOtherLine, SnLine
<1>2. CASE \/ SnSettled /\ SnBack
           \/ SnHandled
           \/ \E r : /\ SnSettled /\ SnEnabled("map") /\ snPc' = "map" /\ snReport' = <<r>>
                     /\ r.health \in SnStates /\ UNCHANGED <<snTodo, snWhy>>
  <2>1. CASE (SnSettled /\ SnBack) \/ SnHandled
    BY <1>1, <2>1, SnTurnEnds
  <2>2. CASE \E r : /\ SnSettled /\ SnEnabled("map") /\ snPc' = "map" /\ snReport' = <<r>>
                    /\ r.health \in SnStates /\ UNCHANGED <<snTodo, snWhy>>
    BY <1>1, <2>2 DEF SnInv, SnTyped, SnSettled, SnEnabled
  <2> QED BY <1>2, <2>1, <2>2
<1>3. CASE SnRadarLine
  <2>1. PICK r \in SnRadarReports, n \in SnStamps : SnTake("radar", r, n, SnBack)
    BY <1>3 DEF SnRadarLine
  <2>2. SnTake("radar", r, n, SnOnward("radar", r))
    BY <2>1 DEF SnTake, SnPublish, SnOnward
  <2>3. r.parsed => r.health \in SnStates
    BY DEF SnRadarReports, SnRefusals, SnHealths, SnStates
  <2> QED BY <1>1, <1>2, <2>2, <2>3, SnTaken DEF SnWitnesses
<1>4. CASE SnBeatLine
  <2>1. PICK r \in SnBeatReports, n \in SnStamps : SnTake("beat", r, n, SnBack)
    BY <1>4 DEF SnBeatLine
  <2>2. SnTake("beat", r, n, SnOnward("beat", r))
    BY <2>1 DEF SnTake, SnPublish, SnOnward
  <2>3. r.parsed => r.health \in SnStates
    BY DEF SnBeatReports, SnRefusals, SnHealths, SnStates
  <2> QED BY <1>1, <1>2, <2>2, <2>3, SnTaken DEF SnWitnesses
<1>5. CASE SnPressureLine
  <2>1. PICK r \in SnPressureReports, n \in SnStamps :
          SnTake("pressure", r, n,
                \/ ~SnEnabled("map") /\ SnBack
                \/ /\ SnEnabled("map") /\ snPc' = "map" /\ snReport' = <<r>>
                   /\ UNCHANGED <<snTodo, snWhy>>)
    BY <1>5 DEF SnPressureLine
  <2>2. SnTake("pressure", r, n, SnOnward("pressure", r))
    BY <2>1 DEF SnTake, SnPublish, SnOnward
  <2>3. r.parsed => r.health \in SnStates
    BY DEF SnPressureReports, SnRefusals, SnHealths, SnStates
  <2> QED BY <1>1, <1>2, <2>2, <2>3, SnTaken DEF SnWitnesses
<1>6. CASE SnOtherLine
  <2>1. PICK json \in BOOLEAN, short \in BOOLEAN, d \in 0 .. 1 :
          \/ json /\ SnRefuse("radar", SnAged(snAdapter, d), "schema", short)
          \/ SnEnabled("pressure") /\ SnRefuse("pressure", SnAged(snAdapter, d), "invalid", short)
          \/ snAdapter' = SnAged(snAdapter, d) /\ SnUnwritten /\ SnBack
    BY <1>6 DEF SnOtherLine, SnUnwritten
  <2>2. SnEnabled("radar") /\ SnAll(SnAged(snAdapter, d)) /\ SnRecords
    BY <1>1, SnAllAgree, SnOnFacts
  <2>3. CASE json /\ SnRefuse("radar", SnAged(snAdapter, d), "schema", short)
    BY <1>1, <1>2, <2>2, <2>3, SnRefused DEF SnWitnesses, SnReasons
  <2>4. CASE SnEnabled("pressure") /\ SnRefuse("pressure", SnAged(snAdapter, d), "invalid", short)
    BY <1>1, <1>2, <2>4, SnRefused DEF SnWitnesses, SnReasons
  <2>5. CASE snAdapter' = SnAged(snAdapter, d) /\ SnUnwritten /\ SnBack
    BY <1>2, <2>2, <2>5, SnPasses
  <2> QED BY <2>1, <2>3, <2>4, <2>5
<1> QED BY <1>3, <1>4, <1>5, <1>6

(* Opening the line, failing to, and failing to read.                      *)
LEMMA SnSourceInv == ASSUME SnInv, SnOpen \/ SnSourceFails PROVE SnInv'
<1>1. snPc \in {"open", "read"} /\ UNCHANGED <<snOn, snAdapter>> /\ SnUnwritten
  BY DEF SnOpen, SnSourceFails, SnUnwritten
<1>2. SnAll(snAdapter) /\ SnRecords
  BY <1>1, SnAllAgree
<1>3. CASE SnBack
  BY <1>1, <1>2, <1>3, SnPasses, SnTurnEnds
<1>4. CASE SnToHandler("open") \/ SnToHandler("read")
  BY <1>1, <1>2, <1>4, SnRaises, SnTurnEnds DEF SnReasons
<1> QED BY <1>3, <1>4 DEF SnOpen, SnSourceFails

(* A timeout ages every adapter and visits them for staleness.             *)
LEMMA SnTimeoutInv == ASSUME SnInv, SnTimeout PROVE SnInv'
<1>1. /\ snPc = "read" /\ snPc' = "stale" /\ snTodo' = snOn /\ snAdapter' = SnAged(snAdapter, 1)
      /\ UNCHANGED <<snOn, snShown, snSaid, snWhy>>
  BY DEF SnTimeout
<1>2. SnAll(SnAged(snAdapter, 1)) /\ SnRecords /\ snOn \in SnConfigs
  BY <1>1, SnAllAgree
<1>3. snOn \in Seq(SnWitnesses) /\ \A i \in DOMAIN snOn : SnEnabled(snOn[i])
  BY <1>2, SnOnFacts
<1> QED BY <1>1, <1>2, <1>3 DEF SnInv, SnTyped, SnAll, SnEnabled, SnRecords,
                                    SnAgrees, SnAgreed

(* The head of what is left to visit is an enabled witness.                *)
LEMMA SnHead ==
    ASSUME SnInv, snTodo # <<>>
    PROVE  /\ Head(snTodo) \in SnWitnesses /\ SnEnabled(Head(snTodo))
           /\ Tail(snTodo) \in Seq(SnWitnesses)
           /\ \A i \in DOMAIN Tail(snTodo) : SnEnabled(Tail(snTodo)[i])
           /\ \A i \in DOMAIN snTodo : snTodo[i] = Head(snTodo)
                 \/ \E j \in DOMAIN Tail(snTodo) : Tail(snTodo)[j] = snTodo[i]
<1>1. snTodo \in Seq(SnWitnesses) /\ \A i \in DOMAIN snTodo : SnEnabled(snTodo[i])
  BY DEF SnInv, SnTyped
<1>2. /\ Head(snTodo) = snTodo[1] /\ 1 \in DOMAIN snTodo /\ Tail(snTodo) \in Seq(SnWitnesses)
      /\ \A j \in DOMAIN Tail(snTodo) : j + 1 \in DOMAIN snTodo /\ Tail(snTodo)[j] = snTodo[j + 1]
      /\ \A i \in DOMAIN snTodo : i = 1 \/ i - 1 \in DOMAIN Tail(snTodo)
  BY <1>1
<1>3. \A i \in DOMAIN snTodo : i \in Int
  BY <1>1
<1>4. ASSUME NEW i \in DOMAIN snTodo
      PROVE  snTodo[i] = Head(snTodo) \/ \E j \in DOMAIN Tail(snTodo) : Tail(snTodo)[j] = snTodo[i]
  <2>1. CASE i = 1
    BY <1>2, <2>1
  <2>2. CASE i # 1
    <3>1. i - 1 \in DOMAIN Tail(snTodo) /\ (i - 1) + 1 = i
      BY <1>2, <1>3, <2>2
    <3>2. Tail(snTodo)[i - 1] = snTodo[i]
      BY <1>2, <3>1
    <3> QED BY <3>1, <3>2
  <2> QED BY <2>1, <2>2
<1>5. Head(snTodo) \in SnWitnesses /\ SnEnabled(Head(snTodo))
  BY <1>1, <1>2
<1>6. \A i \in DOMAIN Tail(snTodo) : SnEnabled(Tail(snTodo)[i])
  BY <1>1, <1>2
<1> QED BY <1>2, <1>4, <1>5, <1>6

(* A visit for staleness.                                                  *)
LEMMA SnStaleInv == ASSUME SnInv, SnStaleStep PROVE SnInv'
<1>1. snPc = "stale" /\ UNCHANGED snOn
  BY DEF SnStaleStep
<1>2. SnAll(snAdapter) /\ SnRecords /\ snOn \in SnConfigs
  BY <1>1, SnAllAgree
<1>3. CASE snTodo = <<>> /\ SnBack /\ UNCHANGED snAdapter /\ SnUnwritten
  BY <1>1, <1>2, <1>3, SnPasses, SnTurnEnds
<1>4. CASE snTodo # <<>>
  <2> DEFINE w == Head(snTodo)
             c == SnCheckStale(snAdapter[w])
  <2>1. w \in SnWitnesses /\ SnEnabled(w) /\ Tail(snTodo) \in Seq(SnWitnesses)
        /\ \A i \in DOMAIN Tail(snTodo) : SnEnabled(Tail(snTodo)[i])
    BY <1>4, SnHead
  <2> HIDE DEF w
  <2>2. SnGoodCycle(snAdapter[w], c) /\ SnOwing(snAdapter[w], c)
    BY <1>2, <2>1, SnStaled DEF SnAll
  <2>3. /\ snAdapter' = [snAdapter EXCEPT ![w] = c.adapter]
        /\ \/ /\ SnWritten(w, c) /\ snTodo' = Tail(snTodo)
              /\ UNCHANGED <<snPc, snWhy, snReport, snEvents>>
           \/ SnUnwritten /\ SnToHandler("io")
    BY <1>4 DEF SnStaleStep, SnPublish, SnWritten, SnUnwritten, w
  <2> HIDE DEF c
  <2>4. CASE /\ SnWritten(w, c) /\ snTodo' = Tail(snTodo)
             /\ UNCHANGED <<snPc, snWhy, snReport, snEvents>>
    <3>1. SnSettled
      BY <1>2, <2>1, <2>2, <2>3, <2>4, SnSettles
    <3> QED BY <1>1, <1>2, <2>1, <2>4, <3>1 DEF SnSettled, SnInv, SnTyped, SnEnabled
  <2>5. CASE SnUnwritten /\ SnToHandler("io")
    <3>1. SnHandled
      BY <1>2, <2>1, <2>2, <2>3, <2>5, SnHandles
    <3> QED BY <1>1, <3>1, SnTurnEnds
  <2> QED BY <2>3, <2>4, <2>5
<1> QED BY <1>3, <1>4 DEF SnStaleStep, SnUnwritten

(* The body map takes the report or raises.                                *)
LEMMA SnMapInv == ASSUME SnInv, SnMapStep PROVE SnInv'
<1>1. snPc = "map" /\ UNCHANGED snOn /\ SnEnabled("map") /\ "map" \in SnWitnesses
      /\ snReport[1].health \in SnStates
  BY DEF SnMapStep, SnInv, SnWitnesses
<1>2. SnAll(snAdapter) /\ SnRecords /\ snOn \in SnConfigs
  BY <1>1, SnAllAgree
<1> DEFINE r == snReport[1]
           c == SnMapObserve(snAdapter["map"], r.health)
<1>3. SnGoodCycle(snAdapter["map"], c) /\ SnOwing(snAdapter["map"], c)
  BY <1>1, <1>2, SnMapObserved DEF SnAll
<1> HIDE DEF c
<1>4. CASE UNCHANGED snAdapter /\ SnUnwritten /\ SnToHandler("reason")
  BY <1>1, <1>2, <1>4, SnRaises, SnTurnEnds DEF SnReasons
<1>5. CASE /\ snAdapter' = [snAdapter EXCEPT !["map"] = c.adapter]
           /\ SnWritten("map", c) /\ SnBack
  BY <1>1, <1>2, <1>3, <1>5, SnSettles, SnTurnEnds
<1>6. CASE /\ snAdapter' = [snAdapter EXCEPT !["map"] = c.adapter]
           /\ SnUnwritten /\ SnToHandler("io")
  BY <1>1, <1>2, <1>3, <1>6, SnHandles, SnTurnEnds
<1> QED BY <1>4, <1>5, <1>6 DEF SnMapStep, SnPublish, SnWritten, SnUnwritten, c

(* The handler marks one adapter after another: what it owed of the one it *)
(* visits it pays, and of the others it still owes.                        *)
LEMMA SnHandlerInv == ASSUME SnInv, SnHandlerStep PROVE SnInv'
<1>1. /\ snPc = "fail" /\ UNCHANGED snOn /\ snOn \in SnConfigs /\ snWhy \in SnReasons
      /\ snAdapter \in [SnWitnesses -> SnAdapters] /\ SnRecords
      /\ \A w \in SnWitnesses : SnCounted(snAdapter[w])
      /\ \A w \in SnWitnesses : SnAgreed(w) \/ SnOwed(w)
  BY DEF SnHandlerStep, SnInv, SnTyped
<1>2. CASE /\ snTodo = <<>> /\ snPc' = "open" /\ snWhy' = "none"
           /\ snAdapter' = SnAged(snAdapter, 1) /\ UNCHANGED snTodo /\ SnUnwritten
  <2>1. \A w \in SnWitnesses : SnAgreed(w)
    BY <1>1, <1>2 DEF SnOwed
  <2>2. /\ SnAged(snAdapter, 1) \in [SnWitnesses -> SnAdapters]
        /\ \A w \in SnWitnesses : /\ SnCounted(SnAged(snAdapter, 1)[w])
                                  /\ SnAged(snAdapter, 1)[w].st = snAdapter[w].st
    BY <1>1, SnAging
  <2>3. \A w \in SnWitnesses : SnAgreed(w)'
    BY <1>2, <2>1, <2>2 DEF SnAgrees, SnAgreed, SnUnwritten
  <2>4. SnRecords'
    BY <1>1, <1>2 DEF SnRecords, SnUnwritten
  <2> QED BY <1>1, <1>2, <2>2, <2>3, <2>4 DEF SnInv, SnTyped, SnReasons
<1>3. CASE snPc' = "down" /\ UNCHANGED <<snAdapter, snTodo, snWhy>> /\ SnUnwritten
  BY <1>1, <1>3 DEF SnInv, SnTyped, SnEnabled, SnUnwritten, SnRecords
<1>4. CASE snTodo # <<>> /\ snWhy \notin SnLongReasons
  <2>0. PICK w : w = Head(snTodo)
    OBVIOUS
  <2>b. PICK c : c = SnMarkFailure(snAdapter[w], snWhy)
    OBVIOUS
  <2>1. /\ w \in SnWitnesses /\ SnEnabled(w) /\ Tail(snTodo) \in Seq(SnWitnesses)
        /\ \A i \in DOMAIN Tail(snTodo) : SnEnabled(Tail(snTodo)[i])
        /\ \A i \in DOMAIN snTodo : snTodo[i] = w
              \/ \E j \in DOMAIN Tail(snTodo) : Tail(snTodo)[j] = snTodo[i]
    BY <1>4, <2>0, SnHead
  <2>2. SnGoodCycle(snAdapter[w], c)
    BY <1>1, <2>1, <2>b, SnMarked
  <2>3. /\ snAdapter' = [snAdapter EXCEPT ![w] = c.adapter]
        /\ \/ SnWritten(w, c) /\ snTodo' = Tail(snTodo) /\ UNCHANGED <<snPc, snWhy>>
           \/ SnUnwritten /\ snPc' = "down" /\ UNCHANGED <<snTodo, snWhy>>
    BY <1>4, <2>0, <2>b DEF SnHandlerStep, SnPublish, SnWritten, SnUnwritten
  <2>a. SnOwed(w) => c.told
    BY <2>b DEF SnOwed
  <2>4. CASE SnWritten(w, c) /\ snTodo' = Tail(snTodo) /\ UNCHANGED <<snPc, snWhy>>
    <3>1. /\ snAdapter' \in [SnWitnesses -> SnAdapters] /\ SnRecords'
          /\ \A v \in SnWitnesses : SnCounted(snAdapter'[v])
          /\ \A v \in SnWitnesses \ {w} : /\ snAdapter'[v] = snAdapter[v]
                                          /\ snShown'[v] = snShown[v] /\ snSaid'[v] = snSaid[v]
          /\ SnAgrees(snAdapter[w], w) \/ c.told => SnAgreed(w)'
      <4>1. /\ snAdapter \in [SnWitnesses -> SnAdapters] /\ SnRecords
            /\ \A v \in SnWitnesses : SnCounted(snAdapter[v])
            /\ w \in SnWitnesses
        BY <1>1, <2>1
      <4> QED BY <4>1, <2>2, <2>3, <2>4, SnTells
    <3>2. SnAgreed(w)'
      BY <1>1, <2>1, <2>a, <3>1 DEF SnAgreed
    <3>3. ASSUME NEW v \in SnWitnesses \ {w}
          PROVE  SnAgreed(v)' \/ SnOwed(v)'
      <4>1. CASE SnAgreed(v)
        BY <3>1, <4>1 DEF SnAgreed, SnAgrees
      <4>2. CASE SnOwed(v)
        <5>1. \E k \in DOMAIN snTodo' : snTodo'[k] = v
          BY <2>1, <2>4, <4>2 DEF SnOwed
        <5>2. SnMarkFailure(snAdapter'[v], snWhy').told
          BY <2>4, <3>1, <4>2 DEF SnOwed
        <5> QED BY <5>1, <5>2 DEF SnOwed, SnMarkFailure
      <4> QED BY <1>1, <4>1, <4>2
    <3> QED BY <1>1, <2>1, <2>4, <3>1, <3>2, <3>3 DEF SnInv, SnTyped, SnEnabled
  <2>5. CASE SnUnwritten /\ snPc' = "down" /\ UNCHANGED <<snTodo, snWhy>>
    <3>1. /\ snAdapter' \in [SnWitnesses -> SnAdapters]
          /\ \A v \in SnWitnesses : SnCounted(snAdapter'[v])
      BY <1>1, <2>1, <2>2, <2>3 DEF SnGoodCycle
    <3> QED BY <1>1, <2>5, <3>1 DEF SnInv, SnTyped, SnEnabled, SnUnwritten, SnRecords
  <2> QED BY <2>3, <2>4, <2>5
<1> QED BY <1>2, <1>3, <1>4 DEF SnHandlerStep, SnUnwritten

(* A new process: no adapter knows anything yet.                           *)
LEMMA SnRestartInv == ASSUME SnInv, SnRestart PROVE SnInv'
<1>1. /\ snPc' = "open" /\ snTodo' = <<>> /\ snWhy' = "none" /\ UNCHANGED <<snOn, snShown, snSaid>>
      /\ snAdapter' = [w \in SnWitnesses |-> SnNew]
  BY DEF SnRestart
<1>2. \A w \in SnWitnesses : snAdapter'[w] = SnNew /\ SnNew.st = "UNKNOWN"
  BY <1>1 DEF SnNew
<1> QED BY <1>1, <1>2, SnNewAdapter DEF SnInv, SnTyped, SnReasons, SnAgrees, SnAgreed,
                                               SnRecords

(* Every step of the bridge preserves the invariant.                       *)
LEMMA SnStep == SnInv /\ [SnNext]_snVars => SnInv'
<1>1. ASSUME SnInv, UNCHANGED snVars PROVE SnInv'
  BY <1>1 DEF snVars, SnInv, SnTyped, SnEnabled, SnOwed, SnMarkFailure, SnRecords, SnAgrees,
              SnAgreed
<1> QED BY <1>1, SnSourceInv, SnTimeoutInv, SnStaleInv, SnLineInv, SnMapInv, SnHandlerInv,
           SnRestartInv DEF SnNext

(* The seat starts in it.                                                  *)
LEMMA SnInitInv == SnInit => SnInv
<1> SUFFICES ASSUME SnInit PROVE SnInv
  OBVIOUS
<1>1. \A w \in SnWitnesses : snAdapter[w] = SnNew /\ SnNew.st = "UNKNOWN"
  BY DEF SnInit, SnNew
<1>2. SnRecords
  BY SnAssumption DEF SnInit, SnRecords, SnStates
<1> QED BY <1>1, <1>2, SnNewAdapter DEF SnInit, SnInv, SnTyped, SnReasons, SnAgrees,
                                                SnAgreed

(* SnTold: whenever the bridge waits for a line, the body state shows of a *)
(* witness what its adapter knows, or a record stamped later than the last *)
(* one written (_publish_cycle, mark_failure and check_stale of the seat   *)
(* adapters, main of the seat bridge, _apply of the body state), for any   *)
(* thresholds, ages, reports, configurations, clocks and failing writes.   *)
THEOREM WitnessesTold == SnSpec => []SnTold
<1>1. SnInv => SnTold
  BY DEF SnInv, SnTold, SnAgrees, SnAgreed
<1> QED BY <1>1, SnInitInv, SnStep, PTL DEF SnSpec

(* Lines and failures are spent up to their bound.                         *)
LEMMA SnSpent ==
    ASSUME snEvents \in 0 .. SnEvents, [SnNext]_snVars PROVE snEvents' \in 0 .. SnEvents
<1>1. snEvents' = snEvents \/ SnSpend
  BY DEF SnNext, snVars, SnOpen, SnSourceFails, SnTimeout, SnStaleStep, SnRadarLine, SnBeatLine,
         SnPressureLine, SnOtherLine, SnLine, SnMapStep, SnHandlerStep, SnRestart, SnPublish
<1>2. QED
  BY <1>1, SnAssumption DEF SnSpend

(* The types of the seat.                                                  *)
LEMMA SnTypes == SnInv /\ snEvents \in 0 .. SnEvents => SnTypeOK
<1> SUFFICES ASSUME SnInv, snEvents \in 0 .. SnEvents PROVE SnTypeOK
  OBVIOUS
<1>1. ASSUME NEW w \in SnWitnesses
      PROVE  /\ snAdapter[w].st \in SnStates /\ snAdapter[w].fails \in 0 .. SnThreshold
             /\ snAdapter[w].boot \in 0 .. SnBoots /\ snAdapter[w].seq \in 0 .. SnSeqs
             /\ snAdapter[w].age \in -1 .. SnOld /\ snAdapter[w].why \in SnReasons
             /\ snShown[w].st \in SnStates /\ snShown[w].at \in 0 .. SnClock
             /\ snSaid[w] \in 0 .. SnClock
  BY DEF SnInv, SnTyped, SnAdapters, SnRecords
<1>2. QED
  BY <1>1 DEF SnInv, SnTyped, SnTypeOK

(* Whatever lines the seat sends, an adapter keeps a state and a reason    *)
(* the code names, a count of failures up to its threshold and an age up   *)
(* to its bound, and the body state holds of every witness a health record *)
(* with a time the clock showed.                                           *)
THEOREM SeatTypes == SnSpec => []SnTypeOK
<1> DEFINE I == SnInv /\ snEvents \in 0 .. SnEvents
<1>1. SnInit => I
  BY SnInitInv, SnAssumption DEF SnInit
<1>2. I /\ [SnNext]_snVars => I'
  BY SnStep, SnSpent
<1>3. I => SnTypeOK
  BY SnTypes
<1> HIDE DEF I
<1> QED
  BY <1>1, <1>2, <1>3, PTL DEF SnSpec

-----------------------------------------------------------------------------
(* The other senses.                                                       *)

AdRecords ==
    adShown \in [st : AdStates, at : 0 .. AdClock] /\ adSaid \in 0 .. AdClock

AdTyped ==
    /\ adSense \in AdSenses /\ adUp \in BOOLEAN /\ adState \in AdStates
    /\ adAge \in Int /\ adStale \in BOOLEAN /\ adFails \in Nat /\ adMissed \in Nat
    /\ AdRecords

(* While the process runs: a receiver past its window has been reported    *)
(* stale and is degraded since; a microphone has failed as often as its    *)
(* adapter counts; a token reader is online.                               *)
AdInv ==
    /\ AdTyped
    /\ AdTold
    /\ adSense = "gnss" /\ adUp =>
         (adStale => adState = "DEGRADED") /\ (adAge > AdStaleAfter => adStale)
    /\ adSense = "microphone" /\ adUp =>
         /\ adFails = adMissed /\ adMissed \in 0 .. AdFailures
         /\ adState = "FAILED" <=> adMissed >= AdFailures
    /\ adSense = "token" /\ adUp => adState = "ONLINE"

(* A new adapter is within its bounds.                                     *)
LEMMA AdBounds ==
    /\ ~(0 > AdStaleAfter) /\ ~(-1 > AdStaleAfter) /\ -1 \in Int
    /\ 0 \in 0 .. AdFailures /\ ~(0 >= AdFailures)
BY AdAssumption

(* A written record is shown, or an older one than the body state holds.   *)
LEMMA AdWritten ==
    ASSUME AdRecords, NEW st \in AdStates, AdWrite(st)
    PROVE  AdRecords' /\ (adShown'.st = st \/ AdHidden')
<1>1. PICK t \in 0 .. AdClock : adShown' = AdApply(adShown, st, t) /\ adSaid' = t
  BY DEF AdWrite
<1>2. t \in Int /\ AdClock \in Nat
  BY AdAssumption
<1>3. CASE t < adShown.at
  BY <1>1, <1>2, <1>3 DEF AdApply, AdRecords, AdHidden
<1>4. CASE ~(t < adShown.at)
  <2>1. adShown' = [st |-> st, at |-> t]
    BY <1>1, <1>4 DEF AdApply
  <2>2. QED
    BY <1>1, <2>1 DEF AdRecords
<1>5. QED
  BY <1>3, <1>4

(* What publish_many leaves in the body state, if it does not end the      *)
(* process.                                                                *)
LEMMA AdPublished ==
    ASSUME NEW told \in BOOLEAN, NEW sensor, AdPublish(told, sensor), AdTyped,
           adState' \in AdStates
    PROVE  /\ AdRecords' /\ adUp' \in BOOLEAN /\ (adUp' => adUp)
           /\ adUp' => \/ told /\ (adShown'.st = adState' \/ AdHidden')
                       \/ ~told /\ UNCHANGED <<adShown, adSaid>>
           /\ adFaults' = adFaults \/ (adFaults < AdFaults /\ adFaults' = adFaults + 1)
<1>1. CASE told /\ AdWrite(adState') /\ UNCHANGED <<adUp, adFaults>>
  <2>1. AdRecords' /\ (adShown'.st = adState' \/ AdHidden')
    BY <1>1, AdWritten DEF AdTyped
  <2>2. QED
    BY <1>1, <2>1 DEF AdTyped
<1>2. CASE ~told /\ UNCHANGED <<adShown, adSaid, adUp, adFaults>>
  BY <1>2 DEF AdTyped, AdRecords
<1>3. CASE AdUnwritten /\ adUp' = FALSE
  BY <1>3 DEF AdTyped, AdRecords, AdUnwritten
<1>4. QED
  BY <1>1, <1>2, <1>3 DEF AdPublish

(* A cycle that tells every change of state keeps the sense told.          *)
LEMMA AdKept ==
    ASSUME NEW told \in BOOLEAN, NEW sensor, AdPublish(told, sensor), AdTyped, AdTold,
           adState' \in AdStates, ~told => adState' = adState
    PROVE  AdRecords' /\ adUp' \in BOOLEAN /\ (adUp' => adUp) /\ AdTold'
<1>1. /\ AdRecords' /\ adUp' \in BOOLEAN /\ (adUp' => adUp)
      /\ adUp' => \/ told /\ (adShown'.st = adState' \/ AdHidden')
                  \/ ~told /\ UNCHANGED <<adShown, adSaid>>
  BY AdPublished
<1>2. CASE told
  BY <1>1, <1>2 DEF AdTold
<1>3. CASE ~told
  BY <1>1, <1>3 DEF AdTold, AdHidden
<1>4. QED
  BY <1>1, <1>2, <1>3

(* An analysis is online or degraded.                                      *)
LEMMA AdAnalysed == \A window : AdAnalysis(window).st \in {"ONLINE", "DEGRADED"}
<1> TAKE window
<1>1. CASE "CLIPPING" \in window
  BY <1>1 DEF AdAnalysis
<1>2. CASE "CLIPPING" \notin window /\ "DIGITAL_SILENCE" \in window
  BY <1>2 DEF AdAnalysis
<1>3. CASE "CLIPPING" \notin window /\ "DIGITAL_SILENCE" \notin window
  BY <1>3 DEF AdAnalysis
<1> QED BY <1>1, <1>2, <1>3

(* A window of the microphone.                                             *)
LEMMA AdMicInv == ASSUME AdInv, AdMicObserve \/ AdMicFails PROVE AdInv'
<1>0. /\ adSense = "microphone" /\ adUp /\ adSense' = "microphone"
      /\ UNCHANGED <<adAge, adStale>>
  BY DEF AdMicObserve, AdMicFails
<1>1. CASE AdMicObserve
  <2>1. PICK window \in AdWindows, told \in BOOLEAN :
          /\ adState' = AdAnalysis(window).st /\ AdPublish(told, TRUE)
          /\ ~told => adState' = adState
    <3>1. PICK window \in AdWindows :
            /\ adState' = AdAnalysis(window).st
            /\ AdPublish(\/ adState # AdAnalysis(window).st
                         \/ adWhy # AdAnalysis(window).reason \/ adState = "UNKNOWN", TRUE)
      BY <1>1 DEF AdMicObserve
    <3> QED BY <3>1
  <2>2. adState' \in {"ONLINE", "DEGRADED"}
    BY <2>1, AdAnalysed
  <2>3. AdRecords' /\ adUp' \in BOOLEAN /\ AdTold'
    BY <2>1, <2>2, AdKept DEF AdInv, AdStates
  <2>5. adFails' = 0 /\ adMissed' = 0
    BY <1>1 DEF AdMicObserve
  <2> QED BY <1>0, <2>2, <2>3, <2>5, AdAssumption DEF AdInv, AdTyped, AdStates, AdSenses
<1>2. CASE AdMicFails
  <2> DEFINE f == AdMicFailure
  <2>1. /\ adFails' = f.fails /\ adState' = f.st /\ AdPublish(f.told, FALSE)
        /\ adMissed' = AdLeast(adMissed + 1, AdFailures)
    BY <1>2 DEF AdMicFails
  <2>2. /\ adFails = adMissed /\ adMissed \in 0 .. AdFailures /\ AdFailures \in Nat \ {0}
    BY <1>0, AdAssumption DEF AdInv
  <2>3. /\ f.fails = AdLeast(adFails + 1, AdFailures)
        /\ f.st = IF f.fails >= AdFailures THEN "FAILED" ELSE "DEGRADED"
        /\ ~f.told => adState = f.st
    BY DEF AdMicFailure
  <2>a. f.told \in BOOLEAN
    BY DEF AdMicFailure
  <2> HIDE DEF f
  <2>4. /\ adFails' = adMissed' /\ adMissed' \in 0 .. AdFailures
        /\ adState' = IF adMissed' >= AdFailures THEN "FAILED" ELSE "DEGRADED"
    BY <2>1, <2>2, <2>3 DEF AdLeast
  <2>6. adState' \in {"FAILED", "DEGRADED"} /\ (adState' = "FAILED" <=> adMissed' >= AdFailures)
    BY <2>4
  <2>7. AdRecords' /\ adUp' \in BOOLEAN /\ AdTold'
    BY <2>1, <2>3, <2>a, <2>6, AdKept DEF AdInv, AdStates
  <2> QED BY <1>0, <2>2, <2>4, <2>6, <2>7 DEF AdInv, AdTyped, AdStates, AdSenses
<1> QED BY <1>1, <1>2

(* The adapter's age after a turn.                                         *)
LEMMA AdOlderInt == ASSUME AdTyped PROVE AdOlder \in Int
BY AdAssumption DEF AdTyped, AdOlder, AdLeast, AdOld

(* A sentence, silence, noise or the end of the GNSS receiver.             *)
LEMMA AdGnssInv ==
    ASSUME AdInv, AdGnssObserve \/ AdGnssQuiet \/ AdGnssNoise \/ AdGnssFails PROVE AdInv'
<1>0. /\ adSense = "gnss" /\ adUp /\ adSense' = "gnss" /\ UNCHANGED <<adFails, adMissed>>
  BY DEF AdGnssObserve, AdGnssQuiet, AdGnssNoise, AdGnssFails
<1>1. CASE AdGnssObserve
  <2>1. adState' \in {"ONLINE", "DEGRADED"} /\ AdPublish(adState # adState', TRUE)
    BY <1>1 DEF AdGnssObserve
  <2>2. PICK told \in BOOLEAN : told = (adState # adState')
    OBVIOUS
  <2>3. AdRecords' /\ adUp' \in BOOLEAN /\ AdTold'
    BY <2>1, <2>2, AdKept DEF AdInv, AdStates
  <2>4. adAge' = 0 /\ adStale' = FALSE
    BY <1>1 DEF AdGnssObserve
  <2>5. AdTyped'
    <3>1. adState' \in AdStates
      BY <2>1 DEF AdStates
    <3>2. adAge' \in Int
      BY <2>4
    <3>3. adStale' \in BOOLEAN
      BY <2>4
    <3> QED BY <1>0, <2>3, <3>1, <3>2, <3>3 DEF AdInv, AdTyped
  <2>6. adStale' = FALSE /\ ~(adAge' > AdStaleAfter)
    BY <2>4, AdBounds
  <2> QED BY <1>0, <2>3, <2>5, <2>6 DEF AdInv
<1>2. CASE AdCheckStale
  <2>1. adAge' \in Int
    BY <1>2, AdOlderInt DEF AdInv, AdCheckStale
  <2>2. CASE adState' = "DEGRADED" /\ adStale' = TRUE /\ AdPublish(TRUE, FALSE)
    <3>1. AdRecords' /\ adUp' \in BOOLEAN /\ AdTold'
      BY <2>2, AdKept DEF AdInv, AdStates
    <3> QED BY <1>0, <2>1, <2>2, <3>1 DEF AdInv, AdTyped, AdStates, AdSenses
  <2>3. CASE /\ adAge' = -1 \/ adAge' <= AdStaleAfter \/ adStale
             /\ UNCHANGED <<adState, adStale, adShown, adSaid, adUp, adFaults>>
    <3>1. adAge' > AdStaleAfter => adStale
      <4>1. adAge' = -1 => ~(adAge' > AdStaleAfter)
        BY AdBounds
      <4>2. adAge' <= AdStaleAfter => ~(adAge' > AdStaleAfter)
        BY <2>1, AdAssumption
      <4> QED BY <2>3, <4>1, <4>2
    <3>2. AdRecords' /\ AdTold'
      BY <2>3 DEF AdInv, AdTyped, AdRecords, AdTold, AdHidden
    <3> QED BY <1>0, <2>1, <2>3, <3>1, <3>2 DEF AdInv, AdTyped, AdStates, AdSenses
  <2> QED BY <1>2, <2>2, <2>3 DEF AdCheckStale
<1>3. CASE AdGnssFails
  <2>1. AdRecords'
    BY <1>3, AdWritten DEF AdGnssFails, AdUnwritten, AdInv, AdTyped, AdRecords, AdStates
  <2> QED BY <1>0, <1>3, <2>1 DEF AdGnssFails, AdInv, AdTyped, AdTold, AdStates, AdSenses
<1> QED BY <1>1, <1>2, <1>3 DEF AdGnssQuiet, AdGnssNoise

(* A voltage, or none.                                                     *)
LEMMA AdPowerInv == ASSUME AdInv, AdPowerObserve \/ AdPowerFails PROVE AdInv'
<1>0. /\ adSense = "power" /\ adUp /\ adSense' = "power"
      /\ UNCHANGED <<adFails, adAge, adStale, adMissed>>
  BY DEF AdPowerObserve, AdPowerFails
<1>1. CASE AdPowerObserve
  <2>1. PICK band \in AdBands :
          /\ adState' = IF band \in {"NORMAL", "CHARGING"} THEN "ONLINE" ELSE "DEGRADED"
          /\ AdPublish(adState # adState' \/ adWhy # band, TRUE)
    BY <1>1 DEF AdPowerObserve
  <2>2. adState' \in AdStates
    BY <2>1 DEF AdStates
  <2>3. PICK told \in BOOLEAN : told = (adState # adState' \/ adWhy # band)
    OBVIOUS
  <2>4. AdRecords' /\ adUp' \in BOOLEAN /\ AdTold'
    BY <2>1, <2>2, <2>3, AdKept DEF AdInv
  <2> QED BY <1>0, <2>2, <2>4 DEF AdInv, AdTyped, AdSenses
<1>2. CASE AdPowerFails
  <2>1. CASE UNCHANGED <<adState, adWhy, adShown, adSaid, adUp, adFaults>>
    BY <1>0, <2>1 DEF AdInv, AdTyped, AdTold, AdRecords, AdHidden
  <2>2. CASE adState' = "FAILED" /\ AdPublish(TRUE, FALSE)
    <3>1. AdRecords' /\ adUp' \in BOOLEAN /\ AdTold'
      BY <2>2, AdKept DEF AdInv, AdStates
    <3> QED BY <1>0, <2>2, <3>1 DEF AdInv, AdTyped, AdStates, AdSenses
  <2> QED BY <1>2, <2>1, <2>2 DEF AdPowerFails
<1> QED BY <1>1, <1>2

(* A tag, an empty reader, or a frame that cannot be read.                 *)
LEMMA AdTokenInv ==
    ASSUME AdInv, AdTokenObserve \/ AdTokenQuiet \/ AdTokenError PROVE AdInv'
<1>0. /\ adSense = "token" /\ adUp /\ adSense' = "token" /\ UNCHANGED <<adStale, adMissed>>
      /\ adState = "ONLINE"
  BY DEF AdTokenObserve, AdTokenQuiet, AdTokenError, AdInv, AdTold
<1>1. CASE AdTokenObserve
  <2>1. adFails' = 0
    BY <1>1 DEF AdTokenObserve
  <2>2. CASE UNCHANGED <<adAge, adState, adShown, adSaid, adUp, adFaults>>
    BY <1>0, <2>1, <2>2 DEF AdInv, AdTyped, AdTold, AdRecords, AdHidden
  <2>3. CASE /\ adAge' = 0 /\ adState' = "ONLINE"
             /\ AdPublish(adState \in {"FAILED", "UNKNOWN"}, TRUE)
    <3>1. AdPublish(FALSE, TRUE) /\ adState' = adState /\ adState' \in AdStates
      BY <1>0, <2>3 DEF AdPublish, AdStates
    <3>2. AdRecords' /\ adUp' \in BOOLEAN /\ AdTold'
      BY <3>1, AdKept DEF AdInv
    <3> QED BY <1>0, <2>1, <2>3, <3>2 DEF AdInv, AdTyped, AdStates, AdSenses
  <2> QED BY <1>1, <2>2, <2>3 DEF AdTokenObserve
<1>2. CASE AdTokenQuiet
  BY <1>0, <1>2, AdOlderInt DEF AdTokenQuiet, AdInv, AdTyped, AdTold, AdRecords, AdHidden
<1>3. CASE AdTokenError
  <2>1. adFails' \in Nat
    BY <1>3 DEF AdTokenError, AdInv, AdTyped
  <2>2. CASE UNCHANGED <<adState, adTag, adAge, adShown, adSaid, adUp, adFaults>>
    BY <1>0, <2>1, <2>2 DEF AdInv, AdTyped, AdTold, AdRecords, AdHidden
  <2>3. CASE /\ adState' = "FAILED" /\ adAge' = -1 /\ adUp' = FALSE
             /\ AdWrite("FAILED") \/ UNCHANGED <<adShown, adSaid>>
    <3>1. AdRecords'
      BY <2>3, AdWritten DEF AdInv, AdTyped, AdRecords, AdStates
    <3> QED BY <1>0, <2>1, <2>3, <3>1, AdBounds DEF AdInv, AdTyped, AdTold, AdStates, AdSenses
  <2> QED BY <1>3, <2>2, <2>3 DEF AdTokenError, AdUnwritten
<1> QED BY <1>1, <1>2, <1>3

(* A new process.                                                          *)
LEMMA AdStartInv == ASSUME AdInv, AdStart PROVE AdInv'
<1>1. /\ adSense' = adSense /\ adUp' \in BOOLEAN /\ adStale' = FALSE /\ adAge' = -1
      /\ adFails' = 0 /\ adMissed' = 0
  BY DEF AdStart, AdNewAdapter, AdInv, AdTyped
<1>a. AdRecords /\ "FAILED" \in AdStates /\ "ONLINE" \in AdStates
  BY DEF AdInv, AdTyped, AdStates
<1>b. AdRecords'
  BY <1>a, AdWritten DEF AdStart, AdRecords
<1>2. \/ adState' = "UNKNOWN" /\ (adUp' => adSense # "token")
      \/ adState' = "ONLINE" /\ (adShown'.st = "ONLINE" \/ AdHidden') /\ adSense = "token"
  BY <1>a, AdWritten DEF AdStart, AdNewAdapter
<1>3. AdTyped'
  BY <1>1, <1>2, <1>b, AdBounds DEF AdInv, AdTyped, AdStates
<1>4. /\ adStale' = FALSE /\ ~(adAge' > AdStaleAfter) /\ adFails' = adMissed'
      /\ adMissed' \in 0 .. AdFailures /\ ~(adMissed' >= AdFailures)
  BY <1>1, AdBounds
<1> QED BY <1>1, <1>2, <1>3, <1>4 DEF AdInv, AdTold

(* The bridge starts in it.                                                *)
LEMMA AdInitInv == AdInit => AdInv
<1> SUFFICES ASSUME AdInit PROVE AdInv
  OBVIOUS
<1>a. 0 \in 0 .. AdClock
  BY AdAssumption
<1>b. AdRecords
  BY <1>a DEF AdInit, AdRecords, AdStates
<1>c. adSense \in AdSenses /\ adUp \in BOOLEAN /\ adState \in AdStates /\ adStale \in BOOLEAN
  BY DEF AdInit, AdStates
<1>d. adAge \in Int /\ adFails \in Nat /\ adMissed \in Nat
  BY SMT DEF AdInit
<1>1. AdTyped
  BY <1>b, <1>c, <1>d DEF AdTyped
<1>2. ~adUp
  BY DEF AdInit
<1>3. AdTold
  BY <1>2, Zenon DEF AdTold
<1> QED BY <1>1, <1>2, <1>3 DEF AdInv

(* Every step of a bridge keeps it.                                        *)
LEMMA AdStepInv == AdInv /\ [AdNext]_adVars => AdInv'
<1>1. ASSUME AdInv, UNCHANGED adVars PROVE AdInv'
  BY <1>1 DEF adVars, AdInv, AdTyped, AdTold, AdRecords, AdHidden
<1> QED BY <1>1, AdMicInv, AdGnssInv, AdPowerInv, AdTokenInv, AdStartInv DEF AdNext

(* AdSound: while a bridge runs, the body state shows the health its       *)
(* adapter has, unless it ignored the report as older than the one it      *)
(* held; a receiver past its window is then not shown online, and a        *)
(* microphone is shown failed exactly at its threshold (observe,           *)
(* mark_failure and check_stale of the four adapters, _apply of the body   *)
(* state), for any windows, sentences, voltages, tags, thresholds, clocks  *)
(* and failing writes.                                                     *)
THEOREM SensesTold == AdSpec => []AdSound
<1>1. AdInv => AdSound
  BY DEF AdInv, AdTyped, AdSound, AdTold, AdSilenceTold, AdFailedTold
<1> QED BY <1>1, AdInitInv, AdStepInv, PTL DEF AdSpec

-----------------------------------------------------------------------------
(* The bounds of the senses: the errors a token reader counts before it    *)
(* gives up, the failures a microphone counts and the turns of an age.     *)
AdLimits ==
    /\ adSense = "token" => adFails \in 0 .. 3 /\ (adUp => adFails < 3)
    /\ adSense # "token" => adFails \in 0 .. AdFailures
    /\ adAge \in -1 .. AdOld /\ adTag \in AdTags \cup {"none"}
    /\ adFaults \in 0 .. AdFaults

(* A new adapter has an age within the bound.                              *)
LEMMA AdFresh ==
    /\ -1 \in -1 .. AdOld /\ 0 \in -1 .. AdOld /\ 0 \in 0 .. AdFailures /\ 0 \in 0 .. 3
    /\ 0 \in 0 .. AdFaults
BY AdAssumption DEF AdOld

(* A turn keeps the age within the bound.                                  *)
LEMMA AdOlderBound == ASSUME adAge \in -1 .. AdOld PROVE AdOlder \in -1 .. AdOld
BY AdAssumption DEF AdOlder, AdLeast, AdOld

(* A failed write is counted up to its bound, and no process starts but by *)
(* AdStart.                                                                *)
LEMMA AdFaultsBound ==
    ASSUME adFaults \in 0 .. AdFaults, [AdNext]_adVars
    PROVE  adFaults' \in 0 .. AdFaults
<1>1. adFaults' = adFaults \/ (adFaults < AdFaults /\ adFaults' = adFaults + 1)
  BY DEF AdNext, adVars, AdMicObserve, AdMicFails, AdGnssObserve, AdGnssQuiet, AdGnssNoise,
         AdGnssFails, AdPowerObserve, AdPowerFails, AdTokenObserve, AdTokenQuiet, AdTokenError,
         AdStart, AdPublish, AdCheckStale, AdUnwritten
<1>2. QED
  BY <1>1, AdAssumption

(* The bounds hold at the start.                                           *)
LEMMA AdLimitsInit == AdInit => AdLimits
BY AdFresh DEF AdInit, AdLimits

(* The microphone keeps the bounds.                                        *)
LEMMA AdMicLimits ==
    ASSUME AdLimits, adFaults' \in 0 .. AdFaults, AdMicObserve \/ AdMicFails PROVE AdLimits'
<1>1. adFails \in 0 .. AdFailures /\ adSense' = adSense /\ adSense = "microphone"
      /\ UNCHANGED <<adAge, adTag>>
  BY DEF AdLimits, AdMicObserve, AdMicFails
<1>2. adFails' = 0 \/ adFails' = AdLeast(adFails + 1, AdFailures)
  BY DEF AdMicObserve, AdMicFails, AdMicFailure
<1>3. adFails' \in 0 .. AdFailures
  BY <1>1, <1>2, AdAssumption DEF AdLeast
<1>4. QED
  BY <1>1, <1>3 DEF AdLimits

(* The receiver and the supply keep the bounds.                            *)
LEMMA AdQuietLimits ==
    ASSUME AdLimits, adFaults' \in 0 .. AdFaults,
           \/ AdGnssObserve \/ AdGnssQuiet \/ AdGnssNoise \/ AdGnssFails
           \/ AdPowerObserve \/ AdPowerFails
    PROVE  AdLimits'
<1>1. adSense' = adSense /\ adSense \in {"gnss", "power"} /\ UNCHANGED <<adFails, adTag>>
  BY DEF AdGnssObserve, AdGnssQuiet, AdGnssNoise, AdGnssFails, AdPowerObserve, AdPowerFails
<1>2. adAge' \in {0, adAge, AdOlder}
  BY DEF AdGnssObserve, AdGnssQuiet, AdGnssNoise, AdGnssFails, AdPowerObserve, AdPowerFails,
         AdCheckStale
<1>3. adAge' \in -1 .. AdOld
  BY <1>2, AdFresh, AdOlderBound DEF AdLimits
<1>4. QED
  BY <1>1, <1>3 DEF AdLimits

(* The token reader keeps the bounds: it gives up at the third error.      *)
LEMMA AdTokenLimits ==
    ASSUME AdTyped, AdLimits, adFaults' \in 0 .. AdFaults,
           AdTokenObserve \/ AdTokenQuiet \/ AdTokenError
    PROVE  AdLimits'
<1>0. /\ adSense' = adSense /\ adSense = "token" /\ adUp /\ adFails \in 0 .. 3 /\ adFails < 3
  BY DEF AdTokenObserve, AdTokenQuiet, AdTokenError, AdLimits
<1>1. CASE AdTokenObserve
  <2>1. adFails' = 0 /\ adAge' \in {0, adAge} /\ adTag' \in AdTags \cup {adTag}
    BY <1>1 DEF AdTokenObserve
  <2>2. adAge' \in -1 .. AdOld /\ adTag' \in AdTags \cup {"none"}
    BY <2>1, AdFresh DEF AdLimits
  <2>3. QED
    BY <1>0, <2>1, <2>2, AdFresh DEF AdLimits
<1>2. CASE AdTokenQuiet
  BY <1>0, <1>2, AdOlderBound DEF AdTokenQuiet, AdLimits
<1>3. CASE AdTokenError
  <2>1. adFails' = adFails + 1 /\ adFails' \in 0 .. 3
    BY <1>0, <1>3 DEF AdTokenError
  <2>2. CASE adFails' < 3
    <3>0. ~(adFails' >= 3)
      BY <2>1, <2>2
    <3>1. UNCHANGED <<adState, adTag, adAge, adShown, adSaid, adUp, adFaults>>
      BY <1>3, <3>0, Zenon DEF AdTokenError
    <3>2. QED
      BY <1>0, <2>1, <2>2, <3>1 DEF AdLimits
  <2>3. CASE ~(adFails' < 3)
    <3>1. adTag' = "none" /\ adAge' = -1 /\ adUp' = FALSE
      BY <1>3, <2>3 DEF AdTokenError
    <3>2. QED
      BY <1>0, <2>1, <3>1, AdFresh DEF AdLimits
  <2>4. QED
    BY <2>2, <2>3
<1>4. QED
  BY <1>1, <1>2, <1>3

(* A restarted bridge is within the bounds.                                *)
LEMMA AdStartLimits ==
    ASSUME AdLimits, adFaults' \in 0 .. AdFaults, AdStart PROVE AdLimits'
<1>1. adSense' = adSense /\ adAge' = -1 /\ adFails' = 0 /\ adTag' = "none"
  BY DEF AdStart, AdNewAdapter
<1>2. QED
  BY <1>1, AdFresh DEF AdLimits

(* Every step of a sense keeps its bounds.                                 *)
LEMMA AdLimitsStep == AdTyped /\ AdLimits /\ [AdNext]_adVars => AdLimits'
<1> SUFFICES ASSUME AdTyped, AdLimits, [AdNext]_adVars PROVE AdLimits'
  OBVIOUS
<1>1. CASE UNCHANGED adVars
  BY <1>1 DEF adVars, AdLimits
<1>2. adFaults' \in 0 .. AdFaults
  BY AdFaultsBound DEF AdLimits
<1>3. QED
  BY <1>1, <1>2, AdMicLimits, AdQuietLimits, AdTokenLimits, AdStartLimits DEF AdNext

(* The types of a sense.                                                   *)
LEMMA AdTypes == AdInv /\ AdLimits => AdTypeOK
BY DEF AdInv, AdTyped, AdLimits, AdTypeOK, AdRecords
=============================================================================
