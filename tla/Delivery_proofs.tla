--------------------------- MODULE Delivery_proofs ---------------------------
(***************************************************************************)
(* Proofs about the components that repeat what may already have been      *)
(* done: the speech outbox that sends until Audio answers, the RPC server  *)
(* that answers a repeated call from its cache, and the wake supervisor    *)
(* that must not touch the hardware for a retransmitted request.           *)
(***************************************************************************)
EXTENDS SpeechEgress, RpcTransport, WakePolicy, FiniteSetTheorems, SequenceTheorems, TLAPS

-----------------------------------------------------------------------------
(* The speech outbox.                                                      *)

SpSpec == SpInit /\ [][SpNext]_spVars

SpFields == {"id", "content", "status", "attempts", "wait"}

(* Outbox and history grow together; an expression Audio took as new has   *)
(* its key there, so no later attempt of the row is new.                   *)
SpInv ==
    /\ spHeard \in Seq(Nat)
    /\ spOutbox = [i \in 1 .. Len(spHeard) |-> spOutbox[i]]
    /\ \A i \in 1 .. Len(spHeard) : DOMAIN spOutbox[i] = SpFields
    /\ \A i \in 1 .. Len(spHeard) : spHeard[i] <= 1 /\ (spHeard[i] # 0 => SpKey(i) \in spAudio)
    /\ SpOutboxBounded

(* The rows that are pending are finitely many.                            *)
LEMMA SpPendingFinite ==
    ASSUME SpInv
    PROVE  IsFiniteSet(SpPending) /\ SpPending \subseteq 1 .. Len(spHeard)
  <1>1. SpPending \subseteq 1 .. Len(spHeard) /\ Len(spHeard) \in Nat
    BY DEF SpInv, SpPending
  <1>2. IsFiniteSet(1 .. Len(spHeard))
    BY <1>1, FS_Interval
  <1>3. QED
    BY <1>1, <1>2, FS_Subset

(* The invariant of the outbox holds initially.                            *)
LEMMA SpInitInv == SpInit => SpInv
  <1> SUFFICES ASSUME SpInit PROVE SpInv
    OBVIOUS
  <1>1. spOutbox = <<>> /\ spHeard = <<>> /\ Len(spHeard) = 0
    BY DEF SpInit
  <1>2. SpPending = {}
    BY <1>1 DEF SpPending
  <1>3. Cardinality(SpPending) <= SpMaxPending
    BY <1>2, FS_EmptySet, SpAssumption
  <1>4. QED
    BY <1>1, <1>3 DEF SpInv, SpOutboxBounded

(* A step that keeps the rows' ids, and makes no row pending that was not, *)
(* preserves the invariant.                                                *)
LEMMA SpRowsInv ==
    ASSUME SpInv, spHeard' = spHeard, spAudio' = spAudio,
           spOutbox' = [i \in 1 .. Len(spHeard) |-> spOutbox'[i]],
           \A i \in 1 .. Len(spHeard) :
               /\ DOMAIN spOutbox'[i] = SpFields
               /\ spOutbox'[i].id = spOutbox[i].id
               /\ spOutbox'[i].status = "pending" => spOutbox[i].status = "pending"
    PROVE  SpInv'
  <1>1. DOMAIN spOutbox = 1 .. Len(spHeard) /\ DOMAIN spOutbox' = 1 .. Len(spHeard)
    BY DEF SpInv
  <1>2. SpPending' \subseteq SpPending
    BY <1>1 DEF SpPending
  <1>3. Cardinality(SpPending') <= SpMaxPending
    <2>1. Cardinality(SpPending) <= SpMaxPending
      BY DEF SpInv, SpOutboxBounded
    <2>2. /\ Cardinality(SpPending) \in Nat /\ Cardinality(SpPending') \in Nat
          /\ Cardinality(SpPending') <= Cardinality(SpPending)
      BY <1>2, SpPendingFinite, FS_Subset, FS_CardinalityType
    <2>3. QED
      BY <2>1, <2>2, SpAssumption
  <1>4. \A i, j \in DOMAIN spOutbox' : spOutbox'[i].id = spOutbox'[j].id => i = j
    BY <1>1 DEF SpInv, SpOutboxBounded
  <1>5. QED
    BY <1>1, <1>3, <1>4 DEF SpInv, SpOutboxBounded, SpKey

(* Enqueueing adds at most one row, under an id of its own and within the  *)
(* bound of pending rows.                                                  *)
LEMMA SpEnqueueInv ==
    ASSUME SpInv, NEW e, SpEnqueue(e), spAudio' = spAudio
    PROVE  SpInv'
  <1>1. CASE UNCHANGED <<spOutbox, spHeard>>
    BY <1>1 DEF SpInv, SpOutboxBounded, SpPending, SpKey
  <1>2. CASE /\ ~SpQueued(e) /\ Cardinality(SpPending) < SpMaxPending
             /\ spOutbox' = Append(spOutbox, SpNewRow(e)) /\ spHeard' = Append(spHeard, 0)
    <2> DEFINE n == Len(spHeard)
    <2>1. n \in Nat /\ Len(spHeard') = n + 1 /\ spHeard' \in Seq(Nat)
      BY <1>2 DEF SpInv
    <2>2. /\ DOMAIN spOutbox = 1 .. n /\ Len(spOutbox) = n
          /\ spOutbox = [i \in 1 .. n |-> spOutbox[i]]
      BY <2>1 DEF SpInv
    <2>3. /\ spOutbox' = [i \in 1 .. n + 1 |-> spOutbox'[i]]
          /\ spOutbox'[n + 1] = SpNewRow(e)
          /\ \A i \in 1 .. n : spOutbox'[i] = spOutbox[i]
      BY <1>2, <2>1, <2>2
    <2>4. spHeard'[n + 1] = 0 /\ \A i \in 1 .. n : spHeard'[i] = spHeard[i]
      BY <1>2, <2>1 DEF SpInv
    <2>5. DOMAIN SpNewRow(e) = SpFields /\ SpNewRow(e).id = e.id
      BY DEF SpNewRow, SpFields
    <2> HIDE DEF n
    <2>6. \A i \in 1 .. n + 1 : i \in 1 .. n \/ i = n + 1
      BY <2>1
    <2>7. \A i \in 1 .. n + 1 : DOMAIN spOutbox'[i] = SpFields
      BY <2>3, <2>5, <2>6 DEF SpInv, n
    <2>8. \A i \in 1 .. n + 1 : spHeard'[i] <= 1 /\ (spHeard'[i] # 0 => SpKey(i) \in spAudio)
      BY <2>4, <2>6 DEF SpInv, n
    <2>9. \A i, j \in 1 .. n + 1 : spOutbox'[i].id = spOutbox'[j].id => i = j
      <3>1. \A i \in 1 .. n : spOutbox[i].id # e.id
        BY <1>2, <2>2 DEF SpQueued
      <3>2. \A i, j \in 1 .. n : spOutbox[i].id = spOutbox[j].id => i = j
        BY <2>2 DEF SpInv, SpOutboxBounded
      <3>3. QED
        BY <2>3, <2>5, <2>6, <3>1, <3>2
    <2>10. Cardinality(SpPending') <= SpMaxPending
      <3>1. SpPending' \subseteq SpPending \cup {n + 1}
        BY <2>2, <2>3, <2>6 DEF SpPending
      <3>2. n + 1 \notin SpPending
        BY <2>1, <2>2 DEF SpPending
      <3>3. /\ IsFiniteSet(SpPending \cup {n + 1})
            /\ Cardinality(SpPending \cup {n + 1}) = Cardinality(SpPending) + 1
        BY <3>2, SpPendingFinite, FS_AddElement
      <3>4. Cardinality(SpPending) \in Nat
        BY SpPendingFinite, FS_CardinalityType
      <3>5. /\ Cardinality(SpPending') \in Nat
            /\ Cardinality(SpPending') <= Cardinality(SpPending \cup {n + 1})
        BY <3>1, <3>3, FS_Subset, FS_CardinalityType
      <3>6. QED
        BY <1>2, <3>3, <3>4, <3>5, SpAssumption
    <2>11. DOMAIN spOutbox' = 1 .. n + 1
      BY <2>3
    <2>12. QED
      BY <2>1, <2>3, <2>7, <2>8, <2>9, <2>10, <2>11 DEF SpInv, SpOutboxBounded, SpKey, n
  <1>3. QED
    BY <1>1, <1>2 DEF SpEnqueue

(* The invariant of the outbox is preserved by every step.                 *)
LEMMA SpStepInv == SpInv /\ [SpNext]_spVars => SpInv'
  <1> SUFFICES ASSUME SpInv, [SpNext]_spVars PROVE SpInv'
    OBVIOUS
  <1>1. ASSUME NEW e \in SpForeign, SpForeignEvent(e) PROVE SpInv'
    BY <1>1, SpEnqueueInv DEF SpForeignEvent
  <1>2. ASSUME NEW m \in SpModules, NEW print \in SpPrints, SpHealthEvent(m, print) PROVE SpInv'
    <2>1. SpEnqueue(SpDraft) /\ spAudio' = spAudio
      BY <1>2 DEF SpHealthEvent
    <2>2. QED
      BY <2>1, SpEnqueueInv
  <1>3. ASSUME NEW reached \in {"accepts", "rejects", "lost"}, SpSend(reached) PROVE SpInv'
    <2>1. PICK i : \/ /\ SpKey(i) \notin spAudio /\ spAudio' = spAudio \cup {SpKey(i)}
                      /\ spHeard' = [spHeard EXCEPT ![i] = @ + 1]
                   \/ UNCHANGED <<spAudio, spHeard>>
      BY <1>3 DEF SpSend
    <2>2. spOutbox' = spOutbox
      BY <1>3 DEF SpSend
    <2>3. CASE UNCHANGED <<spAudio, spHeard>>
      BY <2>2, <2>3 DEF SpInv, SpOutboxBounded, SpPending, SpKey
    <2>4. CASE /\ SpKey(i) \notin spAudio /\ spAudio' = spAudio \cup {SpKey(i)}
               /\ spHeard' = [spHeard EXCEPT ![i] = @ + 1]
      <3>1. \A k \in 1 .. Len(spHeard) : spHeard[k] \in Nat
        BY DEF SpInv
      <3>2. i \in 1 .. Len(spHeard) => spHeard[i] = 0
        BY <2>4 DEF SpInv
      <3>3. spHeard' \in Seq(Nat) /\ Len(spHeard') = Len(spHeard)
        <4>1. CASE i \in 1 .. Len(spHeard)
          <5>1. spHeard' = [spHeard EXCEPT ![i] = 1]
            <6>1. spHeard[i] + 1 = 1
              BY <3>2, <4>1
            <6>2. QED
              BY <2>4, <6>1, Zenon
          <5>2. QED
            BY <4>1, <5>1 DEF SpInv
        <4>2. CASE i \notin 1 .. Len(spHeard)
          <5>1. spHeard' = spHeard
            BY <2>4, <4>2 DEF SpInv
          <5>2. QED
            BY <5>1 DEF SpInv
        <4>3. QED
          BY <4>1, <4>2
      <3>4. \A k \in 1 .. Len(spHeard) : spHeard'[k] = IF k = i THEN 1 ELSE spHeard[k]
        BY <2>4, <3>2 DEF SpInv
      <3>5. \A k \in 1 .. Len(spHeard) : spHeard'[k] <= 1 /\ (spHeard'[k] # 0 => SpKey(k) \in spAudio')
        BY <2>4, <3>4 DEF SpInv
      <3>6. SpOutboxBounded'
        BY <2>2 DEF SpInv, SpOutboxBounded, SpPending
      <3>7. QED
        BY <2>2, <3>3, <3>5, <3>6 DEF SpInv, SpKey
    <2>5. QED
      BY <2>1, <2>3, <2>4
  <1>4. CASE SpAnswered
    <2> DEFINE i == spSending[1].row
               status == IF spSending[1].at = "accepts" THEN "delivered" ELSE "quarantined"
    <2>1. /\ spOutbox' = [spOutbox EXCEPT ![i].status = status] /\ status \in SpOver
          /\ spHeard' = spHeard /\ spAudio' = spAudio
      BY <1>4 DEF SpAnswered, SpFinish, SpOver
    <2> HIDE DEF i, status
    <2>2. spOutbox' = [k \in 1 .. Len(spHeard) |-> spOutbox'[k]]
      BY <2>1 DEF SpInv
    <2>3. ASSUME NEW k \in 1 .. Len(spHeard)
          PROVE  /\ DOMAIN spOutbox'[k] = SpFields
                 /\ spOutbox'[k].id = spOutbox[k].id
                 /\ spOutbox'[k].status = "pending" => spOutbox[k].status = "pending"
      <3>1. DOMAIN spOutbox[k] = SpFields /\ k \in DOMAIN spOutbox
        BY DEF SpInv
      <3>2. spOutbox'[k] = IF k = i THEN [spOutbox[k] EXCEPT !.status = status] ELSE spOutbox[k]
        BY <2>1, <3>1
      <3>3. QED
        BY <2>1, <3>1, <3>2 DEF SpFields, SpOver
    <2>4. QED
      BY <2>1, <2>2, <2>3, SpRowsInv
  <1>5. CASE SpUnanswered
    <2>1. PICK i, a, w : /\ spOutbox' = [spOutbox EXCEPT ![i].attempts = a, ![i].wait = w]
                         /\ spHeard' = spHeard /\ spAudio' = spAudio
      BY <1>5 DEF SpUnanswered, SpRetry
    <2>2. spOutbox' = [k \in 1 .. Len(spHeard) |-> spOutbox'[k]]
      BY <2>1 DEF SpInv
    <2>3. ASSUME NEW k \in 1 .. Len(spHeard)
          PROVE  /\ DOMAIN spOutbox'[k] = SpFields
                 /\ spOutbox'[k].id = spOutbox[k].id
                 /\ spOutbox'[k].status = spOutbox[k].status
      <3>1. DOMAIN spOutbox[k] = SpFields /\ k \in DOMAIN spOutbox
        BY DEF SpInv
      <3>2. spOutbox'[k] = IF k = i THEN [spOutbox[k] EXCEPT !.attempts = a, !.wait = w]
                           ELSE spOutbox[k]
        BY <2>1, <3>1
      <3>3. QED
        BY <3>1, <3>2 DEF SpFields
    <2>4. QED
      BY <2>1, <2>2, <2>3, SpRowsInv
  <1>6. ASSUME NEW W, spHeard' = spHeard, spAudio' = spAudio,
               spOutbox' = [i \in DOMAIN spOutbox |-> [spOutbox[i] EXCEPT !.wait = W[i]]]
        PROVE  SpInv'
    <2>1. DOMAIN spOutbox = 1 .. Len(spHeard)
      BY DEF SpInv
    <2>2. spOutbox' = [k \in 1 .. Len(spHeard) |-> spOutbox'[k]]
      BY <1>6, <2>1
    <2>3. ASSUME NEW k \in 1 .. Len(spHeard)
          PROVE  /\ DOMAIN spOutbox'[k] = SpFields
                 /\ spOutbox'[k].id = spOutbox[k].id
                 /\ spOutbox'[k].status = spOutbox[k].status
      <3>1. DOMAIN spOutbox[k] = SpFields
        BY DEF SpInv
      <3>2. spOutbox'[k] = [spOutbox[k] EXCEPT !.wait = W[k]]
        BY <1>6, <2>1
      <3>3. QED
        BY <3>1, <3>2 DEF SpFields
    <2>4. QED
      BY <1>6, <2>2, <2>3, SpRowsInv
  <1>7. CASE SpTick
    <2> DEFINE W == [i \in DOMAIN spOutbox |-> IF spOutbox[i].wait = 0 THEN 0 ELSE spOutbox[i].wait - 1]
    <2>1. spOutbox' = [i \in DOMAIN spOutbox |-> [spOutbox[i] EXCEPT !.wait = W[i]]]
      BY <1>7 DEF SpTick
    <2>2. spHeard' = spHeard /\ spAudio' = spAudio
      BY <1>7 DEF SpTick
    <2> HIDE DEF W
    <2>3. QED
      BY <1>6, <2>1, <2>2
  <1>8. CASE SpRestart \/ UNCHANGED spVars
    <2>1. UNCHANGED <<spHeard, spOutbox, spAudio>>
      BY <1>8 DEF SpRestart, spVars
    <2>2. SpOutboxBounded'
      BY <2>1 DEF SpInv, SpOutboxBounded, SpPending
    <2>3. QED
      BY <2>1, <2>2 DEF SpInv, SpKey
  <1>9. CASE SpReboot
    <2> DEFINE W == [i \in DOMAIN spOutbox |->
                        IF spOutbox[i].attempts = 0 THEN 0 ELSE spOutbox[i].wait + spUptime]
    <2>1. spOutbox' = [i \in DOMAIN spOutbox |-> [spOutbox[i] EXCEPT !.wait = W[i]]]
      BY <1>9 DEF SpReboot
    <2>2. spHeard' = spHeard /\ spAudio' = spAudio
      BY <1>9 DEF SpReboot
    <2> HIDE DEF W
    <2>3. QED
      BY <1>6, <2>1, <2>2
  <1>10. QED
    BY <1>1, <1>2, <1>3, <1>4, <1>5, <1>7, <1>8, <1>9 DEF SpNext

(* SpSound: Audio takes an expression as new at most once, and the outbox  *)
(* keeps its bound and no expression twice (enqueue and deliver_next of    *)
(* speech_expression_egress.py), for any windows, delays and reboots.      *)
THEOREM SpokenOnce == SpSpec => []SpSound
  <1>1. SpInv => SpSound
    BY DEF SpInv, SpSound, SpHeardOnce
  <1>2. QED
    BY <1>1, SpInitInv, SpStepInv, PTL DEF SpSpec

(* A power of two is a natural number: as many as a set has subsets.       *)
LEMMA PowerOfTwo == ASSUME NEW n \in Nat PROVE 2 ^ n \in Nat
  <1> DEFINE S == 1 .. n
  <1>1. IsFiniteSet(S) /\ Cardinality(S) = n
    <2>1. 1 \in Int /\ n \in Int
      OBVIOUS
    <2>2. IsFiniteSet(S) /\ Cardinality(S) = IF 1 > n THEN 0 ELSE n - 1 + 1
      BY <2>1, FS_Interval
    <2>3. QED
      BY <2>2
  <1> HIDE DEF S
  <1>2. IsFiniteSet(SUBSET S) /\ Cardinality(SUBSET S) = 2 ^ Cardinality(S)
    BY <1>1, FS_SUBSET
  <1>3. Cardinality(SUBSET S) \in Nat
    BY <1>2, FS_CardinalityType
  <1>4. QED
    BY <1>1, <1>2, <1>3

(* A row of the outbox, with an attempt count at which the delay may have  *)
(* stopped growing.                                                        *)
SpRowOK(row) ==
    /\ row.status \in SpOver \cup {"pending"}
    /\ row.attempts \in 0 .. SpExponent /\ row.wait \in Nat

SpSaid == [print : SpPrints \cup {"none"}, age : Int]

SpBounds == SpTypeOK /\ spLast \in [SpModules -> SpSaid]

(* The rows, the bridge's memory and the delivery in hand keep their types.*)
LEMMA SpBoundsStep == SpInv /\ SpBounds /\ [SpNext]_spVars => SpBounds'
  <1> SUFFICES ASSUME SpInv, SpBounds, [SpNext]_spVars PROVE SpBounds'
    OBVIOUS
  <1>1. /\ spUptime \in 0 .. SpUptime /\ spLast \in [SpModules -> SpSaid]
        /\ Len(spSending) <= 1
        /\ DOMAIN spOutbox = 1 .. Len(spHeard) /\ Len(spHeard) \in Nat
        /\ \A i \in 1 .. Len(spHeard) : SpRowOK(spOutbox[i]) /\ DOMAIN spOutbox[i] = SpFields
    BY DEF SpBounds, SpTypeOK, SpRowOK, SpInv
  <1>2. SUFFICES /\ spUptime' \in 0 .. SpUptime /\ spLast' \in [SpModules -> SpSaid]
                 /\ Len(spSending') <= 1
                 /\ \A i \in DOMAIN spOutbox' : SpRowOK(spOutbox'[i])
    BY DEF SpBounds, SpTypeOK, SpRowOK, SpSaid
  <1>3. SpSilent \in SpSaid
    BY DEF SpSilent, SpSaid
  <1>4. ASSUME NEW e, SpEnqueue(e) PROVE \A i \in DOMAIN spOutbox' : SpRowOK(spOutbox'[i])
    <2>1. CASE spOutbox' = spOutbox
      BY <1>1, <2>1
    <2>2. CASE spOutbox' = Append(spOutbox, SpNewRow(e))
      <3> DEFINE T == {spOutbox[i] : i \in 1 .. Len(spHeard)} \cup {SpNewRow(e)}
      <3>1. \A x \in T : SpRowOK(x)
        <4>1. SpRowOK(SpNewRow(e))
          BY SpAssumption DEF SpRowOK, SpNewRow
        <4>2. QED
          BY <1>1, <4>1
      <3>2. spOutbox \in Seq(T) /\ SpNewRow(e) \in T
        BY <1>1 DEF SpInv
      <3> HIDE DEF T
      <3>3. Append(spOutbox, SpNewRow(e)) \in Seq(T)
        BY <3>2
      <3>4. \A i \in DOMAIN Append(spOutbox, SpNewRow(e)) : Append(spOutbox, SpNewRow(e))[i] \in T
        BY <3>3
      <3>5. QED
        BY <2>2, <3>1, <3>4
    <2>3. QED
      BY <1>4, <2>1, <2>2 DEF SpEnqueue
  <1>5. CASE \E e \in SpForeign : SpForeignEvent(e)
    BY <1>1, <1>4, <1>5 DEF SpForeignEvent
  <1>6. ASSUME NEW m \in SpModules, NEW print \in SpPrints, SpHealthEvent(m, print)
        PROVE  /\ spLast' \in [SpModules -> SpSaid]
               /\ \A i \in DOMAIN spOutbox' : SpRowOK(spOutbox'[i])
    <2>1. [print |-> print, age |-> 0] \in SpSaid
      BY DEF SpSaid
    <2>2. SpEnqueue(SpDraft) /\ spLast' = [spLast EXCEPT ![m] = [print |-> print, age |-> 0]]
      BY <1>6 DEF SpHealthEvent
    <2>3. QED
      BY <1>1, <1>4, <2>1, <2>2
  <1>7. CASE \E m \in SpModules, print \in SpPrints : SpHealthEvent(m, print)
    BY <1>1, <1>6, <1>7 DEF SpHealthEvent
  <1>8. CASE \E reached \in {"accepts", "rejects", "lost"} : SpSend(reached)
    <2>1. (\E x : spSending' = <<x>>) /\ UNCHANGED <<spUptime, spLast, spOutbox>>
      BY <1>8 DEF SpSend
    <2>2. Len(spSending') = 1
      BY <2>1
    <2>3. QED
      BY <1>1, <2>1, <2>2
  <1>9. CASE SpAnswered
    <2>1. PICK i, status : /\ spOutbox' = [spOutbox EXCEPT ![i].status = status]
                           /\ status \in SpOver
      BY <1>9 DEF SpAnswered, SpFinish, SpOver
    <2>2. ASSUME NEW k \in DOMAIN spOutbox' PROVE SpRowOK(spOutbox'[k])
      <3>1. k \in 1 .. Len(spHeard)
        BY <1>1, <2>1
      <3>2. spOutbox'[k] = IF k = i THEN [spOutbox[k] EXCEPT !.status = status] ELSE spOutbox[k]
        BY <1>1, <2>1, <3>1
      <3>3. QED
        BY <1>1, <2>1, <3>1, <3>2 DEF SpRowOK, SpFields
    <2>3. spSending' = <<>> /\ UNCHANGED <<spUptime, spLast>>
      BY <1>9 DEF SpAnswered
    <2>4. Len(spSending') = 0
      BY <2>3
    <2>5. QED
      BY <1>1, <2>2, <2>3, <2>4
  <1>10. CASE SpUnanswered
    <2>1. PICK i : SpRetry(i)
      BY <1>10 DEF SpUnanswered
    <2>2. PICK a, w : /\ a = (IF spOutbox[i].attempts < SpExponent THEN spOutbox[i].attempts + 1
                              ELSE SpExponent)
                      /\ w = SpDelay(a)
                      /\ spOutbox' = [spOutbox EXCEPT ![i].attempts = a, ![i].wait = w]
      BY <2>1 DEF SpRetry
    <2>3. ASSUME NEW k \in DOMAIN spOutbox' PROVE SpRowOK(spOutbox'[k])
      <3>1. k \in 1 .. Len(spHeard)
        BY <1>1, <2>2
      <3>2. spOutbox'[k] = IF k = i THEN [spOutbox[k] EXCEPT !.attempts = a, !.wait = w]
                           ELSE spOutbox[k]
        BY <1>1, <2>2, <3>1
      <3>3. CASE k = i
        <4>1. a \in 0 .. SpExponent
          BY <1>1, <2>2, <3>1, <3>3, SpAssumption DEF SpRowOK
        <4>2. w \in Nat
          <5>1. 2 ^ a \in Nat
            BY <4>1, PowerOfTwo
          <5>2. QED
            BY <2>2, <5>1, SpAssumption DEF SpDelay
        <4>3. /\ spOutbox'[k].attempts = a /\ spOutbox'[k].wait = w
              /\ spOutbox'[k].status = spOutbox[k].status
          BY <1>1, <3>1, <3>2, <3>3 DEF SpFields
        <4>4. QED
          BY <1>1, <3>1, <4>1, <4>2, <4>3 DEF SpRowOK
      <3>4. QED
        BY <1>1, <3>1, <3>2, <3>3
    <2>4. spSending' = <<>> /\ UNCHANGED <<spUptime, spLast>>
      BY <1>10 DEF SpUnanswered
    <2>5. Len(spSending') = 0
      BY <2>4
    <2>6. QED
      BY <1>1, <2>3, <2>4, <2>5
  <1>11. CASE SpTick
    <2>1. ASSUME NEW k \in DOMAIN spOutbox' PROVE SpRowOK(spOutbox'[k])
      <3>1. k \in 1 .. Len(spHeard)
        BY <1>1, <1>11 DEF SpTick
      <3>2. spOutbox'[k] = [spOutbox[k] EXCEPT !.wait = IF @ = 0 THEN 0 ELSE @ - 1]
        BY <1>1, <1>11, <3>1 DEF SpTick
      <3>3. QED
        BY <1>1, <3>1, <3>2 DEF SpRowOK, SpFields
    <2>2. spLast' \in [SpModules -> SpSaid]
      <3>1. ASSUME NEW m \in SpModules
            PROVE  [spLast[m] EXCEPT !.age = IF @ < SpWindow THEN @ + 1 ELSE @] \in SpSaid
        BY <1>1 DEF SpSaid
      <3>2. QED
        BY <1>11, <3>1 DEF SpTick
    <2>3. spUptime' \in 0 .. SpUptime
      BY <1>1, <1>11, SpAssumption DEF SpTick
    <2>4. QED
      BY <1>1, <1>11, <2>1, <2>2, <2>3 DEF SpTick
  <1>12. ASSUME spLast' = [m \in SpModules |-> SpSilent], spSending' = <<>>
         PROVE  spLast' \in [SpModules -> SpSaid] /\ Len(spSending') <= 1
    <2>1. Len(spSending') = 0
      BY <1>12
    <2>2. QED
      BY <1>3, <1>12, <2>1
  <1>13. CASE SpRestart
    BY <1>1, <1>12, <1>13 DEF SpRestart
  <1>14. CASE SpReboot
    <2>1. ASSUME NEW k \in DOMAIN spOutbox' PROVE SpRowOK(spOutbox'[k])
      <3>1. k \in 1 .. Len(spHeard)
        BY <1>1, <1>14 DEF SpReboot
      <3>2. spOutbox'[k] = [spOutbox[k] EXCEPT !.wait = IF spOutbox[k].attempts = 0 THEN 0
                                                        ELSE @ + spUptime]
        BY <1>1, <1>14, <3>1 DEF SpReboot
      <3>3. QED
        BY <1>1, <3>1, <3>2 DEF SpRowOK, SpFields
    <2>2. spUptime' \in 0 .. SpUptime
      BY <1>14, SpAssumption DEF SpReboot
    <2>3. QED
      BY <1>12, <1>14, <2>1, <2>2 DEF SpReboot
  <1>15. CASE UNCHANGED spVars
    BY <1>1, <1>15 DEF spVars
  <1>16. QED
    BY <1>5, <1>7, <1>8, <1>9, <1>10, <1>11, <1>13, <1>14, <1>15 DEF SpNext

(* They hold initially.                                                    *)
LEMMA SpBoundsInit == SpInit => SpBounds
  <1> SUFFICES ASSUME SpInit PROVE SpBounds
    OBVIOUS
  <1>1. spSending = <<>> /\ Len(spSending) = 0 /\ DOMAIN spOutbox = {}
    BY DEF SpInit
  <1>2. spLast \in [SpModules -> SpSaid]
    BY DEF SpInit, SpSilent, SpSaid
  <1>3. spUptime \in 0 .. SpUptime
    BY SpAssumption DEF SpInit
  <1>4. QED
    BY <1>1, <1>2, <1>3 DEF SpBounds, SpTypeOK, SpSaid

-----------------------------------------------------------------------------
(* The RPC server and its clients.                                         *)

RcSpec == RcInit /\ [][RcNext]_rcVars

RcRun == [by : RcCalls, nth : Nat]
RcEntry == [call : RcCalls, run : RcRun]
RcClient == [at : {"idle", "sent", "answered", "failed"}, left : Int]

RcTyped ==
    /\ rcCall \in [RcCalls -> RcClient]
    /\ rcAnswer \in [RcCalls -> Seq(RcRun)]
    /\ rcQueue \in Seq([call : RcCalls, left : Int])
    /\ rcHand \in Seq([call : RcCalls, left : Int, resp : RcRun])
    /\ rcCache \in Seq(RcEntry)
    /\ rcRuns \in [RcCalls -> Nat] /\ rcLost \in [RcCalls -> Nat]

(* A response that answers call c.                                         *)
RcAnswers(c, resp) ==
    /\ resp.by = c /\ resp.nth \in 0 .. rcRuns[c]
    /\ resp.nth = 0 => \E d \in RcCalls \ {c} : RcId[d] = RcId[c] /\ rcRuns[d] > 0

RcHeld(c) == \E i \in DOMAIN rcCache : rcCache[i].call = c

(* The cache holds a request id once, with a dispatch of its own call; a   *)
(* call has run no more often than its response was lost, and once more if *)
(* the cache still has it.                                                 *)
RcCacheInv ==
    /\ \A i, j \in DOMAIN rcCache : RcId[rcCache[i].call] = RcId[rcCache[j].call] => i = j
    /\ \A i \in DOMAIN rcCache : /\ rcCache[i].run.by = rcCache[i].call
                                 /\ rcCache[i].run.nth \in 1 .. rcRuns[rcCache[i].call]
    /\ \A c \in RcCalls : rcRuns[c] <= rcLost[c] + (IF RcHeld(c) THEN 1 ELSE 0)

(* What is being sent, and what was returned, answers its call.            *)
RcReplyInv ==
    /\ rcHand # <<>> => RcAnswers(rcHand[1].call, rcHand[1].resp)
    /\ \A c \in RcCalls : rcAnswer[c] # <<>> => RcAnswers(c, rcAnswer[c][1])

RcInv == RcTyped /\ RcCacheInv /\ RcReplyInv

(* The invariant of the transport holds initially.                         *)
LEMMA RcInitInv == RcInit => RcInv
  BY RcAssumption DEF RcInit, RcInv, RcTyped, RcCacheInv, RcReplyInv, RcHeld, RcNothing, RcClient

(* More dispatches never make an answer wrong.                             *)
LEMMA RcAnswersKept ==
    ASSUME rcRuns \in [RcCalls -> Nat], rcRuns' \in [RcCalls -> Nat],
           \A d \in RcCalls : rcRuns[d] <= rcRuns'[d],
           NEW c \in RcCalls, NEW resp \in RcRun, RcAnswers(c, resp)
    PROVE  RcAnswers(c, resp)'
  BY DEF RcAnswers, RcRun

(* move_to_end keeps every entry of the cache, each once.                  *)
LEMMA RcTouchKeeps ==
    ASSUME rcCache \in Seq(RcEntry), NEW i \in DOMAIN rcCache
    PROVE  /\ RcTouch(i) \in Seq(RcEntry) /\ Len(RcTouch(i)) = Len(rcCache)
           /\ \A k \in 1 .. Len(rcCache) :
                 RcTouch(i)[k] = IF k < i THEN rcCache[k]
                                 ELSE IF k < Len(rcCache) THEN rcCache[k + 1] ELSE rcCache[i]
  <1> DEFINE n == Len(rcCache)
             a == SubSeq(rcCache, 1, i - 1)
             b == SubSeq(rcCache, i + 1, n)
  <1>1. n \in Nat /\ i \in 1 .. n /\ rcCache[i] \in RcEntry
    OBVIOUS
  <1>2. /\ a \in Seq(RcEntry) /\ Len(a) = i - 1
        /\ \A k \in 1 .. i - 1 : a[k] = rcCache[k]
    BY <1>1
  <1>3. /\ b \in Seq(RcEntry) /\ Len(b) = n - i
        /\ \A k \in 1 .. n - i : b[k] = rcCache[k + i]
    BY <1>1
  <1> HIDE DEF a, b
  <1>4. /\ a \o b \in Seq(RcEntry) /\ Len(a \o b) = n - 1
        /\ \A k \in 1 .. n - 1 : (a \o b)[k] = IF k < i THEN a[k] ELSE b[k - (i - 1)]
    <2>1. /\ a \o b \in Seq(RcEntry) /\ Len(a \o b) = Len(a) + Len(b)
          /\ \A k \in 1 .. Len(a) + Len(b) :
                (a \o b)[k] = IF k <= Len(a) THEN a[k] ELSE b[k - Len(a)]
      BY <1>2, <1>3, ConcatProperties
    <2>2. Len(a) + Len(b) = n - 1
      BY <1>1, <1>2, <1>3
    <2>3. ASSUME NEW k \in 1 .. n - 1
          PROVE  (a \o b)[k] = IF k < i THEN a[k] ELSE b[k - (i - 1)]
      <3>1. (a \o b)[k] = IF k <= Len(a) THEN a[k] ELSE b[k - Len(a)]
        BY <2>1, <2>2
      <3>2. k <= Len(a) <=> k < i
        BY <1>1, <1>2
      <3> QED BY <1>2, <3>1, <3>2
    <2> QED BY <2>1, <2>2, <2>3
  <1>5. \A k \in 1 .. n - 1 : (a \o b)[k] = IF k < i THEN rcCache[k] ELSE rcCache[k + 1]
    <2> SUFFICES ASSUME NEW k \in 1 .. n - 1
                 PROVE  (a \o b)[k] = IF k < i THEN rcCache[k] ELSE rcCache[k + 1]
      OBVIOUS
    <2>1. CASE k < i
      BY <1>1, <1>2, <1>4, <2>1
    <2>2. CASE ~(k < i)
      <3>1. k - (i - 1) \in 1 .. n - i /\ (k - (i - 1)) + i = k + 1
        BY <1>1, <2>2
      <3>2. b[k - (i - 1)] = rcCache[k + 1]
        BY <1>3, <3>1
      <3>3. QED
        BY <1>4, <2>2, <3>2
    <2>3. QED
      BY <2>1, <2>2
  <1>6. RcTouch(i) = Append(a \o b, rcCache[i])
    BY DEF RcTouch, RemoveAt, a, b
  <1>7. /\ RcTouch(i) \in Seq(RcEntry) /\ Len(RcTouch(i)) = n /\ RcTouch(i)[n] = rcCache[i]
        /\ \A k \in 1 .. n - 1 : RcTouch(i)[k] = (a \o b)[k]
    <2>1. PICK ab \in Seq(RcEntry) : ab = a \o b /\ Len(ab) = n - 1
      BY <1>4
    <2>2. RcTouch(i) = Append(ab, rcCache[i])
      BY <1>6, <2>1
    <2>3. /\ RcTouch(i) \in Seq(RcEntry) /\ Len(RcTouch(i)) = (n - 1) + 1
          /\ RcTouch(i)[(n - 1) + 1] = rcCache[i]
          /\ \A k \in 1 .. n - 1 : RcTouch(i)[k] = ab[k]
      BY <1>1, <2>1, <2>2, AppendProperties
    <2>4. (n - 1) + 1 = n
      BY <1>1
    <2>5. QED
      BY <2>1, <2>3, <2>4
  <1>8. ASSUME NEW k \in 1 .. n
        PROVE  RcTouch(i)[k] = IF k < i THEN rcCache[k]
                               ELSE IF k < n THEN rcCache[k + 1] ELSE rcCache[i]
    <2>1. CASE k = n
      <3>1. ~(k < i) /\ ~(k < n)
        BY <1>1, <2>1
      <3>2. QED
        BY <1>7, <2>1, <3>1
    <2>2. CASE k # n
      <3>1. k \in 1 .. n - 1 /\ k < n
        BY <1>1, <2>2
      <3>2. QED
        BY <1>5, <1>7, <3>1
    <2>3. QED
      BY <2>1, <2>2
  <1>9. QED
    BY <1>7, <1>8

(* A cached response is given again: the cache keeps all it held.          *)
LEMMA RcTouchInv ==
    ASSUME RcTyped, RcCacheInv, NEW i \in DOMAIN rcCache, rcCache' = RcTouch(i),
           UNCHANGED <<rcRuns, rcLost>>
    PROVE  RcCacheInv' /\ rcCache' \in Seq(RcEntry)
  <1> DEFINE n == Len(rcCache)
             old(k) == IF k < i THEN k ELSE IF k < n THEN k + 1 ELSE i
  <1>1. /\ n \in Nat /\ i \in 1 .. n /\ DOMAIN rcCache = 1 .. n
        /\ rcCache' \in Seq(RcEntry) /\ DOMAIN rcCache' = 1 .. n
    BY RcTouchKeeps DEF RcTyped
  <1>2. \A k \in 1 .. n : old(k) \in 1 .. n /\ rcCache'[k] = rcCache[old(k)]
    BY <1>1, RcTouchKeeps DEF RcTyped
  <1> HIDE DEF n
  <1>3. ASSUME NEW k \in 1 .. n, NEW l \in 1 .. n, old(k) = old(l) PROVE k = l
    <2>1. n \in Int /\ i \in Int /\ k \in Int /\ l \in Int /\ k <= n /\ l <= n
      BY <1>1
    <2>2. CASE k < i
      BY <1>3, <2>1, <2>2
    <2>3. CASE ~(k < i) /\ k < n
      <3>1. old(k) = k + 1 /\ k + 1 > i
        BY <2>1, <2>3
      <3>2. ~(l < i) /\ l < n => old(l) = l + 1
        OBVIOUS
      <3>3. l < i => old(l) = l
        OBVIOUS
      <3>4. ~(l < i) /\ ~(l < n) => old(l) = i
        OBVIOUS
      <3> HIDE DEF old
      <3>5. QED
        BY <1>3, <2>1, <3>1, <3>2, <3>3, <3>4
    <2>4. CASE ~(k < i) /\ ~(k < n)
      BY <1>3, <2>1, <2>4
    <2>5. QED
      BY <2>2, <2>3, <2>4
  <1>4. \A l \in 1 .. n : \E k \in 1 .. n : old(k) = l
    <2> SUFFICES ASSUME NEW l \in 1 .. n PROVE \E k \in 1 .. n : old(k) = l
      OBVIOUS
    <2>1. CASE l < i
      BY <1>1, <2>1
    <2>2. CASE l = i
      <3>1. n \in 1 .. n /\ old(n) = l
        BY <1>1, <2>2
      <3>2. QED
        BY <3>1
    <2>3. CASE l > i
      <3>1. l - 1 \in 1 .. n /\ old(l - 1) = l
        BY <1>1, <2>3
      <3>2. QED
        BY <3>1
    <2>4. QED
      BY <1>1, <2>1, <2>2, <2>3
  <1> HIDE DEF old
  <1>5. ASSUME NEW c \in RcCalls PROVE RcHeld(c)' <=> RcHeld(c)
    <2>1. ASSUME NEW k \in 1 .. n, rcCache'[k].call = c PROVE RcHeld(c)
      <3>1. old(k) \in 1 .. n /\ rcCache[old(k)].call = c
        BY <1>2, <2>1
      <3>2. QED
        BY <1>1, <3>1 DEF RcHeld
    <2>2. ASSUME NEW l \in 1 .. n, rcCache[l].call = c
          PROVE  \E k \in 1 .. n : rcCache'[k].call = c
      <3>1. PICK k \in 1 .. n : old(k) = l
        BY <1>4
      <3>2. QED
        BY <1>2, <2>2, <3>1
    <2>3. QED
      BY <1>1, <2>1, <2>2 DEF RcHeld
  <1>6. \A k, l \in DOMAIN rcCache' : RcId[rcCache'[k].call] = RcId[rcCache'[l].call] => k = l
    <2> SUFFICES ASSUME NEW k \in 1 .. n, NEW l \in 1 .. n,
                        RcId[rcCache'[k].call] = RcId[rcCache'[l].call]
                 PROVE  k = l
      BY <1>1
    <2>1. /\ old(k) \in DOMAIN rcCache /\ rcCache'[k] = rcCache[old(k)]
          /\ old(l) \in DOMAIN rcCache /\ rcCache'[l] = rcCache[old(l)]
      BY <1>1, <1>2
    <2>2. old(k) = old(l)
      BY <2>1 DEF RcCacheInv
    <2>3. QED
      BY <1>3, <2>2
  <1>7. \A k \in DOMAIN rcCache' : /\ rcCache'[k].run.by = rcCache'[k].call
                                   /\ rcCache'[k].run.nth \in 1 .. rcRuns'[rcCache'[k].call]
    <2> SUFFICES ASSUME NEW k \in DOMAIN rcCache'
                 PROVE  /\ rcCache'[k].run.by = rcCache'[k].call
                        /\ rcCache'[k].run.nth \in 1 .. rcRuns'[rcCache'[k].call]
      OBVIOUS
    <2>1. old(k) \in DOMAIN rcCache /\ rcCache'[k] = rcCache[old(k)]
      BY <1>1, <1>2
    <2>2. QED
      BY <2>1 DEF RcCacheInv
  <1>8. \A c \in RcCalls : rcRuns'[c] <= rcLost'[c] + (IF RcHeld(c)' THEN 1 ELSE 0)
    BY <1>5 DEF RcCacheInv
  <1>9. QED
    BY <1>1, <1>6, <1>7, <1>8 DEF RcCacheInv

(* A cache that is emptied counts every response it held as lost.          *)
LEMMA RcForgetInv ==
    ASSUME RcTyped, RcCacheInv, rcCache' = <<>>, rcLost' = RcForgotten, rcRuns' = rcRuns
    PROVE  RcCacheInv' /\ rcLost' \in [RcCalls -> Nat]
  <1>1. \A c \in RcCalls : rcLost'[c] = rcLost[c] + (IF RcHeld(c) THEN 1 ELSE 0)
    BY DEF RcForgotten, RcHeld, RcTyped
  <1>2. rcLost' \in [RcCalls -> Nat]
    BY DEF RcForgotten, RcTyped
  <1>3. \A c \in RcCalls : rcRuns'[c] <= rcLost'[c] + (IF RcHeld(c)' THEN 1 ELSE 0)
    <2> SUFFICES ASSUME NEW c \in RcCalls
                 PROVE  rcRuns[c] <= rcLost'[c] + (IF RcHeld(c)' THEN 1 ELSE 0)
      OBVIOUS
    <2>1. rcRuns[c] <= rcLost'[c] /\ rcRuns[c] \in Nat /\ rcLost'[c] \in Nat
      BY <1>1, <1>2 DEF RcCacheInv, RcTyped
    <2>2. QED
      BY <2>1
  <1>4. QED
    BY <1>2, <1>3 DEF RcCacheInv

(* A dispatch of call c, whose id the cache does not hold: its response is *)
(* in the cache afterwards, and whatever the bound pushed out is counted.  *)
LEMMA RcStoreInv ==
    ASSUME RcTyped, RcCacheInv, NEW c \in RcCalls, RcEntries(c) = {},
           NEW run \in RcRun, run = [by |-> c, nth |-> rcRuns[c] + 1],
           rcCache' = RcStore([call |-> c, run |-> run]),
           rcRuns' = [rcRuns EXCEPT ![c] = @ + 1],
           rcLost' = [d \in RcCalls |->
                        IF RcHeld(d) /\ (\A i \in DOMAIN rcCache' : rcCache'[i].call # d)
                        THEN rcLost[d] + 1 ELSE rcLost[d]]
    PROVE  /\ RcCacheInv' /\ rcCache' \in Seq(RcEntry)
           /\ rcLost' \in [RcCalls -> Nat] /\ rcRuns' \in [RcCalls -> Nat]
           /\ \A d \in RcCalls : rcRuns[d] <= rcRuns'[d]
           /\ rcRuns'[c] = rcRuns[c] + 1
  <1> DEFINE e == [call |-> c, run |-> run]
             n == Len(rcCache)
             all == Append(rcCache, e)
  <1>1. /\ e \in RcEntry /\ e.call = c /\ e.run = run
        /\ n \in Nat /\ DOMAIN rcCache = 1 .. n
        /\ all \in Seq(RcEntry) /\ Len(all) = n + 1 /\ all[n + 1] = e
        /\ \A k \in 1 .. n : all[k] = rcCache[k]
    BY DEF RcTyped, RcEntry
  <1>2. /\ rcRuns' \in [RcCalls -> Nat] /\ rcRuns'[c] = rcRuns[c] + 1
        /\ \A d \in RcCalls \ {c} : rcRuns'[d] = rcRuns[d]
        /\ \A d \in RcCalls : rcRuns[d] \in Nat /\ rcRuns[d] <= rcRuns'[d]
    BY DEF RcTyped
  <1>3. \A k \in 1 .. n : RcId[rcCache[k].call] # RcId[c] /\ rcCache[k].call # c
    BY <1>1 DEF RcEntries
  <1> HIDE DEF e, all
  <1>4. PICK s \in {0, 1} : /\ rcCache' \in Seq(RcEntry) /\ DOMAIN rcCache' = 1 .. n + 1 - s
                            /\ n + 1 - s >= 1
                            /\ \A k \in 1 .. n + 1 - s : rcCache'[k] = all[k + s]
    <2>1. rcCache' = IF n + 1 > RcCacheSize THEN Tail(all) ELSE all
      BY <1>1 DEF RcStore, e, all
    <2>2. CASE n + 1 > RcCacheSize
      <3>1. n >= 1
        BY <1>1, <2>2, RcAssumption
      <3>2. /\ rcCache' \in Seq(RcEntry) /\ DOMAIN rcCache' = 1 .. n
            /\ \A k \in 1 .. n : rcCache'[k] = all[k + 1]
        <4>1. rcCache' = Tail(all) /\ all \in Seq(RcEntry) /\ Len(all) = n + 1
          BY <1>1, <2>1, <2>2
        <4>2. /\ Tail(all) \in Seq(RcEntry) /\ DOMAIN Tail(all) = 1 .. n
              /\ \A k \in 1 .. n : Tail(all)[k] = all[k + 1]
          <5> HIDE DEF n
          <5>1. QED
            BY <3>1, <4>1, <1>1
        <4>3. QED
          BY <4>1, <4>2
      <3>3. n + 1 - 1 = n
        BY <1>1
      <3>4. QED
        BY <3>1, <3>2, <3>3
    <2>3. CASE ~(n + 1 > RcCacheSize)
      <3>1. /\ rcCache' \in Seq(RcEntry) /\ DOMAIN rcCache' = 1 .. n + 1
            /\ \A k \in 1 .. n + 1 : rcCache'[k] = all[k] /\ k + 0 = k
        <4>1. rcCache' = all /\ all \in Seq(RcEntry) /\ DOMAIN all = 1 .. n + 1
          BY <1>1, <2>1, <2>3
        <4>2. n + 1 \in Nat /\ \A k \in 1 .. n + 1 : k + 0 = k
          BY <1>1
        <4>3. QED
          BY <4>1, <4>2
      <3>2. n + 1 - 0 = n + 1 /\ n + 1 >= 1
        BY <1>1
      <3>3. QED
        BY <3>1, <3>2
    <2>4. QED
      BY <2>2, <2>3
  <1> DEFINE m == n + 1 - s
  <1>5. /\ m \in Nat /\ m >= 1 /\ s \in Nat /\ m + s = n + 1
        /\ rcCache'[m] = e
        /\ \A k \in 1 .. m : k # m => k + s \in 1 .. n /\ rcCache'[k] = rcCache[k + s]
    BY <1>1, <1>4
  <1>6. DOMAIN rcCache' = 1 .. m
    BY <1>4
  <1> HIDE DEF m, n
  <1>7. \A k, l \in DOMAIN rcCache' : RcId[rcCache'[k].call] = RcId[rcCache'[l].call] => k = l
    <2> SUFFICES ASSUME NEW k \in 1 .. m, NEW l \in 1 .. m,
                        RcId[rcCache'[k].call] = RcId[rcCache'[l].call]
                 PROVE  k = l
      BY <1>6
    <2>1. CASE k = m \/ l = m
      BY <1>1, <1>3, <1>5, <2>1
    <2>2. CASE k # m /\ l # m
      <3>1. k + s = l + s
        <4>1. /\ k + s \in DOMAIN rcCache /\ rcCache'[k] = rcCache[k + s]
              /\ l + s \in DOMAIN rcCache /\ rcCache'[l] = rcCache[l + s]
          BY <1>1, <1>5, <2>2
        <4>2. QED
          BY <4>1 DEF RcCacheInv
      <3>2. QED
        BY <1>5, <3>1
    <2>3. QED
      BY <2>1, <2>2
  <1>8. ASSUME NEW k \in DOMAIN rcCache'
        PROVE  /\ rcCache'[k].run.by = rcCache'[k].call
               /\ rcCache'[k].run.nth \in 1 .. rcRuns'[rcCache'[k].call]
    <2>1. CASE k = m
      <3>1. rcCache'[k].call = c /\ rcCache'[k].run = run /\ run.by = c /\ run.nth = rcRuns[c] + 1
        BY <1>1, <1>5, <2>1
      <3>2. rcRuns[c] + 1 \in 1 .. rcRuns'[c]
        BY <1>2
      <3>3. QED
        BY <3>1, <3>2
    <2>2. CASE k # m
      <3>1. PICK d \in RcCalls, x \in RcRun : /\ rcCache'[k].call = d /\ rcCache'[k].run = x
                                              /\ x.by = d /\ x.nth \in 1 .. rcRuns[d]
        <4>1. k + s \in DOMAIN rcCache /\ rcCache'[k] = rcCache[k + s]
          BY <1>1, <1>5, <1>6, <2>2
        <4>2. rcCache[k + s] \in RcEntry
          BY <4>1 DEF RcTyped
        <4>3. /\ rcCache[k + s].run.by = rcCache[k + s].call
              /\ rcCache[k + s].run.nth \in 1 .. rcRuns[rcCache[k + s].call]
          BY <4>1 DEF RcCacheInv
        <4>4. QED
          BY <4>1, <4>2, <4>3 DEF RcEntry
      <3>2. x.nth \in 1 .. rcRuns'[d]
        BY <1>2, <3>1
      <3>3. QED
        BY <3>1, <3>2
    <2>3. QED
      BY <2>1, <2>2
  <1>9. rcLost' \in [RcCalls -> Nat]
    BY DEF RcTyped
  <1>10. ASSUME NEW d \in RcCalls
         PROVE  rcRuns'[d] <= rcLost'[d] + (IF RcHeld(d)' THEN 1 ELSE 0)
    <2>1. rcRuns[d] <= rcLost[d] + (IF RcHeld(d) THEN 1 ELSE 0)
      BY DEF RcCacheInv
    <2>2. rcRuns[d] \in Nat /\ rcLost[d] \in Nat /\ rcLost'[d] \in Nat
      BY <1>2, <1>9 DEF RcTyped
    <2>3. rcLost'[d] = IF RcHeld(d) /\ ~RcHeld(d)' THEN rcLost[d] + 1 ELSE rcLost[d]
      BY DEF RcHeld
    <2>4. CASE d = c
      <3>1. RcHeld(c)' /\ ~RcHeld(c)
        <4>1. m \in DOMAIN rcCache' /\ rcCache'[m].call = c
          BY <1>1, <1>5, <1>6
        <4>2. \A k \in DOMAIN rcCache : rcCache[k].call # c
          BY <1>1, <1>3
        <4>3. QED
          BY <4>1, <4>2 DEF RcHeld
      <3>2. QED
        BY <1>2, <2>1, <2>2, <2>3, <2>4, <3>1
    <2>5. CASE d # c
      BY <1>2, <2>1, <2>2, <2>3, <2>5
    <2>6. QED
      BY <2>4, <2>5
  <1>11. QED
    BY <1>2, <1>4, <1>7, <1>8, <1>9, <1>10 DEF RcCacheInv

(* What was returned stays right when more calls are dispatched.           *)
LEMMA RcReplyKept ==
    ASSUME RcInv, rcRuns' \in [RcCalls -> Nat], \A d \in RcCalls : rcRuns[d] <= rcRuns'[d],
           rcHand' # <<>> => RcAnswers(rcHand[1].call, rcHand[1].resp)', rcAnswer' = rcAnswer
    PROVE  RcReplyInv'
  <1>1. ASSUME NEW c \in RcCalls, rcAnswer[c] # <<>> PROVE RcAnswers(c, rcAnswer[c][1])'
    <2>1. PICK resp \in RcRun : resp = rcAnswer[c][1]
      BY <1>1 DEF RcInv, RcTyped
    <2>2. RcAnswers(c, resp)
      BY <1>1, <2>1 DEF RcInv, RcReplyInv
    <2>3. RcAnswers(c, resp)'
      BY <2>2, RcAnswersKept DEF RcInv, RcTyped
    <2>4. QED
      BY <2>1, <2>3 DEF RcAnswers
  <1>2. QED
    BY <1>1 DEF RcReplyInv

(* The invariant is preserved when a request is served.                    *)
LEMMA RcHandleInv == ASSUME RcInv, RcHandle PROVE RcInv'
  <1>1. PICK c \in RcCalls, left \in Int : Head(rcQueue) = [call |-> c, left |-> left]
    <2> DEFINE R == [call : RcCalls, left : Int]
    <2>1. rcQueue # <<>> /\ rcQueue \in Seq(R)
      BY DEF RcHandle, RcInv, RcTyped
    <2> HIDE DEF R
    <2>2. Head(rcQueue) \in R
      BY <2>1
    <2> USE DEF R
    <2>3. PICK r \in R : r = Head(rcQueue)
      BY <2>2
    <2>4. r = [call |-> r.call, left |-> r.left] /\ r.call \in RcCalls /\ r.left \in Int
      OBVIOUS
    <2>5. QED
      BY <2>3, <2>4
  <1>2. rcQueue' \in Seq([call : RcCalls, left : Int])
    BY DEF RcHandle, RcInv, RcTyped
  <1>3. UNCHANGED <<rcCall, rcAnswer>>
    BY DEF RcHandle
  <1> DEFINE sent(resp) == rcHand' = <<[call |-> c, left |-> left, resp |-> resp]>>
  <1>4. ASSUME NEW resp \in RcRun, sent(resp), RcAnswers(c, resp)'
        PROVE  /\ rcHand' \in Seq([call : RcCalls, left : Int, resp : RcRun])
               /\ RcAnswers(rcHand[1].call, rcHand[1].resp)'
    <2>1. rcHand'[1].call = c /\ rcHand'[1].resp = resp
      BY <1>4
    <2>2. QED
      BY <1>4, <2>1 DEF RcAnswers
  <1>5. CASE UNCHANGED <<rcHand, rcCache, rcRuns, rcLost>>
    <2>1. RcTyped'
      BY <1>2, <1>3, <1>5 DEF RcInv, RcTyped
    <2>2. RcCacheInv' /\ RcReplyInv'
      BY <1>3, <1>5 DEF RcInv, RcCacheInv, RcReplyInv, RcHeld, RcAnswers
    <2>3. QED
      BY <2>1, <2>2 DEF RcInv
  <1>6. ASSUME NEW i \in RcEntries(c), rcCache[i].call = c, sent(rcCache[i].run),
               rcCache' = RcTouch(i), UNCHANGED <<rcRuns, rcLost>>
        PROVE  RcInv'
    <2>1. i \in DOMAIN rcCache
      BY DEF RcEntries
    <2>2. PICK resp \in RcRun : resp = rcCache[i].run
      <3>1. rcCache[i] \in RcEntry
        BY <2>1 DEF RcInv, RcTyped
      <3>2. rcCache[i].run \in RcRun
        BY <3>1 DEF RcEntry
      <3>3. QED
        BY <3>2
    <2>3. resp.by = c /\ resp.nth \in 1 .. rcRuns[c]
      BY <1>6, <2>1, <2>2 DEF RcInv, RcCacheInv
    <2>4. RcAnswers(c, resp)'
      BY <1>6, <2>3 DEF RcAnswers, RcInv, RcTyped
    <2>5. /\ rcHand' \in Seq([call : RcCalls, left : Int, resp : RcRun])
          /\ RcAnswers(rcHand[1].call, rcHand[1].resp)'
      BY <1>4, <1>6, <2>2, <2>4
    <2>6. RcCacheInv' /\ rcCache' \in Seq(RcEntry)
      BY <1>6, <2>1, RcTouchInv DEF RcInv
    <2>7. RcTyped'
      BY <1>2, <1>3, <1>6, <2>5, <2>6 DEF RcInv, RcTyped
    <2>8. RcReplyInv'
      <3>0. rcRuns \in [RcCalls -> Nat] /\ rcRuns' = rcRuns
        BY <1>6 DEF RcInv, RcTyped
      <3>1. rcRuns' \in [RcCalls -> Nat] /\ \A d \in RcCalls : rcRuns[d] <= rcRuns'[d]
        BY <3>0
      <3>2. QED
        BY <1>3, <2>5, <3>1, RcReplyKept
    <2>9. QED
      BY <2>6, <2>7, <2>8 DEF RcInv
  <1>7. ASSUME NEW i \in RcEntries(c), rcCache[i].call # c, sent(RcReused(c)),
               UNCHANGED <<rcCache, rcRuns, rcLost>>
        PROVE  RcInv'
    <2>1. i \in DOMAIN rcCache /\ RcId[rcCache[i].call] = RcId[c]
      BY DEF RcEntries
    <2>2. PICK d \in RcCalls : d = rcCache[i].call
      <3>1. rcCache[i] \in RcEntry
        BY <2>1 DEF RcInv, RcTyped
      <3>2. rcCache[i].call \in RcCalls
        BY <3>1 DEF RcEntry
      <3>3. QED
        BY <3>2
    <2>3. rcRuns[d] > 0 /\ rcRuns \in [RcCalls -> Nat]
      <3>1. rcCache[i].run.nth \in 1 .. rcRuns[d]
        BY <2>1, <2>2 DEF RcInv, RcCacheInv
      <3>2. rcRuns \in [RcCalls -> Nat]
        BY DEF RcInv, RcTyped
      <3>3. QED
        BY <3>1, <3>2
    <2>4. PICK resp \in RcRun : resp = RcReused(c) /\ resp.by = c /\ resp.nth = 0
      <3>1. RcReused(c) \in RcRun /\ RcReused(c).by = c /\ RcReused(c).nth = 0
        BY DEF RcReused, RcRun
      <3>2. QED
        BY <3>1
    <2>5. RcAnswers(c, resp)'
      BY <1>7, <2>1, <2>2, <2>3, <2>4 DEF RcAnswers
    <2>6. /\ rcHand' \in Seq([call : RcCalls, left : Int, resp : RcRun])
          /\ RcAnswers(rcHand[1].call, rcHand[1].resp)'
      BY <1>4, <1>7, <2>4, <2>5
    <2>7. RcTyped'
      BY <1>2, <1>3, <1>7, <2>6 DEF RcInv, RcTyped
    <2>8. RcReplyInv'
      <3>1. rcRuns' \in [RcCalls -> Nat] /\ \A b \in RcCalls : rcRuns[b] <= rcRuns'[b]
        BY <1>7 DEF RcInv, RcTyped
      <3>2. QED
        BY <1>3, <2>6, <3>1, RcReplyKept
    <2>9. RcCacheInv'
      BY <1>7 DEF RcInv, RcCacheInv, RcHeld
    <2>10. QED
      BY <2>7, <2>8, <2>9 DEF RcInv
  <1>8. ASSUME NEW run, run = [by |-> c, nth |-> rcRuns[c] + 1],
               RcEntries(c) = {}, sent(run),
               rcCache' = RcStore([call |-> c, run |-> run]),
               rcRuns' = [rcRuns EXCEPT ![c] = @ + 1],
               rcLost' = [d \in RcCalls |->
                            IF RcHeld(d) /\ (\A i \in DOMAIN rcCache' : rcCache'[i].call # d)
                            THEN rcLost[d] + 1 ELSE rcLost[d]]
        PROVE  RcInv'
    <2>1. run \in RcRun /\ run.by = c /\ run.nth = rcRuns[c] + 1 /\ rcRuns[c] \in Nat
      BY <1>8 DEF RcRun, RcInv, RcTyped
    <2>2. /\ RcCacheInv' /\ rcCache' \in Seq(RcEntry)
          /\ rcLost' \in [RcCalls -> Nat] /\ rcRuns' \in [RcCalls -> Nat]
          /\ \A d \in RcCalls : rcRuns[d] <= rcRuns'[d]
          /\ rcRuns'[c] = rcRuns[c] + 1
      BY <1>8, <2>1, RcStoreInv DEF RcInv
    <2>3. RcAnswers(c, run)'
      BY <2>1, <2>2 DEF RcAnswers
    <2>4. /\ rcHand' \in Seq([call : RcCalls, left : Int, resp : RcRun])
          /\ RcAnswers(rcHand[1].call, rcHand[1].resp)'
      BY <1>4, <1>8, <2>1, <2>3
    <2>5. RcTyped'
      BY <1>2, <1>3, <2>2, <2>4 DEF RcInv, RcTyped
    <2>6. RcReplyInv'
      BY <1>3, <2>2, <2>4, RcReplyKept
    <2>7. QED
      BY <2>2, <2>5, <2>6 DEF RcInv
  <1>9. QED
    <2>1. Head(rcQueue).call = c /\ Head(rcQueue).left = left
      BY <1>1
    <2>2. \/ UNCHANGED <<rcHand, rcCache, rcRuns, rcLost>>
          \/ /\ \E i \in RcEntries(c) :
                   IF rcCache[i].call = c
                   THEN sent(rcCache[i].run) /\ rcCache' = RcTouch(i)
                   ELSE sent(RcReused(c)) /\ UNCHANGED rcCache
             /\ UNCHANGED <<rcRuns, rcLost>>
          \/ /\ RcEntries(c) = {}
             /\ sent([by |-> c, nth |-> rcRuns[c] + 1])
             /\ rcCache' = RcStore([call |-> c, run |-> [by |-> c, nth |-> rcRuns[c] + 1]])
             /\ rcRuns' = [rcRuns EXCEPT ![c] = @ + 1]
             /\ rcLost' = [d \in RcCalls |->
                   IF RcHeld(d) /\ (\A i \in DOMAIN rcCache' : rcCache'[i].call # d)
                   THEN rcLost[d] + 1 ELSE rcLost[d]]
      BY <2>1 DEF RcHandle, RcHeld
    <2> HIDE DEF sent
    <2>3. QED
      BY <1>5, <1>6, <1>7, <1>8, <2>2

(* The invariant is preserved when a response is sent, or ends the server. *)
LEMMA RcReplyStep == ASSUME RcInv, RcReply PROVE RcInv'
  <1> DEFINE H == [call : RcCalls, left : Int, resp : RcRun]
  <1>1. rcHand # <<>> /\ rcHand \in Seq(H) /\ rcHand' = <<>> /\ UNCHANGED rcRuns
    BY DEF RcReply, RcInv, RcTyped, RcNothing
  <1>2. rcHand' \in Seq(H)
    BY <1>1
  <1> HIDE DEF H
  <1>3. rcHand[1] \in H
    BY <1>1
  <1>4. PICK h \in H : h = rcHand[1]
    BY <1>3
  <1>5. h.call \in RcCalls /\ h.resp \in RcRun /\ RcAnswers(h.call, h.resp)
    <2>1. h.call \in RcCalls /\ h.resp \in RcRun
      BY DEF H
    <2>2. RcAnswers(h.call, h.resp)
      BY <1>1, <1>4 DEF RcInv, RcReplyInv
    <2>3. QED
      BY <2>1, <2>2
  <1> USE DEF H
  <1>6. CASE /\ rcQueue' = <<>> /\ rcCache' = <<>> /\ rcLost' = RcForgotten
             /\ UNCHANGED <<rcCall, rcAnswer>>
    <2>1. RcCacheInv' /\ rcLost' \in [RcCalls -> Nat]
      BY <1>1, <1>6, RcForgetInv DEF RcInv
    <2>2. RcTyped'
      <3>1. rcCache' \in Seq(RcEntry) /\ rcQueue' \in Seq([call : RcCalls, left : Int])
        BY <1>6
      <3>2. rcRuns' \in [RcCalls -> Nat]
        BY <1>1 DEF RcInv, RcTyped
      <3>3. /\ rcCall' \in [RcCalls -> RcClient]
            /\ rcAnswer' \in [RcCalls -> Seq(RcRun)]
        BY <1>6 DEF RcInv, RcTyped
      <3>4. QED
        BY <1>2, <2>1, <3>1, <3>2, <3>3 DEF RcTyped
    <2>3. RcReplyInv'
      BY <1>1, <1>6 DEF RcInv, RcReplyInv, RcAnswers
    <2>4. QED
      BY <2>1, <2>2, <2>3 DEF RcInv
  <1>7. CASE /\ \/ UNCHANGED <<rcCall, rcAnswer>>
                \/ /\ rcCall' = [rcCall EXCEPT ![h.call].at = "answered"]
                   /\ rcAnswer' = [rcAnswer EXCEPT ![h.call] = <<h.resp>>]
             /\ UNCHANGED <<rcUp, rcQueue, rcCache, rcLost>>
    <2>1. RcCacheInv'
      BY <1>1, <1>7 DEF RcInv, RcCacheInv, RcHeld
    <2>2. rcCall' \in [RcCalls -> RcClient]
      <3>1. PICK d \in RcCalls : d = h.call
        BY <1>5
      <3>2. rcCall \in [RcCalls -> RcClient]
        BY DEF RcInv, RcTyped
      <3>3. [rcCall EXCEPT ![d].at = "answered"] \in [RcCalls -> RcClient]
        BY <3>2 DEF RcClient
      <3>4. QED
        BY <1>7, <3>1, <3>2, <3>3
    <2>3. rcAnswer' \in [RcCalls -> Seq(RcRun)]
      <3>1. <<h.resp>> \in Seq(RcRun)
        BY <1>5
      <3>2. QED
        BY <1>5, <1>7, <3>1 DEF RcInv, RcTyped
    <2>4. RcTyped'
      BY <1>1, <1>2, <1>7, <2>2, <2>3 DEF RcInv, RcTyped
    <2>5. ASSUME NEW c \in RcCalls, rcAnswer'[c] # <<>> PROVE RcAnswers(c, rcAnswer[c][1])'
      <3>1. \/ rcAnswer'[c] = rcAnswer[c]
            \/ c = h.call /\ rcAnswer'[c][1] = h.resp
        BY <1>7 DEF RcInv, RcTyped
      <3>2. RcAnswers(c, rcAnswer'[c][1])
        BY <1>5, <2>5, <3>1 DEF RcInv, RcReplyInv
      <3>3. QED
        BY <1>1, <3>2 DEF RcAnswers
    <2>6. RcReplyInv'
      BY <1>1, <2>5 DEF RcReplyInv
    <2>7. QED
      BY <2>1, <2>4, <2>6 DEF RcInv
  <1>8. QED
    BY <1>4, <1>6, <1>7 DEF RcReply

(* The invariant of the transport is preserved by every step.              *)
LEMMA RcStepInv == RcInv /\ [RcNext]_rcVars => RcInv'
  <1> SUFFICES ASSUME RcInv, [RcNext]_rcVars PROVE RcInv'
    OBVIOUS
  <1>1. ASSUME rcCall' \in [RcCalls -> RcClient],
               rcQueue' \in Seq([call : RcCalls, left : Int]),
               UNCHANGED <<rcAnswer, rcHand, rcCache, rcRuns, rcLost>>
        PROVE  RcInv'
    BY <1>1 DEF RcInv, RcTyped, RcCacheInv, RcReplyInv, RcHeld, RcAnswers
  <1>2. rcCall \in [RcCalls -> RcClient] /\ rcQueue \in Seq([call : RcCalls, left : Int])
    BY DEF RcInv, RcTyped
  <1>3. ASSUME NEW c \in RcCalls, RcConnect(c) PROVE RcInv'
    <2>1. RcAttempt(c) \in [call : RcCalls, left : Int]
      BY <1>2 DEF RcAttempt, RcClient
    <2>2. rcQueue' \in Seq([call : RcCalls, left : Int])
      BY <1>2, <1>3, <2>1 DEF RcConnect
    <2>3. rcCall' \in [RcCalls -> RcClient]
      BY <1>2, <1>3 DEF RcConnect, RcClient
    <2>4. QED
      BY <1>1, <1>3, <2>2, <2>3 DEF RcConnect
  <1>4. ASSUME NEW c \in RcCalls, RcAttemptFails(c) PROVE RcInv'
    <2>1. rcCall' \in [RcCalls -> RcClient]
      BY <1>2, <1>4 DEF RcAttemptFails, RcClient
    <2>2. QED
      BY <1>1, <1>2, <1>4, <2>1 DEF RcAttemptFails
  <1>5. CASE RcStop
    <2>1. rcCache' = <<>> /\ rcLost' = RcForgotten /\ rcHand' = <<>> /\ rcQueue' = <<>>
      BY <1>5 DEF RcStop, RcNothing
    <2>2. UNCHANGED <<rcCall, rcAnswer, rcRuns>>
      BY <1>5 DEF RcStop
    <2>3. RcCacheInv' /\ rcLost' \in [RcCalls -> Nat]
      BY <2>1, <2>2, RcForgetInv DEF RcInv
    <2>4. RcTyped'
      BY <2>1, <2>2, <2>3 DEF RcInv, RcTyped
    <2>5. RcReplyInv'
      BY <2>1, <2>2 DEF RcInv, RcReplyInv, RcAnswers
    <2>6. QED
      BY <2>3, <2>4, <2>5 DEF RcInv
  <1>6. CASE RcBind
    BY <1>1, <1>2, <1>6 DEF RcBind
  <1>7. CASE UNCHANGED rcVars
    BY <1>1, <1>2, <1>7 DEF rcVars
  <1>8. QED
    BY <1>3, <1>4, <1>5, <1>6, <1>7, RcHandleInv, RcReplyStep DEF RcNext

(* RcSound: a retried call is dispatched again only after its response     *)
(* left the cache, and returns with a response to its own request          *)
(* (_handle_request and serve_once of distributed_work_unix_transport.py), *)
(* for any calls, request ids, cache size, backlog and restarts.           *)
THEOREM CallsAnswered == RcSpec => []RcSound
  <1>1. RcInv => RcSound
    <2> SUFFICES ASSUME RcInv PROVE RcOncePerEntry /\ RcOwnResponse
      BY DEF RcSound
    <2>1. RcOncePerEntry
      <3> SUFFICES ASSUME NEW c \in RcCalls PROVE rcRuns[c] <= rcLost[c] + 1
        BY DEF RcOncePerEntry
      <3>1. rcRuns[c] <= rcLost[c] + (IF RcHeld(c) THEN 1 ELSE 0)
        BY DEF RcInv, RcCacheInv
      <3>2. rcRuns[c] \in Nat /\ rcLost[c] \in Nat
        BY DEF RcInv, RcTyped
      <3>3. QED
        BY <3>1, <3>2
    <2>2. RcOwnResponse
      BY DEF RcInv, RcReplyInv, RcOwnResponse, RcAnswers, RcNothing
    <2>3. QED
      BY <2>1, <2>2
  <1>2. QED
    BY <1>1, RcInitInv, RcStepInv, PTL DEF RcSpec

(* The bounds of the transport.  An attempt under way is one of those the  *)
(* client had left.                                                        *)
RcBounds == RcTypeOK /\ \A c \in RcCalls : rcCall[c].at = "sent" => rcCall[c].left >= 1

RcClientOK(c) ==
    /\ c.at \in {"idle", "sent", "answered", "failed"} /\ c.left \in 0 .. RcRetries + 1
    /\ c.at = "sent" => c.left >= 1

(* The server's queue, its hand and its cache keep their bounds, and a     *)
(* client never attempts more often than its retries allow.                *)
LEMMA RcBoundsStep == RcInv /\ RcBounds /\ [RcNext]_rcVars => RcBounds'
  <1> SUFFICES ASSUME RcInv, RcBounds, [RcNext]_rcVars PROVE RcBounds'
    OBVIOUS
  <1>1. /\ rcCall \in [RcCalls -> RcClient] /\ rcCache \in Seq(RcEntry)
        /\ rcQueue \in Seq([call : RcCalls, left : Int])
        /\ rcHand \in Seq([call : RcCalls, left : Int, resp : RcRun])
    BY DEF RcInv, RcTyped
  <1>2. /\ \A c \in RcCalls : RcClientOK(rcCall[c])
        /\ Len(rcQueue) <= RcBacklog /\ Len(rcHand) <= 1 /\ Len(rcCache) <= RcCacheSize
        /\ rcStarts \in 0 .. RcStarts
    BY DEF RcBounds, RcTypeOK, RcClientOK
  <1>3. SUFFICES /\ \A c \in RcCalls : RcClientOK(rcCall'[c])
                 /\ Len(rcQueue') <= RcBacklog /\ Len(rcHand') <= 1
                 /\ Len(rcCache') <= RcCacheSize
                 /\ rcStarts' \in 0 .. RcStarts
    BY DEF RcBounds, RcTypeOK, RcClientOK
  <1>4. ASSUME NEW c \in RcCalls, RcConnect(c)
        PROVE  /\ \A d \in RcCalls : RcClientOK(rcCall'[d])
               /\ Len(rcQueue') <= RcBacklog
    <2>1. rcCall' = [rcCall EXCEPT ![c].at = "sent"] /\ rcCall[c].left > 0
      BY <1>4 DEF RcConnect
    <2>2. ASSUME NEW d \in RcCalls PROVE RcClientOK(rcCall'[d])
      <3>1. rcCall'[d] = IF d = c THEN [rcCall[c] EXCEPT !.at = "sent"] ELSE rcCall[d]
        BY <1>1, <2>1
      <3>2. rcCall'[d].left = rcCall[d].left /\ (d = c => rcCall'[d].at = "sent")
        BY <1>1, <3>1 DEF RcClient
      <3>3. rcCall[d].left \in Int
        BY <1>1 DEF RcClient
      <3>4. QED
        BY <1>2, <2>1, <3>1, <3>2, <3>3 DEF RcClientOK
    <2>3. Len(rcQueue') = Len(rcQueue) + 1 /\ Len(rcQueue) < RcBacklog /\ Len(rcQueue) \in Nat
      BY <1>1, <1>4 DEF RcConnect
    <2>4. QED
      BY <2>2, <2>3, RcAssumption
  <1>5. ASSUME NEW c \in RcCalls, RcAttemptFails(c)
        PROVE  \A d \in RcCalls : RcClientOK(rcCall'[d])
    <2>1. rcCall'[c] = [at |-> IF rcCall[c].left = 1 THEN "failed" ELSE "idle",
                        left |-> rcCall[c].left - 1]
      BY <1>1, <1>5 DEF RcAttemptFails
    <2>2. \A d \in RcCalls \ {c} : rcCall'[d] = rcCall[d]
      BY <1>1, <1>5 DEF RcAttemptFails
    <2>3. rcCall[c].left \in 1 .. RcRetries + 1
      BY <1>2, <1>5 DEF RcAttemptFails, RcClientOK
    <2>4. RcClientOK(rcCall'[c])
      BY <2>1, <2>3, RcAssumption DEF RcClientOK
    <2>5. QED
      BY <1>2, <2>2, <2>4
  <1>6. ASSUME RcHandle PROVE Len(rcQueue') <= RcBacklog /\ Len(rcHand') <= 1
                              /\ Len(rcCache') <= RcCacheSize
    <2>1. Len(rcQueue') <= RcBacklog
      <3>1. rcQueue # <<>> /\ rcQueue' = Tail(rcQueue)
        BY <1>6 DEF RcHandle
      <3>2. Len(rcQueue') <= Len(rcQueue) /\ Len(rcQueue') \in Nat /\ Len(rcQueue) \in Nat
        BY <1>1, <3>1
      <3>3. QED
        BY <1>2, <3>2, RcAssumption
    <2>2. Len(rcHand') <= 1
      <3>1. rcHand' = rcHand \/ \E x : rcHand' = <<x>>
        BY <1>6, Zenon DEF RcHandle
      <3>2. ASSUME NEW x, rcHand' = <<x>> PROVE Len(rcHand') <= 1
        BY <3>2
      <3>3. QED
        BY <1>2, <3>1, <3>2, Zenon
    <2>3. \/ rcCache' = rcCache
          \/ \E i \in DOMAIN rcCache : rcCache' = RcTouch(i)
          \/ \E e : rcCache' = RcStore(e)
      BY <1>6 DEF RcHandle, RcEntries
    <2>4. ASSUME NEW i \in DOMAIN rcCache, rcCache' = RcTouch(i)
          PROVE  Len(rcCache') <= RcCacheSize
      BY <1>1, <1>2, <2>4, RcTouchKeeps
    <2>5. ASSUME NEW e, rcCache' = RcStore(e) PROVE Len(rcCache') <= RcCacheSize
      <3> DEFINE T == RcEntry \cup {e}
                 all == Append(rcCache, e)
      <3>1. rcCache \in Seq(T) /\ e \in T
        BY <1>1
      <3> HIDE DEF T
      <3>2. all \in Seq(T) /\ Len(all) = Len(rcCache) + 1 /\ Len(rcCache) \in Nat
        BY <3>1
      <3>3. all # <<>>
        BY <3>2
      <3> HIDE DEF all
      <3>4. Len(Tail(all)) = Len(all) - 1
        BY <3>2, <3>3
      <3>5. rcCache' = IF Len(all) > RcCacheSize THEN Tail(all) ELSE all
        BY <2>5 DEF RcStore, all
      <3>6. QED
        BY <1>2, <3>2, <3>4, <3>5, RcAssumption
    <2>6. QED
      BY <1>2, <2>1, <2>2, <2>3, <2>4, <2>5
  <1>7. ASSUME RcReply
        PROVE  /\ \A d \in RcCalls : RcClientOK(rcCall'[d])
               /\ Len(rcQueue') <= RcBacklog /\ Len(rcCache') <= RcCacheSize
    <2>1. \/ rcCall' = rcCall
          \/ \E d \in RcCalls : rcCall' = [rcCall EXCEPT ![d].at = "answered"]
      <3>1. rcHand # <<>>
        BY <1>7 DEF RcReply, RcNothing
      <3> DEFINE H == [call : RcCalls, left : Int, resp : RcRun]
      <3>2. rcHand \in Seq(H)
        BY <1>1
      <3> HIDE DEF H
      <3>3. rcHand[1] \in H
        BY <3>1, <3>2
      <3>4. rcHand[1].call \in RcCalls
        BY <3>3 DEF H
      <3>5. QED
        BY <1>7, <3>4 DEF RcReply
    <2>2. ASSUME NEW d \in RcCalls PROVE RcClientOK(rcCall'[d])
      <3>1. \/ rcCall'[d] = rcCall[d]
            \/ rcCall'[d].left = rcCall[d].left /\ rcCall'[d].at = "answered"
        BY <1>1, <2>1 DEF RcClient
      <3>2. QED
        BY <1>2, <3>1 DEF RcClientOK
    <2>3. rcQueue' \in {rcQueue, <<>>} /\ rcCache' \in {rcCache, <<>>}
      BY <1>7 DEF RcReply
    <2>4. QED
      BY <1>2, <2>2, <2>3, RcAssumption
  <1>8. CASE \E c \in RcCalls : RcConnect(c)
    BY <1>2, <1>4, <1>8 DEF RcConnect
  <1>9. CASE \E c \in RcCalls : RcAttemptFails(c)
    BY <1>2, <1>5, <1>9 DEF RcAttemptFails
  <1>10. CASE RcHandle
    BY <1>2, <1>6, <1>10 DEF RcHandle
  <1>11. CASE RcReply
    <2>1. rcHand' = <<>> /\ UNCHANGED rcStarts
      BY <1>11 DEF RcReply, RcNothing
    <2>2. Len(rcHand') = 0
      BY <2>1
    <2>3. QED
      BY <1>2, <1>7, <1>11, <2>1, <2>2
  <1>12. CASE RcStop
    <2>1. rcQueue' = <<>> /\ rcHand' = <<>> /\ rcCache' = <<>> /\ UNCHANGED <<rcCall, rcStarts>>
      BY <1>12 DEF RcStop, RcNothing
    <2>2. Len(rcQueue') = 0 /\ Len(rcHand') = 0 /\ Len(rcCache') = 0
      BY <2>1
    <2>3. QED
      BY <1>2, <2>1, <2>2, RcAssumption
  <1>13. CASE RcBind
    BY <1>2, <1>13, RcAssumption DEF RcBind
  <1>14. CASE UNCHANGED rcVars
    BY <1>2, <1>14 DEF rcVars
  <1>15. QED
    BY <1>8, <1>9, <1>10, <1>11, <1>12, <1>13, <1>14 DEF RcNext

(* The bounds of the transport hold initially.                             *)
LEMMA RcBoundsInit == RcInit => RcBounds
  BY RcAssumption DEF RcInit, RcBounds, RcTypeOK, RcNothing

(* The listen queue, the replay cache and the attempts of a caller stay    *)
(* within their bounds, and the server has one request in its hand at      *)
(* most, for any calls, losses and restarts                                *)
(* (distributed_work_unix_transport.py).                                   *)
THEOREM RpcTypes == RcSpec => []RcTypeOK
<1> DEFINE I == RcInv /\ RcBounds
<1>1. RcInit => I
  BY RcInitInv, RcBoundsInit
<1>2. I /\ [RcNext]_rcVars => I'
  BY RcStepInv, RcBoundsStep
<1>3. I => RcTypeOK
  BY DEF RcBounds
<1> HIDE DEF I
<1> QED
  BY <1>1, <1>2, <1>3, PTL DEF RcSpec

-----------------------------------------------------------------------------
(* The wake supervisor.                                                    *)

WakeSpec == WakeInit /\ [][WakeNext]_wkVars

WakeGrants == [id : WakeIds, source : WakeSources, at : Nat]

WakeTyped ==
    /\ wkNow \in Nat
    /\ wkAttempts \in [WakeSources -> Seq(Nat)]
    /\ wkLast \in [WakeSources -> SUBSET Nat]
    /\ wkPending \subseteq WakeRequests
    /\ wkSent \in [WakeIds -> Nat]
    /\ wkDecisions \in Seq([req : WakeRequests, accepted : BOOLEAN])
    /\ wkAccepted \subseteq WakeGrants /\ IsFiniteSet(wkAccepted)

WakeDecided(i) == \E k \in DOMAIN wkDecisions : wkDecisions[k].req.id = i

(* An id whose decision was not evicted is dispatched or waits to be, once *)
(* altogether, and then its decision is remembered.                        *)
WakeOnceInv ==
    \A i \in WakeIds \ wkEvicted :
        /\ wkSent[i] <= 1
        /\ wkSent[i] = 1 => WakeDecided(i)
        /\ \A r \in wkPending : r.id = i =>
              /\ wkSent[i] = 0 /\ WakeDecided(i)
              /\ \A q \in wkPending : q.id = i => q = r

(* The last acceptance of a source is its latest.                          *)
WakeLastInv ==
    \A a \in wkAccepted :
        a.at <= wkNow /\ \E t \in wkLast[a.source] : t <= wkNow /\ a.at <= t

WakeCooled ==
    \A a, b \in wkAccepted :
        a # b /\ a.source = b.source /\ a.at <= b.at => b.at - a.at >= WakeCooldown

WakeGrantedSince(s, from) == {a \in wkAccepted : a.source = s /\ a.at >= from}
WakeSince(q, from) == {i \in DOMAIN q : q[i] >= from}

(* Since any instant of the window a source made as many attempts as it    *)
(* was granted.                                                            *)
WakeCounted ==
    \A s \in WakeSources : \A from \in 0 .. wkNow : from + WakeWindow > wkNow =>
        Cardinality(WakeGrantedSince(s, from)) <= Cardinality(WakeSince(wkAttempts[s], from))

WakeWithin(a) ==
    {b \in wkAccepted : b.source = a.source /\ b.at <= a.at /\ b.at + WakeWindow > a.at}

WakeBudgeted == \A a \in wkAccepted : Cardinality(WakeWithin(a)) <= WakeBudget

WakeInv ==
    /\ WakeTyped /\ WakeOnceInv /\ WakeLastInv /\ WakeCooled /\ WakeCounted /\ WakeBudgeted

(* What is kept of a queue when its first k elements go.                   *)
LEMMA WakeKept ==
    ASSUME NEW q \in Seq(Nat), NEW k \in 0 .. Len(q)
    PROVE  /\ SubSeq(q, k + 1, Len(q)) \in Seq(Nat)
           /\ Len(SubSeq(q, k + 1, Len(q))) = Len(q) - k
           /\ \A i \in 1 .. Len(q) - k : SubSeq(q, k + 1, Len(q))[i] = q[i + k]
<1>1. Len(q) \in Nat /\ k \in Int /\ k + 1 \in Int /\ k <= Len(q)
      /\ \A i \in (k + 1) .. Len(q) : q[i] \in Nat
  OBVIOUS
<1>2. /\ SubSeq(q, k + 1, Len(q)) \in Seq(Nat)
      /\ Len(SubSeq(q, k + 1, Len(q))) = IF k + 1 <= Len(q) THEN Len(q) - (k + 1) + 1 ELSE 0
      /\ \A i \in 1 .. Len(q) - (k + 1) + 1 : SubSeq(q, k + 1, Len(q))[i] = q[(k + 1) + i - 1]
  BY <1>1, SubSeqProperties
<1>4. Len(SubSeq(q, k + 1, Len(q))) = Len(q) - k
  BY <1>1, <1>2
<1>5. ASSUME NEW i \in 1 .. Len(q) - k
      PROVE  SubSeq(q, k + 1, Len(q))[i] = q[i + k]
  <2>1. i \in 1 .. Len(q) - (k + 1) + 1 /\ (k + 1) + i - 1 = i + k
    BY <1>1
  <2> QED BY <1>2, <2>1
<1> QED BY <1>2, <1>4, <1>5

(* The attempts in a queue since an instant are finitely many.             *)
LEMMA WakeSinceFinite ==
    ASSUME NEW q \in Seq(Nat), NEW from \in Nat
    PROVE  /\ IsFiniteSet(WakeSince(q, from)) /\ Cardinality(WakeSince(q, from)) \in Nat
           /\ Cardinality(WakeSince(q, from)) <= Len(q)
<1>1. Len(q) \in Nat /\ DOMAIN q = 1 .. Len(q)
  OBVIOUS
<1>2. IsFiniteSet(1 .. Len(q)) /\ Cardinality(1 .. Len(q)) = Len(q)
  <2>1. PICK n \in Nat : n = Len(q)
    BY <1>1
  <2>2. 1 \in Int /\ n \in Int
    OBVIOUS
  <2>3. IsFiniteSet(1 .. n) /\ Cardinality(1 .. n) = IF 1 > n THEN 0 ELSE n - 1 + 1
    BY <2>2, FS_Interval
  <2>4. Cardinality(1 .. n) = n
    BY <2>3
  <2> QED BY <2>1, <2>3, <2>4
<1>3. WakeSince(q, from) \in SUBSET (1 .. Len(q))
  BY <1>1 DEF WakeSince
<1> QED BY <1>2, <1>3, FS_Subset, FS_CardinalityType

(* Attempts since an instant survive the loss of older ones.               *)
LEMMA WakeSinceKept ==
    ASSUME NEW q \in Seq(Nat), NEW k \in 0 .. Len(q), NEW from \in Nat,
           \A i \in 1 .. k : q[i] < from
    PROVE  Cardinality(WakeSince(q, from))
              <= Cardinality(WakeSince(SubSeq(q, k + 1, Len(q)), from))
<1> DEFINE p == SubSeq(q, k + 1, Len(q))
           A == WakeSince(q, from)
           B == WakeSince(p, from)
           f == [i \in B |-> i + k]
<1>1. /\ p \in Seq(Nat) /\ Len(p) = Len(q) - k
      /\ \A i \in 1 .. Len(q) - k : p[i] = q[i + k]
  BY WakeKept
<1>2. Len(q) \in Nat /\ DOMAIN q = 1 .. Len(q) /\ k \in Nat /\ k <= Len(q)
  OBVIOUS
<1> HIDE DEF p
<1>3. DOMAIN p = 1 .. Len(q) - k
  BY <1>1
<1>4. \A i \in B : i + k \in A
  <2> TAKE i \in B
  <2>1. i \in 1 .. Len(q) - k /\ p[i] >= from
    BY <1>3 DEF WakeSince
  <2>a. p[i] = q[i + k]
    BY <1>1, <2>1
  <2>b. i + k \in 1 .. Len(q)
    BY <1>2, <2>1
  <2>2. i + k \in DOMAIN q /\ q[i + k] >= from
    BY <1>2, <2>1, <2>a, <2>b
  <2> QED BY <2>2 DEF WakeSince
<1>5. \A j \in A : \E i \in B : i + k = j
  <2> TAKE j \in A
  <2>1. j \in 1 .. Len(q) /\ q[j] >= from /\ q[j] \in Nat
    BY <1>2 DEF WakeSince
  <2>2. j > k
    BY <2>1, <1>2
  <2>3. j - k \in 1 .. Len(q) - k /\ (j - k) + k = j
    BY <2>1, <2>2, <1>2
  <2>4. j - k \in B
    BY <2>1, <2>3, <1>1, <1>3 DEF WakeSince
  <2> QED BY <2>3, <2>4
<1>6. IsFiniteSet(B)
  BY <1>1, WakeSinceFinite
<1> HIDE DEF A, B
<1>7. f \in Surjection(B, A)
  BY <1>4, <1>5 DEF Surjection
<1> QED BY <1>6, <1>7, FS_Surjection DEF A, B, p

(* A new attempt counts since any instant that is not past it.             *)
LEMMA WakeSinceAdded ==
    ASSUME NEW p \in Seq(Nat), NEW now \in Nat, NEW from \in Nat
    PROVE  /\ Append(p, now) \in Seq(Nat) /\ Len(Append(p, now)) = Len(p) + 1
           /\ from <= now => Cardinality(WakeSince(Append(p, now), from))
                                = Cardinality(WakeSince(p, from)) + 1
<1>1. /\ Append(p, now) \in Seq(Nat) /\ Len(Append(p, now)) = Len(p) + 1 /\ Len(p) \in Nat
      /\ DOMAIN p = 1 .. Len(p) /\ DOMAIN Append(p, now) = 1 .. Len(p) + 1
      /\ \A i \in 1 .. Len(p) : Append(p, now)[i] = p[i]
      /\ Append(p, now)[Len(p) + 1] = now
  OBVIOUS
<1>2. ASSUME from <= now
      PROVE  WakeSince(Append(p, now), from) = WakeSince(p, from) \cup {Len(p) + 1}
  BY <1>1, <1>2 DEF WakeSince
<1>3. Len(p) + 1 \notin WakeSince(p, from)
  BY <1>1 DEF WakeSince
<1>4. IsFiniteSet(WakeSince(p, from))
  BY WakeSinceFinite
<1> QED BY <1>1, <1>2, <1>3, <1>4, FS_AddElement

(* What a decision leaves in the cache: itself, and what it did not evict. *)
LEMMA WakeRemembered ==
    ASSUME WakeTyped, NEW r \in WakeRequests, NEW accepted \in BOOLEAN,
           WakeRemember(r, accepted)
    PROVE  /\ wkDecisions' \in Seq([req : WakeRequests, accepted : BOOLEAN])
           /\ wkEvicted \subseteq wkEvicted'
           /\ \A i \in WakeIds \ wkEvicted' : WakeDecided(i) \/ i = r.id => WakeDecided(i)'
<1> DEFINE R == [req : WakeRequests, accepted : BOOLEAN]
           d == [req |-> r, accepted |-> accepted]
           all == Append(wkDecisions, d)
<1>1. wkDecisions \in Seq(R) /\ d \in R /\ d.req = r
  BY DEF WakeTyped
<1> HIDE DEF R, d
<1>2. /\ all \in Seq(R) /\ Len(all) = Len(wkDecisions) + 1 /\ Len(wkDecisions) \in Nat
      /\ DOMAIN wkDecisions = 1 .. Len(wkDecisions) /\ DOMAIN all = 1 .. Len(all)
      /\ \A k \in 1 .. Len(wkDecisions) : all[k] = wkDecisions[k]
      /\ all[Len(all)] = d
  BY <1>1
<1>a. wkDecisions' = (IF Len(all) > WakeCache THEN Tail(all) ELSE all)
      /\ wkEvicted' = IF Len(all) > WakeCache THEN wkEvicted \cup {Head(all).req.id} ELSE wkEvicted
  BY DEF WakeRemember, d
<1> HIDE DEF all
<1>3. ASSUME NEW i, WakeDecided(i) \/ i = r.id
      PROVE  \E k \in 1 .. Len(all) : all[k].req.id = i
  <2>1. CASE WakeDecided(i)
    <3>1. PICK k \in 1 .. Len(wkDecisions) : wkDecisions[k].req.id = i
      BY <1>2, <2>1 DEF WakeDecided
    <3>2. k \in 1 .. Len(all) /\ all[k] = wkDecisions[k]
      BY <1>2
    <3> QED BY <3>1, <3>2
  <2>2. CASE i = r.id
    <3>1. Len(all) \in 1 .. Len(all)
      BY <1>2
    <3> QED BY <1>1, <1>2, <2>2, <3>1
  <2> QED BY <1>3, <2>1, <2>2
<1>4. CASE ~(Len(all) > WakeCache)
  BY <1>2, <1>3, <1>4, <1>a DEF WakeDecided, R
<1>5. CASE Len(all) > WakeCache
  <2>1. all # <<>> /\ Len(all) \in Nat
    BY <1>2
  <2>2. /\ Tail(all) \in Seq(R) /\ DOMAIN Tail(all) = 1 .. Len(all) - 1 /\ Head(all) = all[1]
        /\ \A k \in 1 .. Len(all) - 1 : Tail(all)[k] = all[k + 1]
    BY <1>2, <2>1
  <2>3. wkDecisions' = Tail(all) /\ wkEvicted' = wkEvicted \cup {all[1].req.id}
    BY <1>5, <1>a, <2>2
  <2>4. ASSUME NEW i \in WakeIds \ wkEvicted', WakeDecided(i) \/ i = r.id
        PROVE  WakeDecided(i)'
    <3>1. PICK k \in 1 .. Len(all) : all[k].req.id = i
      BY <1>3, <2>4
    <3>2. k # 1
      BY <2>3, <3>1
    <3>3. k - 1 \in 1 .. Len(all) - 1 /\ (k - 1) + 1 = k
      BY <2>1, <3>2
    <3>4. Tail(all)[k - 1] = all[k]
      BY <2>2, <3>3
    <3> QED BY <2>2, <2>3, <3>1, <3>3, <3>4 DEF WakeDecided
  <2> QED BY <2>2, <2>3, <2>4 DEF R
<1> QED BY <1>4, <1>5

(* A decision about an id that is not remembered keeps the promise about   *)
(* dispatches.                                                             *)
LEMMA WakeOnceKept ==
    ASSUME WakeTyped, WakeOnceInv, NEW r \in WakeRequests, ~WakeKnown(r), NEW accepted \in BOOLEAN,
           WakeRemember(r, accepted), wkPending' \subseteq wkPending \cup {r}, UNCHANGED wkSent
    PROVE  WakeOnceInv'
<1>1. /\ wkEvicted \subseteq wkEvicted'
      /\ \A i \in WakeIds \ wkEvicted' : WakeDecided(i) \/ i = r.id => WakeDecided(i)'
  BY WakeRemembered
<1>2. ~WakeDecided(r.id)
  BY DEF WakeKnown, WakeDecided
<1> SUFFICES ASSUME NEW i \in WakeIds \ wkEvicted'
             PROVE  /\ wkSent[i] <= 1
                    /\ wkSent[i] = 1 => WakeDecided(i)'
                    /\ \A q \in wkPending' : q.id = i =>
                          /\ wkSent[i] = 0 /\ WakeDecided(i)'
                          /\ \A p \in wkPending' : p.id = i => p = q
  BY DEF WakeOnceInv
<1>3. i \in WakeIds \ wkEvicted /\ wkSent[i] \in Nat
  BY <1>1 DEF WakeTyped
<1>4. /\ wkSent[i] <= 1
      /\ wkSent[i] = 1 => WakeDecided(i)
      /\ \A q \in wkPending : q.id = i =>
            /\ wkSent[i] = 0 /\ WakeDecided(i)
            /\ \A p \in wkPending : p.id = i => p = q
  BY <1>3 DEF WakeOnceInv
<1>5. CASE i = r.id
  <2>1. wkSent[i] = 0 /\ \A q \in wkPending : q.id # i
    BY <1>2, <1>3, <1>4, <1>5
  <2> QED BY <1>1, <1>5, <2>1
<1>6. CASE i # r.id
  <2>1. \A q \in wkPending' : q.id = i => q \in wkPending
    BY <1>6
  <2> QED BY <1>1, <1>4, <2>1
<1> QED BY <1>5, <1>6

(* An attempt: the pruned queue counts as much since any instant of the    *)
(* window, and with the new attempt one more.                              *)
LEMMA WakeTried ==
    ASSUME WakeTyped, NEW s \in WakeSources, NEW k \in 0 .. Len(wkAttempts[s]), WakePast(s, k)
    PROVE  /\ WakeRecent(s, k) \in Seq(Nat)
           /\ Append(WakeRecent(s, k), wkNow) \in Seq(Nat)
           /\ Len(Append(WakeRecent(s, k), wkNow)) = Len(WakeRecent(s, k)) + 1
           /\ \A from \in 0 .. wkNow : from + WakeWindow > wkNow =>
                 /\ Cardinality(WakeSince(wkAttempts[s], from)) \in Nat
                 /\ Cardinality(WakeSince(WakeRecent(s, k), from)) \in Nat
                 /\ Cardinality(WakeSince(wkAttempts[s], from))
                       <= Cardinality(WakeSince(WakeRecent(s, k), from))
                 /\ Cardinality(WakeSince(Append(WakeRecent(s, k), wkNow), from))
                       = Cardinality(WakeSince(WakeRecent(s, k), from)) + 1
<1> DEFINE q == wkAttempts[s]
           p == SubSeq(q, k + 1, Len(q))
<1>1. /\ q \in Seq(Nat) /\ wkNow \in Nat /\ WakeWindow \in Nat /\ WakeRecent(s, k) = p
      /\ k \in 0 .. Len(q)
  <2>1. q \in Seq(Nat) /\ wkNow \in Nat
    BY DEF WakeTyped
  <2>2. WakeWindow \in Nat
    BY WakeAssumption DEF WakeSourcePolicyOK
  <2> QED BY <2>1, <2>2 DEF WakeRecent
<1>2. \A i \in 1 .. k : q[i] + WakeWindow <= wkNow /\ q[i] \in Nat
  <2>1. \A i \in 1 .. k : q[i] \in Nat
    BY <1>1
  <2> QED BY <2>1 DEF WakePast
<1> HIDE DEF q
<1>3. p \in Seq(Nat)
  BY <1>1, WakeKept
<1>4. ASSUME NEW from \in 0 .. wkNow, from + WakeWindow > wkNow
      PROVE  /\ Cardinality(WakeSince(q, from)) \in Nat
             /\ Cardinality(WakeSince(p, from)) \in Nat
             /\ Cardinality(WakeSince(q, from)) <= Cardinality(WakeSince(p, from))
             /\ Cardinality(WakeSince(Append(p, wkNow), from)) = Cardinality(WakeSince(p, from)) + 1
  <2>1. from \in Nat /\ from <= wkNow
    BY <1>1
  <2>2. \A i \in 1 .. k : q[i] < from
    <3> TAKE i \in 1 .. k
    <3>1. PICK n \in Nat : n = q[i] /\ n + WakeWindow <= wkNow
      BY <1>2
    <3>2. n < from
      BY <1>1, <1>4, <2>1, <3>1
    <3> QED BY <3>1, <3>2
  <2>3. Cardinality(WakeSince(q, from)) <= Cardinality(WakeSince(p, from))
    BY <1>1, <2>1, <2>2, WakeSinceKept
  <2> HIDE DEF p
  <2> QED BY <1>1, <1>3, <2>1, <2>3, WakeSinceFinite, WakeSinceAdded
<1> HIDE DEF p
<1>5. Append(p, wkNow) \in Seq(Nat) /\ Len(Append(p, wkNow)) = Len(p) + 1
  BY <1>1, <1>3, WakeSinceAdded
<1> QED BY <1>1, <1>3, <1>4, <1>5 DEF q

(* Grants since an instant, and in the window of one, are finitely many.   *)
LEMMA WakeFinite ==
    ASSUME WakeTyped, NEW s, NEW from
    PROVE  /\ IsFiniteSet(WakeGrantedSince(s, from))
           /\ Cardinality(WakeGrantedSince(s, from)) \in Nat
<1>1. WakeGrantedSince(s, from) \in SUBSET wkAccepted
  BY DEF WakeGrantedSince
<1> QED BY <1>1, FS_Subset, FS_CardinalityType DEF WakeTyped

(* The pace of a source is kept by a request that is not accepted.         *)
LEMMA WakeRefusedPace ==
    ASSUME WakeInv, NEW s \in WakeSources, NEW k \in 0 .. Len(wkAttempts[s]), WakePast(s, k),
           UNCHANGED <<wkNow, wkLast, wkAccepted>>,
           wkAttempts' \in {[wkAttempts EXCEPT ![s] = WakeRecent(s, k)],
                            [wkAttempts EXCEPT ![s] = Append(WakeRecent(s, k), wkNow)]}
    PROVE  /\ wkAttempts' \in [WakeSources -> Seq(Nat)]
           /\ WakeLastInv' /\ WakeCooled' /\ WakeCounted' /\ WakeBudgeted'
<1>1. WakeTyped /\ WakeCounted
  BY DEF WakeInv
<1>2. /\ WakeRecent(s, k) \in Seq(Nat) /\ Append(WakeRecent(s, k), wkNow) \in Seq(Nat)
      /\ \A from \in 0 .. wkNow : from + WakeWindow > wkNow =>
            /\ Cardinality(WakeSince(wkAttempts[s], from)) \in Nat
            /\ Cardinality(WakeSince(WakeRecent(s, k), from)) \in Nat
            /\ Cardinality(WakeSince(wkAttempts[s], from))
                  <= Cardinality(WakeSince(WakeRecent(s, k), from))
            /\ Cardinality(WakeSince(Append(WakeRecent(s, k), wkNow), from))
                  = Cardinality(WakeSince(WakeRecent(s, k), from)) + 1
  BY <1>1, WakeTried
<1>3. /\ wkAttempts' \in [WakeSources -> Seq(Nat)]
      /\ wkAttempts'[s] \in {WakeRecent(s, k), Append(WakeRecent(s, k), wkNow)}
      /\ \A u \in WakeSources \ {s} : wkAttempts'[u] = wkAttempts[u]
  BY <1>1, <1>2 DEF WakeTyped
<1>4. WakeCounted'
  <2> SUFFICES ASSUME NEW u \in WakeSources, NEW from \in 0 .. wkNow, from + WakeWindow > wkNow
               PROVE  Cardinality(WakeGrantedSince(u, from))
                         <= Cardinality(WakeSince(wkAttempts'[u], from))
    BY DEF WakeCounted, WakeGrantedSince, WakeSince
  <2>1. Cardinality(WakeGrantedSince(u, from)) <= Cardinality(WakeSince(wkAttempts[u], from))
    BY <1>1 DEF WakeCounted
  <2>2. CASE u # s
    BY <1>3, <2>1, <2>2
  <2>3. CASE u = s
    <3>1. PICK a \in Nat, b \in Nat, c \in Nat :
            /\ a = Cardinality(WakeGrantedSince(s, from))
            /\ b = Cardinality(WakeSince(wkAttempts[s], from))
            /\ c = Cardinality(WakeSince(WakeRecent(s, k), from))
      BY <1>1, <1>2, WakeFinite
    <3>2. a <= b /\ b <= c /\ Cardinality(WakeSince(wkAttempts'[s], from)) \in {c, c + 1}
      BY <1>2, <1>3, <2>1, <2>3, <3>1
    <3> QED BY <2>3, <3>1, <3>2
  <2> QED BY <2>2, <2>3
<1> QED BY <1>3, <1>4 DEF WakeInv, WakeLastInv, WakeCooled, WakeBudgeted, WakeWithin


(* A grant adds at most one to what was granted since an instant.          *)
LEMMA WakeGrantAdds ==
    ASSUME WakeTyped, NEW g, wkAccepted' = wkAccepted \cup {g}, NEW s, NEW from
    PROVE  /\ IsFiniteSet(WakeGrantedSince(s, from)')
           /\ Cardinality(WakeGrantedSince(s, from)') \in Nat
           /\ Cardinality(WakeGrantedSince(s, from)') <= Cardinality(WakeGrantedSince(s, from)) + 1
           /\ g.source # s => WakeGrantedSince(s, from)' = WakeGrantedSince(s, from)
<1> DEFINE A == WakeGrantedSince(s, from)
           B == {a \in wkAccepted' : a.source = s /\ a.at >= from}
<1>1. IsFiniteSet(A) /\ Cardinality(A) \in Nat
  BY WakeFinite
<1>2. WakeGrantedSince(s, from)' = B
  BY DEF WakeGrantedSince
<1>3. B \in SUBSET (A \cup {g}) /\ (g.source # s => B = A)
  BY DEF WakeGrantedSince
<1> HIDE DEF A, B
<1>4. IsFiniteSet(A \cup {g})
      /\ Cardinality(A \cup {g}) = IF g \in A THEN Cardinality(A) ELSE Cardinality(A) + 1
  BY <1>1, FS_AddElement
<1>5. IsFiniteSet(B) /\ Cardinality(B) <= Cardinality(A \cup {g})
  BY <1>3, <1>4, FS_Subset
<1>6. Cardinality(B) \in Nat
  BY <1>5, FS_CardinalityType
<1>7. Cardinality(A \cup {g}) \in {Cardinality(A), Cardinality(A) + 1}
  BY <1>4
<1>8. Cardinality(B) <= Cardinality(A) + 1
  BY <1>1, <1>5, <1>6, <1>7
<1> QED BY <1>2, <1>3, <1>5, <1>6, <1>8 DEF A

(* The pace of a source is kept by a request it is granted: the last grant *)
(* is past the cooldown, and the attempts of the window, this one          *)
(* included, are within the budget.                                        *)
LEMMA WakeAcceptedPace ==
    ASSUME WakeInv, NEW i \in WakeIds, NEW s \in WakeSources, NEW k \in 0 .. Len(wkAttempts[s]),
           WakePast(s, k), ~WakeOverBudget(s, k), ~WakeCooling(s), UNCHANGED wkNow,
           wkAttempts' = [wkAttempts EXCEPT ![s] = Append(WakeRecent(s, k), wkNow)],
           wkLast' = [wkLast EXCEPT ![s] = {wkNow}],
           wkAccepted' = wkAccepted \cup {[id |-> i, source |-> s, at |-> wkNow]}
    PROVE  /\ wkAttempts' \in [WakeSources -> Seq(Nat)]
           /\ wkLast' \in [WakeSources -> SUBSET Nat]
           /\ wkAccepted' \subseteq WakeGrants /\ IsFiniteSet(wkAccepted')
           /\ WakeLastInv' /\ WakeCooled' /\ WakeCounted' /\ WakeBudgeted'
<1> DEFINE g == [id |-> i, source |-> s, at |-> wkNow]
           p == WakeRecent(s, k)
<1>1. WakeTyped /\ WakeLastInv /\ WakeCooled /\ WakeCounted /\ WakeBudgeted
  BY DEF WakeInv
<1>2. /\ wkNow \in Nat /\ WakeWindow \in Nat /\ WakeWindow > 0 /\ WakeBudget \in Nat
      /\ WakeCooldown \in Nat
  BY <1>1, WakeAssumption DEF WakeTyped, WakeSourcePolicyOK
<1>3. /\ p \in Seq(Nat) /\ Append(p, wkNow) \in Seq(Nat) /\ Len(Append(p, wkNow)) = Len(p) + 1
      /\ \A from \in 0 .. wkNow : from + WakeWindow > wkNow =>
            /\ Cardinality(WakeSince(wkAttempts[s], from)) \in Nat
            /\ Cardinality(WakeSince(p, from)) \in Nat
            /\ Cardinality(WakeSince(wkAttempts[s], from)) <= Cardinality(WakeSince(p, from))
            /\ Cardinality(WakeSince(Append(p, wkNow), from)) = Cardinality(WakeSince(p, from)) + 1
  BY <1>1, WakeTried
<1>4. Len(Append(p, wkNow)) <= WakeBudget
  <2>1. Len(p) \in Nat /\ ~(Len(p) >= WakeBudget)
    BY <1>3 DEF WakeOverBudget
  <2> QED BY <1>2, <1>3, <2>1
<1>5. /\ g \in WakeGrants /\ g.source = s /\ g.at = wkNow /\ g.id = i
      /\ wkAccepted' = wkAccepted \cup {g}
  BY <1>2 DEF WakeGrants
<1> HIDE DEF p, g
<1>6. /\ wkAttempts' \in [WakeSources -> Seq(Nat)]
      /\ wkAttempts'[s] = Append(p, wkNow)
      /\ \A u \in WakeSources \ {s} : wkAttempts'[u] = wkAttempts[u]
  BY <1>1, <1>3 DEF WakeTyped, p
<1>7. /\ wkLast' \in [WakeSources -> SUBSET Nat] /\ wkLast'[s] = {wkNow}
      /\ \A u \in WakeSources \ {s} : wkLast'[u] = wkLast[u]
  BY <1>1, <1>2 DEF WakeTyped
<1>8. wkAccepted' \subseteq WakeGrants /\ IsFiniteSet(wkAccepted')
  <2>1. IsFiniteSet(wkAccepted) /\ wkAccepted \subseteq WakeGrants
    BY <1>1 DEF WakeTyped
  <2>2. IsFiniteSet(wkAccepted \cup {g})
    BY <2>1, FS_AddElement
  <2> QED BY <1>5, <2>1, <2>2
<1>9. \A a \in wkAccepted : /\ a.at \in Nat /\ a.source \in WakeSources /\ a.at <= wkNow
                            /\ \E t \in wkLast[a.source] : t \in Nat /\ t <= wkNow /\ a.at <= t
  <2> TAKE a \in wkAccepted
  <2>1. a.at \in Nat /\ a.source \in WakeSources
    BY <1>1 DEF WakeTyped, WakeGrants
  <2>2. a.at <= wkNow /\ \E t \in wkLast[a.source] : t <= wkNow /\ a.at <= t
    BY <1>1 DEF WakeLastInv
  <2>3. wkLast[a.source] \subseteq Nat
    BY <1>1, <2>1 DEF WakeTyped
  <2> QED BY <2>1, <2>2, <2>3
<1>10. WakeLastInv'
  <2> SUFFICES ASSUME NEW a \in wkAccepted'
               PROVE  a.at <= wkNow /\ \E t \in wkLast'[a.source] : t <= wkNow /\ a.at <= t
    BY DEF WakeLastInv
  <2>1. a.at \in Nat /\ a.at <= wkNow
    BY <1>2, <1>5, <1>9
  <2>2. CASE a.source = s
    BY <1>2, <1>7, <2>1, <2>2
  <2>3. CASE a.source # s
    <3>1. a \in wkAccepted /\ a.source \in WakeSources \ {s}
      BY <1>5, <1>9, <2>3
    <3> QED BY <1>7, <1>9, <3>1
  <2> QED BY <2>2, <2>3
<1>11. \A a \in wkAccepted : a.source = s => wkNow - a.at >= WakeCooldown
  <2> SUFFICES ASSUME NEW a \in wkAccepted, a.source = s
               PROVE  wkNow - a.at >= WakeCooldown
    OBVIOUS
  <2>1. PICK n \in Nat : n = a.at
    BY <1>9
  <2>2. PICK t \in Nat : t \in wkLast[s] /\ t <= wkNow /\ n <= t
    BY <1>9, <2>1
  <2>3. ~(wkNow - t < WakeCooldown)
    BY <2>2 DEF WakeCooling
  <2>4. wkNow - n >= WakeCooldown
    BY <1>2, <2>2, <2>3
  <2> QED BY <2>1, <2>4
<1>12. WakeCooled'
  <2> SUFFICES ASSUME NEW a \in wkAccepted', NEW b \in wkAccepted',
                      a # b, a.source = b.source, a.at <= b.at
               PROVE  b.at - a.at >= WakeCooldown
    BY DEF WakeCooled
  <2>1. CASE a \in wkAccepted /\ b \in wkAccepted
    BY <1>1, <2>1 DEF WakeCooled
  <2>2. CASE a \in wkAccepted /\ b = g
    BY <1>5, <1>11, <2>2
  <2>3. CASE a = g /\ b \in wkAccepted
    <3>1. PICK n \in Nat : n = b.at /\ n <= wkNow
      BY <1>9, <2>3
    <3>2. n = wkNow
      BY <1>2, <1>5, <2>3, <3>1
    <3>3. wkNow - n >= WakeCooldown
      BY <1>5, <1>11, <2>3, <3>1
    <3> QED BY <1>2, <1>5, <2>3, <3>1, <3>2, <3>3
  <2> QED BY <1>5, <2>1, <2>2, <2>3
<1>13. ASSUME NEW u \in WakeSources, NEW from \in 0 .. wkNow, from + WakeWindow > wkNow
       PROVE  Cardinality(WakeGrantedSince(u, from)')
                 <= Cardinality(WakeSince(wkAttempts'[u], from))
  <2>1. Cardinality(WakeGrantedSince(u, from)) <= Cardinality(WakeSince(wkAttempts[u], from))
    BY <1>1, <1>13 DEF WakeCounted
  <2>2. CASE u # s
    <3>1. WakeGrantedSince(u, from)' = WakeGrantedSince(u, from)
      BY <1>1, <1>5, <2>2, WakeGrantAdds
    <3> QED BY <1>6, <2>1, <2>2, <3>1
  <2>3. CASE u = s
    <3>1. PICK a \in Nat, b \in Nat, c \in Nat, d \in Nat :
            /\ a = Cardinality(WakeGrantedSince(s, from))
            /\ b = Cardinality(WakeSince(wkAttempts[s], from))
            /\ c = Cardinality(WakeSince(p, from))
            /\ d = Cardinality(WakeGrantedSince(s, from)')
      <4>1. Cardinality(WakeGrantedSince(s, from)) \in Nat
        BY <1>1, WakeFinite
      <4>2. Cardinality(WakeGrantedSince(s, from)') \in Nat
        BY <1>1, <1>5, WakeGrantAdds
      <4> QED BY <1>3, <1>13, <4>1, <4>2
    <3>2. d <= a + 1
      BY <1>1, <1>5, <3>1, WakeGrantAdds
    <3>3. a <= b /\ b <= c /\ Cardinality(WakeSince(wkAttempts'[s], from)) = c + 1
      BY <1>3, <1>6, <1>13, <2>1, <2>3, <3>1
    <3>4. d <= c + 1
      BY <3>2, <3>3
    <3> QED BY <2>3, <3>1, <3>3, <3>4
  <2> QED BY <2>2, <2>3
<1>14. WakeCounted'
  <2>1. ASSUME NEW u \in WakeSources, NEW from \in 0 .. wkNow, from + WakeWindow > wkNow
        PROVE  Cardinality(WakeGrantedSince(u, from)')
                  <= Cardinality(WakeSince(wkAttempts[u], from)')
    BY <1>13, <2>1 DEF WakeSince
  <2> QED BY <2>1 DEF WakeCounted
<1>15. WakeBudgeted'
  <2> SUFFICES ASSUME NEW a \in wkAccepted'
               PROVE  Cardinality(WakeWithin(a)') <= WakeBudget
    BY DEF WakeBudgeted
  <2>1. a.at \in Nat /\ a.at <= wkNow
    BY <1>2, <1>5, <1>9
  <2>2. CASE a.source # s \/ a.at # wkNow
    <3>1. a \in wkAccepted
      BY <1>5, <2>2
    <3>2. ~(g.source = a.source /\ g.at <= a.at)
      BY <1>2, <1>5, <2>1, <2>2
    <3>3. WakeWithin(a)' = WakeWithin(a)
      BY <1>5, <3>2 DEF WakeWithin
    <3> QED BY <1>1, <3>1, <3>3 DEF WakeBudgeted
  <2>3. CASE a.source = s /\ a.at = wkNow
    <3>1. PICK from \in 0 .. wkNow :
            /\ from + WakeWindow > wkNow
            /\ \A n \in Nat : n + WakeWindow > wkNow => n >= from
      <4>1. CASE wkNow >= WakeWindow
        <5>1. wkNow - WakeWindow + 1 \in 0 .. wkNow
          BY <1>2, <4>1
        <5>2. PICK m \in 0 .. wkNow : m = wkNow - WakeWindow + 1
          BY <5>1
        <5>3. m + WakeWindow > wkNow /\ \A n \in Nat : n + WakeWindow > wkNow => n >= m
          BY <1>2, <5>2
        <5> QED BY <5>3
      <4>2. CASE wkNow < WakeWindow
        <5>1. 0 \in 0 .. wkNow
          BY <1>2
        <5> QED BY <1>2, <4>2, <5>1
      <4> QED BY <1>2, <4>1, <4>2
    <3>2. \A b \in wkAccepted' : b.at \in Nat
      BY <1>2, <1>5, <1>9
    <3>3. WakeWithin(a)' \in SUBSET WakeGrantedSince(s, from)'
      BY <2>3, <3>1, <3>2 DEF WakeWithin, WakeGrantedSince
    <3>4. PICK c \in Nat : c = Cardinality(WakeGrantedSince(s, from)')
      BY <1>1, <1>5, WakeGrantAdds
    <3>5. PICK d \in Nat : d = Cardinality(WakeWithin(a)') /\ d <= c
      <4>1. IsFiniteSet(WakeGrantedSince(s, from)')
        BY <1>1, <1>5, WakeGrantAdds
      <4>2. IsFiniteSet(WakeWithin(a)') /\ Cardinality(WakeWithin(a)') <= c
        BY <3>3, <3>4, <4>1, FS_Subset
      <4> QED BY <4>2, FS_CardinalityType
    <3>6. c <= Cardinality(WakeSince(wkAttempts'[s], from))
      BY <1>13, <3>1, <3>4
    <3>7. from \in Nat
      BY <1>2
    <3>8. PICK e \in Nat : /\ e = Cardinality(WakeSince(Append(p, wkNow), from))
                           /\ e <= Len(Append(p, wkNow))
      BY <1>3, <3>7, WakeSinceFinite
    <3>9. PICK n \in Nat : n = Len(Append(p, wkNow))
      BY <1>3
    <3>10. c <= e /\ e <= n /\ n <= WakeBudget
      BY <1>4, <1>6, <3>6, <3>8, <3>9
    <3>11. c <= WakeBudget
      BY <1>2, <3>10
    <3> QED BY <1>2, <3>5, <3>11
  <2> QED BY <2>2, <2>3
<1> QED BY <1>6, <1>7, <1>8, <1>10, <1>12, <1>14, <1>15


(* A payload that is evaluated keeps the invariant.                        *)
LEMMA WakeReceiveStep ==
    ASSUME WakeInv, NEW r \in WakeRequests, WakeReceive(r)
    PROVE  WakeInv'
<1>1. WakeTyped /\ WakeOnceInv
  BY DEF WakeInv
<1>2. /\ ~WakeKnown(r) /\ WakeEvaluateNew(r) /\ UNCHANGED <<wkNow, wkSent>>
  BY DEF WakeReceive
<1>3. ASSUME WakeRefuse(r)
      PROVE  /\ WakeOnceInv' /\ UNCHANGED <<wkLast, wkAccepted, wkPending>>
             /\ wkDecisions' \in Seq([req : WakeRequests, accepted : BOOLEAN])
  <2>1. WakeRemember(r, FALSE) /\ UNCHANGED <<wkLast, wkAccepted, wkPending>>
    BY <1>3 DEF WakeRefuse
  <2>2. WakeOnceInv'
    BY <1>1, <1>2, <2>1, WakeOnceKept
  <2>3. wkDecisions' \in Seq([req : WakeRequests, accepted : BOOLEAN])
    BY <1>1, <2>1, WakeRemembered
  <2> QED BY <2>1, <2>2, <2>3
<1>4. CASE WakeUntimely(r) /\ WakeRefuse(r) /\ UNCHANGED wkAttempts
  <2>1. UNCHANGED <<wkNow, wkSent, wkAttempts, wkLast, wkAccepted, wkPending>>
    BY <1>2, <1>3, <1>4
  <2>2. WakeTyped'
    BY <1>1, <1>3, <1>4, <2>1 DEF WakeTyped
  <2>3. WakeLastInv' /\ WakeCooled' /\ WakeCounted' /\ WakeBudgeted'
    BY <2>1 DEF WakeInv, WakeLastInv, WakeCooled, WakeCounted, WakeBudgeted, WakeWithin,
                WakeGrantedSince, WakeSince
  <2> QED BY <1>3, <1>4, <2>2, <2>3 DEF WakeInv
<1>5. CASE ~(WakeUntimely(r) /\ WakeRefuse(r) /\ UNCHANGED wkAttempts)
  <2> DEFINE s == r.source
  <2>1. s \in WakeSources
    BY <1>2, <1>5 DEF WakeEvaluateNew, WakeUntimely
  <2>2. PICK k \in 0 .. Len(wkAttempts[s]) :
          /\ WakePast(s, k)
          /\ \/ /\ WakeOverBudget(s, k) /\ WakeRefuse(r)
                /\ wkAttempts' = [wkAttempts EXCEPT ![s] = WakeRecent(s, k)]
             \/ /\ ~WakeOverBudget(s, k)
                /\ wkAttempts' = [wkAttempts EXCEPT ![s] = Append(WakeRecent(s, k), wkNow)]
                /\ IF r.fit /\ ~WakeCooling(s) THEN WakeAccept(r) ELSE WakeRefuse(r)
    BY <1>2, <1>5 DEF WakeEvaluateNew
  <2>3. CASE WakeRefuse(r)
    <3>1. UNCHANGED <<wkNow, wkLast, wkAccepted>>
      BY <1>2, <1>3, <2>3
    <3>2. wkAttempts' \in {[wkAttempts EXCEPT ![s] = WakeRecent(s, k)],
                           [wkAttempts EXCEPT ![s] = Append(WakeRecent(s, k), wkNow)]}
      BY <2>2
    <3> HIDE DEF s
    <3>3. /\ wkAttempts' \in [WakeSources -> Seq(Nat)]
          /\ WakeLastInv' /\ WakeCooled' /\ WakeCounted' /\ WakeBudgeted'
      BY <2>1, <2>2, <3>1, <3>2, WakeRefusedPace
    <3>4. WakeTyped'
      BY <1>1, <1>2, <1>3, <2>3, <3>1, <3>3 DEF WakeTyped
    <3> QED BY <1>3, <2>3, <3>3, <3>4 DEF WakeInv
  <2>4. CASE ~WakeRefuse(r)
    <3>1. /\ ~WakeOverBudget(s, k) /\ ~WakeCooling(s) /\ WakeAccept(r)
          /\ wkAttempts' = [wkAttempts EXCEPT ![s] = Append(WakeRecent(s, k), wkNow)]
      BY <2>2, <2>4
    <3>2. /\ wkLast' = [wkLast EXCEPT ![s] = {wkNow}]
          /\ wkAccepted' = wkAccepted \cup {[id |-> r.id, source |-> s, at |-> wkNow]}
          /\ wkPending' \subseteq wkPending \cup {r}
          /\ WakeRemember(r, TRUE)
      BY <3>1 DEF WakeAccept
    <3>3. r.id \in WakeIds /\ UNCHANGED wkNow
      BY <1>2 DEF WakeIds
    <3> HIDE DEF s
    <3>4. /\ wkAttempts' \in [WakeSources -> Seq(Nat)]
          /\ wkLast' \in [WakeSources -> SUBSET Nat]
          /\ wkAccepted' \subseteq WakeGrants /\ IsFiniteSet(wkAccepted')
          /\ WakeLastInv' /\ WakeCooled' /\ WakeCounted' /\ WakeBudgeted'
      BY <2>1, <2>2, <3>1, <3>2, <3>3, WakeAcceptedPace
    <3>5. WakeOnceInv'
      BY <1>1, <1>2, <3>2, WakeOnceKept
    <3>6. wkDecisions' \in Seq([req : WakeRequests, accepted : BOOLEAN])
      BY <1>1, <3>2, WakeRemembered
    <3>7. wkPending' \subseteq WakeRequests
      BY <1>1, <3>2 DEF WakeTyped
    <3>8. WakeTyped'
      BY <1>1, <1>2, <3>4, <3>6, <3>7 DEF WakeTyped
    <3> QED BY <3>4, <3>5, <3>8 DEF WakeInv
  <2> QED BY <2>3, <2>4
<1> QED BY <1>4, <1>5

(* A dispatch keeps the invariant.                                         *)
LEMMA WakeDispatchStep ==
    ASSUME WakeInv, NEW r \in WakeRequests, WakeDispatch(r)
    PROVE  WakeInv'
<1>1. WakeTyped /\ WakeOnceInv
  BY DEF WakeInv
<1>2. /\ r \in wkPending /\ wkPending' = wkPending \ {r} /\ r.id \in WakeIds
      /\ wkSent' \in {wkSent, [wkSent EXCEPT ![r.id] = wkSent[r.id] + 1]}
      /\ UNCHANGED <<wkNow, wkPower, wkAttempts, wkLast, wkDecisions, wkAccepted, wkEvicted>>
  BY DEF WakeDispatch, WakeIds
<1>3. /\ wkSent' \in [WakeIds -> Nat]
      /\ wkSent'[r.id] \in {wkSent[r.id], wkSent[r.id] + 1}
      /\ \A i \in WakeIds \ {r.id} : wkSent'[i] = wkSent[i]
  BY <1>1, <1>2 DEF WakeTyped
<1>4. WakeTyped'
  BY <1>1, <1>2, <1>3 DEF WakeTyped
<1>5. WakeOnceInv'
  <2> SUFFICES ASSUME NEW i \in WakeIds \ wkEvicted
               PROVE  /\ wkSent'[i] <= 1
                      /\ wkSent'[i] = 1 => WakeDecided(i)
                      /\ \A p \in wkPending' : p.id = i =>
                            /\ wkSent'[i] = 0 /\ WakeDecided(i)
                            /\ \A q \in wkPending' : q.id = i => q = p
    BY <1>2 DEF WakeOnceInv, WakeDecided
  <2>1. /\ wkSent[i] <= 1
        /\ wkSent[i] = 1 => WakeDecided(i)
        /\ \A p \in wkPending : p.id = i =>
              /\ wkSent[i] = 0 /\ WakeDecided(i)
              /\ \A q \in wkPending : q.id = i => q = p
    BY <1>1 DEF WakeOnceInv
  <2>2. CASE i # r.id
    <3>1. wkSent'[i] = wkSent[i]
      BY <1>3, <2>2
    <3> QED BY <1>2, <2>1, <3>1
  <2>3. CASE i = r.id
    <3>1. wkSent[i] = 0 /\ WakeDecided(i) /\ \A q \in wkPending : q.id = i => q = r
      BY <1>2, <2>1, <2>3
    <3>2. \A p \in wkPending' : p.id # i
      BY <1>2, <3>1
    <3>3. wkSent'[i] \in {0, 1}
      BY <1>3, <2>3, <3>1
    <3>4. wkSent'[i] <= 1
      BY <3>3
    <3> QED BY <3>1, <3>2, <3>4
  <2> QED BY <2>2, <2>3
<1>6. WakeLastInv' /\ WakeCooled' /\ WakeCounted' /\ WakeBudgeted'
  BY <1>2 DEF WakeInv, WakeLastInv, WakeCooled, WakeCounted, WakeBudgeted, WakeWithin,
              WakeGrantedSince, WakeSince
<1> QED BY <1>4, <1>5, <1>6 DEF WakeInv

(* The passing of time keeps the invariant: nothing is granted since the   *)
(* new instant.                                                            *)
LEMMA WakeTickStep ==
    ASSUME WakeInv, WakeTick
    PROVE  WakeInv'
<1>1. WakeTyped /\ WakeOnceInv /\ WakeLastInv /\ WakeCounted
  BY DEF WakeInv
<1>2. /\ wkNow \in Nat /\ WakeWindow \in Nat /\ wkNow' = wkNow + 1
      /\ UNCHANGED <<wkAttempts, wkLast, wkDecisions, wkPending, wkSent, wkAccepted, wkEvicted>>
  BY <1>1, WakeAssumption DEF WakeTick, WakeTyped, WakeSourcePolicyOK
<1>3. WakeTyped' /\ WakeOnceInv' /\ WakeCooled' /\ WakeBudgeted'
  <2>1. WakeTyped'
    BY <1>1, <1>2 DEF WakeTyped
  <2>2. WakeOnceInv'
    BY <1>1, <1>2 DEF WakeOnceInv, WakeDecided
  <2>3. WakeCooled' /\ WakeBudgeted'
    BY <1>2 DEF WakeInv, WakeCooled, WakeBudgeted, WakeWithin
  <2> QED BY <2>1, <2>2, <2>3
<1>4. \A a \in wkAccepted :
        /\ a.at \in Nat /\ a.at <= wkNow
        /\ \E t \in wkLast[a.source] : t \in Nat /\ t <= wkNow /\ a.at <= t
  <2> TAKE a \in wkAccepted
  <2>1. a.at \in Nat /\ a.source \in WakeSources
    BY <1>1 DEF WakeTyped, WakeGrants
  <2>2. wkLast[a.source] \subseteq Nat
    BY <1>1, <2>1 DEF WakeTyped
  <2> QED BY <1>1, <2>1, <2>2 DEF WakeLastInv
<1>5. WakeLastInv'
  <2> SUFFICES ASSUME NEW a \in wkAccepted
               PROVE  a.at <= wkNow + 1 /\ \E t \in wkLast[a.source] : t <= wkNow + 1 /\ a.at <= t
    BY <1>2 DEF WakeLastInv
  <2>1. PICK t \in wkLast[a.source] : t \in Nat /\ t <= wkNow /\ a.at <= t
    BY <1>4
  <2>2. t <= wkNow + 1 /\ a.at <= wkNow + 1
    BY <1>2, <1>4, <2>1
  <2> QED BY <2>1, <2>2
<1>6. WakeCounted'
  <2> SUFFICES ASSUME NEW s \in WakeSources, NEW from \in 0 .. wkNow + 1,
                      from + WakeWindow > wkNow + 1
               PROVE  Cardinality(WakeGrantedSince(s, from))
                         <= Cardinality(WakeSince(wkAttempts[s], from))
    BY <1>2 DEF WakeCounted, WakeGrantedSince, WakeSince
  <2>1. CASE from \in 0 .. wkNow
    <3>1. from + WakeWindow > wkNow
      BY <1>2, <2>1
    <3> QED BY <1>1, <2>1, <3>1 DEF WakeCounted
  <2>2. CASE from \notin 0 .. wkNow
    <3>1. from = wkNow + 1 /\ from \in Nat
      BY <1>2, <2>2
    <3>2. WakeGrantedSince(s, from) = {}
      BY <1>2, <1>4, <3>1 DEF WakeGrantedSince
    <3>3. wkAttempts[s] \in Seq(Nat)
      BY <1>1 DEF WakeTyped
    <3>4. Cardinality(WakeSince(wkAttempts[s], from)) \in Nat
      BY <3>1, <3>3, WakeSinceFinite
    <3>5. Cardinality(WakeGrantedSince(s, from)) = 0
      BY <3>2, FS_EmptySet
    <3> QED BY <3>4, <3>5
  <2> QED BY <2>1, <2>2
<1> QED BY <1>3, <1>5, <1>6 DEF WakeInv

(* An engine that has just started.                                        *)
WakeNew ==
    /\ wkNow \in Nat
    /\ wkAttempts = [s \in WakeSources |-> <<>>] /\ wkLast = [s \in WakeSources |-> {}]
    /\ wkDecisions = <<>> /\ wkPending = {} /\ wkSent = [i \in WakeIds |-> 0] /\ wkAccepted = {}

(* A new engine satisfies the invariant.                                   *)
LEMMA WakeFresh == WakeNew => WakeInv
<1> SUFFICES ASSUME WakeNew
             PROVE  WakeInv
  OBVIOUS
<1> USE DEF WakeNew
<1>1. IsFiniteSet({}) /\ Cardinality({}) = 0
  BY FS_EmptySet
<1>2. WakeTyped
  <2>1. <<>> \in Seq(Nat) /\ <<>> \in Seq([req : WakeRequests, accepted : BOOLEAN])
    OBVIOUS
  <2> QED BY <1>1, <2>1 DEF WakeTyped
<1>3. WakeOnceInv /\ WakeLastInv /\ WakeCooled /\ WakeBudgeted
  BY DEF WakeOnceInv, WakeLastInv, WakeCooled, WakeBudgeted
<1>4. WakeCounted
  <2> SUFFICES ASSUME NEW s \in WakeSources, NEW from \in 0 .. wkNow
               PROVE  Cardinality(WakeGrantedSince(s, from))
                         <= Cardinality(WakeSince(wkAttempts[s], from))
    BY DEF WakeCounted
  <2>1. WakeGrantedSince(s, from) = {}
    BY DEF WakeGrantedSince
  <2>2. wkAttempts[s] \in Seq(Nat) /\ from \in Nat
    BY <1>2 DEF WakeTyped
  <2>3. Cardinality(WakeSince(wkAttempts[s], from)) \in Nat
    BY <2>2, WakeSinceFinite
  <2> QED BY <1>1, <2>1, <2>3
<1> QED BY <1>2, <1>3, <1>4 DEF WakeInv

(* Every step of the supervisor keeps the invariant.                       *)
LEMMA WakeStep == WakeInv /\ [WakeNext]_wkVars => WakeInv'
<1> SUFFICES ASSUME WakeInv, [WakeNext]_wkVars
             PROVE  WakeInv'
  OBVIOUS
<1>1. ASSUME NEW r \in WakeRequests, WakeReceive(r)
      PROVE  WakeInv'
  BY <1>1, WakeReceiveStep
<1>2. ASSUME NEW r \in WakeRequests, WakeDispatch(r)
      PROVE  WakeInv'
  BY <1>2, WakeDispatchStep
<1>3. CASE WakeTick
  BY <1>3, WakeTickStep
<1>4. CASE WakePowerChange \/ UNCHANGED wkVars
  <2>1. UNCHANGED <<wkNow, wkAttempts, wkLast, wkDecisions, wkPending, wkSent, wkAccepted,
                    wkEvicted>>
    BY <1>4 DEF WakePowerChange, wkVars
  <2>2. WakeTyped'
    BY <2>1 DEF WakeInv, WakeTyped
  <2>3. WakeOnceInv'
    BY <2>1 DEF WakeInv, WakeOnceInv, WakeDecided
  <2>4. WakeLastInv' /\ WakeCooled' /\ WakeCounted' /\ WakeBudgeted'
    BY <2>1 DEF WakeInv, WakeLastInv, WakeCooled, WakeCounted, WakeBudgeted, WakeWithin,
                WakeGrantedSince, WakeSince
  <2> QED BY <2>2, <2>3, <2>4 DEF WakeInv
<1>5. CASE WakeRestart
  <2>1. WakeNew'
    BY <1>5 DEF WakeNew, WakeInv, WakeTyped, WakeRestart
  <2> QED BY <2>1, WakeFresh, PTL
<1> QED BY <1>1, <1>2, <1>3, <1>4, <1>5 DEF WakeNext

(* The supervisor starts in it.                                            *)
LEMMA WakeInitInv == WakeInit => WakeInv
  BY WakeFresh DEF WakeInit, WakeNew

(* The wake hardware, for every set of requests, budget, window, cooldown  *)
(* and size of the cache: within one life of the supervisor an id reaches  *)
(* the hardware twice only if its decision was evicted, and what a source  *)
(* is granted is paced by its cooldown and its budget.                     *)
THEOREM WakesPaced == WakeSpec => []WakeSound
<1>1. WakeInv => WakeSound
  <2> SUFFICES ASSUME WakeInv
               PROVE  WakeSound
    OBVIOUS
  <2>1. WakeOnce
    <3> SUFFICES ASSUME NEW i \in WakeIds, wkSent[i] > 1, i \notin wkEvicted
                 PROVE  FALSE
      BY DEF WakeOnce
    <3>1. wkSent[i] <= 1 /\ wkSent[i] \in Nat
      BY DEF WakeInv, WakeOnceInv, WakeTyped
    <3> QED BY <3>1
  <2>2. WakePaced
    BY DEF WakeInv, WakeCooled, WakeBudgeted, WakeWithin, WakePaced
  <2> QED BY <2>1, <2>2 DEF WakeSound
<1> QED BY <1>1, WakeInitInv, WakeStep, PTL DEF WakeSpec

WakeQueues == [WakeSources -> Seq(WakeTimes)]

(* A queue keeps its times within the clock's when its first k elements go *)
(* and when the present is added.                                          *)
LEMMA WakeQueueTimes ==
    ASSUME NEW q \in Seq(WakeTimes), NEW k \in 0 .. Len(q), NEW now \in WakeTimes
    PROVE  /\ SubSeq(q, k + 1, Len(q)) \in Seq(WakeTimes)
           /\ Append(SubSeq(q, k + 1, Len(q)), now) \in Seq(WakeTimes)
<1>1. Len(q) \in Nat /\ k \in Int /\ k + 1 \in Int /\ k + 1 >= 1
      /\ \A i \in (k + 1) .. Len(q) : q[i] \in WakeTimes
  OBVIOUS
<1>2. SubSeq(q, k + 1, Len(q)) \in Seq(WakeTimes)
  BY <1>1, SubSeqProperties
<1>3. QED
  BY <1>2

(* The cache of decisions keeps its bound.                                 *)
LEMMA WakeRememberBound ==
    ASSUME WakeInv, WakeTypeOK, NEW r \in WakeRequests, NEW a \in BOOLEAN, WakeRemember(r, a)
    PROVE  Len(wkDecisions') <= WakeCache /\ wkEvicted' \subseteq WakeIds
<1> DEFINE T == [req : WakeRequests, accepted : BOOLEAN]
           e == [req |-> r, accepted |-> a]
           all == Append(wkDecisions, e)
<1>1. wkDecisions \in Seq(T) /\ e \in T
  BY DEF WakeInv, WakeTyped
<1>2. \A x \in T : x.req.id \in WakeIds
  BY DEF WakeIds
<1>3. /\ wkDecisions' = IF Len(all) > WakeCache THEN Tail(all) ELSE all
      /\ wkEvicted' = IF Len(all) > WakeCache THEN wkEvicted \cup {Head(all).req.id}
                      ELSE wkEvicted
  BY DEF WakeRemember
<1> HIDE DEF T, e
<1>4. all \in Seq(T) /\ Len(all) = Len(wkDecisions) + 1 /\ Len(wkDecisions) \in Nat
  BY <1>1
<1>5. all # <<>>
  BY <1>4
<1> HIDE DEF all
<1>6. Len(Tail(all)) = Len(all) - 1 /\ Head(all) \in T
  BY <1>4, <1>5
<1>7. Head(all).req.id \in WakeIds
  BY <1>2, <1>6
<1>8. QED
  BY <1>3, <1>4, <1>6, <1>7, WakeAssumption DEF WakeTypeOK

(* The policy engine keeps its types and its bounds.                       *)
LEMMA WakeTypesStep == WakeInv /\ WakeTypeOK /\ [WakeNext]_wkVars => WakeTypeOK'
<1> SUFFICES ASSUME WakeInv, WakeTypeOK, [WakeNext]_wkVars PROVE WakeTypeOK'
  OBVIOUS
<1> DEFINE T == [req : WakeRequests, accepted : BOOLEAN]
<1>1. /\ wkPending' \subseteq WakeRequests /\ wkSent' \in [WakeIds -> Nat]
      /\ \A i \in DOMAIN wkDecisions' : wkDecisions'[i].accepted \in BOOLEAN
  <2>1. WakeInv'
    BY WakeStep
  <2>2. wkDecisions' \in Seq(T)
    BY <2>1 DEF WakeInv, WakeTyped
  <2> HIDE DEF T
  <2>3. \A i \in DOMAIN wkDecisions' : wkDecisions'[i] \in T
    BY <2>2
  <2> USE DEF T
  <2>4. QED
    BY <2>1, <2>3 DEF WakeInv, WakeTyped
<1>2. /\ wkNow \in WakeTimes /\ wkPower \in DOMAIN WakeRoutes
      /\ wkAttempts \in WakeQueues /\ wkLast \in [WakeSources -> SUBSET WakeTimes]
      /\ Len(wkDecisions) <= WakeCache /\ wkEvicted \subseteq WakeIds
  BY DEF WakeTypeOK, WakeQueues
<1>3. SUFFICES /\ wkNow' \in WakeTimes /\ wkPower' \in DOMAIN WakeRoutes
               /\ wkAttempts' \in WakeQueues /\ wkLast' \in [WakeSources -> SUBSET WakeTimes]
               /\ Len(wkDecisions') <= WakeCache /\ wkEvicted' \subseteq WakeIds
  BY <1>1 DEF WakeTypeOK, WakeQueues
<1>4. ASSUME NEW r \in WakeRequests, WakeReceive(r)
      PROVE  /\ wkAttempts' \in WakeQueues /\ wkLast' \in [WakeSources -> SUBSET WakeTimes]
             /\ Len(wkDecisions') <= WakeCache /\ wkEvicted' \subseteq WakeIds
  <2>1. ASSUME WakeRefuse(r) \/ WakeAccept(r)
        PROVE  /\ wkLast' \in [WakeSources -> SUBSET WakeTimes]
               /\ Len(wkDecisions') <= WakeCache /\ wkEvicted' \subseteq WakeIds
    <3>1. WakeRemember(r, TRUE) \/ WakeRemember(r, FALSE)
      BY <2>1 DEF WakeRefuse, WakeAccept
    <3>2. wkLast' = wkLast \/ wkLast' = [wkLast EXCEPT ![r.source] = {wkNow}]
      BY <2>1 DEF WakeRefuse, WakeAccept
    <3>3. wkLast' \in [WakeSources -> SUBSET WakeTimes]
      BY <1>2, <3>2
    <3>4. QED
      BY <3>1, <3>3, WakeRememberBound
  <2>2. CASE WakeUntimely(r) /\ WakeRefuse(r) /\ UNCHANGED wkAttempts
    BY <1>2, <2>1, <2>2
  <2>3. CASE ~(WakeUntimely(r) /\ WakeRefuse(r) /\ UNCHANGED wkAttempts)
    <3>1. r.source \in WakeSources /\ (WakeRefuse(r) \/ WakeAccept(r))
      BY <1>4, <2>3 DEF WakeReceive, WakeEvaluateNew, WakeUntimely
    <3>2. PICK k \in 0 .. Len(wkAttempts[r.source]) :
             \/ wkAttempts' = [wkAttempts EXCEPT ![r.source] = WakeRecent(r.source, k)]
             \/ wkAttempts' = [wkAttempts EXCEPT ![r.source] =
                                  Append(WakeRecent(r.source, k), wkNow)]
      BY <1>4, <2>3 DEF WakeReceive, WakeEvaluateNew
    <3>3. PICK q \in Seq(WakeTimes) : q = wkAttempts[r.source]
      BY <1>2, <3>1 DEF WakeQueues
    <3>4. /\ WakeRecent(r.source, k) \in Seq(WakeTimes)
          /\ Append(WakeRecent(r.source, k), wkNow) \in Seq(WakeTimes)
      BY <1>2, <3>2, <3>3, WakeQueueTimes DEF WakeRecent
    <3>5. wkAttempts' \in WakeQueues
      BY <1>2, <3>1, <3>2, <3>4 DEF WakeQueues
    <3>6. QED
      BY <2>1, <3>1, <3>5
  <2>4. QED
    BY <2>2, <2>3
<1>5. CASE \E r \in WakeRequests : WakeReceive(r)
  BY <1>2, <1>4, <1>5 DEF WakeReceive
<1>6. CASE \E r \in WakeRequests : WakeDispatch(r)
  BY <1>2, <1>6 DEF WakeDispatch
<1>7. CASE WakeTick
  BY <1>2, <1>7, WakeAssumption DEF WakeTick, WakeTimes
<1>8. CASE WakePowerChange
  BY <1>2, <1>8 DEF WakePowerChange
<1>9. CASE WakeRestart
  <2>1. wkAttempts' \in WakeQueues
    BY <1>9 DEF WakeRestart, WakeQueues
  <2>2. wkDecisions' = <<>>
    BY <1>9 DEF WakeRestart
  <2>3. Len(wkDecisions') = 0
    BY <2>2
  <2>4. wkLast' \in [WakeSources -> SUBSET WakeTimes]
    BY <1>9 DEF WakeRestart
  <2>5. UNCHANGED <<wkNow, wkPower>> /\ wkEvicted' = {}
    BY <1>9 DEF WakeRestart
  <2>6. QED
    BY <1>2, <2>1, <2>3, <2>4, <2>5, WakeAssumption
<1>10. CASE UNCHANGED wkVars
  BY <1>2, <1>10 DEF wkVars
<1>11. QED
  BY <1>5, <1>6, <1>7, <1>8, <1>9, <1>10 DEF WakeNext

(* They hold initially.                                                    *)
LEMMA WakeTypesInit == WakeInit => WakeTypeOK
<1> SUFFICES ASSUME WakeInit PROVE WakeTypeOK
  OBVIOUS
<1>1. wkNow \in WakeTimes /\ wkPower \in DOMAIN WakeRoutes
  BY WakeAssumption DEF WakeInit, WakeTimes
<1>2. wkDecisions = <<>> /\ Len(wkDecisions) = 0 /\ DOMAIN wkDecisions = {}
  BY DEF WakeInit
<1>3. wkAttempts \in [WakeSources -> Seq(WakeTimes)] /\ wkLast \in [WakeSources -> SUBSET WakeTimes]
  BY DEF WakeInit
<1>4. QED
  BY <1>1, <1>2, <1>3, WakeAssumption DEF WakeInit, WakeTypeOK

(* The cache of decisions keeps its size, and attempts and cooldowns are   *)
(* times of the clock of a known source, for any requests and restarts of  *)
(* the supervisor (wake_request_policy.py, wake_power_supervisor.py).      *)
THEOREM WakeTypes == WakeSpec => []WakeTypeOK
<1> DEFINE I == WakeInv /\ WakeTypeOK
<1>1. WakeInit => I
  BY WakeInitInv, WakeTypesInit
<1>2. I /\ [WakeNext]_wkVars => I'
  BY WakeStep, WakeTypesStep
<1>3. I => WakeTypeOK
  BY DEF WakeTypeOK
<1> HIDE DEF I
<1> QED
  BY <1>1, <1>2, <1>3, PTL DEF WakeSpec
=============================================================================
