----------------------------- MODULE SpeechEgress -----------------------------
(***************************************************************************)
(* From a health event to Audio Studio: the self-health bridge turns an    *)
(* event into a speech expression unless it said the same of the module a  *)
(* moment ago; the egress puts the expression into a bounded outbox in a   *)
(* database; the Runtime's loop delivers one record per turn over HTTP,    *)
(* again and again until Audio answers.  A content is data; an expression  *)
(* is known by its id and by the content it was first queued with.         *)
(***************************************************************************)
EXTENDS Integers, SequencesExt

CONSTANTS
    SpModules, SpPrints,  \* modules, and fingerprints of a health event
    SpForeign,            \* expressions another component may publish
    SpWindow,             \* repeat_window_seconds of the bridge
    SpMaxPending,         \* max_pending of the outbox
    SpExponent,           \* exponent at which the backoff stops growing (6)
    SpMaxDelay,           \* the longest backoff (60)
    SpUptime,             \* bound: seconds of uptime the model tells apart
    SpRows,               \* bound: expressions queued
    SpReboots             \* bound: reboots of the host

ASSUME SpAssumption ==
    /\ SpWindow \in Nat /\ SpMaxPending \in Nat \ {0} /\ SpExponent \in Nat \ {0}
    /\ SpMaxDelay \in Nat \ {0} /\ SpUptime \in Nat /\ SpReboots \in Nat

VARIABLES
    spUptime,   \* the monotonic clock since boot, up to SpUptime
    spLast,     \* per module: what the bridge said last, and how long ago
    spOutbox,   \* the table speech_egress, in the order of its ids
    spSending,  \* the record being delivered, with what Audio did, or nothing
    spAudio,    \* Audio Studio: idempotency keys it accepted
    spHeard,    \* history: times Audio took each expression as new
    spReboots

spVars == <<spUptime, spLast, spOutbox, spSending, spAudio, spHeard, spReboots>>

SpSilent == [print |-> "none", age |-> 0]
SpOver == {"delivered", "quarantined"}

SpTypeOK ==
    /\ spUptime \in 0 .. SpUptime
    /\ \A m \in SpModules : spLast[m].print \in SpPrints \cup {"none"}
    /\ \A i \in DOMAIN spOutbox : /\ spOutbox[i].status \in SpOver \cup {"pending"}
                                  /\ spOutbox[i].attempts \in 0 .. SpExponent
                                  /\ spOutbox[i].wait \in Nat
    /\ Len(spSending) <= 1

SpInit ==
    /\ spUptime = 0 /\ spLast = [m \in SpModules |-> SpSilent]
    /\ spOutbox = <<>> /\ spSending = <<>> /\ spAudio = {}
    /\ spHeard = <<>> /\ spReboots = 0

-----------------------------------------------------------------------------
(* The outbox.                                                             *)

SpPending == {i \in DOMAIN spOutbox : spOutbox[i].status = "pending"}

(* The shared contract: its exact fields, approved and without authority.  *)
SpContract(e) == e.content # "claims authority"

SpNewRow(e) == [id |-> e.id, content |-> e.content, status |-> "pending",
                attempts |-> 0, wait |-> 0]

(* An id that is known is not queued again: with the same content it is    *)
(* the same row, with another it is refused.                               *)
SpQueued(e) == \E i \in DOMAIN spOutbox : spOutbox[i].id = e.id

SpEnqueue(e) ==
    IF SpContract(e) /\ ~SpQueued(e) /\ Cardinality(SpPending) < SpMaxPending
    THEN /\ spOutbox' = Append(spOutbox, SpNewRow(e))
         /\ spHeard' = Append(spHeard, 0)
    ELSE UNCHANGED <<spOutbox, spHeard>>

(* Another component publishes an expression; the bus may deliver it again.*)
SpForeignEvent(e) ==
    /\ Len(spOutbox) < SpRows
    /\ SpEnqueue(e)
    /\ spOutbox' # spOutbox
    /\ UNCHANGED <<spUptime, spLast, spSending, spAudio, spReboots>>

(* The renderer's draft, under a new id.                                   *)
SpDraft == [id |-> Len(spOutbox), content |-> "draft"]

(* SelfHealthSpeechBridge.handle: an equal fingerprint within the window   *)
(* is not repeated.  What the egress refuses is remembered as said.        *)
SpHealthEvent(m, print) ==
    /\ spLast[m].print # print \/ spLast[m].age >= SpWindow
    /\ Len(spOutbox) < SpRows
    /\ SpEnqueue(SpDraft)
    /\ spLast' = [spLast EXCEPT ![m] = [print |-> print, age |-> 0]]
    /\ UNCHANGED <<spUptime, spSending, spAudio, spReboots>>

-----------------------------------------------------------------------------
(* Delivery: one attempt per turn of the Runtime's loop.                   *)

(* A row is given up once its delay stops growing.                         *)
MutSpDue == {i \in SpPending : spOutbox[i].wait = 0 /\ spOutbox[i].attempts < SpExponent}

SpDue == {i \in SpPending : spOutbox[i].wait = 0}

(* Each attempt carries an idempotency key of its own.                     *)
MutSpKey(i) == <<i, spOutbox[i].attempts>>

(* The stored envelope, and so its key, is that of the row.                *)
SpKey(i) == <<i, 0>>

(* The oldest due row is sent.  Audio takes it, or it knows the key, or it *)
(* rejects the envelope, or the request does not reach it.                 *)
SpSend(reached) ==
    /\ spSending = <<>> /\ SpDue # {}
    /\ LET i == Min(SpDue)
           known == SpKey(i) \in spAudio
       IN  /\ spSending' = <<[row |-> i, at |-> reached]>>
           /\ IF reached = "accepts" /\ ~known
              THEN /\ spAudio' = spAudio \cup {SpKey(i)}
                   /\ spHeard' = [spHeard EXCEPT ![i] = @ + 1]
              ELSE UNCHANGED <<spAudio, spHeard>>
    /\ UNCHANGED <<spUptime, spLast, spOutbox, spReboots>>

SpDelay(attempts) == LET d == 2 ^ attempts IN IF d < SpMaxDelay THEN d ELSE SpMaxDelay

(* mark_delivered and quarantine: the row is closed and its text removed.  *)
SpFinish(i, status) == spOutbox' = [spOutbox EXCEPT ![i].status = status]

SpRetry(i) ==
    LET attempts == IF spOutbox[i].attempts < SpExponent THEN spOutbox[i].attempts + 1
                    ELSE SpExponent
    IN  spOutbox' = [spOutbox EXCEPT ![i].attempts = attempts, ![i].wait = SpDelay(attempts)]

(* The answer, if it arrives: a 202 or a duplicate 409, whose receipt id   *)
(* is only stored and may be missing, a terminal status, or anything else. *)
SpAnswered ==
    /\ spSending # <<>> /\ spSending[1].at # "lost"
    /\ SpFinish(spSending[1].row,
                IF spSending[1].at = "accepts" THEN "delivered" ELSE "quarantined")
    /\ spSending' = <<>>
    /\ UNCHANGED <<spUptime, spLast, spAudio, spHeard, spReboots>>

SpUnanswered ==
    /\ spSending # <<>>
    /\ SpRetry(spSending[1].row)
    /\ spSending' = <<>>
    /\ UNCHANGED <<spUptime, spLast, spAudio, spHeard, spReboots>>

-----------------------------------------------------------------------------
(* Time, and restarts.  A row's next attempt is an instant of the          *)
(* monotonic clock: the model keeps how far it is away.                    *)

SpTick ==
    /\ spSending = <<>>
    /\ spUptime' = IF spUptime < SpUptime THEN spUptime + 1 ELSE SpUptime
    /\ spOutbox' = [i \in DOMAIN spOutbox |->
          [spOutbox[i] EXCEPT !.wait = IF @ = 0 THEN 0 ELSE @ - 1]]
    /\ spLast' = [m \in SpModules |->
          [spLast[m] EXCEPT !.age = IF @ < SpWindow THEN @ + 1 ELSE @]]
    /\ <<spUptime', spOutbox', spLast'>> # <<spUptime, spOutbox, spLast>>
    /\ UNCHANGED <<spSending, spAudio, spHeard, spReboots>>

(* The Runtime restarts: the bridge forgets, the outbox does not.          *)
SpRestart ==
    /\ spReboots < SpReboots /\ spReboots' = spReboots + 1
    /\ spLast' = [m \in SpModules |-> SpSilent] /\ spSending' = <<>>
    /\ UNCHANGED <<spUptime, spOutbox, spAudio, spHeard>>

(* The host reboots: the monotonic clock starts again at zero, and the     *)
(* stored instants are as far away as the uptime that is gone.             *)
SpReboot ==
    /\ spReboots < SpReboots /\ spReboots' = spReboots + 1
    /\ spLast' = [m \in SpModules |-> SpSilent] /\ spSending' = <<>>
    /\ spUptime' = 0
    /\ spOutbox' = [i \in DOMAIN spOutbox |->
          [spOutbox[i] EXCEPT !.wait = IF spOutbox[i].attempts = 0 THEN 0
                                       ELSE @ + spUptime]]
    /\ UNCHANGED <<spAudio, spHeard>>

SpNext ==
    \/ \E e \in SpForeign : SpForeignEvent(e)
    \/ \E m \in SpModules, print \in SpPrints : SpHealthEvent(m, print)
    \/ \E reached \in {"accepts", "rejects", "lost"} : SpSend(reached)
    \/ SpAnswered \/ SpUnanswered \/ SpTick \/ SpRestart \/ SpReboot

(* The loop turns and the clock runs; Audio, asked often enough, answers.  *)
SpFairness ==
    /\ WF_spVars(SpTick) /\ WF_spVars(\E r \in {"accepts", "rejects", "lost"} : SpSend(r))
    /\ WF_spVars(SpAnswered \/ SpUnanswered)
    /\ SF_spVars(SpSend("accepts")) /\ SF_spVars(SpAnswered)

-----------------------------------------------------------------------------
(* Audio takes an expression as new at most once, although the Runtime may *)
(* lose its answer, be killed before it records it, and send it again: the *)
(* key is the stored envelope's.                                           *)
SpHeardOnce == \A i \in DOMAIN spHeard : spHeard[i] <= 1

(* The outbox never holds more pending rows than its bound, nor two rows   *)
(* of one expression.                                                      *)
SpOutboxBounded ==
    /\ Cardinality(SpPending) <= SpMaxPending
    /\ \A i, j \in DOMAIN spOutbox : spOutbox[i].id = spOutbox[j].id => i = j

(* Every queued expression is delivered or quarantined in the end.         *)
SpSettles == \A i \in 1 .. SpRows :
    (i \in DOMAIN spOutbox) ~> (i \in DOMAIN spOutbox /\ spOutbox[i].status \in SpOver)

(* An expression is queued once, within the bound, and heard once.         *)
SpSound == SpHeardOnce /\ SpOutboxBounded
=============================================================================
