---------------------------- MODULE AudioIngress ----------------------------
(***************************************************************************)
(* Audio events enter the Runtime pipeline through a durable worker, which  *)
(* hands the same dispatch to AudioIngressRuntimeHandler again and again    *)
(* until it has a terminal receipt to store: services/audio_ingress_runtime *)
(* over the receipt ledger of services/execution_receipt_sink, with the two *)
(* read-only destinations (audio_voice_ingress_executor and                 *)
(* audio_voice_request_executor) and the steps of the pipeline between      *)
(* which the process can die.  The ledger, the observations and what the    *)
(* worker stored survive; the call does not.                                *)
(*                                                                          *)
(* The worker and its journal are not in the repository.  What is assumed   *)
(* of them is their lease: one call of dispatch at a time for a dispatch.   *)
(***************************************************************************)
EXTENDS Integers, Sequences, FiniteSets

CONSTANTS
  AuDispatches,   \* dispatch ids
  AuEvents,       \* the envelope of each dispatch: a function to records
  AuRoutes,       \* the event types whose destination was provisioned
  AuMaxText,      \* MAX_VOICE_REQUEST_CHARACTERS
  AuFaults        \* bound on crashes and receipts that fail to persist

ASSUME AuAssumption == AuFaults \in Nat

VARIABLES
  auLedger,       \* the receipt chain: a sequence of [intent, event, id]
  auChain,        \* does verify_chain() accept the file?
  auCall,         \* per dispatch, where its call of dispatch() stands
  auSeen,         \* per dispatch, how often the observation sink recorded it
  auStored,       \* per dispatch, the terminal event the worker was given
  auFaults        \* crashes and lost receipts so far

auVars == <<auLedger, auChain, auCall, auSeen, auStored, auFaults>>

(* A denial by Court does not count as the end of an intent.               *)
MutAuTerminalEvents ==
  {"EXECUTION_COMPLETED", "EXECUTION_FAILED", "EXECUTION_DENIED"}

AuTerminalEvents ==
  {"COURT_DENIED", "EXECUTION_COMPLETED", "EXECUTION_FAILED", "EXECUTION_DENIED"}

AuCalls == {"idle", "submit", "gates", "started", "handled", "failed", "resolve"}

-----------------------------------------------------------------------------
(* The ledger. *)

(* The places of an intent's receipts in the chain. *)
AuMatching(d) == {i \in DOMAIN auLedger : auLedger[i].intent = d}

AuTerminals(d) == {i \in AuMatching(d) : auLedger[i].event \in AuTerminalEvents}

AuTerminal(d) == auLedger[CHOOSE i \in AuTerminals(d) : TRUE]

AuHas(d, event) == \E i \in AuMatching(d) : auLedger[i].event = event

(* resolve_intent: "raises" stands for a RuntimeReceiptLedgerError. *)
AuResolve(d) ==
  IF ~auChain \/ (\E i, j \in AuTerminals(d) : i # j)
  THEN "raises"
  ELSE IF AuTerminals(d) # {}
       THEN IF AuTerminal(d).id THEN "terminal" ELSE "raises"
       ELSE IF AuHas(d, "EXECUTION_STARTED")
            THEN "execution_started_without_terminal"
            ELSE IF AuHas(d, "COURT_AUTHORIZED")
                 THEN "court_authorized_only"
                 ELSE "unseen"

(* What became of a receipt: kept; lost before it was appended; or appended, *)
(* with a logger that returned no identifier, which the sink reports as a   *)
(* failure although the entry is in the chain.                              *)
AuFates == {"kept", "lost", "unnamed"}

AuReceipt(d, event, fate) == [intent |-> d, event |-> event, id |-> fate = "kept"]

AuPersist(d, event, fate) ==
  /\ fate # "kept" => auFaults < AuFaults
  /\ auFaults' = IF fate = "kept" THEN auFaults ELSE auFaults + 1
  /\ auLedger' = IF fate = "lost" THEN auLedger
                                  ELSE Append(auLedger, AuReceipt(d, event, fate))

-----------------------------------------------------------------------------
(* The two destinations. *)

AuIngress == "audio.voice_input.ready"
AuRequest == "audio.wake_name.matched"

(* The payload fields a route requires; others stay outside the executor. *)
AuRequired(type) ==
  IF type = AuIngress
  THEN {"selected_logical_name"}
  ELSE {"utterance_id", "wake_name", "request_text", "request_text_length",
        "command_authority"}

(* _voice_request_safety_check; "none" is a confidence that was not given. *)
AuRequestSafe(p) ==
  /\ p.command_authority = FALSE
  /\ p.utterance = "trimmed"
  /\ p.wake_name = "canonical"
  /\ p.text = "canonical"
  /\ p.length <= AuMaxText
  /\ p.declared = p.length
  /\ p.confidence \in 0 .. 100 \cup {-1}

AuSafe(e) == e.type = AuRequest => AuRequestSafe(e.payload)

(* _validate_envelope *)
AuWellFormed(e) == e.normalized /\ e.sequence >= 0

(* build_audio_ingress_runtime_binding: it needs at least one destination. *)
AuRoutesOK == AuRoutes # {} /\ AuRoutes \subseteq {AuIngress, AuRequest}

(* The routes of the binding: a destination that was not provisioned has none. *)
AuRouted(e) == e.type \in AuRoutes

-----------------------------------------------------------------------------
AuInit ==
  /\ auLedger = <<>>
  /\ auChain = TRUE
  /\ auCall = [d \in AuDispatches |-> "idle"]
  /\ auSeen = [d \in AuDispatches |-> 0]
  /\ auStored = [d \in AuDispatches |-> "none"]
  /\ auFaults = 0

(* The call ends, or goes on. *)
AuGo(d, where) == auCall' = [auCall EXCEPT ![d] = where]

(* dispatch() up to pipeline.submit: a terminal receipt is returned as it    *)
(* is, an execution that started is never repeated, and an event without a  *)
(* route, or without a field its route requires, is refused with no receipt. *)
AuReplay(d) ==
  /\ AuResolve(d) = "terminal"
  /\ auStored' = [auStored EXCEPT ![d] = AuTerminal(d).event]
  /\ UNCHANGED auCall

AuSubmit(d) ==
  /\ AuResolve(d) \in {"unseen", "court_authorized_only"}
  /\ AuRouted(AuEvents[d])
  /\ AuRequired(AuEvents[d].type) \subseteq AuEvents[d].fields
  /\ AuGo(d, "submit")
  /\ UNCHANGED auStored

AuDispatch(d) ==
  /\ auCall[d] = "idle"
  /\ auStored[d] = "none"
  /\ AuWellFormed(AuEvents[d])
  /\ AuReplay(d) \/ AuSubmit(d)
  /\ UNCHANGED <<auLedger, auChain, auSeen, auFaults>>

(* authorize_intent: a grant is in force only when its receipt was persisted. *)
AuCourt(d, allowed, fate) ==
  /\ auCall[d] = "submit"
  /\ AuPersist(d, IF allowed THEN "COURT_AUTHORIZED" ELSE "COURT_DENIED", fate)
  /\ AuGo(d, IF allowed /\ fate = "kept" THEN "gates" ELSE "resolve")
  /\ UNCHANGED <<auChain, auSeen, auStored>>

(* execute_authorized refuses before the start: the token expired, or the   *)
(* parameters fail the safety gate.                                         *)
AuRefuse(d, fate) ==
  /\ auCall[d] = "gates"
  /\ AuPersist(d, "EXECUTION_DENIED", fate)
  /\ AuGo(d, "resolve")
  /\ UNCHANGED <<auChain, auSeen, auStored>>

AuStart(d, fate) ==
  /\ auCall[d] = "gates"
  /\ AuSafe(AuEvents[d])
  /\ AuPersist(d, "EXECUTION_STARTED", fate)
  /\ AuGo(d, IF fate = "kept" THEN "started" ELSE "resolve")
  /\ UNCHANGED <<auChain, auSeen, auStored>>

(* The token could not be consumed after the start receipt. *)
AuUnconsumed(d, fate) ==
  /\ auCall[d] = "started"
  /\ AuPersist(d, "EXECUTION_DENIED", fate)
  /\ AuGo(d, "resolve")
  /\ UNCHANGED <<auChain, auSeen, auStored>>

(* The destination's handler: the observation is recorded and its receipt   *)
(* named; recorded without a receipt id, which is a failure; or not at all.  *)
AuHandler(d, recorded, named) ==
  /\ auCall[d] = "started"
  /\ auSeen' = [auSeen EXCEPT ![d] = IF recorded THEN @ + 1 ELSE @]
  /\ AuGo(d, IF recorded /\ named THEN "handled" ELSE "failed")
  /\ UNCHANGED <<auLedger, auChain, auStored, auFaults>>

AuFinish(d, fate) ==
  /\ auCall[d] \in {"handled", "failed"}
  /\ AuPersist(d, IF auCall[d] = "handled" THEN "EXECUTION_COMPLETED"
                                           ELSE "EXECUTION_FAILED", fate)
  /\ AuGo(d, "resolve")
  /\ UNCHANGED <<auChain, auSeen, auStored>>

(* The end of dispatch(): the terminal receipt, read back from the ledger,  *)
(* is what the worker gets; without one the call raises.                    *)
AuReturn(d) ==
  /\ auCall[d] = "resolve"
  /\ AuGo(d, "idle")
  /\ auStored' = [auStored EXCEPT ![d] =
       IF AuResolve(d) = "terminal" THEN AuTerminal(d).event ELSE @]
  /\ UNCHANGED <<auLedger, auChain, auSeen, auFaults>>

(* The process dies: every call in progress is gone. *)
AuCrash ==
  /\ auFaults < AuFaults
  /\ \E d \in AuDispatches : auCall[d] # "idle"
  /\ auFaults' = auFaults + 1
  /\ auCall' = [d \in AuDispatches |-> "idle"]
  /\ UNCHANGED <<auLedger, auChain, auSeen, auStored>>

(* The receipt file is damaged: its chain no longer verifies. *)
AuDamage ==
  /\ auFaults < AuFaults
  /\ auChain
  /\ auChain' = FALSE
  /\ auFaults' = auFaults + 1
  /\ UNCHANGED <<auLedger, auCall, auSeen, auStored>>

AuNext ==
  \/ AuCrash
  \/ AuDamage
  \/ \E d \in AuDispatches :
       \/ AuDispatch(d)
       \/ AuReturn(d)
       \/ \E recorded, named \in BOOLEAN : AuHandler(d, recorded, named)
       \/ \E fate \in AuFates :
            \/ \E allowed \in BOOLEAN : AuCourt(d, allowed, fate)
            \/ AuRefuse(d, fate)
            \/ AuStart(d, fate)
            \/ AuUnconsumed(d, fate)
            \/ AuFinish(d, fate)

AuSpec == AuInit /\ [][AuNext]_auVars

-----------------------------------------------------------------------------
AuTypeOK ==
  /\ auLedger \in Seq([intent : AuDispatches, id : BOOLEAN,
                       event : AuTerminalEvents
                               \cup {"COURT_AUTHORIZED", "EXECUTION_STARTED"}])
  /\ auChain \in BOOLEAN
  /\ auCall \in [AuDispatches -> AuCalls]
  /\ auSeen \in [AuDispatches -> Nat]
  /\ auStored \in [AuDispatches -> AuTerminalEvents \cup {"none"}]
  /\ auFaults \in 0 .. AuFaults

(* However often the worker repeats a dispatch, and wherever the process     *)
(* died in between, the destination records its observation at most once    *)
(* (audio_ingress_runtime.py dispatch: the replay check and the refusal of   *)
(* an execution that started without an end).                               *)
AuOnce == \A d \in AuDispatches : auSeen[d] <= 1

(* A dispatch never gets a second terminal receipt, so resolve_intent never  *)
(* finds the contradictory evidence that would refuse it for ever.          *)
AuOneTerminal == \A d \in AuDispatches :
  Cardinality({i \in DOMAIN auLedger :
                 /\ auLedger[i].intent = d
                 /\ auLedger[i].event \in {"COURT_DENIED", "EXECUTION_COMPLETED",
                                           "EXECUTION_FAILED", "EXECUTION_DENIED"}}) <= 1

(* What the worker stores is true: "completed" only of an event that was    *)
(* recorded, and "denied" only of one that was not.                         *)
AuStoredTrue == \A d \in AuDispatches :
  /\ auStored[d] = "EXECUTION_COMPLETED" => auSeen[d] = 1
  /\ auStored[d] \in {"COURT_DENIED", "EXECUTION_DENIED"} => auSeen[d] = 0

(* A dispatch is recorded once, ends once, and is stored as what happened. *)
AuSound == AuOnce /\ AuOneTerminal /\ AuStoredTrue
=============================================================================
