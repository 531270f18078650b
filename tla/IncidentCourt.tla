---------------------------- MODULE IncidentCourt ----------------------------
(***************************************************************************)
(* From a responder's words to a capability token: the proposal is admitted  *)
(* (services/responder_action_intake), given life-safety priority            *)
(* (emergency_action_eligibility), judged by the incident's action policy    *)
(* (incident_action_policy), resolved to a capability and a logical target   *)
(* (incident_action_resolver), bound to an incident-scoped Court context     *)
(* (incident_court_binding) and put to Court (court_authorization with       *)
(* court_authority and court_policy_resolution), which ordinary sessions     *)
(* use at the same time.                                                     *)
(*                                                                           *)
(* Each function decides on its arguments alone.  What makes the path hard   *)
(* is time: every stage hands its decision to the next one, while the        *)
(* incident ends or another one begins, the evidence comes and goes, and the *)
(* policy file is edited.  A stage here reads the present context and the    *)
(* earlier decisions of its request, and a caller may repeat any stage.      *)
(***************************************************************************)
EXTENDS Integers, Sequences, FiniteSets, FiniteSetsExt

CONSTANTS
  IcIncidents,   \* incident ids
  IcRequests,    \* request ids
  IcProposals,   \* what a responder may ask:
                 \* [action, incident, exact, clean]
  IcPolicyFile,  \* policy id -> [capabilities, targets, ttl]
  IcSessions,    \* ordinary intents, each with its capability context
  IcEdits,       \* bound on changes of incident, evidence and policy file
  IcCalls        \* bound on calls of Court

(* _evaluate refuses a policy whose lifetime is not 1 to 300 seconds;      *)
(* intent ids are unique, an incident's and a session's differ.            *)
ASSUME IcAssumption ==
  /\ \A p \in DOMAIN IcPolicyFile : IcPolicyFile[p].ttl \in 1 .. 300
  /\ \A s \in IcSessions : /\ s.intent \notin IcRequests
                           /\ s.candidates \in Seq(STRING) /\ s.policies \in Seq(STRING)
  /\ IcEdits \in Nat /\ IcCalls \in Nat

VARIABLES
  icAsks,        \* the proposal of each request
  icIncident,    \* the EmergencyIncidentContext: [id, active, verified]
  icEvidence,    \* the facts the owning layers vouch for now
  icRetired,     \* policies whose status is no longer "active"
  icReq,         \* per request, the latest decision of each stage
  icTokens,      \* the tokens Court issued
  icReceipts,    \* the receipts it persisted
  icEdits,       \* changes so far
  icCalls        \* calls of Court so far

icVars == <<icAsks, icIncident, icEvidence, icRetired, icReq, icTokens, icReceipts,
            icEdits, icCalls>>

icWorld == <<icAsks, icIncident, icEvidence, icRetired, icEdits>>
icCourt == <<icTokens, icReceipts, icCalls>>

IcFacts == {"vehicle-stationary-verified", "rescue-access-needed",
            "responder-on-scene-verified"}

-----------------------------------------------------------------------------
(* incident_action_policy and incident_action_resolver: the fixed tables. *)

IcVisibility == {"hazards-on", "cabin-light-on", "exterior-light-on"}

IcRescueAccess == {"unlock-door", "unlock.driver-door", "unlock.passenger-door",
                   "unlock-all-doors"}

(* The names and, for "steer.left" and its kind, the prefixes. *)
IcMotionOrPower ==
  {"start-engine", "stop-engine", "shift-gear", "release-parking-brake",
   "apply-throttle", "apply-brake", "steer", "drive", "propulsion-on",
   "propulsion-off", "steer.left", "brake.hard"}

IcFamily(action) ==
  CASE action \in IcVisibility -> "visibility"
    [] action \in IcRescueAccess -> "rescue-access"
    [] action \in IcMotionOrPower -> "motion-or-power"
    [] OTHER -> "unknown"

IcActionMap ==
  [a \in IcVisibility \cup (IcRescueAccess \ {"unlock-door"}) |->
     CASE a = "hazards-on" -> <<"visibility.request", "vehicle.visibility.hazards">>
       [] a = "cabin-light-on" -> <<"visibility.request", "vehicle.visibility.cabin">>
       [] a = "exterior-light-on" -> <<"visibility.request", "vehicle.visibility.exterior">>
       [] a = "unlock.driver-door" -> <<"access.request", "vehicle.access.door.driver">>
       [] a = "unlock.passenger-door" -> <<"access.request", "vehicle.access.door.passenger">>
       [] a = "unlock-all-doors" -> <<"access.request", "vehicle.access.doors.all">>]

IcAmbiguous == {"unlock-door"}

IcEmergencyPolicy(capability) ==
  IF capability = "visibility.request" THEN "emergency_visibility_default"
                                       ELSE "emergency_access_default"

-----------------------------------------------------------------------------
(* The stages. *)

(* The present context is the active, verified incident of request r. *)
IcInForce(r) ==
  /\ icIncident.id = icAsks[r].incident
  /\ icIncident.active
  /\ icIncident.verified

(* The plan has the six fields and no other; an executable extra raises. *)
IcPlanExact(r) == icAsks[r].exact

(* Its action is symbolic, its source the responder's conversation, and it  *)
(* carries no authority; anything else raises.                              *)
IcProposalClean(r) == icAsks[r].clean

(* admit_responder_action_proposal *)
IcAdmit(r) ==
  /\ ~icReq[r].admitted
  /\ IcPlanExact(r)
  /\ IcProposalClean(r)
  /\ icIncident.active
  /\ icIncident.id = icAsks[r].incident
  /\ icReq' = [icReq EXCEPT ![r].admitted = TRUE]
  /\ UNCHANGED <<icWorld, icCourt>>

(* evaluate_emergency_first_eligibility *)
IcPrioritise(r) ==
  /\ icReq[r].admitted
  /\ icReq' = [icReq EXCEPT ![r].eligible = IcInForce(r)]
  /\ UNCHANGED <<icWorld, icCourt>>

IcMissing == IcFacts \ icEvidence

(* evaluate_incident_action_policy: [state, the priority band is life-safety] *)
IcJudgement(r) ==
  LET family == IcFamily(icAsks[r].action) IN
  IF ~IcInForce(r) \/ ~icReq[r].eligible
  THEN [state |-> "denied", first |-> FALSE]
  ELSE IF family \in {"motion-or-power", "unknown"}
       THEN [state |-> "denied", first |-> TRUE]
       ELSE IF family = "rescue-access" /\ IcMissing # {}
            THEN [state |-> "specific-evidence-required", first |-> TRUE]
            ELSE [state |-> "eligible-for-governed-resolution", first |-> TRUE]

(* judgedOn is no field of the code: the facts the decision was taken on. *)
IcJudge(r) ==
  /\ icReq[r].admitted
  /\ icReq' = [icReq EXCEPT ![r].policy = IcJudgement(r), ![r].judgedOn = icEvidence]
  /\ UNCHANGED <<icWorld, icCourt>>

(* resolve_incident_action: a decision that is only waiting for evidence    *)
(* keeps its place in front of ordinary work.                               *)
IcResolution(r) ==
  LET policy == icReq[r].policy
      result(state, first) == [state |-> state, first |-> first, on |-> icReq[r].judgedOn]
  IN IF ~IcInForce(r)
     THEN result("emergency-context-not-active-verified", FALSE)
     ELSE IF policy.state # "eligible-for-governed-resolution"
          THEN result("incident-policy-not-ready",
                      policy.state = "specific-evidence-required" /\ policy.first)
          ELSE IF icAsks[r].action \in IcAmbiguous
               THEN result("target-resolution-required", TRUE)
               ELSE result("logical-candidate-resolved", TRUE)

IcResolve(r) ==
  /\ icReq[r].policy.state # "none"
  /\ icReq' = [icReq EXCEPT ![r].resolution = IcResolution(r)]
  /\ UNCHANGED <<icWorld, icCourt>>

(* Binding trusts the stored resolution.                                   *)
MutIcBindable(r) == icReq[r].resolution.state = "logical-candidate-resolved"

(* _validate_inputs: the resolution may be old, so the context is looked at  *)
(* once more.                                                               *)
IcBindable(r) ==
  /\ IcInForce(r)
  /\ icReq[r].resolution.state = "logical-candidate-resolved"
  /\ icReq[r].resolution.first

(* The IncidentCourtCandidate; on and inForce are history. *)
IcBound(r) ==
  [state |-> "bound", on |-> icReq[r].resolution.on, inForce |-> IcInForce(r)]

(* bind_incident_court_candidate *)
IcBind(r) ==
  /\ IcBindable(r)
  /\ icReq' = [icReq EXCEPT ![r].bound = IcBound(r)]
  /\ UNCHANGED <<icWorld, icCourt>>

-----------------------------------------------------------------------------
(* Court. *)

IcAuthorityRanks ==
  [emergency |-> 800, medical |-> 700, owner |-> 600, service |-> 500,
   guest |-> 400, oem |-> 300, remote |-> 200, unknown |-> 0]

(* The first candidate of the highest rank, as max(..., key=...) picks it. *)
IcSelected(candidates) ==
  LET rank(i) == IcAuthorityRanks[candidates[i]]
  IN candidates[Min({i \in DOMAIN candidates :
                       \A j \in DOMAIN candidates : rank(j) <= rank(i)})]

(* resolve_authority: "" when the active authority is the highest candidate. *)
IcAuthorityState(context) ==
  LET candidates == context.candidates IN
  IF context.active \notin DOMAIN IcAuthorityRanks
  THEN "authority_unknown"
  ELSE IF candidates = <<>>
       THEN "authority_conflict"
       ELSE IF \E i \in DOMAIN candidates : candidates[i] \notin DOMAIN IcAuthorityRanks
            THEN "authority_unknown"
            ELSE IF \E i, j \in DOMAIN candidates : i # j /\ candidates[i] = candidates[j]
                 THEN "authority_conflict"
                 ELSE IF IcSelected(candidates) = "unknown"
                      THEN "authority_unknown"
                      ELSE IF context.active # IcSelected(candidates)
                           THEN "authority_conflict"
                           ELSE ""

(* _evaluate: what policy p says of a capability and a target. *)
IcFinding(p, ask) ==
  IF ask.capability \notin IcPolicyFile[p].capabilities
  THEN "policy_denied"
  ELSE IF ask.target \notin IcPolicyFile[p].targets /\ "*" \notin IcPolicyFile[p].targets
       THEN "target_denied"
       ELSE ""

(* resolve_policy_set: the first denial among the policies, in their order. *)
IcPolicyState(ask) ==
  LET denials == {i \in DOMAIN ask.policies : IcFinding(ask.policies[i], ask) # ""}
  IN IF denials = {} THEN "" ELSE IcFinding(ask.policies[Min(denials)], ask)

(* The token lives as long as the shortest policy allows. *)
IcTtl(ask) == Min({IcPolicyFile[ask.policies[i]].ttl : i \in DOMAIN ask.policies})

(* _normalize_policy_ids: at least one policy, none of them twice. *)
IcPoliciesNamed(ask) ==
  /\ ask.policies # <<>>
  /\ \A i, j \in DOMAIN ask.policies : i # j => ask.policies[i] # ask.policies[j]

(* Each policy is active in the file; one that is not makes Court raise. *)
IcPoliciesActive(ask) ==
  \A i \in DOMAIN ask.policies : ask.policies[i] \in DOMAIN IcPolicyFile \ icRetired

(* validate_intent *)
IcIntentValid(ask) == ask.normalized

(* _validate_context_binding: the intent has the identity of the context, *)
(* its profile, session, body and surface.                                *)
IcContextBound(ask) == ask.identity = ask.contextIdentity

(* authorize_intent: the checks in their order. *)
IcVerdict(ask) ==
  IF ~IcIntentValid(ask)
  THEN "invalid_intent"
  ELSE IF ~IcPoliciesNamed(ask)
  THEN "raised"
  ELSE IF IcAuthorityState(ask) # ""
  THEN IcAuthorityState(ask)
  ELSE IF ~ask.required
  THEN "invalid_capability_context"
  ELSE IF ~IcContextBound(ask)
  THEN "context_mismatch"
  ELSE IF ask.capability \notin ask.proposed
  THEN "capability_not_proposed"
  ELSE IF ~IcPoliciesActive(ask)
  THEN "raised"
  ELSE IF IcPolicyState(ask) # ""
  THEN IcPolicyState(ask)
  ELSE "authorized"

IcToken(ask) ==
  [intent |-> ask.intent, capability |-> ask.capability, target |-> ask.target,
   authority |-> IcSelected(ask.candidates), ttl |-> IcTtl(ask), ask |-> ask,
   retired |-> icRetired]

IcReceipt(ask, state) == [intent |-> ask.intent, state |-> state, incident |-> ask.incident]

(* A verdict leaves a receipt when the sink takes it; a grant without one    *)
(* is no grant (authorization_unreceipted).  Nothing is written on a raise.  *)
IcDecide(ask, kept) ==
  LET state == IcVerdict(ask) IN
  /\ icCalls < IcCalls
  /\ icCalls' = icCalls + 1
  /\ icTokens' = IF state = "authorized" /\ kept
                 THEN icTokens \cup {IcToken(ask)} ELSE icTokens
  /\ icReceipts' = IF kept /\ state # "raised"
                   THEN icReceipts \cup {IcReceipt(ask, state)} ELSE icReceipts

(* The strict Intent and context of a bound request. *)
IcIncidentAsk(r) ==
  LET mapped == IcActionMap[icAsks[r].action] IN
  [intent |-> r, incident |-> icAsks[r].incident, normalized |-> TRUE,
   active |-> "emergency", candidates |-> <<"emergency">>,
   required |-> TRUE, identity |-> icAsks[r].incident,
   contextIdentity |-> icAsks[r].incident,
   capability |-> mapped[1], target |-> mapped[2], proposed |-> {mapped[1]},
   policies |-> <<IcEmergencyPolicy(mapped[1])>>]

(* authorize_incident_court_candidate: the incident is not looked at again. *)
IcAuthorize(r, kept) ==
  /\ icReq[r].bound.state = "bound"
  /\ IcDecide(IcIncidentAsk(r), kept)
  /\ UNCHANGED <<icWorld, icReq>>

(* An ordinary session asks Court. *)
IcSessionAsks(ask, kept) ==
  /\ IcDecide(ask, kept)
  /\ UNCHANGED <<icWorld, icReq>>

-----------------------------------------------------------------------------
(* The world around the requests. *)

IcEdit == icEdits < IcEdits /\ icEdits' = icEdits + 1

IcOpens(i, verified) ==
  /\ IcEdit
  /\ ~icIncident.active
  /\ icIncident' = [id |-> i, active |-> TRUE, verified |-> verified]
  /\ UNCHANGED <<icAsks, icEvidence, icRetired, icReq, icCourt>>

IcCloses ==
  /\ IcEdit
  /\ icIncident.active
  /\ icIncident' = [icIncident EXCEPT !.active = FALSE]
  /\ UNCHANGED <<icAsks, icEvidence, icRetired, icReq, icCourt>>

IcVerifies ==
  /\ IcEdit
  /\ icIncident.active /\ ~icIncident.verified
  /\ icIncident' = [icIncident EXCEPT !.verified = TRUE]
  /\ UNCHANGED <<icAsks, icEvidence, icRetired, icReq, icCourt>>

IcEvidenceIs(facts) ==
  /\ IcEdit
  /\ facts # icEvidence
  /\ icEvidence' = facts
  /\ UNCHANGED <<icAsks, icIncident, icRetired, icReq, icCourt>>

IcRetires(p) ==
  /\ IcEdit
  /\ icRetired' = icRetired \cup {p}
  /\ UNCHANGED <<icAsks, icIncident, icEvidence, icReq, icCourt>>

IcUntouched ==
  [admitted |-> FALSE, eligible |-> FALSE, judgedOn |-> {},
   policy |-> [state |-> "none", first |-> FALSE],
   resolution |-> [state |-> "none", first |-> FALSE, on |-> {}],
   bound |-> [state |-> "none", on |-> {}, inForce |-> FALSE]]

IcInit ==
  /\ icAsks \in [IcRequests -> IcProposals]
  /\ icIncident \in [id : IcIncidents, active : {TRUE}, verified : BOOLEAN]
  /\ icEvidence \in {{}, IcFacts}
  /\ icRetired = {}
  /\ icReq = [r \in IcRequests |-> IcUntouched]
  /\ icTokens = {}
  /\ icReceipts = {}
  /\ icEdits = 0
  /\ icCalls = 0

IcNext ==
  \/ \E r \in IcRequests :
       \/ IcAdmit(r)
       \/ IcPrioritise(r)
       \/ IcJudge(r)
       \/ IcResolve(r)
       \/ IcBind(r)
       \/ \E kept \in BOOLEAN : IcAuthorize(r, kept)
  \/ \E ask \in IcSessions, kept \in BOOLEAN : IcSessionAsks(ask, kept)
  \/ \E i \in IcIncidents, verified \in BOOLEAN : IcOpens(i, verified)
  \/ IcCloses
  \/ IcVerifies
  \/ \E f \in IcFacts : IcEvidenceIs(icEvidence \ {f}) \/ IcEvidenceIs(icEvidence \cup {f})
  \/ \E p \in DOMAIN IcPolicyFile : IcRetires(p)

IcSpec == IcInit /\ [][IcNext]_icVars

-----------------------------------------------------------------------------
IcTypeOK ==
  /\ icAsks \in [IcRequests -> IcProposals]
  /\ icIncident \in [id : IcIncidents, active : BOOLEAN, verified : BOOLEAN]
  /\ icEvidence \subseteq IcFacts
  /\ icRetired \subseteq DOMAIN IcPolicyFile
  /\ \A t \in icTokens : t.ttl \in 1 .. 300
  /\ icEdits \in 0 .. IcEdits
  /\ icCalls \in 0 .. IcCalls

(* A responder's request reaches a token only by the governed path, however  *)
(* the incident and the evidence changed between the stages: its action is  *)
(* of a family Court reviews, the incident was active and verified when the *)
(* candidate was bound (an end after that does not withdraw it), and a door *)
(* is requested only by a rescue-access action for which the three facts of *)
(* the policy held when it was judged.                                      *)
IcGoverned == \A t \in icTokens : t.intent \in IcRequests =>
  LET r == t.intent IN
  /\ IcFamily(icAsks[r].action) \in {"visibility", "rescue-access"}
  /\ icReq[r].bound.inForce
  /\ t.capability = "access.request" =>
       /\ IcFamily(icAsks[r].action) = "rescue-access"
       /\ icReq[r].bound.on = IcFacts

(* Every token of Court, an incident's or a session's, names the highest     *)
(* verified authority and lives no longer than any of its policies allows,  *)
(* each of those policies was active and permits what it is for, and the    *)
(* receipt is persisted, with the incident when there is one.               *)
IcCourtSound == \A t \in icTokens :
  /\ [intent |-> t.intent, state |-> "authorized", incident |-> t.ask.incident] \in icReceipts
  /\ t.authority = t.ask.active
  /\ \A i \in DOMAIN t.ask.candidates :
       IcAuthorityRanks[t.ask.candidates[i]] <= IcAuthorityRanks[t.authority]
  /\ \A i \in DOMAIN t.ask.policies :
       LET p == t.ask.policies[i] IN
       /\ p \notin t.retired
       /\ t.capability \in IcPolicyFile[p].capabilities
       /\ {t.target, "*"} \cap IcPolicyFile[p].targets # {}
       /\ t.ttl <= IcPolicyFile[p].ttl

(* The governed path and the court at its end, together.                   *)
IcSound == IcGoverned /\ IcCourtSound
=============================================================================
