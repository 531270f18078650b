---------------------------- MODULE MCComponents ----------------------------
(***************************************************************************)
(* Ten components that share no state with one another.  A behaviour is *)
(* of one of them, chosen at the start: interleaving two would multiply the*)
(* states and show nothing that either does not show alone.                *)
(***************************************************************************)
EXTENDS WakePolicy, SensorLan, RpcTransport, ModulePackages, BodyState,
        CurrentFrame, SeatSense, AudioIngress, IncidentCourt, RuntimeBoot

VARIABLE part  \* the component that runs

Parts == {"wake", "sensors", "rpc", "packages", "body", "frame", "seat",
          "audio", "court", "boot"}

-----------------------------------------------------------------------------
(* A source with a cooldown to wait out, an id used twice, and a source    *)
(* without a policy.                                                       *)
MCWakeRequests ==
    LET Req(i, s, f, a, b) == [id |-> i, source |-> s, fit |-> f, from |-> a, till |-> b]
    IN {Req("r1", "a", TRUE, 0, 3), Req("r1", "a", FALSE, 0, 3), Req("r2", "a", TRUE, 2, 3),
        Req("r5", "x", TRUE, 0, 3)}
MCWakeRoutes == [p \in {"awake", "off"} |-> IF p = "off" THEN "wake-on-lan" ELSE "none"]

(* A sensor that declares two sets of capabilities in turn, one that never *)
(* declares any, and observations of two times.                            *)
MCSlEvents ==
    LET Seen(s, t, h, m) ==
            [kind |-> "observation", sensor |-> s, recv |-> t, health |-> h, maturity |-> m]
    IN {[kind |-> "capabilities", sensor |-> "s1", caps |-> {"c1"}],
        [kind |-> "capabilities", sensor |-> "s1", caps |-> {"c2"}],
        [kind |-> "lifecycle", sensor |-> "s2", state |-> "ready"],
        Seen("s1", 1, "ok", 1), Seen("s1", 2, "bad", 0), Seen("s2", 1, "ok", 1)}
MCSlSubscribers == {[cap |-> "c1", min |-> 1]}

(* Two calls with one request id, one whose response is too large, one of  *)
(* another peer.                                                           *)
MCRcId == [c1 |-> 1, c2 |-> 1, c3 |-> 3, c4 |-> 4]

(* Three images of package a (a conflict, a dependency, a changed file)    *)
(* and one of b; no two of budget 2 fit together.                          *)
MCMpManifest ==
    LET Manifest(p, d, c, b, f) ==
            [package_id |-> p, dependencies |-> d, conflicts |-> c, budget |-> b, files |-> f,
             entrypoint |-> "plain", authority |-> "none", services |-> {}]
    IN [a1 |-> Manifest("a", {}, {"b"}, 2, "listed"), a2 |-> Manifest("a", {"b"}, {}, 1, "listed"),
        a3 |-> Manifest("a", {}, {}, 1, "changed"), b1 |-> Manifest("b", {}, {}, 2, "listed")]

(* The seat bridge with the pressure array and its map, or with the        *)
(* heartbeat sensor.                                                       *)
MCSnConfigs == {<<"radar", "pressure", "map">>, <<"radar", "beat">>}

(* One event of each type; the second declares a length that is not its    *)
(* text's.                                                                 *)
MCAuPayload ==
    [command_authority |-> FALSE, utterance |-> "trimmed", wake_name |-> "canonical",
     text |-> "canonical", length |-> 2, declared |-> 2, confidence |-> 90]
MCAuEvents ==
    [d1 |-> [type |-> "audio.voice_input.ready", normalized |-> TRUE, sequence |-> 0,
             fields |-> {"selected_logical_name", "confidence"}, payload |-> MCAuPayload],
     d2 |-> [type |-> "audio.wake_name.matched", normalized |-> TRUE, sequence |-> 1,
             fields |-> {"utterance_id", "wake_name", "request_text", "request_text_length",
                         "command_authority"},
             payload |-> [MCAuPayload EXCEPT !.declared = 3]]]
MCAuRoutes == {"audio.voice_input.ready", "audio.wake_name.matched"}
ASSUME AudioRoutes == AuRoutesOK

(* Actions that map to a capability, one forbidden and one unknown; the    *)
(* repository's two emergency policies and two of an owner's session.      *)
MCIcProposals ==
    [action : {"hazards-on", "unlock.driver-door", "unlock-door", "steer.left", "sing"},
     incident : {"i1"}, exact : {TRUE}, clean : {TRUE}]
    \cup [action : {"hazards-on"}, incident : {"i1"}, exact : {FALSE}, clean : {TRUE}]
    \cup [action : {"hazards-on"}, incident : {"i1"}, exact : {TRUE}, clean : {FALSE}]
MCIcPolicyFile ==
    LET Policy(c, t, l) == [capabilities |-> c, targets |-> t, ttl |-> l]
    IN [emergency_visibility_default |->
            Policy({"visibility.request"}, {"vehicle.visibility.hazards"}, 10),
        emergency_access_default |->
            Policy({"access.request"}, {"vehicle.access.door.driver"}, 10),
        owner_default |-> Policy({"access.request", "visibility.request"}, {"*"}, 30),
        night |-> Policy({"visibility.request"}, {"vehicle.visibility.cabin"}, 5)]
MCIcOwner ==
    [intent |-> "s1", incident |-> "none", normalized |-> TRUE, active |-> "owner",
     candidates |-> <<"guest", "owner">>, required |-> TRUE, identity |-> "owner",
     contextIdentity |-> "owner", capability |-> "visibility.request",
     target |-> "vehicle.visibility.cabin", proposed |-> {"visibility.request"},
     policies |-> <<"owner_default", "night">>]
MCIcSessions ==
    {MCIcOwner,
     [MCIcOwner EXCEPT !.intent = "s2", !.active = "guest"],
     [MCIcOwner EXCEPT !.intent = "s3", !.target = "vehicle.visibility.hazards"],
     [MCIcOwner EXCEPT !.intent = "s4", !.candidates = <<"owner", "owner">>]}

(* Starts that may boot: a required module, none, one without a file, one  *)
(* with no name; and a start for each file that bars the way.              *)
MCRbModules == <<"m1", "m2">>
MCRbGood ==
    [bodies |-> 1, session |-> "owner", present |-> TRUE, policies |-> 1, proof |-> TRUE,
     surface |-> "approved", chain |-> "valid", level |-> 1, required |-> {"m2"}]
MCRbInputs ==
    {MCRbGood, [MCRbGood EXCEPT !.present = FALSE, !.required = {}],
     [MCRbGood EXCEPT !.session = "stranger", !.required = {"absent"}],
     [MCRbGood EXCEPT !.required = {"invalid"}],
     [MCRbGood EXCEPT !.session = "inactive"], [MCRbGood EXCEPT !.bodies = 2],
     [MCRbGood EXCEPT !.policies = 0], [MCRbGood EXCEPT !.proof = FALSE],
     [MCRbGood EXCEPT !.surface = "unknown"], [MCRbGood EXCEPT !.surface = "other"],
     [MCRbGood EXCEPT !.chain = "invalid"], [MCRbGood EXCEPT !.chain = "unreadable"],
     [MCRbGood EXCEPT !.level = 0]}
-----------------------------------------------------------------------------
(* A component that does not run starts in one state.                      *)
Idle ==
    /\ part # "packages" => mpStore["a"] = "a1"
    /\ part # "seat" => snOn = <<"radar", "beat">>
    /\ part # "court" =>
           /\ icAsks = [r \in IcRequests |-> CHOOSE p \in IcProposals : p.action = "sing"]
           /\ icIncident = [id |-> "i1", active |-> TRUE, verified |-> FALSE]
           /\ icEvidence = {}
    /\ part # "boot" => rbRead = MCRbGood

Init ==
    /\ part \in Parts
    /\ WakeInit /\ SlInit /\ RcInit /\ MpInit /\ BsInit /\ CfInit /\ SnInit /\ AuInit
    /\ IcInit /\ RbInit
    /\ Idle

(* The other components keep their state.                                  *)
Rest(p) ==
    /\ UNCHANGED part
    /\ p # "wake" => UNCHANGED wkVars
    /\ p # "sensors" => UNCHANGED slVars
    /\ p # "rpc" => UNCHANGED rcVars
    /\ p # "packages" => UNCHANGED mpVars
    /\ p # "body" => UNCHANGED bsVars
    /\ p # "frame" => UNCHANGED cfVars
    /\ p # "seat" => UNCHANGED snVars
    /\ p # "audio" => UNCHANGED auVars
    /\ p # "court" => UNCHANGED icVars
    /\ p # "boot" => UNCHANGED rbVars

Next ==
    \/ part = "wake" /\ WakeNext /\ Rest("wake")
    \/ part = "sensors" /\ SlNext /\ Rest("sensors")
    \/ part = "rpc" /\ RcNext /\ Rest("rpc")
    \/ part = "packages" /\ MpNext /\ Rest("packages")
    \/ part = "body" /\ BsNext /\ Rest("body")
    \/ part = "frame" /\ CfNext /\ Rest("frame")
    \/ part = "seat" /\ SnNext /\ Rest("seat")
    \/ part = "audio" /\ AuNext /\ Rest("audio")
    \/ part = "court" /\ IcNext /\ Rest("court")
    \/ part = "boot" /\ RbNext /\ Rest("boot")

vars == <<part, wkVars, slVars, rcVars, mpVars, bsVars, cfVars, snVars, auVars, icVars,
          rbVars>>

Spec == Init /\ [][Next]_vars

(* The running component's variables have the types its code gives them.   *)
ComponentsTypeOK ==
    /\ part \in Parts
    /\ part = "wake" => WakeTypeOK
    /\ part = "sensors" => SlTypeOK
    /\ part = "rpc" => RcTypeOK
    /\ part = "packages" => MpTypeOK
    /\ part = "body" => BsTypeOK
    /\ part = "frame" => CfTypeOK
    /\ part = "seat" => SnTypeOK
    /\ part = "audio" => AuTypeOK
    /\ part = "court" => IcTypeOK
    /\ part = "boot" => RbTypeOK
=============================================================================
