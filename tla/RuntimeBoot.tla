----------------------------- MODULE RuntimeBoot -----------------------------
(***************************************************************************)
(* The Runtime process from its start to its end: wiring, the continuity   *)
(* gate, the pipeline, the modules, the optional services, the idle loop   *)
(* or locked recovery, and the cleanup that main's finally owes on every   *)
(* path.  One thread does all of it; around it signals arrive, the sensor  *)
(* LAN's listener thread fails, writes fail, and the process is killed and *)
(* started again.  An external reader trusts the status file only for a    *)
(* process that is alive, told by its start time.                          *)
(* Files are known by what their loaders make of them.  The service flags  *)
(* of the status, which lag by a turn, are left out.                       *)
(***************************************************************************)
EXTENDS Integers, Sequences, FiniteSets, SequencesExt

CONSTANTS
    RbModules,    \* module files, in the order load_all visits them
    RbInputs,     \* what a start may find on disk: [bodies, session, present, policies,
                  \* proof, surface, chain, level, required]
    RbLaunches,   \* bound: starts of the process
    RbFaults      \* bound: kills, failed writes, stops that raise, services that fail

RbNames == {RbModules[i] : i \in DOMAIN RbModules}

(* Module files have different names; the history tells them from the      *)
(* services, and "invalid" stands for a name no file has.                  *)
ASSUME RbAssumption ==
    /\ RbModules \in Seq(STRING) /\ IsInjective(RbModules)
    /\ RbNames \cap {"conversation", "sensor-lan", "modules", "invalid"} = {}
    /\ RbLaunches \in Nat /\ RbFaults \in Nat

VARIABLES
    rbAt,        \* where main is; "off" without a process
    rbSession,   \* session of the latest process
    rbRead,      \* what it found on disk
    rbContext,   \* the pipeline's capability context: none, or whose it is
    rbLoader,    \* the module loader
    rbOwned,     \* _resources of the lifecycle, last one first to go
    rbLan,       \* the listener thread: off, on or failed
    rbConv,      \* main has a conversation server
    rbShutdown,  \* _SHUTDOWN
    rbFailed,    \* what main knows of a failure: its own flag, or failed cleanup
    rbStatus,    \* the status file
    rbReceipts,  \* continuity receipts: sessions allowed to boot
    rbFaults,
    rbLog,       \* history: what the process brought up and tried to take down
    rbRaised,    \* history: a stop of this process raised
    rbLost,      \* history: it could not write its status while it ended
    rbKilled     \* history: it did not end by itself

rbVars == <<rbAt, rbSession, rbRead, rbContext, rbLoader, rbOwned, rbLan, rbConv, rbShutdown,
            rbFailed, rbStatus, rbReceipts, rbFaults, rbLog, rbRaised, rbLost, rbKilled>>
rbHist == <<rbSession, rbRead, rbReceipts, rbKilled>>

RbPlaces == {"off", "wiring", "continuity", "pipeline", "loading", "rollback", "gateway",
             "follower", "conversation", "lan", "turn", "poll", "serve", "lancheck",
             "report", "recovery", "ending", "closing", "modules", "leaving"}
RbUp(x) == [op |-> "up", of |-> x]
RbDown(x) == [op |-> "down", of |-> x]

(* next: the file to load next; then: where a rollback leads.              *)
RbNewLoader == [next |-> 1, running |-> <<>>, failed |-> {}, stuck |-> FALSE,
                started |-> FALSE, then |-> "none"]

RbTypeOK ==
    /\ rbAt \in RbPlaces /\ rbSession \in 0 .. RbLaunches /\ rbRead \in RbInputs
    /\ rbContext \in {"none", "guest", "absent owner", "owner"}
    /\ rbLoader.next \in 1 .. Len(RbModules) + 1 /\ rbLoader.failed \subseteq RbNames
    /\ ToSet(rbLoader.running) \subseteq RbNames
    /\ ToSet(rbOwned) \subseteq {"modules", "conversation", "sensor-lan"} /\ IsInjective(rbOwned)
    /\ rbLan \in {"off", "on", "failed"} /\ {rbConv, rbShutdown, rbFailed} \subseteq BOOLEAN
    /\ rbStatus.session \in 0 .. RbLaunches /\ rbReceipts \subseteq 1 .. RbLaunches
    /\ rbStatus.state \in {"none", "starting", "ready", "degraded", "stopping", "stopped", "failed"}
    /\ rbFaults \in 0 .. RbFaults /\ {rbRaised, rbLost, rbKilled} \subseteq BOOLEAN

RbInit ==
    /\ rbAt = "off" /\ rbSession = 0 /\ rbRead \in RbInputs /\ rbContext = "none"
    /\ rbLoader = RbNewLoader /\ rbOwned = <<>> /\ rbLan = "off" /\ rbConv = FALSE
    /\ rbShutdown = FALSE /\ rbFailed = FALSE
    /\ rbStatus = [session |-> 0, state |-> "none"] /\ rbReceipts = {} /\ rbFaults = 0
    /\ rbLog = <<>> /\ rbRaised = FALSE /\ rbLost = FALSE /\ rbKilled = FALSE

-----------------------------------------------------------------------------
(* A step that may fail counts towards the bound when it does.             *)
RbOk(ok) == rbFaults' = (IF ok THEN rbFaults ELSE rbFaults + 1) /\ rbFaults' <= RbFaults

(* live_status.write replaces the file as a whole or raises.               *)
RbWrite(state, ok) ==
    rbStatus' = IF ok THEN [session |-> rbSession, state |-> state] ELSE rbStatus

(* An exception or sys.exit leaves _run_main for the finally of main.      *)
RbLeave(failed) == rbAt' = "ending" /\ rbFailed' = failed

-----------------------------------------------------------------------------
(* Start, wiring and the continuity gate.                                  *)

(* main: the first status is written before the try, so a failure there    *)
(* ends the process at once.                                               *)
RbLaunch(found, ok) ==
    /\ rbAt = "off" /\ rbSession < RbLaunches
    /\ rbSession' = rbSession + 1 /\ rbRead' = found /\ RbOk(ok)
    /\ rbAt' = IF ok THEN "wiring" ELSE "off"
    /\ rbStatus' = IF ok THEN [session |-> rbSession', state |-> "starting"] ELSE rbStatus
    /\ rbContext' = "none" /\ rbLoader' = RbNewLoader /\ rbOwned' = <<>> /\ rbLan' = "off"
    /\ rbConv' = FALSE /\ rbShutdown' = FALSE /\ rbFailed' = FALSE /\ rbLog' = <<>>
    /\ rbRaised' = FALSE /\ rbLost' = FALSE /\ rbKilled' = FALSE
    /\ UNCHANGED rbReceipts

(* build_runtime: without the event bus or the enforcer it exits with 1;   *)
(* speech, egress and the advisory probe are attached where they can be.   *)
RbWire(built) ==
    /\ rbAt = "wiring" /\ RbOk(built)
    /\ IF built THEN rbAt' = "continuity" /\ UNCHANGED rbFailed ELSE RbLeave(TRUE)
    /\ UNCHANGED <<rbHist, rbContext, rbLoader, rbOwned, rbLan, rbConv, rbShutdown, rbStatus,
                   rbLog, rbRaised, rbLost>>

(* load_active_body: exactly one active body.                              *)
RbBodyLoads == rbRead.bodies = 1

(* load_session_binding: a verified session of an inactive profile is an   *)
(* error; one that is not verified, or of an unknown profile ("stranger"), *)
(* becomes the guest's; the owner must be present.                         *)
RbSessionLoads == rbRead.session # "inactive"
RbProfile == IF rbRead.session \in {"owner", "guest"} THEN rbRead.session ELSE "guest"
RbOwnerVerified == RbProfile = "owner" /\ rbRead.present

(* build_capability_context: exactly one active policy of the profile.  An *)
(* owner who is not verified keeps the authority of the profile and loses  *)
(* the capabilities that are the owner's.                                  *)
RbPolicyFound == rbRead.policies = 1
RbContextBuilt == IF RbProfile = "owner" /\ ~RbOwnerVerified THEN "absent owner" ELSE RbProfile

(* run_configured_continuity_gate reads its files first and raises for any *)
(* that is missing or malformed.                                           *)
RbGateReads ==
    /\ RbBodyLoads /\ RbSessionLoads /\ RbPolicyFound
    /\ rbRead.proof /\ rbRead.surface # "unknown" /\ rbRead.chain # "unreadable"

(* verify_boot_continuity.                                                 *)
RbVerify ==
    IF rbRead.chain # "valid" THEN [verified |-> FALSE, allowed |-> FALSE, level |-> 0]
    ELSE IF rbRead.surface = "other" \/ rbRead.level <= 0
         THEN [verified |-> TRUE, allowed |-> FALSE, level |-> 0]
         ELSE [verified |-> TRUE, allowed |-> TRUE, level |-> rbRead.level]

(* The gate's receipt need not have been written.                          *)
MutRbPassed(r, persisted) == r.verified /\ r.allowed /\ r.level > 0

(* continuity_boot_passed.                                                 *)
RbPassed(r, persisted) == r.verified /\ r.allowed /\ persisted /\ r.level > 0

RbContinuity(persisted) ==
    /\ rbAt = "continuity" /\ RbOk(persisted)
    /\ IF RbGateReads
       THEN /\ rbReceipts' = IF persisted /\ RbVerify.allowed THEN rbReceipts \cup {rbSession}
                             ELSE rbReceipts
            /\ rbAt' = IF RbPassed(RbVerify, persisted) THEN "pipeline" ELSE "report"
       ELSE rbAt' = "report" /\ UNCHANGED rbReceipts
    /\ UNCHANGED <<rbSession, rbRead, rbContext, rbLoader, rbOwned, rbLan, rbConv, rbShutdown,
                   rbFailed, rbStatus, rbLog, rbRaised, rbLost, rbKilled>>

-----------------------------------------------------------------------------
(* Pipeline and modules.                                                   *)

(* provision_runtime_pipeline raises for a bad key, policy or ledger.  The *)
(* loader is owned once its required names are identifiers; a required     *)
(* module without a file is noticed before any module is loaded.           *)
RbProvision(ok) ==
    /\ rbAt = "pipeline" /\ RbOk(ok)
    /\ IF ok THEN /\ rbContext' = RbContextBuilt
                  /\ rbOwned' = IF "invalid" \in rbRead.required THEN rbOwned
                                ELSE Append(rbOwned, "modules")
                  /\ rbAt' = IF rbRead.required \subseteq RbNames THEN "loading" ELSE "report"
             ELSE rbAt' = "report" /\ UNCHANGED <<rbContext, rbOwned>>
    /\ UNCHANGED <<rbHist, rbLoader, rbLan, rbConv, rbShutdown, rbFailed, rbStatus, rbLog,
                   rbRaised, rbLost>>

(* The next module registers.                                              *)
RbLoad ==
    /\ rbAt = "loading" /\ rbLoader.next <= Len(RbModules)
    /\ LET m == RbModules[rbLoader.next]
       IN  /\ rbLoader' = [rbLoader EXCEPT !.next = @ + 1, !.running = Append(@, m)]
           /\ rbLog' = Append(rbLog, RbUp(m))
    /\ UNCHANGED <<rbHist, rbAt, rbContext, rbOwned, rbLan, rbConv, rbShutdown, rbFailed,
                   rbStatus, rbFaults, rbRaised, rbLost>>

(* Or its import or registration raises, or exits: its own stop is called  *)
(* at once.  An optional module whose stop worked leaves the rest running. *)
RbLoadFails(exits, stopped) ==
    /\ rbAt = "loading" /\ rbLoader.next <= Len(RbModules)
    /\ rbFaults < RbFaults /\ rbFaults' = rbFaults + 1
    /\ LET m == RbModules[rbLoader.next]
           fatal == exits \/ ~stopped \/ m \in rbRead.required
       IN  /\ rbLoader' = [rbLoader EXCEPT !.next = @ + 1, !.failed = @ \cup {m},
                                           !.stuck = ~stopped,
                                           !.then = IF exits THEN "ending" ELSE "report"]
           /\ rbAt' = IF fatal THEN "rollback" ELSE "loading"
           /\ rbRaised' = ~stopped
    /\ UNCHANGED <<rbHist, rbContext, rbOwned, rbLan, rbConv, rbShutdown, rbFailed, rbStatus,
                   rbLog, rbLost>>

RbLoaded ==
    /\ rbAt = "loading" /\ rbLoader.next > Len(RbModules)
    /\ rbLoader' = [rbLoader EXCEPT !.started = TRUE] /\ rbAt' = "gateway"
    /\ UNCHANGED <<rbHist, rbContext, rbOwned, rbLan, rbConv, rbShutdown, rbFailed, rbStatus,
                   rbFaults, rbLog, rbRaised, rbLost>>

(* stop_all takes the last module off the list before it stops it.         *)
RbStopModule(ok) ==
    /\ rbAt \in {"rollback", "modules"} /\ rbLoader.running # <<>> /\ RbOk(ok)
    /\ rbLoader' = [rbLoader EXCEPT !.running = Front(@), !.stuck = @ \/ ~ok]
    /\ rbLog' = Append(rbLog, RbDown(Last(rbLoader.running)))
    /\ rbRaised' = (rbRaised \/ ~ok)
    /\ UNCHANGED <<rbHist, rbAt, rbContext, rbOwned, rbLan, rbConv, rbShutdown, rbFailed,
                   rbStatus, rbLost>>

(* A module that exits ends the process, unless a stop raised: then the    *)
(* error of the cleanup, which is an ordinary one, takes the exit's place. *)
RbRolledBack(code) ==
    /\ rbAt = "rollback" /\ rbLoader.running = <<>>
    /\ rbLoader' = [rbLoader EXCEPT !.started = FALSE]
    /\ IF rbLoader.then = "ending" /\ ~rbLoader.stuck THEN RbLeave(code # 0)
       ELSE rbAt' = "report" /\ UNCHANGED rbFailed
    /\ UNCHANGED <<rbHist, rbContext, rbOwned, rbLan, rbConv, rbShutdown, rbStatus, rbFaults,
                   rbLog, rbRaised, rbLost>>

-----------------------------------------------------------------------------
(* Services and the idle loop.                                             *)

(* The gateway, the sensor services, the optional interface, and then the  *)
(* follower, which publishes what is unhealthy now; neither the first nor  *)
(* the last is guarded.                                                    *)
RbPrepare(ok) ==
    /\ rbAt \in {"gateway", "follower"} /\ RbOk(ok)
    /\ IF ok THEN /\ rbAt' = IF rbAt = "gateway" THEN "follower" ELSE "conversation"
                  /\ UNCHANGED rbFailed
             ELSE RbLeave(TRUE)
    /\ UNCHANGED <<rbHist, rbContext, rbLoader, rbOwned, rbLan, rbConv, rbShutdown, rbStatus,
                   rbLog, rbRaised, rbLost>>

(* An optional service is bound and owned, or is not there.  One that      *)
(* cannot be bound is closed again; if that raises, boot is over.          *)
RbOptional(name, next, outcome) ==
    /\ RbOk(outcome # "stuck")
    /\ rbOwned' = IF outcome = "bound" THEN Append(rbOwned, name) ELSE rbOwned
    /\ rbLog' = IF outcome = "bound" THEN Append(rbLog, RbUp(name)) ELSE rbLog
    /\ IF outcome = "stuck" THEN RbLeave(TRUE) ELSE rbAt' = next /\ UNCHANGED rbFailed
    /\ rbRaised' = (rbRaised \/ outcome = "stuck")
    /\ UNCHANGED <<rbHist, rbContext, rbLoader, rbShutdown, rbStatus, rbLost>>

RbConversation(outcome) ==
    /\ rbAt = "conversation" /\ RbOptional("conversation", "lan", outcome)
    /\ rbConv' = (outcome = "bound") /\ UNCHANGED rbLan

RbSensorLan(outcome) ==
    /\ rbAt = "lan" /\ RbOptional("sensor-lan", "turn", outcome)
    /\ rbLan' = (IF outcome = "bound" THEN "on" ELSE "off") /\ UNCHANGED rbConv

RbHealthy == rbLoader.started /\ rbLoader.failed = {} /\ ~rbLoader.stuck

(* A turn of the loop begins with the status.                              *)
RbTurn(ok) ==
    /\ rbAt = "turn" /\ ~rbShutdown /\ RbOk(ok)
    /\ RbWrite(IF RbHealthy THEN "ready" ELSE "degraded", ok)
    /\ IF ok THEN rbAt' = "poll" /\ UNCHANGED rbFailed ELSE RbLeave(TRUE)
    /\ UNCHANGED <<rbHist, rbContext, rbLoader, rbOwned, rbLan, rbConv, rbShutdown, rbLog,
                   rbRaised, rbLost>>

RbShutsDown ==
    /\ rbAt = "turn" /\ rbShutdown /\ RbLeave(FALSE)
    /\ UNCHANGED <<rbHist, rbContext, rbLoader, rbOwned, rbLan, rbConv, rbShutdown, rbStatus,
                   rbFaults, rbLog, rbRaised, rbLost>>

(* The follower's poll is not guarded, the maintenance after it is.        *)
RbPoll(ok) ==
    /\ rbAt = "poll" /\ RbOk(ok)
    /\ IF ok THEN rbAt' = "serve" /\ UNCHANGED rbFailed ELSE RbLeave(TRUE)
    /\ UNCHANGED <<rbHist, rbContext, rbLoader, rbOwned, rbLan, rbConv, rbShutdown, rbStatus,
                   rbLog, rbRaised, rbLost>>

(* discard filters the list, on which a name is once at most (RbTypeOK).   *)
RbDiscard(name) ==
    LET at == {i \in DOMAIN rbOwned : rbOwned[i] = name}
    IN  IF at = {} THEN rbOwned ELSE RemoveAt(rbOwned, CHOOSE i \in at : TRUE)

RbServed ==
    /\ rbAt = "serve" /\ rbAt' = "lancheck"
    /\ UNCHANGED <<rbHist, rbContext, rbLoader, rbOwned, rbLan, rbConv, rbShutdown, rbFailed,
                   rbStatus, rbFaults, rbLog, rbRaised, rbLost>>

(* A transport failure closes the conversation for this process; if the    *)
(* close raises, the server stays owned and the loop ends.                 *)
RbServeFails(closed) ==
    /\ rbAt = "serve" /\ rbConv
    /\ rbFaults < RbFaults /\ rbFaults' = rbFaults + 1
    /\ rbLog' = Append(rbLog, RbDown("conversation")) /\ rbRaised' = (rbRaised \/ ~closed)
    /\ IF closed
       THEN /\ rbOwned' = RbDiscard("conversation") /\ rbConv' = FALSE
            /\ rbAt' = "lancheck" /\ UNCHANGED rbFailed
       ELSE RbLeave(TRUE) /\ UNCHANGED <<rbOwned, rbConv>>
    /\ UNCHANGED <<rbHist, rbContext, rbLoader, rbLan, rbShutdown, rbStatus, rbLost>>

(* The listener thread records its failure; the loop looks at the end of a *)
(* turn.                                                                   *)
RbLanFails ==
    /\ rbLan = "on" /\ rbAt # "off" /\ rbFaults < RbFaults
    /\ rbLan' = "failed" /\ rbFaults' = rbFaults + 1
    /\ UNCHANGED <<rbHist, rbAt, rbContext, rbLoader, rbOwned, rbConv, rbShutdown, rbFailed,
                   rbStatus, rbLog, rbRaised, rbLost>>

RbLanCheck(stopped) ==
    /\ rbAt = "lancheck"
    /\ IF rbLan # "failed"
       THEN stopped /\ rbAt' = "turn" /\ UNCHANGED <<rbOwned, rbLan, rbFailed, rbFaults, rbLog, rbRaised>>
       ELSE /\ RbOk(stopped)
            /\ rbLog' = Append(rbLog, RbDown("sensor-lan")) /\ rbRaised' = (rbRaised \/ ~stopped)
            /\ IF stopped
               THEN /\ rbOwned' = RbDiscard("sensor-lan") /\ rbLan' = "off"
                    /\ rbAt' = "turn" /\ UNCHANGED rbFailed
               ELSE RbLeave(TRUE) /\ UNCHANGED <<rbOwned, rbLan>>
    /\ UNCHANGED <<rbHist, rbContext, rbLoader, rbConv, rbShutdown, rbStatus, rbLost>>

(* enter_recovery_mode writes its report and idles until it is told to     *)
(* stop.                                                                   *)
RbReport(ok) ==
    /\ rbAt = "report" /\ RbOk(ok)
    /\ IF ok THEN rbAt' = "recovery" /\ UNCHANGED rbFailed ELSE RbLeave(TRUE)
    /\ UNCHANGED <<rbHist, rbContext, rbLoader, rbOwned, rbLan, rbConv, rbShutdown, rbStatus,
                   rbLog, rbRaised, rbLost>>

RbRecovered ==
    /\ rbAt = "recovery" /\ rbShutdown /\ RbLeave(FALSE)
    /\ UNCHANGED <<rbHist, rbContext, rbLoader, rbOwned, rbLan, rbConv, rbShutdown, rbStatus,
                   rbFaults, rbLog, rbRaised, rbLost>>

-----------------------------------------------------------------------------
(* The finally of main.                                                    *)

(* Readiness is revoked first; cleanup follows even if that failed.        *)
RbRevoke(ok) ==
    /\ rbAt = "ending" /\ rbAt' = "closing" /\ RbOk(ok)
    /\ RbWrite("stopping", ok) /\ rbLost' = ~ok
    /\ UNCHANGED <<rbHist, rbContext, rbLoader, rbOwned, rbLan, rbConv, rbShutdown, rbFailed,
                   rbLog, rbRaised>>

(* lifecycle.close takes the last entry off before it stops it, and goes   *)
(* on after one that raises.  The modules' entry is stop_all.              *)
RbClose(ok) ==
    /\ rbAt = "closing" /\ rbOwned # <<>>
    /\ rbOwned' = Front(rbOwned)
    /\ IF Last(rbOwned) = "modules"
       THEN ok /\ rbAt' = "modules" /\ UNCHANGED <<rbLan, rbFailed, rbFaults, rbLog, rbRaised>>
       ELSE /\ RbOk(ok) /\ UNCHANGED rbAt
            /\ rbLog' = Append(rbLog, RbDown(Last(rbOwned)))
            /\ rbLan' = IF Last(rbOwned) = "sensor-lan" THEN "off" ELSE rbLan
            /\ rbRaised' = (rbRaised \/ ~ok) /\ rbFailed' = (rbFailed \/ ~ok)
    /\ UNCHANGED <<rbHist, rbContext, rbLoader, rbConv, rbShutdown, rbStatus, rbLost>>

(* stop_all raises if any stop of the loader ever raised.                  *)
RbModulesStopped ==
    /\ rbAt = "modules" /\ rbLoader.running = <<>> /\ rbAt' = "closing"
    /\ rbLoader' = [rbLoader EXCEPT !.started = FALSE]
    /\ rbFailed' = (rbFailed \/ rbLoader.stuck)
    /\ UNCHANGED <<rbHist, rbContext, rbOwned, rbLan, rbConv, rbShutdown, rbStatus, rbFaults,
                   rbLog, rbRaised, rbLost>>

RbExit(ok) ==
    /\ rbAt = "closing" /\ rbOwned = <<>> /\ rbAt' = "off" /\ RbOk(ok)
    /\ RbWrite(IF rbFailed THEN "failed" ELSE "stopped", ok) /\ rbLost' = (rbLost \/ ~ok)
    /\ UNCHANGED <<rbHist, rbContext, rbLoader, rbOwned, rbLan, rbConv, rbShutdown, rbFailed,
                   rbLog, rbRaised>>

(* _handle_signal, from the moment _run_main installs it.                  *)
RbSignal ==
    /\ rbAt # "off" /\ ~rbShutdown /\ rbShutdown' = TRUE
    /\ UNCHANGED <<rbHist, rbAt, rbContext, rbLoader, rbOwned, rbLan, rbConv, rbFailed, rbStatus,
                   rbFaults, rbLog, rbRaised, rbLost>>

RbKill ==
    /\ rbAt # "off" /\ rbFaults < RbFaults
    /\ rbAt' = "off" /\ rbKilled' = TRUE /\ rbFaults' = rbFaults + 1
    /\ UNCHANGED <<rbSession, rbRead, rbReceipts, rbContext, rbLoader, rbOwned, rbLan, rbConv,
                   rbShutdown, rbFailed, rbStatus, rbLog, rbRaised, rbLost>>

RbNext ==
    \/ \E found \in RbInputs, ok \in BOOLEAN : RbLaunch(found, ok)
    \/ \E ok \in BOOLEAN :
          \/ RbWire(ok) \/ RbContinuity(ok) \/ RbProvision(ok) \/ RbStopModule(ok)
          \/ RbPrepare(ok) \/ RbTurn(ok) \/ RbPoll(ok)
          \/ RbServeFails(ok) \/ RbLanCheck(ok) \/ RbReport(ok) \/ RbRevoke(ok) \/ RbClose(ok)
          \/ RbExit(ok)
    \/ \E outcome \in {"bound", "absent", "stuck"} : RbConversation(outcome) \/ RbSensorLan(outcome)
    \/ \E exits, stopped \in BOOLEAN : RbLoadFails(exits, stopped)
    \/ \E code \in {0, 1} : RbRolledBack(code)
    \/ RbLoad \/ RbLoaded \/ RbShutsDown \/ RbServed \/ RbLanFails \/ RbRecovered
    \/ RbModulesStopped \/ RbSignal \/ RbKill

-----------------------------------------------------------------------------
(* docs/audit_f7_f8_live_readiness.md: a module runs or a socket is bound  *)
(* only in a session whose permission to boot is in the receipt chain, and *)
(* the owner's capabilities are proposed only to an owner who is present.  *)
RbSecure ==
    /\ rbLog # <<>> => rbSession \in rbReceipts /\ rbContext # "none"
    /\ rbContext = "owner" => rbRead.session = "owner" /\ rbRead.present

(* Optional failures "never produce ready", and readiness is revoked       *)
(* "before cleanup": who sees ready in the file of a process that is alive *)
(* finds every module running, the required ones among them, unless the    *)
(* revocation itself could not be written.                                 *)
RbReadyTrue ==
    rbAt # "off" /\ rbStatus = [session |-> rbSession, state |-> "ready"] /\ ~rbLost
    => rbLoader.running = RbModules /\ rbRead.required \subseteq RbNames

RbCount(entry) == Cardinality({i \in DOMAIN rbLog : rbLog[i] = entry})

(* A process that ended by itself has stopped each module it had running,  *)
(* once, and each service at least once, whatever raised on the way.       *)
RbCleanedUp ==
    rbAt = "off" /\ ~rbKilled =>
        \A i \in DOMAIN rbLog : rbLog[i].op = "up" =>
            LET n == RbCount(RbDown(rbLog[i].of))
            IN  n >= 1 /\ (rbLog[i].of \in RbNames => n = 1)

(* Modules go down in the reverse order of coming up, after everything     *)
(* that came up later.                                                     *)
RbReverse ==
    \A i \in DOMAIN rbLog : rbLog[i].op = "down" /\ rbLog[i].of \in RbNames =>
        \A j, k \in 1 .. i :
            rbLog[j] = RbUp(rbLog[i].of) /\ j < k /\ rbLog[k].op = "up" =>
                \E l \in k .. i : rbLog[l] = RbDown(rbLog[k].of)

(* "failures produce failed status": a stop that raised, at whichever of   *)
(* its places, is told by the last status the process wrote.               *)
RbFailureTold ==
    rbAt = "off" /\ ~rbKilled /\ rbRaised /\ ~rbLost =>
        rbStatus = [session |-> rbSession, state |-> "failed"]

(* What boot and cleanup owe on every path of the process.                 *)
RbSound == RbSecure /\ RbReadyTrue /\ RbCleanedUp /\ RbReverse /\ RbFailureTold
=============================================================================
