-------------------------- MODULE DistributedWork --------------------------
(***************************************************************************)
(* The distributed-work side of Runtime: DistributedWorkService on top of  *)
(* DistributedWorkCoordinator and VerifiedNodeRegistry, with the lifecycle *)
(* journal that outlives the process, as DistributedRuntimeDaemon runs     *)
(* them.                                                                   *)
(*                                                                         *)
(* Two threads: the socket thread serves one request at a time, the main   *)
(* thread runs recover() in a loop.  Service and coordinator operations    *)
(* exclude each other through the service lock; register_node takes only   *)
(* the registry's lock, so a heartbeat may fall between any two steps of   *)
(* recover().  The lifecycle sink may fail at every event.                 *)
(***************************************************************************)
EXTENDS Naturals, FiniteSets

CONSTANTS
    Works,        \* work ids: numbers, in the order the code sorts them
    Nodes,        \* organs of this body
    MaxTasks,     \* [Nodes -> max_concurrent_tasks]
    Mode,         \* [Works -> [Nodes -> PlacementModes]]
    Tasks,        \* values of current_tasks a node may advertise
    Important,    \* values of WorkResult.important in the instance
    Unreliable,   \* the lifecycle journal and the Queen port may fail
    LeaseTime,    \* lease_seconds
    HeartbeatAge, \* max_heartbeat_age
    MaxNow,       \* bound on the clock
    NoNode, NoLease, NoResult

ASSUME WorksAssumption == Works \subseteq Nat
ASSUME NodesAssumption == MaxTasks \in [Nodes -> Nat \ {0}] /\ NoNode \notin Nodes
ASSUME TasksAssumption == Tasks \subseteq Nat
ASSUME ImportantAssumption == Important \subseteq BOOLEAN
ASSUME TimesAssumption == LeaseTime \in Nat \ {0} /\ HeartbeatAge \in Nat \ {0} /\ MaxNow \in Nat

Now == 0..MaxNow

(* The class _candidate_for puts a node into for a work: primary and       *)
(* fallback (overflow, temporary absorption, Queen fallback) cover all     *)
(* required capabilities, none is no candidate at all.                     *)
PlacementModes == {"primary", "fallback", "partial", "observe", "none"}

(* available may be placed on; draining may not; offline is failed.  The   *)
(* availabilities of the code fall into these three classes.               *)
Availability == {"available", "draining", "offline"}

Adverts == [avail : Availability, beat : Now, tasks : Tasks]
Leases == [node : Nodes, expires : 0..(MaxNow + LeaseTime)]
Results == [node : Nodes, important : Important]

ASSUME ModeAssumption == Mode \in [Works -> [Nodes -> PlacementModes]]
ASSUME AbsentAssumption == /\ NoNode \notin Adverts
                           /\ NoLease \notin Leases
                           /\ NoResult \notin Results

VARIABLES
    now,
    nodes,       \* VerifiedNodeRegistry._nodes: [Nodes -> Adverts or NoNode]
    leases,      \* _leases
    reqs,        \* keys of _requirements
    refusals,    \* _refusals
    proposals,   \* keys of _proposals
    accepted,    \* _accepted, as a function to the node that accepted
    pending,     \* _pending_completion
    active,      \* keys of active_work in the daemon's state file
    serving,     \* the node whose register_node awaits its receipt, or NoNode
    rec,         \* how far recover() is
    boot,        \* the daemon is up, is down, or its constructor is recording
    interrupted, \* interrupted_work the constructor has yet to record
    owed,        \* history: works in active_work at a crash, not recorded since
    unreported   \* history: works a recovery pass moved and raised before it reported

coordVars == <<leases, reqs, refusals>>
serviceVars == <<proposals, accepted, pending>>
bootVars == <<boot, interrupted, owed>>
vars == <<now, nodes, coordVars, serviceVars, active, serving, rec, bootVars, unreported>>

Phases == {"idle", "scanned", "placing", "reporting"}

NoPass == [phase |-> "idle", at |-> 0, failed |-> {}, todo |-> {}, decided |-> {},
           prior |-> [w \in Works |-> NoNode]]

TypeOK ==
    /\ now \in Now
    /\ nodes \in [Nodes -> Adverts \cup {NoNode}]
    /\ leases \in [Works -> Leases \cup {NoLease}]
    /\ reqs \in SUBSET Works
    /\ refusals \in [Works -> SUBSET Nodes]
    /\ proposals \in SUBSET Works
    /\ accepted \in [Works -> Nodes \cup {NoNode}]
    /\ pending \in [Works -> Results \cup {NoResult}]
    /\ active \in SUBSET Works
    /\ serving \in Nodes \cup {NoNode}
    /\ rec \in [phase : Phases, at : Now, failed : SUBSET Nodes, todo : SUBSET Works,
                decided : SUBSET Works, prior : [Works -> Nodes \cup {NoNode}]]
    /\ boot \in {"up", "down", "recording"}
    /\ interrupted \in SUBSET Works
    /\ owed \in SUBSET Works
    /\ unreported \in SUBSET Works

Init ==
    /\ now = 0
    /\ nodes = [n \in Nodes |-> NoNode]
    /\ leases = [w \in Works |-> NoLease]
    /\ reqs = {} /\ refusals = [w \in Works |-> {}]
    /\ proposals = {} /\ accepted = [w \in Works |-> NoNode]
    /\ pending = [w \in Works |-> NoResult]
    /\ active = {} /\ serving = NoNode /\ rec = NoPass /\ unreported = {}
    /\ boot = "up" /\ interrupted = {} /\ owed = {}

-----------------------------------------------------------------------------
(* The coordinator.                                                        *)

Holder(ls, w) == IF ls[w] = NoLease THEN NoNode ELSE ls[w].node
Held(ls, n) == {w \in Works : Holder(ls, w) = n}

MutHasRoom(ls, n) == nodes[n].tasks < MaxTasks[n]

(* The task limit counts the advertised tasks and the leases held.         *)
HasRoom(ls, n) == nodes[n].tasks + Cardinality(Held(ls, n)) < MaxTasks[n]

(* Nodes that refused the work are asked again.                            *)
MutEligible(ls, excluded) ==
    {n \in Nodes : nodes[n] # NoNode /\ nodes[n].avail = "available" /\ HasRoom(ls, n)}

(* Nodes neither excluded nor turned away by _exclusion_reason.            *)
Eligible(ls, excluded) ==
    {n \in Nodes \ excluded : nodes[n] # NoNode /\ nodes[n].avail = "available" /\ HasRoom(ls, n)}

(* full or partial or observe_only: the best class that is not empty.  The *)
(* score that ranks a class is left out: any member of it may be chosen.   *)
Candidates(ls, w, excluded) ==
    LET In(ms) == {n \in Eligible(ls, excluded) : Mode[w][n] \in ms}
    IN  IF In({"primary", "fallback"}) # {} THEN In({"primary", "fallback"})
        ELSE IF In({"partial"}) # {} THEN In({"partial"})
        ELSE In({"observe"})

MutExpiry(at) == at + LeaseTime + 1

Expiry(at) == at + LeaseTime

(* The lease table after _place_locked, for each choice it may make.       *)
Placements(ls, w, excluded, at) ==
    IF Candidates(ls, w, excluded) = {} THEN {ls}
    ELSE {[ls EXCEPT ![w] = [node |-> n, expires |-> Expiry(at)]] :
             n \in Candidates(ls, w, excluded)}

(* _expire_leases_locked: the requirement and the proposal stay.           *)
Unexpired(ls, at) ==
    [w \in Works |-> IF ls[w] # NoLease /\ at >= ls[w].expires THEN NoLease ELSE ls[w]]

Refused(w, n) == [refusals EXCEPT ![w] = @ \cup {n}]

(* coordinator.complete by the holder of the lease.                        *)
Closed(w) ==
    /\ leases' = [leases EXCEPT ![w] = NoLease]
    /\ reqs' = reqs \ {w}
    /\ refusals' = [refusals EXCEPT ![w] = {}]

-----------------------------------------------------------------------------
(* Requests on the socket thread.                                          *)

(* The service lock is free and the socket thread is between requests.     *)
Idle == boot = "up" /\ serving = NoNode /\ rec.phase = "idle"

(* A lifecycle event: the sink raised, or it recorded the event.           *)
EmitFails == Unreliable

MutJournaled(w, offered) == IF offered THEN active ELSE active \ {w}

(* active_work after RuntimeLifecycleJournal recorded an event that offers *)
(* or accepts the work, or one that completes it or degrades it for good.  *)
Journaled(w, offered) == IF offered THEN active \cup {w} ELSE active \ {w}

(* register_node, up to the receipt.  Rejected advertisements change       *)
(* nothing and are left out.                                               *)
Heartbeat(n, avail, tasks) ==
    /\ boot = "up" /\ serving = NoNode
    /\ tasks <= MaxTasks[n]
    /\ nodes' = [nodes EXCEPT ![n] = [avail |-> avail, beat |-> now, tasks |-> tasks]]
    /\ serving' = n
    /\ UNCHANGED <<now, coordVars, serviceVars, active, rec, unreported, bootVars>>

(* The receipt of the advertisement, or the removal of the node: also of   *)
(* one that was registered before and holds leases.                        *)
ReceiptHeartbeat ==
    /\ serving # NoNode
    /\ serving' = NoNode
    /\ \/ UNCHANGED nodes
       \/ EmitFails /\ nodes' = [nodes EXCEPT ![serving] = NoNode]
    /\ UNCHANGED <<now, coordVars, serviceVars, active, rec, unreported, bootVars>>

(* submit(): place, then receipt the offer.  A placement that cannot be    *)
(* receipted is closed again; an offer receipted before a WORK_DEGRADED    *)
(* that is not stays in active_work.  Without a placement the proposal is  *)
(* not kept, but its requirement is.  place() also answers already_leased; *)
(* LeaseBacked says that a work without a proposal has no lease.           *)
Submit(w) ==
    /\ Idle /\ w \notin proposals
    /\ \E ls \in Placements(Unexpired(leases, now), w, refusals[w], now) :
         LET degraded == Mode[w][ls[w].node] # "primary"
         IN  IF ls[w] = NoLease
             THEN /\ leases' = ls
                  /\ reqs' = reqs \cup {w}
                  /\ active' \in {Journaled(w, FALSE)} \cup (IF EmitFails THEN {active} ELSE {})
                  /\ UNCHANGED <<refusals, proposals>>
             ELSE \/ /\ leases' = ls
                     /\ reqs' = reqs \cup {w}
                     /\ proposals' = proposals \cup {w}
                     /\ active' = Journaled(w, TRUE)
                     /\ UNCHANGED refusals
                  \/ /\ EmitFails
                     /\ leases' = [ls EXCEPT ![w] = NoLease]
                     /\ reqs' = reqs \ {w}
                     /\ refusals' = [refusals EXCEPT ![w] = {}]
                     /\ active' \in {active} \cup (IF degraded THEN {Journaled(w, TRUE)} ELSE {})
                     /\ UNCHANGED proposals
    /\ UNCHANGED <<now, nodes, accepted, pending, serving, rec, unreported, bootVars>>

(* _required_proposal and _required_owned_lease: expiry is not looked at.  *)
Owns(w, n) == w \in proposals /\ Holder(leases, w) = n

(* accept(), when its event is recorded; a failed one changes nothing.     *)
Accept(w, n) ==
    /\ Idle /\ Owns(w, n)
    /\ accepted' = [accepted EXCEPT ![w] = n]
    /\ active' = Journaled(w, TRUE)
    /\ unreported' = unreported \ {w}
    /\ UNCHANGED <<now, nodes, coordVars, proposals, pending, serving, rec, bootVars>>

MutRevoke(w) == UNCHANGED accepted

(* _accepted.discard(work)                                                 *)
Revoke(w) == accepted' = [accepted EXCEPT ![w] = NoNode]

(* refuse(), once WORK_REFUSED and WORK_HANDOFF_REQUESTED are recorded.    *)
(* The last event, a new offer or WORK_DEGRADED without a node, may fail   *)
(* when the lease is gone or moved already.                                *)
Refuse(w, n) ==
    /\ Idle /\ Owns(w, n)
    /\ refusals' = Refused(w, n)
    /\ \E ls \in Placements([leases EXCEPT ![w] = NoLease], w, refusals'[w], now) :
         /\ leases' = ls
         /\ \/ active' = Journaled(w, ls[w] # NoLease)
            \/ EmitFails /\ UNCHANGED active
    /\ Revoke(w)
    /\ unreported' = unreported \ {w}
    /\ UNCHANGED <<now, nodes, reqs, proposals, pending, serving, rec, bootVars>>

(* complete() of an accepted work: WORK_COMPLETED is recorded once and     *)
(* kept as pending, so that a retry with the same result goes straight to  *)
(* the Queen; another result is turned away.  When the Queen port fails    *)
(* the work stays open.                                                    *)
Complete(w, r) ==
    /\ Idle /\ Owns(w, r.node) /\ accepted[w] # NoNode
    /\ pending[w] \in {NoResult, r}
    /\ active' = IF pending[w] = NoResult THEN Journaled(w, FALSE) ELSE active
    /\ \/ /\ Closed(w)
          /\ Revoke(w)
          /\ unreported' = unreported \ {w}
          /\ proposals' = proposals \ {w}
          /\ pending' = [pending EXCEPT ![w] = NoResult]
       \/ /\ r.important /\ EmitFails
          /\ pending' = [pending EXCEPT ![w] = r]
          /\ UNCHANGED <<coordVars, accepted, proposals, unreported>>
    /\ UNCHANGED <<now, nodes, serving, rec, bootVars>>

-----------------------------------------------------------------------------
(* recover() on the main thread.  It holds the service lock from the scan  *)
(* to the end; only register_node may interleave.                          *)

Stale(n) == nodes[n] # NoNode /\ now - nodes[n].beat >= HeartbeatAge
Unavailable(n) == nodes[n] # NoNode /\ nodes[n].avail = "offline"

MutAffected(ls) == {}

(* Works leased to a failed node.                                          *)
Affected(ls) == {w \in Works : Holder(ls, w) \in rec.failed}

RecoverScan ==
    /\ boot = "up" /\ rec.phase = "idle"
    /\ rec' = [NoPass EXCEPT !.phase = "scanned", !.at = now,
                             !.failed = {n \in Nodes : Stale(n) \/ Unavailable(n)},
                             !.prior = [w \in Works |-> Holder(leases, w)]]
    /\ UNCHANGED <<now, nodes, coordVars, serviceVars, active, serving, unreported, bootVars>>

(* set_availability of every failed node still registered, then the expiry *)
(* of leases and the choice of the affected works.                         *)
RecoverMark ==
    /\ rec.phase = "scanned"
    /\ nodes' = [n \in Nodes |-> IF n \in rec.failed /\ nodes[n] # NoNode
                                 THEN [nodes[n] EXCEPT !.avail = "offline"] ELSE nodes[n]]
    /\ leases' = Unexpired(leases, rec.at)
    /\ rec' = [rec EXCEPT !.phase = "placing",
                          !.todo = Affected(leases')]
    /\ UNCHANGED <<now, reqs, refusals, serviceVars, active, serving, unreported, bootVars>>

First(S) == CHOOSE w \in S : \A v \in S : w <= v

(* One affected work, in sorted order, is taken from its node and placed   *)
(* again if it can be.                                                     *)
RecoverPlace ==
    /\ rec.phase = "placing" /\ rec.todo # {}
    /\ LET w == First(rec.todo)
       IN  /\ refusals' = Refused(w, Holder(leases, w))
           /\ leases' \in Placements([leases EXCEPT ![w] = NoLease], w, refusals'[w], rec.at)
           /\ rec' = [rec EXCEPT !.todo = @ \ {w}, !.decided = @ \cup {w}]
    /\ UNCHANGED <<now, nodes, reqs, serviceVars, active, serving, unreported, bootVars>>

(* All decisions are in: the coordinator returns to the service.           *)
RecoverPlaced ==
    /\ rec.phase = "placing" /\ rec.todo = {}
    /\ rec' = IF rec.decided = {} THEN NoPass ELSE [rec EXCEPT !.phase = "reporting"]
    /\ UNCHANGED <<now, nodes, coordVars, serviceVars, active, serving, unreported, bootVars>>

(* A decision without a lease names only the node the work came from: its  *)
(* work is found when that node held exactly one lease before the pass.    *)
Identified(w) ==
    \/ leases[w] # NoLease
    \/ {v \in Works : rec.prior[v] = rec.prior[w]} = {w}

(* The pass raises: what it decided and did not report stays as it is.     *)
PassRaises ==
    /\ rec' = NoPass
    /\ unreported' = unreported \cup {w \in rec.decided : accepted'[w] # NoNode}

(* One decision reported: the acceptance is revoked, then the event is     *)
(* recorded.  An unidentified work or a failed event ends the pass.        *)
RecoverReport ==
    /\ rec.phase = "reporting"
    /\ LET w == First(rec.decided)
       IN  \/ /\ Identified(w)
              /\ Revoke(w)
              /\ active' = Journaled(w, leases[w] # NoLease)
              /\ rec' = IF rec.decided = {w} THEN NoPass ELSE [rec EXCEPT !.decided = @ \ {w}]
              /\ unreported' = unreported \ {w}
           \/ /\ Identified(w) /\ EmitFails
              /\ Revoke(w)
              /\ PassRaises /\ UNCHANGED active
           \/ /\ ~Identified(w)
              /\ UNCHANGED <<accepted, active>> /\ PassRaises
    /\ UNCHANGED <<now, nodes, coordVars, proposals, pending, serving, bootVars>>

-----------------------------------------------------------------------------
Tick == now < MaxNow /\ now' = now + 1
        /\ UNCHANGED <<nodes, coordVars, serviceVars, active, serving, rec, bootVars, unreported>>

(* The daemon dies, or stops: only its files outlive it.                   *)
Crash ==
    /\ boot # "down" /\ boot' = "down"
    /\ nodes' = [n \in Nodes |-> NoNode]
    /\ leases' = [w \in Works |-> NoLease]
    /\ reqs' = {} /\ refusals' = [w \in Works |-> {}]
    /\ proposals' = {} /\ accepted' = [w \in Works |-> NoNode]
    /\ pending' = [w \in Works |-> NoResult]
    /\ serving' = NoNode /\ rec' = NoPass /\ unreported' = {}
    /\ owed' = owed \cup active
    /\ interrupted' = {}
    /\ UNCHANGED <<now, active>>

(* RuntimeLifecycleJournal.__init__ keeps the previous active_work in      *)
(* memory and replaces the state file by one with an empty active_work.    *)
Boot ==
    /\ boot = "down" /\ boot' = "recording"
    /\ interrupted' = active
    /\ active' = {}
    /\ UNCHANGED <<now, nodes, coordVars, serviceVars, serving, rec, owed, unreported>>

(* _record_interrupted_startup appends one record to the recovery journal. *)
RecordInterrupted ==
    /\ boot = "recording" /\ interrupted # {}
    /\ interrupted' = interrupted \ {First(interrupted)}
    /\ owed' = owed \ {First(interrupted)}
    /\ UNCHANGED <<now, nodes, coordVars, serviceVars, active, serving, rec, boot, unreported>>

(* The daemon serves.  The history starts anew.                            *)
Serve ==
    /\ boot = "recording" /\ interrupted = {}
    /\ boot' = "up" /\ owed' = {}
    /\ UNCHANGED <<now, nodes, coordVars, serviceVars, active, serving, rec, interrupted, unreported>>

RecoverStep == RecoverScan \/ RecoverMark \/ RecoverPlace \/ RecoverPlaced \/ RecoverReport

Next ==
    \/ \E n \in Nodes, a \in Availability, t \in Tasks : Heartbeat(n, a, t)
    \/ ReceiptHeartbeat
    \/ \E w \in Works : Submit(w)
    \/ \E w \in Works, n \in Nodes : Accept(w, n) \/ Refuse(w, n)
    \/ \E w \in Works, r \in Results : Complete(w, r)
    \/ RecoverStep \/ Tick
    \/ Crash \/ Boot \/ RecordInterrupted \/ Serve

Spec == Init /\ [][Next]_vars

(* The daemon runs recover() every recovery_interval_seconds, and systemd  *)
(* starts it again after a failure.                                        *)
FairSpec == Spec /\ WF_vars(RecoverStep) /\ WF_vars(Boot \/ RecordInterrupted \/ Serve)

-----------------------------------------------------------------------------
(* Properties.                                                             *)

(* Every lease belongs to a proposal the service still holds, so that it   *)
(* can be refused, completed or recovered, and its holder is not a node    *)
(* that refused the work or was taken off it.                              *)
LeaseBacked ==
    \A w \in Works : leases[w] # NoLease =>
        w \in proposals \cap reqs /\ leases[w].node \notin refusals[w]

(* No node holds more leases than its task limit, although placement,      *)
(* expiry, refusal and recovery each change the table.                     *)
CapacityRespected == \A n \in Nodes : Cardinality(Held(leases, n)) <= MaxTasks[n]

(* Restart reporting: a work under lease is in active_work, and would be   *)
(* journaled as interrupted by the next boot, unless its completion is     *)
(* already receipted.                                                      *)
RestartReports ==
    \A w \in Works : leases[w] # NoLease => w \in active \/ pending[w] # NoResult

(* docs/distributed_work_daemons.md: "After a process restart, any         *)
(* previously active work is written to the recovery journal".             *)
InterruptedRecorded == [][Serve => owed = {}]_vars

(* A recovered or reassigned lease revokes the acceptance: an accepted     *)
(* work is accepted by the node that holds it, except in a recovery pass   *)
(* or after one that raised before the work's turn.                        *)
AcceptanceRevoked ==
    \A w \in Works :
        leases[w] # NoLease /\ rec.phase = "idle" /\ w \notin unreported
            => accepted[w] \in {NoNode, leases[w].node}

(* docs/distributed_work_service_bridge.md: "A recovered or reassigned     *)
(* lease revokes the prior acceptance state."                              *)
AcceptedByHolder ==
    \A w \in Works :
        leases[w] # NoLease /\ rec.phase = "idle" => accepted[w] \in {NoNode, leases[w].node}

(* A work does not stay leased to a node that stays registered and failed. *)
LeavesFailedNode ==
    \A w \in Works, n \in Nodes :
        <>[](Stale(n) \/ Unavailable(n)) => []<>(Holder(leases, w) # n)

=============================================================================
