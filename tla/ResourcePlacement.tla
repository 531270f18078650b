-------------------------- MODULE ResourcePlacement --------------------------
(***************************************************************************)
(* Body resources and the placement that respects them: hosts advertise    *)
(* what they have free, Runtime keeps the newest proven advertisement per  *)
(* node, and a proposal that declares needs is leased only to a node on    *)
(* which the need is reserved for as long as the lease.  The dispatcher of *)
(* the Founder bridge submits; its LAN thread registers advertisements     *)
(* (no service lock) and refuses, completes and recovers work (service     *)
(* lock, held here while rpBusy is not idle).  One resource per node: the  *)
(* several requirements of a work staged on it come to their sum.  The     *)
(* rank of the functional coordinator is left open: any node it may choose.*)
(***************************************************************************)
EXTENDS Integers, FiniteSets, Functions

CONSTANTS
    RpWorks, RpNodes,
    RpLocal,       \* the Founder's own node, whose publisher is in-process
    RpNeed,        \* work -> amount it declares; 0 is an ordinary proposal
    RpAmounts,     \* what a node may find free
    RpMaxAge,      \* max_age_seconds of an advertisement
    RpLeaseTime,   \* lease_seconds
    RpSkew,        \* bound: how far a remote caller's `now` may be ahead
    RpEnd,         \* bound on the clock
    RpAdverts      \* bound on advertisements sent

RpNone == "none"                \* no work, no operation

ASSUME RpAssumption ==
    /\ RpLocal \in RpNodes /\ RpNeed \in [RpWorks -> Nat]
    /\ RpNone \notin RpNodes /\ RpNone \notin RpWorks
    /\ RpAmounts \subseteq Nat
    /\ RpMaxAge \in Nat \ {0} /\ RpLeaseTime \in Nat \ {0}
    /\ RpSkew \in Nat /\ RpEnd \in Nat

RpNil == [node |-> RpNone]       \* no advertisement, lease or reservation

VARIABLES
    rpClock,
    rpNet,       \* advertisements under way; delivery may be late or repeated
    rpUp,        \* functional registry: nodes that may take work
    rpAdv,       \* NodeResourceRegistry._nodes
    rpDeclared,  \* _declared of the live coordinator: works
    rpReq,       \* _requirements of the resource coordinator
    rpLease, rpRefused,  \* the functional coordinator's leases and refusals
    rpHeld,      \* the reservation ledger
    rpActive,    \* _proposals of the service
    rpSubmit,    \* the dispatcher: the work it is submitting, and how far it is
    rpBusy,      \* the holder of the service lock, the work it has in hand and, of a
                 \* recovery, the pairs <<to release, to reserve>> still to come
    rpScan,      \* a recovery's `now`, affected works (first scan), failed nodes (second)
    rpSeen,      \* history: the largest `now` a service call has carried
    rpStray,     \* history: works of a recovery whose two scans differed
    rpBest       \* history: the most a node has ever advertised

rpVars == <<rpClock, rpNet, rpUp, rpAdv, rpDeclared, rpReq, rpLease, rpRefused,
            rpHeld, rpActive, rpSubmit, rpBusy, rpScan, rpSeen, rpStray, rpBest>>

RpIdle == [by |-> RpNone, work |-> RpNone, todo |-> {}]
RpNoScan == [now |-> 0, affected |-> {}, failed |-> {}]

RpTypeOK ==
    /\ rpClock \in 0 .. RpEnd /\ rpUp \subseteq RpNodes
    /\ \A n \in RpNodes : rpAdv[n] = RpNil \/ rpAdv[n].node = n
    /\ rpDeclared \subseteq RpWorks /\ rpReq \in [RpWorks -> Nat]
    /\ \A w \in RpWorks : rpLease[w] = RpNil \/ rpLease[w].node \in RpNodes
    /\ rpRefused \in [RpWorks -> SUBSET RpNodes] /\ rpActive \subseteq RpWorks
    /\ rpBusy.todo \subseteq RpWorks \X RpWorks /\ rpStray \subseteq RpWorks
    /\ rpScan.affected \subseteq RpWorks /\ rpScan.failed \subseteq RpNodes
    /\ rpBest \in [RpNodes -> Nat]

RpInit ==
    /\ rpClock = 0 /\ rpNet = {} /\ rpUp = RpNodes
    /\ rpAdv = [n \in RpNodes |-> RpNil]
    /\ rpDeclared = {} /\ rpReq = [w \in RpWorks |-> 0]
    /\ rpLease = [w \in RpWorks |-> RpNil]
    /\ rpRefused = [w \in RpWorks |-> {}]
    /\ rpHeld = [w \in RpWorks |-> RpNil]
    /\ rpActive = {} /\ rpSubmit = [work |-> RpNone, at |-> RpNone] /\ rpBusy = RpIdle
    /\ rpScan = RpNoScan /\ rpStray = {} /\ rpSeen = 0 /\ rpBest = [n \in RpNodes |-> 0]

RpFree == rpBusy = RpIdle
RpNows == rpClock .. rpClock + RpSkew

-----------------------------------------------------------------------------
(* Advertisements.                                                         *)

(* One publication: what the probe found at this time.  A host that        *)
(* withdraws publishes no resources and no boot id, so that its proof      *)
(* fails.                                                                  *)
RpAdvert(n, a, ok) == [node |-> n, at |-> rpClock, free |-> a, ok |-> ok]

RpSent(m) ==
    /\ Cardinality(rpNet) < RpAdverts
    /\ m.node # RpLocal
    /\ rpNet' = rpNet \cup {m}
    /\ UNCHANGED <<rpClock, rpUp, rpAdv, rpDeclared, rpReq, rpLease, rpRefused,
                   rpHeld, rpActive, rpSubmit, rpBusy, rpScan, rpSeen, rpStray, rpBest>>

RpAdvertise(n, a) == RpSent(RpAdvert(n, a, TRUE))
RpWithdraw(n) == RpSent(RpAdvert(n, 0, FALSE))

(* _proof_is_current: by the clock of the registry, not the caller's.      *)
RpProven(m) == m.ok /\ rpClock - m.at \in 0 .. RpMaxAge - 1

RpCurrent(n) == rpAdv[n] # RpNil /\ RpProven(rpAdv[n])

(* What prune leaves of the registry.                                      *)
RpPruned(now) ==
    [n \in RpNodes |->
        IF RpCurrent(n) /\ now - rpAdv[n].at < RpMaxAge THEN rpAdv[n] ELSE RpNil]

(* NodeResourceRegistry.register, after prune: an unproven advertisement   *)
(* removes the node, an older one than the stored changes nothing.         *)
RpStored(adv, m) ==
    [adv EXCEPT ![m.node] =
        IF ~RpProven(m) THEN RpNil
        ELSE IF @ = RpNil THEN m
        ELSE IF m.at >= @.at THEN m ELSE @]

(* _specialist_rejection_reason.                                           *)
RpBound(n) == n = RpLocal \/ n \in rpUp

RpRegister(m, now) ==
    /\ now - m.at < RpMaxAge
    /\ rpAdv' = IF RpBound(m.node) THEN RpStored(RpPruned(now), m) ELSE RpPruned(now)
    /\ rpBest' = [rpBest EXCEPT ![m.node] = IF m.free > @ THEN m.free ELSE @]
    /\ UNCHANGED <<rpClock, rpNet, rpUp, rpDeclared, rpReq, rpLease, rpRefused,
                   rpHeld, rpActive, rpSubmit, rpBusy, rpScan, rpSeen, rpStray>>

(* The Founder's own publisher; it withdraws only when the daemon ends.    *)
RpPublishLocal(a) == RpRegister(RpAdvert(RpLocal, a, TRUE), rpClock)

-----------------------------------------------------------------------------
(* The ledger.                                                             *)

RpHeldOn(n) == {w \in RpWorks : rpHeld[w] # RpNil /\ rpHeld[w].node = n}

(* The units the reservations on a node hold, one by one.                  *)
RpUnits(n) == UNION {{w} \X (1 .. rpHeld[w].amount) : w \in RpHeldOn(n)}

(* reserved_amount: the sum of the amounts is the number of units.         *)
RpCommitted(n) == Cardinality(RpUnits(n))

(* _choose_resource_locked.                                                *)
RpFits(n, need) == RpCurrent(n) /\ rpAdv[n].free - RpCommitted(n) >= need

(* ResourceReservationLedger.prune.                                        *)
RpUnexpired(f, now) ==
    [w \in RpWorks |-> IF f[w] # RpNil /\ f[w].exp > now THEN f[w] ELSE RpNil]

-----------------------------------------------------------------------------
(* The coordinators.                                                       *)

(* _node_meets with _requirement_met.                                      *)
RpMeets(w, n) == rpReq[w] = 0 \/ (RpCurrent(n) /\ rpAdv[n].free >= rpReq[w])

RpLeaseOn(n, now) == [node |-> n, exp |-> now + RpLeaseTime]

(* refuse_and_reassign of the functional coordinator, and the loop of      *)
(* _ensure_resource_eligible: nodes that do not meet the needs are refused *)
(* in turn, until one does or none is left.                                *)
RpReassign(w, now, held) ==
    LET refused == rpRefused[w] \cup {rpLease[w].node}
        unmet   == {n \in rpUp \ refused : ~RpMeets(w, n)}
        met     == (rpUp \ refused) \ unmet
    IN  /\ rpHeld' = held
        /\ \/ \E n \in met, tried \in SUBSET unmet :
                /\ rpLease' = [rpLease EXCEPT ![w] = RpLeaseOn(n, now)]
                /\ rpRefused' = [rpRefused EXCEPT ![w] = refused \cup tried]
           \/ /\ met = {}
              /\ rpLease' = [rpLease EXCEPT ![w] = RpNil]
              /\ rpRefused' = [rpRefused EXCEPT ![w] = refused \cup unmet]

(* ResourceReservationLedger.reserve.                                      *)
RpReserve(w, n) ==
    /\ RpFits(n, rpReq[w])
    /\ rpHeld' = [rpHeld EXCEPT ![w] = [node |-> n, exp |-> rpLease[w].exp, amount |-> rpReq[w]]]

(* One turn of _ensure_reserved for the work in hand.  The lock is kept    *)
(* until the turn that reserves, needs nothing or finds no node.  A lease  *)
(* id is the work and its node: a reservation under another one raises,    *)
(* which ends the call and leaves the pairs still to come undone.          *)
RpEnsureReserved ==
    /\ rpBusy.work # RpNone
    /\ LET w == rpBusy.work
           l == rpLease[w]
           held == rpHeld[w]
           due == l # RpNil /\ rpReq[w] > 0
           done == rpBusy' = [rpBusy EXCEPT !.work = RpNone] /\ UNCHANGED rpSubmit
       IN  \/ /\ due => RpCurrent(l.node) /\ held # RpNil /\ held.node = l.node
              /\ done /\ UNCHANGED <<rpLease, rpRefused, rpHeld>>
           \/ /\ due /\ held = RpNil
              /\ RpReserve(w, l.node)
              /\ done /\ UNCHANGED <<rpLease, rpRefused>>
           \/ /\ due /\ (~RpCurrent(l.node) \/ (held = RpNil /\ ~RpFits(l.node, rpReq[w])))
              /\ RpReassign(w, l.exp - RpLeaseTime, rpHeld)
              /\ UNCHANGED <<rpBusy, rpSubmit>>
           \/ /\ due /\ RpCurrent(l.node) /\ held # RpNil /\ held.node # l.node
              /\ rpBusy' = RpIdle
              /\ rpSubmit' = IF rpBusy.by = "submit" THEN [rpSubmit EXCEPT !.at = "failed"]
                             ELSE rpSubmit
              /\ UNCHANGED <<rpLease, rpRefused, rpHeld>>
    /\ UNCHANGED <<rpClock, rpNet, rpUp, rpAdv, rpDeclared, rpReq, rpActive, rpScan, rpSeen,
                   rpStray, rpBest>>

-----------------------------------------------------------------------------
(* The dispatcher: ResourceAwareProposalSubmitter.submit.                  *)

RpDeclare(w) ==
    /\ rpSubmit.work = RpNone /\ RpNeed[w] > 0
    /\ rpLease[w] = RpNil /\ w \notin rpDeclared
    /\ rpDeclared' = rpDeclared \cup {w}
    /\ rpSubmit' = [work |-> w, at |-> "declared"]
    /\ UNCHANGED <<rpClock, rpNet, rpUp, rpAdv, rpReq, rpLease, rpRefused, rpHeld,
                   rpActive, rpBusy, rpScan, rpSeen, rpStray, rpBest>>

(* The nodes ResourceAwareWorkCoordinator.place does not exclude.          *)
RpAble(w) ==
    {n \in rpUp \ rpRefused[w] :
        w \in rpDeclared => RpCurrent(n) /\ rpAdv[n].free >= RpNeed[w]}

(* service.submit up to the lease.  A proposal that is still active is     *)
(* turned down before anything is placed.                                  *)
RpPlace(w) ==
    /\ RpFree
    /\ \/ rpSubmit = [work |-> w, at |-> "declared"]
       \/ rpSubmit.work = RpNone /\ RpNeed[w] = 0
    /\ IF w \in rpActive
       THEN /\ rpSubmit' = [work |-> w, at |-> "failed"]
            /\ UNCHANGED <<rpAdv, rpDeclared, rpReq, rpLease, rpHeld, rpBusy, rpSeen>>
       ELSE /\ rpAdv' = RpPruned(rpClock)
            /\ rpSeen' = IF rpClock > rpSeen THEN rpClock ELSE rpSeen
            /\ rpDeclared' = rpDeclared \ {w}
            /\ rpReq' = [rpReq EXCEPT ![w] = IF w \in rpDeclared THEN RpNeed[w] ELSE 0]
            /\ rpHeld' = RpUnexpired(rpHeld, rpClock)
            /\ LET leases == RpUnexpired(rpLease, rpClock)
               IN  \/ /\ RpAble(w) = {} /\ leases[w] = RpNil
                      /\ rpLease' = leases /\ rpSubmit' = [work |-> w, at |-> "failed"]
                      /\ UNCHANGED rpBusy
                   \/ \E n \in RpAble(w) :
                      /\ rpLease' = IF leases[w] # RpNil THEN leases
                                    ELSE [leases EXCEPT ![w] = RpLeaseOn(n, rpClock)]
                      /\ rpSubmit' = [work |-> w, at |-> "placed"]
                      /\ rpBusy' = [by |-> "submit", work |-> w, todo |-> {}]
    /\ UNCHANGED <<rpClock, rpNet, rpUp, rpRefused, rpActive, rpScan, rpStray, rpBest>>

(* The rest of service.submit: the receipt is published, or it is not and  *)
(* the placement is taken back.                                            *)
RpSubmitted(published) ==
    /\ rpSubmit.at = "placed" /\ rpBusy.by = "submit" /\ rpBusy.work = RpNone
    /\ LET w == rpSubmit.work
       IN  IF published /\ rpLease[w] # RpNil
           THEN /\ rpActive' = rpActive \cup {w}
                /\ rpSubmit' = [work |-> RpNone, at |-> RpNone]
                /\ UNCHANGED <<rpLease, rpHeld, rpReq, rpRefused>>
           ELSE /\ rpLease' = [rpLease EXCEPT ![w] = RpNil]
                /\ rpHeld' = [rpHeld EXCEPT ![w] = IF rpLease[w] = RpNil THEN @ ELSE RpNil]
                /\ rpRefused' = [rpRefused EXCEPT ![w] = IF rpLease[w] = RpNil THEN @ ELSE {}]
                /\ rpReq' = [rpReq EXCEPT ![w] = IF rpLease[w] = RpNil THEN @ ELSE 0]
                /\ rpSubmit' = [rpSubmit EXCEPT !.at = "failed"]
                /\ UNCHANGED rpActive
    /\ rpBusy' = RpIdle
    /\ UNCHANGED <<rpClock, rpNet, rpUp, rpAdv, rpDeclared, rpScan, rpSeen, rpStray, rpBest>>

(* cancel_declaration, outside the service lock; only a submission that    *)
(* declared needs is cancelled.                                            *)
RpCancel ==
    /\ rpSubmit.at = "failed"
    /\ LET w == rpSubmit.work
       IN  IF RpNeed[w] > 0
           THEN /\ rpDeclared' = rpDeclared \ {w}
                /\ rpReq' = [rpReq EXCEPT ![w] = 0]
                /\ rpHeld' = [rpHeld EXCEPT ![w] = RpNil]
           ELSE UNCHANGED <<rpDeclared, rpReq, rpHeld>>
    /\ rpSubmit' = [work |-> RpNone, at |-> RpNone]
    /\ UNCHANGED <<rpClock, rpNet, rpUp, rpAdv, rpLease, rpRefused, rpActive, rpBusy,
                   rpScan, rpSeen, rpStray, rpBest>>

-----------------------------------------------------------------------------
(* The LAN thread.                                                         *)

(* refuse_and_reassign of the live coordinator, with the node's `now`.     *)
RpRefuse(w, now) ==
    /\ RpFree /\ w \in rpActive /\ rpLease[w] # RpNil
    /\ rpAdv' = RpPruned(now)
    /\ rpSeen' = IF now > rpSeen THEN now ELSE rpSeen
    /\ RpReassign(w, now, [RpUnexpired(rpHeld, now) EXCEPT ![w] = RpNil])
    /\ rpBusy' = [by |-> "refuse", work |-> w, todo |-> {}]
    /\ rpStray' = rpStray \ {w}
    /\ UNCHANGED <<rpClock, rpNet, rpUp, rpDeclared, rpReq, rpActive, rpSubmit, rpScan, rpBest>>

(* A completed work keeps its reservation.                                 *)
MutRpComplete(w) ==
    /\ RpFree /\ w \in rpActive /\ rpLease[w] # RpNil
    /\ rpLease' = [rpLease EXCEPT ![w] = RpNil]
    /\ rpReq' = [rpReq EXCEPT ![w] = 0]
    /\ rpRefused' = [rpRefused EXCEPT ![w] = {}]
    /\ rpActive' = rpActive \ {w} /\ rpStray' = rpStray \ {w}
    /\ UNCHANGED <<rpClock, rpNet, rpUp, rpAdv, rpDeclared, rpHeld, rpSubmit, rpBusy,
                   rpScan, rpSeen, rpBest>>

RpComplete(w) ==
    /\ RpFree /\ w \in rpActive /\ rpLease[w] # RpNil
    /\ rpLease' = [rpLease EXCEPT ![w] = RpNil]
    /\ rpReq' = [rpReq EXCEPT ![w] = 0]
    /\ rpRefused' = [rpRefused EXCEPT ![w] = {}]
    /\ rpHeld' = [rpHeld EXCEPT ![w] = RpNil]
    /\ rpDeclared' = rpDeclared \ {w}
    /\ rpActive' = rpActive \ {w} /\ rpStray' = rpStray \ {w}
    /\ UNCHANGED <<rpClock, rpNet, rpUp, rpAdv, rpSubmit, rpBusy, rpScan, rpSeen, rpBest>>

(* recover_unavailable_nodes of the live coordinator, up to its scan: the  *)
(* works it expects to move.  Heartbeats take no lock, so hosts come and   *)
(* go between this and the next two steps.                                 *)
RpRecover(now) ==
    /\ RpFree
    /\ rpAdv' = RpPruned(now)
    /\ rpSeen' = IF now > rpSeen THEN now ELSE rpSeen
    /\ rpHeld' = RpUnexpired(rpHeld, now)
    /\ rpScan' = [now |-> now, failed |-> {},
                  affected |-> {w \in RpWorks : /\ RpUnexpired(rpLease, now)[w] # RpNil
                                                /\ rpLease[w].node \notin rpUp}]
    /\ rpBusy' = [rpBusy EXCEPT !.by = "scan"]
    /\ UNCHANGED <<rpClock, rpNet, rpUp, rpDeclared, rpReq, rpLease, rpRefused, rpActive,
                   rpSubmit, rpStray, rpBest>>

(* The scan of the functional coordinator ...                              *)
RpRescan ==
    /\ rpBusy.by = "scan"
    /\ rpScan' = [rpScan EXCEPT !.failed = RpNodes \ rpUp]
    /\ rpBusy' = [rpBusy EXCEPT !.by = "move"]
    /\ UNCHANGED <<rpClock, rpNet, rpUp, rpAdv, rpDeclared, rpReq, rpLease, rpRefused, rpHeld,
                   rpActive, rpSubmit, rpSeen, rpStray, rpBest>>

(* ... which marks the nodes it found offline, also one that is back since *)
(* (back: those that came back after the mark), and moves their works      *)
(* without a look at resources.  The live coordinator raises on a count it *)
(* did not expect; otherwise it pairs its works with the decisions in the  *)
(* order of the ids, which is left open unless the two scans agree.        *)
RpMove ==
    /\ rpBusy.by = "move"
    /\ LET now    == rpScan.now
           leases == RpUnexpired(rpLease, now)
           lost   == {w \in RpWorks : leases[w] # RpNil /\ leases[w].node \in rpScan.failed}
           refused == [w \in RpWorks |->
                         rpRefused[w] \cup (IF w \in lost THEN {leases[w].node} ELSE {})]
       IN  /\ rpRefused' = refused
           /\ \E back \in SUBSET (rpScan.failed \cap rpUp) :
                /\ rpUp' = (rpUp \ rpScan.failed) \cup back
                /\ \E to \in [lost -> RpNodes \cup {RpNone}] :
                     /\ \A w \in lost : to[w] \in IF rpUp' \subseteq refused[w] THEN {RpNone}
                                                  ELSE rpUp' \ refused[w]
                     /\ rpLease' = [w \in RpWorks |->
                                      IF w \notin lost THEN leases[w]
                                      ELSE IF to[w] = RpNone THEN RpNil
                                      ELSE RpLeaseOn(to[w], now)]
           /\ rpStray' = IF lost = rpScan.affected THEN rpStray \ lost
                         ELSE rpStray \cup lost \cup rpScan.affected
           /\ \/ /\ Cardinality(lost) # Cardinality(rpScan.affected)
                 /\ rpBusy' = RpIdle
              \/ \E pair \in Bijection(rpScan.affected, lost) :
                   /\ lost = rpScan.affected => \A w \in lost : pair[w] = w
                   /\ rpBusy' = [by |-> "recover", work |-> RpNone,
                                 todo |-> {<<w, pair[w]>> : w \in rpScan.affected}]
    /\ rpScan' = RpNoScan
    /\ UNCHANGED <<rpClock, rpNet, rpAdv, rpDeclared, rpReq, rpHeld, rpActive, rpSubmit, rpSeen,
                   rpBest>>

(* Pair by pair, a reservation is released, and the work of the decision   *)
(* is revalidated and reserved.                                            *)
RpRecoverNext ==
    /\ rpBusy.by = "recover" /\ rpBusy.work = RpNone
    /\ \E p \in rpBusy.todo :
         LET w == p[2]
             held == [rpHeld EXCEPT ![p[1]] = RpNil]
         IN  /\ IF rpLease[w] # RpNil /\ ~RpMeets(w, rpLease[w].node)
                THEN RpReassign(w, rpLease[w].exp - RpLeaseTime, held)
                ELSE rpHeld' = held /\ UNCHANGED <<rpLease, rpRefused>>
             /\ rpBusy' = [rpBusy EXCEPT !.work = w, !.todo = @ \ {p}]
    /\ UNCHANGED <<rpClock, rpNet, rpUp, rpAdv, rpDeclared, rpReq, rpActive, rpSubmit, rpScan,
                   rpSeen, rpStray, rpBest>>

(* The service lock is released when nothing is left to reserve.           *)
RpUnlock ==
    /\ rpBusy.by \in {"refuse", "recover"} /\ rpBusy.work = RpNone /\ rpBusy.todo = {}
    /\ rpBusy' = RpIdle
    /\ UNCHANGED <<rpClock, rpNet, rpUp, rpAdv, rpDeclared, rpReq, rpLease, rpRefused,
                   rpHeld, rpActive, rpSubmit, rpScan, rpSeen, rpStray, rpBest>>

(* Environment: time, and the availability of the hosts' specialists in    *)
(* the functional registry.                                                *)
RpAvailability(n) ==
    /\ rpUp' = IF n \in rpUp THEN rpUp \ {n} ELSE rpUp \cup {n}
    /\ UNCHANGED <<rpClock, rpNet, rpAdv, rpDeclared, rpReq, rpLease, rpRefused, rpHeld,
                   rpActive, rpSubmit, rpBusy, rpScan, rpSeen, rpStray, rpBest>>

RpTick ==
    /\ rpClock < RpEnd
    /\ rpClock' = rpClock + 1
    /\ UNCHANGED <<rpNet, rpUp, rpAdv, rpDeclared, rpReq, rpLease, rpRefused, rpHeld,
                   rpActive, rpSubmit, rpBusy, rpScan, rpSeen, rpStray, rpBest>>

RpNext ==
    \/ \E n \in RpNodes, a \in RpAmounts : RpAdvertise(n, a)
    \/ \E n \in RpNodes : RpWithdraw(n)
    \/ \E m \in rpNet, now \in RpNows : RpRegister(m, now)
    \/ \E a \in RpAmounts : RpPublishLocal(a)
    \/ RpEnsureReserved
    \/ \E w \in RpWorks : RpDeclare(w) \/ RpPlace(w) \/ RpComplete(w)
    \/ \E p \in BOOLEAN : RpSubmitted(p)
    \/ RpCancel
    \/ \E w \in RpWorks, now \in RpNows : RpRefuse(w, now)
    \/ \E now \in RpNows : RpRecover(now)
    \/ RpRescan \/ RpMove \/ RpRecoverNext \/ RpUnlock
    \/ \E n \in RpNodes : RpAvailability(n)
    \/ RpTick

-----------------------------------------------------------------------------
(* Whenever no service call is in progress, a leased work that declared    *)
(* needs has its reservation, on the leased node and for as long as the    *)
(* lease, unless a call has been made with a `now` past its expiry; and a  *)
(* reservation belongs to a lease on its node.  Excepted are the works of  *)
(* a recovery whose two scans of the registry differed, until they are     *)
(* refused, recovered or completed: it raises after the move, or pairs the *)
(* works with decisions about others, and the reservation stays behind.    *)
RpReserved ==
    RpFree =>
    \A w \in RpWorks \ rpStray :
        /\ rpLease[w] # RpNil /\ rpReq[w] > 0 /\ rpSeen < rpLease[w].exp =>
              /\ rpHeld[w] # RpNil
              /\ rpHeld[w].node = rpLease[w].node /\ rpHeld[w].exp = rpLease[w].exp
        /\ rpHeld[w] # RpNil =>
              rpLease[w] # RpNil /\ rpLease[w].node = rpHeld[w].node

(* What is reserved on a node never exceeds the most it ever advertised.   *)
RpNotOvercommitted == \A n \in RpNodes : RpCommitted(n) <= rpBest[n]

(* Leases and reservations agree, and no node is promised more than it has.*)
RpSound == RpReserved /\ RpNotOvercommitted

RpSpec == RpInit /\ [][RpNext]_rpVars
=============================================================================
