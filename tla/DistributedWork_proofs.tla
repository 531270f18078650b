----------------------- MODULE DistributedWork_proofs -----------------------
(***************************************************************************)
(* Proofs about the distributed-work service, for any set of works and     *)
(* nodes, any placement classes, task limits and time bounds.              *)
(***************************************************************************)
EXTENDS DistributedWork, WellFoundedInduction, FiniteSetTheorems, TLAPS

-----------------------------------------------------------------------------
(* The invariant.                                                          *)

(* Where a recovery pass is.  Outside one nothing is left to do; the works *)
(* it still has to move are leased to nodes it found failed.               *)
PassInv ==
    /\ rec.phase = "idle" => rec.todo = {} /\ rec.decided = {}
    /\ rec.phase = "scanned" => rec.decided = {}
    /\ rec.phase = "reporting" => rec.decided # {}
    /\ rec.phase = "placing" => \A w \in rec.todo : Holder(leases, w) \in rec.failed

(* While the daemon is not serving there are no leases and no pass.        *)
BootInv == boot # "up" => rec.phase = "idle" /\ \A w \in Works : leases[w] = NoLease

(* The acceptance of a lease is its holder's own, in a pass too, unless    *)
(* the work was moved and its turn to be reported has not come; and only   *)
(* proposals are accepted, so that a new lease starts unaccepted.          *)
AcceptInv ==
    /\ \A w \in Works : accepted[w] # NoNode => w \in proposals
    /\ \A w \in Works :
          leases[w] # NoLease /\ w \notin unreported /\ w \notin rec.decided
              => accepted[w] \in {NoNode, leases[w].node}

(* Every node holds finitely many leases, within its limit.                *)
RoomInv == \A n \in Nodes : IsFiniteSet(Held(leases, n)) /\ Cardinality(Held(leases, n)) <= MaxTasks[n]

IInv == TypeOK /\ PassInv /\ BootInv /\ LeaseBacked

-----------------------------------------------------------------------------
(* The operators of the coordinator.                                       *)

(* sorted() has a first element: it is one of the set.                     *)
LEMMA FirstType ==
    ASSUME NEW S \in SUBSET Works, S # {} PROVE First(S) \in S
<1>1. S \subseteq Nat
  BY WorksAssumption
<1> DEFINE Less == {ss \in Nat \X Nat : ss[1] < ss[2]}
<1>2. IsWellFoundedOn(Less, Nat)
  BY NatLessThanWellFounded, Zenon DEF OpToRel
<1>3. \E w \in S : \A v \in S : ~(<<v, w>> \in Less)
  BY <1>1, <1>2, WFMin, Zenon
<1>4. \A v, w \in Nat : v < w => <<v, w>> \in Less
  OBVIOUS
<1> HIDE DEF Less
<1>5. \E w \in S : \A v \in S : w <= v
  <2>1. PICK w \in S : \A v \in S : ~(<<v, w>> \in Less)
    BY <1>3
  <2>2. ASSUME NEW v \in S PROVE w <= v
    <3>1. v \in Nat /\ w \in Nat
      BY <1>1
    <3>2. ~(v < w)
      BY <1>4, <2>1, <3>1
    <3> QED BY <3>1, <3>2
  <2> QED BY <2>2
<1> QED BY <1>5 DEF First

(* The chosen node is eligible, whatever class it comes from.              *)
LEMMA CandidateType ==
    ASSUME NEW ls, NEW w, NEW excluded, NEW n \in Candidates(ls, w, excluded)
    PROVE  n \in Nodes /\ n \notin excluded /\ nodes[n] # NoNode /\ HasRoom(ls, n)
<1>1. n \in Eligible(ls, excluded)
  BY DEF Candidates
<1> QED BY <1>1 DEF Eligible

LeaseTable == [Works -> Leases \cup {NoLease}]

(* A placement leaves the table as it is, or gives the work to a node that *)
(* is not excluded and has room.                                           *)
LEMMA PlacementType ==
    ASSUME NEW ls \in LeaseTable, NEW w \in Works, NEW excluded, NEW at \in Now,
           NEW new \in Placements(ls, w, excluded, at)
    PROVE  \/ new = ls
           \/ \E n \in Nodes \ excluded :
                 /\ nodes[n] # NoNode /\ HasRoom(ls, n)
                 /\ [node |-> n, expires |-> Expiry(at)] \in Leases
                 /\ new = [ls EXCEPT ![w] = [node |-> n, expires |-> Expiry(at)]]
<1>1. CASE Candidates(ls, w, excluded) = {}
  BY <1>1 DEF Placements
<1>2. CASE Candidates(ls, w, excluded) # {}
  <2>1. PICK n \in Candidates(ls, w, excluded) :
                new = [ls EXCEPT ![w] = [node |-> n, expires |-> Expiry(at)]]
    BY <1>2 DEF Placements
  <2>2. n \in Nodes /\ n \notin excluded /\ nodes[n] # NoNode /\ HasRoom(ls, n)
    BY CandidateType
  <2>3. Expiry(at) \in 0..(MaxNow + LeaseTime)
    BY TimesAssumption DEF Expiry, Now
  <2> QED BY <2>1, <2>2, <2>3 DEF Leases
<1> QED BY <1>1, <1>2

(* Expiry only removes leases.                                             *)
LEMMA UnexpiredType ==
    ASSUME NEW ls \in LeaseTable, NEW at
    PROVE  /\ Unexpired(ls, at) \in LeaseTable
           /\ \A w \in Works : Unexpired(ls, at)[w] \in {ls[w], NoLease}
BY DEF Unexpired, LeaseTable

-----------------------------------------------------------------------------
(* What a step may do to the lease table.                                  *)

(* ls has some of the leases, and no others.                               *)
Fewer(ls) == ls \in LeaseTable /\ \A v \in Works : ls[v] \in {leases[v], NoLease}

(* After some leases are gone, w's among them, w may be placed anew.       *)
Replaced(w) ==
    \E ls \in LeaseTable :
        /\ Fewer(ls) /\ ls[w] = NoLease
        /\ \/ leases' = ls
           \/ \E l \in Leases :
                 /\ l.node \notin refusals'[w] /\ nodes[l.node] # NoNode /\ HasRoom(ls, l.node)
                 /\ leases' = [ls EXCEPT ![w] = l]

(* A placement of w in a table without a lease of w has this shape.        *)
LEMMA PlacementShape ==
    ASSUME NEW ls \in LeaseTable, NEW w \in Works, NEW at \in Now, Fewer(ls), ls[w] = NoLease,
           leases' \in Placements(ls, w, refusals'[w], at)
    PROVE  Replaced(w)
<1>1. CASE leases' = ls
  BY <1>1 DEF Replaced
<1>2. CASE \E n \in Nodes \ refusals'[w] :
              /\ nodes[n] # NoNode /\ HasRoom(ls, n)
              /\ [node |-> n, expires |-> Expiry(at)] \in Leases
              /\ leases' = [ls EXCEPT ![w] = [node |-> n, expires |-> Expiry(at)]]
  BY <1>2 DEF Replaced
<1>3. \/ leases' = ls
      \/ \E n \in Nodes \ refusals'[w] :
            /\ nodes[n] # NoNode /\ HasRoom(ls, n)
            /\ [node |-> n, expires |-> Expiry(at)] \in Leases
            /\ leases' = [ls EXCEPT ![w] = [node |-> n, expires |-> Expiry(at)]]
  BY PlacementType
<1> QED BY <1>1, <1>2, <1>3

(* Either way the table stays a lease table, and differs from the old one  *)
(* at other works only by removals.                                        *)
LEMMA ReplacedType ==
    ASSUME NEW w \in Works, Replaced(w)
    PROVE  /\ leases' \in LeaseTable
           /\ \A v \in Works \ {w} : leases'[v] \in {leases[v], NoLease}
           /\ leases'[w] = NoLease \/ (leases'[w] \in Leases /\ leases'[w].node \notin refusals'[w])
BY DEF Replaced, Fewer, LeaseTable

(* submit() places a work without a lease.                                 *)
LEMMA SubmitShape ==
    ASSUME IInv, NEW w \in Works, Submit(w) PROVE Replaced(w)
<1>1. leases \in LeaseTable /\ leases[w] = NoLease /\ now \in Now
  BY DEF IInv, TypeOK, LeaseTable, LeaseBacked, Submit
<1>2. PICK L \in LeaseTable : L = Unexpired(leases, now) /\ Fewer(L) /\ L[w] = NoLease
  BY <1>1, UnexpiredType DEF Fewer
<1>3. PICK ls \in Placements(L, w, refusals[w], now) :
              \/ leases' = ls /\ refusals' = refusals
              \/ leases' = [ls EXCEPT ![w] = NoLease]
  BY <1>2 DEF Submit
<1>4. CASE leases' = ls /\ refusals' = refusals
  BY <1>1, <1>2, <1>3, <1>4, PlacementShape
<1>5. CASE leases' = [ls EXCEPT ![w] = NoLease]
  <2>1. \/ ls = L
        \/ \E n \in Nodes \ refusals[w] :
              /\ nodes[n] # NoNode /\ HasRoom(L, n)
              /\ [node |-> n, expires |-> Expiry(now)] \in Leases
              /\ ls = [L EXCEPT ![w] = [node |-> n, expires |-> Expiry(now)]]
    BY <1>1, <1>2, <1>3, PlacementType
  <2>2. leases' = L
    BY <1>2, <1>5, <2>1 DEF LeaseTable
  <2> QED BY <1>2, <2>2 DEF Replaced
<1> QED BY <1>3, <1>4, <1>5

(* refuse() and recover() take the lease away first, and no other.         *)
LEMMA MoveShape ==
    ASSUME IInv, NEW w \in Works, NEW at \in Now,
           leases' \in Placements([leases EXCEPT ![w] = NoLease], w, refusals'[w], at)
    PROVE  Replaced(w) /\ \A v \in Works \ {w} : leases'[v] = leases[v]
<1>1. PICK L \in LeaseTable : L = [leases EXCEPT ![w] = NoLease]
  BY DEF IInv, TypeOK, LeaseTable
<1>2. Fewer(L) /\ L[w] = NoLease
  BY <1>1 DEF Fewer, IInv, TypeOK, LeaseTable
<1>3. leases' \in Placements(L, w, refusals'[w], at)
  BY <1>1
<1>4. Replaced(w)
  BY <1>2, <1>3, PlacementShape
<1>5. \/ leases' = L
      \/ \E n \in Nodes \ refusals'[w] :
            /\ nodes[n] # NoNode /\ HasRoom(L, n)
            /\ [node |-> n, expires |-> Expiry(at)] \in Leases
            /\ leases' = [L EXCEPT ![w] = [node |-> n, expires |-> Expiry(at)]]
  BY <1>3, PlacementType
<1> QED BY <1>1, <1>4, <1>5 DEF LeaseTable

-----------------------------------------------------------------------------
(* The invariant IInv is preserved.                                        *)

(* The empty tables of a new daemon.                                       *)
LEMMA InitInv == Init => IInv
<1> SUFFICES ASSUME Init PROVE IInv
  OBVIOUS
<1>1. 0 \in Now /\ rec = NoPass
  BY TimesAssumption DEF Now, Init
<1>2. TypeOK
  BY <1>1 DEF Init, TypeOK, NoPass, Phases
<1>3. PassInv /\ BootInv /\ LeaseBacked
  BY <1>1 DEF Init, PassInv, BootInv, LeaseBacked, NoPass
<1> QED BY <1>2, <1>3 DEF IInv

(* A heartbeat and its receipt change the registry only.                   *)
LEMMA HeartbeatInv ==
    ASSUME IInv,
           \/ \E n \in Nodes, a \in Availability, t \in Tasks : Heartbeat(n, a, t)
           \/ ReceiptHeartbeat
    PROVE  IInv'
<1>1. UNCHANGED <<now, coordVars, serviceVars, active, rec, unreported, bootVars>>
  BY DEF Heartbeat, ReceiptHeartbeat
<1>2. nodes' \in [Nodes -> Adverts \cup {NoNode}] /\ serving' \in Nodes \cup {NoNode}
  <2>1. CASE ReceiptHeartbeat
    BY <2>1 DEF ReceiptHeartbeat, IInv, TypeOK
  <2>2. ASSUME NEW n \in Nodes, NEW a \in Availability, NEW t \in Tasks, Heartbeat(n, a, t)
        PROVE  nodes' \in [Nodes -> Adverts \cup {NoNode}] /\ serving' \in Nodes \cup {NoNode}
    <3>1. [avail |-> a, beat |-> now, tasks |-> t] \in Adverts
      BY DEF IInv, TypeOK, Adverts
    <3> QED BY <2>2, <3>1 DEF Heartbeat, IInv, TypeOK
  <2> QED BY <2>1, <2>2
<1>3. TypeOK'
  BY <1>1, <1>2 DEF IInv, TypeOK, coordVars, serviceVars, bootVars
<1>4. PassInv' /\ BootInv' /\ LeaseBacked'
  BY <1>1 DEF IInv, PassInv, BootInv, LeaseBacked, Holder, coordVars, serviceVars, bootVars
<1> QED BY <1>3, <1>4 DEF IInv

(* A new lease belongs to the proposal that is kept with it.               *)
LEMMA SubmitInv == ASSUME IInv, NEW w \in Works, Submit(w) PROVE IInv'
<1>1. /\ leases' \in LeaseTable
      /\ \A v \in Works \ {w} : leases'[v] \in {leases[v], NoLease}
      /\ leases'[w] = NoLease \/ (leases'[w] \in Leases /\ leases'[w].node \notin refusals'[w])
  BY SubmitShape, ReplacedType
<1>2. /\ UNCHANGED <<now, nodes, accepted, pending, serving, rec, unreported, bootVars>>
      /\ rec.phase = "idle" /\ boot = "up"
  BY DEF Submit, Idle
<1>3. /\ reqs' \in {reqs \cup {w}, reqs \ {w}}
      /\ refusals' \in {refusals, [refusals EXCEPT ![w] = {}]}
      /\ proposals' \in {proposals, proposals \cup {w}}
      /\ active' \in {active, active \cup {w}, active \ {w}}
  BY DEF Submit, Journaled
<1>4. leases'[w] # NoLease => w \in proposals' \cap reqs'
  BY <1>1 DEF Submit, LeaseTable
<1>5. TypeOK'
  BY <1>1, <1>2, <1>3 DEF IInv, TypeOK, LeaseTable, bootVars
<1>6. LeaseBacked'
  BY <1>1, <1>3, <1>4 DEF IInv, TypeOK, LeaseBacked
<1>7. PassInv' /\ BootInv'
  BY <1>2 DEF IInv, PassInv, BootInv, bootVars
<1> QED BY <1>5, <1>6, <1>7 DEF IInv

(* accept() touches neither the leases nor a pass.                         *)
LEMMA AcceptStep ==
    ASSUME IInv, NEW w \in Works, NEW n \in Nodes, Accept(w, n) PROVE IInv'
<1>1. UNCHANGED <<now, nodes, coordVars, proposals, pending, serving, rec, bootVars>>
  BY DEF Accept
<1>2. TypeOK'
  BY <1>1 DEF Accept, Journaled, IInv, TypeOK, coordVars, bootVars
<1>3. PassInv' /\ BootInv' /\ LeaseBacked'
  BY <1>1 DEF IInv, PassInv, BootInv, LeaseBacked, Holder, coordVars, bootVars
<1> QED BY <1>2, <1>3 DEF IInv

(* refuse() places the work on a node that has not refused it.             *)
LEMMA RefuseShape ==
    ASSUME IInv, NEW w \in Works, NEW n \in Nodes, Refuse(w, n) PROVE Replaced(w)
<1>1. leases' \in Placements([leases EXCEPT ![w] = NoLease], w, refusals'[w], now)
  BY DEF Refuse
<1> QED BY <1>1, MoveShape DEF IInv, TypeOK

(* refuse() keeps the proposal and its requirement.                        *)
LEMMA RefuseInv ==
    ASSUME IInv, NEW w \in Works, NEW n \in Nodes, Refuse(w, n) PROVE IInv'
<1>1. /\ leases' \in LeaseTable
      /\ \A v \in Works \ {w} : leases'[v] \in {leases[v], NoLease}
      /\ leases'[w] = NoLease \/ (leases'[w] \in Leases /\ leases'[w].node \notin refusals'[w])
  BY RefuseShape, ReplacedType
<1>2. /\ UNCHANGED <<now, nodes, reqs, proposals, pending, serving, rec, bootVars>>
      /\ rec.phase = "idle" /\ boot = "up"
  BY DEF Refuse, Idle
<1>3. /\ refusals' = [refusals EXCEPT ![w] = @ \cup {n}]
      /\ accepted' = [accepted EXCEPT ![w] = NoNode]
      /\ active' \in {active, active \cup {w}, active \ {w}}
      /\ unreported' = unreported \ {w}
  BY DEF Refuse, Refused, Revoke, Journaled
<1>4. w \in proposals \cap reqs
  BY NodesAssumption DEF Refuse, Owns, Holder, IInv, LeaseBacked
<1>5. TypeOK'
  BY <1>1, <1>2, <1>3 DEF IInv, TypeOK, LeaseTable, bootVars
<1>6. LeaseBacked'
  BY <1>1, <1>2, <1>3, <1>4 DEF IInv, TypeOK, LeaseBacked
<1>7. PassInv' /\ BootInv'
  BY <1>2 DEF IInv, PassInv, BootInv, bootVars
<1> QED BY <1>5, <1>6, <1>7 DEF IInv

(* complete() closes the work, or keeps its result pending.                *)
LEMMA CompleteInv ==
    ASSUME IInv, NEW w \in Works, NEW r \in Results, Complete(w, r) PROVE IInv'
<1>1. /\ UNCHANGED <<now, nodes, serving, rec, bootVars>>
      /\ rec.phase = "idle" /\ boot = "up"
      /\ active' \in {active, active \ {w}}
  BY DEF Complete, Idle, Journaled
<1>2. CASE /\ Closed(w) /\ Revoke(w)
           /\ unreported' = unreported \ {w}
           /\ proposals' = proposals \ {w}
           /\ pending' = [pending EXCEPT ![w] = NoResult]
  <2>1. TypeOK'
    BY <1>1, <1>2 DEF Closed, Revoke, IInv, TypeOK, bootVars
  <2>2. PassInv' /\ BootInv' /\ LeaseBacked'
    BY <1>1, <1>2 DEF Closed, IInv, TypeOK, PassInv, BootInv, LeaseBacked, bootVars
  <2> QED BY <2>1, <2>2 DEF IInv
<1>3. CASE /\ pending' = [pending EXCEPT ![w] = r]
           /\ UNCHANGED <<coordVars, accepted, proposals, unreported>>
  <2>1. TypeOK'
    BY <1>1, <1>3 DEF IInv, TypeOK, coordVars, bootVars
  <2>2. PassInv' /\ BootInv' /\ LeaseBacked'
    BY <1>1, <1>3 DEF IInv, PassInv, BootInv, LeaseBacked, Holder, coordVars, bootVars
  <2> QED BY <2>1, <2>2 DEF IInv
<1> QED BY <1>2, <1>3 DEF Complete

(* What rec is made of.                                                    *)
Passes == [phase : Phases, at : Now, failed : SUBSET Nodes, todo : SUBSET Works,
           decided : SUBSET Works, prior : [Works -> Nodes \cup {NoNode}]]

(* No pass is a pass, with nothing to do.                                  *)
LEMMA NoPassType ==
    NoPass \in Passes /\ NoPass.phase = "idle" /\ NoPass.todo = {} /\ NoPass.decided = {}
BY TimesAssumption DEF NoPass, Passes, Phases, Now

(* The scan of the registry.                                               *)
LEMMA ScanInv == ASSUME IInv, RecoverScan PROVE IInv'
<1>1. /\ UNCHANGED <<now, nodes, coordVars, serviceVars, active, serving, unreported, bootVars>>
      /\ boot = "up"
  BY DEF RecoverScan
<1>2. rec' \in Passes /\ rec'.phase = "scanned" /\ rec'.decided = {}
  <2> DEFINE F == {n \in Nodes : Stale(n) \/ Unavailable(n)}
             P == [w \in Works |-> Holder(leases, w)]
  <2>1. P \in [Works -> Nodes \cup {NoNode}]
    BY DEF IInv, TypeOK, Holder, Leases
  <2>2. F \in SUBSET Nodes /\ now \in Now
    BY DEF IInv, TypeOK
  <2>3. rec' = [phase |-> "scanned", at |-> now, failed |-> F, todo |-> {}, decided |-> {}, prior |-> P]
    BY DEF RecoverScan, NoPass
  <2> HIDE DEF F, P
  <2> QED BY <2>1, <2>2, <2>3 DEF Passes, Phases
<1>3. TypeOK'
  BY <1>1, <1>2 DEF IInv, TypeOK, Passes, coordVars, serviceVars, bootVars
<1>4. PassInv' /\ BootInv' /\ LeaseBacked'
  BY <1>1, <1>2 DEF IInv, PassInv, BootInv, LeaseBacked, coordVars, serviceVars, bootVars
<1> QED BY <1>3, <1>4 DEF IInv

(* The failed nodes are marked and expired leases dropped; the works to    *)
(* move are the ones failed nodes still hold.                              *)
LEMMA MarkInv == ASSUME IInv, RecoverMark PROVE IInv'
<1>1. /\ UNCHANGED <<now, reqs, refusals, serviceVars, active, serving, unreported, bootVars>>
      /\ boot = "up" /\ rec.decided = {}
  BY DEF RecoverMark, IInv, BootInv, PassInv
<1>2. /\ leases' = Unexpired(leases, rec.at) /\ leases' \in LeaseTable
      /\ \A v \in Works : leases'[v] \in {leases[v], NoLease}
  BY UnexpiredType DEF RecoverMark, IInv, TypeOK, LeaseTable
<1>3. /\ rec' = [rec EXCEPT !.phase = "placing", !.todo = Affected(leases')]
      /\ rec \in Passes /\ Affected(leases') \in SUBSET Works
      /\ \A w \in Affected(leases') : Holder(leases', w) \in rec.failed
  BY DEF RecoverMark, IInv, TypeOK, Affected, Passes
<1>4. /\ rec' \in Passes /\ rec'.phase = "placing" /\ rec'.todo = Affected(leases')
      /\ rec'.failed = rec.failed
  BY <1>3 DEF Passes, Phases
<1>5. nodes' \in [Nodes -> Adverts \cup {NoNode}]
  <2>1. ASSUME NEW a \in Adverts PROVE [a EXCEPT !.avail = "offline"] \in Adverts
    BY DEF Adverts, Availability
  <2>2. nodes \in [Nodes -> Adverts \cup {NoNode}]
    BY DEF IInv, TypeOK
  <2> QED BY <2>1, <2>2 DEF RecoverMark
<1>6. TypeOK'
  BY <1>1, <1>2, <1>4, <1>5 DEF IInv, TypeOK, LeaseTable, Passes, serviceVars, bootVars
<1>7. PassInv'
  BY <1>3, <1>4 DEF PassInv, Holder
<1>8. BootInv' /\ LeaseBacked'
  BY <1>1, <1>2 DEF IInv, BootInv, LeaseBacked, serviceVars, bootVars
<1> QED BY <1>6, <1>7, <1>8 DEF IInv

(* One affected work is taken from its failed node.                        *)
LEMMA PlaceShape ==
    ASSUME IInv, RecoverPlace
    PROVE  /\ First(rec.todo) \in rec.todo /\ First(rec.todo) \in Works
           /\ Holder(leases, First(rec.todo)) \in Nodes
           /\ leases[First(rec.todo)] # NoLease
           /\ Replaced(First(rec.todo))
<1>1. First(rec.todo) \in rec.todo /\ First(rec.todo) \in Works
  BY FirstType DEF RecoverPlace, IInv, TypeOK
<1>2. Holder(leases, First(rec.todo)) \in Nodes
  BY <1>1 DEF RecoverPlace, IInv, TypeOK, PassInv
<1>3. leases[First(rec.todo)] # NoLease
  BY <1>2, NodesAssumption DEF Holder
<1>4. Replaced(First(rec.todo))
  BY <1>1, MoveShape DEF RecoverPlace, IInv, TypeOK
<1> QED BY <1>1, <1>2, <1>3, <1>4

(* The moved work keeps its proposal; the others keep their leases.        *)
LEMMA PlaceInv == ASSUME IInv, RecoverPlace PROVE IInv'
<1>0. PICK w \in Works : w = First(rec.todo)
  BY PlaceShape
<1>1. /\ leases' \in LeaseTable
      /\ \A v \in Works \ {w} : leases'[v] \in {leases[v], NoLease}
      /\ leases'[w] = NoLease \/ (leases'[w] \in Leases /\ leases'[w].node \notin refusals'[w])
  BY <1>0, PlaceShape, ReplacedType
<1>2. /\ UNCHANGED <<now, nodes, reqs, serviceVars, active, serving, unreported, bootVars>>
      /\ refusals' = [refusals EXCEPT ![w] = @ \cup {Holder(leases, w)}]
      /\ rec' = [rec EXCEPT !.todo = @ \ {w}, !.decided = @ \cup {w}]
      /\ rec.phase = "placing" /\ boot = "up"
  BY <1>0 DEF RecoverPlace, Refused, IInv, BootInv
<1>3. w \in proposals \cap reqs /\ Holder(leases, w) \in Nodes
  BY <1>0, PlaceShape DEF IInv, LeaseBacked
<1>4. rec \in Passes
  BY DEF IInv, TypeOK, Passes
<1>5. /\ rec' \in Passes /\ rec'.phase = "placing" /\ rec'.todo = rec.todo \ {w}
      /\ rec'.failed = rec.failed /\ rec'.decided = rec.decided \cup {w}
  BY <1>2, <1>4 DEF Passes
<1>6. TypeOK'
  BY <1>1, <1>2, <1>3, <1>5 DEF IInv, TypeOK, LeaseTable, Passes, serviceVars, bootVars
<1>7. LeaseBacked'
  BY <1>1, <1>2, <1>3 DEF IInv, TypeOK, LeaseBacked, serviceVars
<1>8. PassInv'
  <2>1. ASSUME NEW v \in rec.todo \ {w} PROVE leases'[v] = leases[v]
    <3>1. v \in Works
      BY <1>4 DEF Passes
    <3>2. rec.at \in Now /\ leases' \in Placements([leases EXCEPT ![w] = NoLease], w, refusals'[w], rec.at)
      BY <1>0 DEF RecoverPlace, IInv, TypeOK
    <3> QED BY <3>1, <3>2, MoveShape
  <2> QED BY <1>2, <1>5, <2>1 DEF IInv, PassInv, Holder
<1>9. BootInv'
  BY <1>2 DEF BootInv, bootVars
<1> QED BY <1>6, <1>7, <1>8, <1>9 DEF IInv

(* All works are placed: the pass ends, or goes on to its reports.         *)
LEMMA PlacedInv == ASSUME IInv, RecoverPlaced PROVE IInv'
<1>1. /\ UNCHANGED <<now, nodes, coordVars, serviceVars, active, serving, unreported, bootVars>>
      /\ rec' = IF rec.decided = {} THEN NoPass ELSE [rec EXCEPT !.phase = "reporting"]
      /\ rec \in Passes /\ boot = "up"
  BY DEF RecoverPlaced, IInv, TypeOK, Passes, BootInv
<1>2. /\ rec' \in Passes
      /\ \/ rec'.phase = "idle" /\ rec'.todo = {} /\ rec'.decided = {}
         \/ rec'.phase = "reporting" /\ rec'.decided # {}
  <2>1. CASE rec.decided = {}
    BY <1>1, <2>1, NoPassType
  <2>2. CASE rec.decided # {}
    BY <1>1, <2>2 DEF Passes, Phases
  <2> QED BY <2>1, <2>2
<1>3. TypeOK'
  BY <1>1, <1>2 DEF IInv, TypeOK, Passes, coordVars, serviceVars, bootVars
<1>4. PassInv' /\ BootInv' /\ LeaseBacked'
  BY <1>1, <1>2 DEF IInv, PassInv, BootInv, LeaseBacked, coordVars, serviceVars, bootVars
<1> QED BY <1>3, <1>4 DEF IInv

(* What a report does: the pass is over or goes on with the other works.   *)
LEMMA ReportShape ==
    ASSUME IInv, RecoverReport
    PROVE  \E w \in rec.decided :
             /\ \/ accepted' = [accepted EXCEPT ![w] = NoNode]
                \/ accepted' = accepted
             /\ \/ /\ accepted' = [accepted EXCEPT ![w] = NoNode]
                   /\ active' = Journaled(w, leases[w] # NoLease)
                   /\ rec' = IF rec.decided = {w} THEN NoPass ELSE [rec EXCEPT !.decided = @ \ {w}]
                   /\ unreported' = unreported \ {w}
                \/ PassRaises /\ active' = active
<1>1. First(rec.decided) \in rec.decided
  BY FirstType DEF RecoverReport, IInv, TypeOK, PassInv
<1> QED BY <1>1 DEF RecoverReport, Revoke

(* A report touches no lease.                                              *)
LEMMA ReportInv == ASSUME IInv, RecoverReport PROVE IInv'
<1>1. /\ UNCHANGED <<now, nodes, coordVars, proposals, pending, serving, bootVars>>
      /\ rec.phase = "reporting" /\ rec \in Passes /\ boot = "up" /\ rec.decided \in SUBSET Works
  BY DEF RecoverReport, IInv, TypeOK, Passes, BootInv
<1>2. PICK w \in rec.decided :
             /\ \/ accepted' = [accepted EXCEPT ![w] = NoNode]
                \/ accepted' = accepted
             /\ \/ /\ active' = Journaled(w, leases[w] # NoLease)
                   /\ rec' = IF rec.decided = {w} THEN NoPass ELSE [rec EXCEPT !.decided = @ \ {w}]
                   /\ unreported' = unreported \ {w}
                \/ PassRaises /\ active' = active
  BY ReportShape
<1>3. /\ rec' \in Passes
      /\ \/ rec'.phase = "idle" /\ rec'.todo = {} /\ rec'.decided = {}
         \/ rec'.phase = "reporting" /\ rec'.decided # {}
  <2>1. CASE rec' = NoPass
    BY <2>1, NoPassType
  <2>2. CASE rec' = [rec EXCEPT !.decided = @ \ {w}] /\ rec.decided # {w}
    BY <1>1, <2>2 DEF Passes
  <2> QED BY <1>2, <2>1, <2>2 DEF PassRaises
<1>4. accepted' \in [Works -> Nodes \cup {NoNode}] /\ active' \in SUBSET Works
  BY <1>1, <1>2 DEF IInv, TypeOK, Journaled
<1>5. unreported' \in SUBSET Works
  BY <1>1, <1>2 DEF IInv, TypeOK, PassRaises
<1>6. TypeOK'
  BY <1>1, <1>3, <1>4, <1>5 DEF IInv, TypeOK, Passes, coordVars, bootVars
<1>7. PassInv' /\ BootInv' /\ LeaseBacked'
  BY <1>1, <1>3 DEF IInv, PassInv, BootInv, LeaseBacked, coordVars, bootVars
<1> QED BY <1>6, <1>7 DEF IInv

(* The daemon dies and comes up again with empty tables.                   *)
LEMMA RestartInv ==
    ASSUME IInv, Crash \/ Boot \/ RecordInterrupted \/ Serve PROVE IInv'
<1>1. CASE Crash
  <2>1. rec' = NoPass /\ \A w \in Works : leases'[w] = NoLease
    BY <1>1 DEF Crash
  <2>2. TypeOK'
    BY <1>1, <2>1, NoPassType DEF Crash, IInv, TypeOK, Passes
  <2>3. PassInv' /\ BootInv' /\ LeaseBacked'
    BY <2>1, NoPassType DEF PassInv, BootInv, LeaseBacked
  <2> QED BY <2>2, <2>3 DEF IInv
<1>2. CASE Boot \/ RecordInterrupted \/ Serve
  <2>1. /\ UNCHANGED <<now, nodes, coordVars, serviceVars, serving, rec, unreported>>
        /\ boot # "up"
    BY <1>2 DEF Boot, RecordInterrupted, Serve
  <2>2. /\ active' \in SUBSET Works /\ interrupted' \in SUBSET Works /\ owed' \in SUBSET Works
        /\ boot' \in {"up", "down", "recording"}
    BY <1>2 DEF Boot, RecordInterrupted, Serve, IInv, TypeOK
  <2>3. TypeOK'
    BY <2>1, <2>2 DEF IInv, TypeOK, coordVars, serviceVars
  <2>4. PassInv' /\ BootInv' /\ LeaseBacked'
    BY <2>1 DEF IInv, PassInv, BootInv, LeaseBacked, Holder, coordVars, serviceVars
  <2> QED BY <2>3, <2>4 DEF IInv
<1> QED BY <1>1, <1>2

(* The clock moves, or nothing does.                                       *)
LEMMA TickInv == ASSUME IInv, Tick \/ UNCHANGED vars PROVE IInv'
<1>1. /\ UNCHANGED <<nodes, coordVars, serviceVars, active, serving, rec, bootVars, unreported>>
      /\ now' \in Now
  BY TimesAssumption DEF Tick, vars, IInv, TypeOK, Now
<1>2. TypeOK'
  BY <1>1 DEF IInv, TypeOK, coordVars, serviceVars, bootVars
<1>3. PassInv' /\ BootInv' /\ LeaseBacked'
  BY <1>1 DEF IInv, PassInv, BootInv, LeaseBacked, Holder, coordVars, serviceVars, bootVars
<1> QED BY <1>2, <1>3 DEF IInv

(* Every step preserves the invariant.                                     *)
LEMMA NextInv == IInv /\ [Next]_vars => IInv'
BY HeartbeatInv, SubmitInv, AcceptStep, RefuseInv, CompleteInv, ScanInv, MarkInv, PlaceInv,
   PlacedInv, ReportInv, RestartInv, TickInv DEF Next, RecoverStep

(* The invariant holds in every reachable state.                           *)
THEOREM Invariance == Spec => []IInv
BY InitInv, NextInv, PTL DEF Spec

(* Type correctness of the distributed-work state.                         *)
THEOREM TypeCorrect == Spec => []TypeOK
<1>1. IInv => TypeOK
  BY DEF IInv
<1> QED BY <1>1, Invariance, PTL

(* Every lease is backed by a proposal and a requirement the service still *)
(* holds, and its holder neither refused the work nor was taken off it.    *)
THEOREM LeasesBacked == Spec => []LeaseBacked
<1>1. IInv => LeaseBacked
  BY DEF IInv
<1> QED BY <1>1, Invariance, PTL

-----------------------------------------------------------------------------
(* Capacity.                                                               *)

(* Every step drops leases, or drops some and places one work anew.        *)
LEMMA LeaseSteps ==
    ASSUME IInv, [Next]_vars PROVE Fewer(leases') \/ \E w \in Works : Replaced(w)
<1>1. leases \in LeaseTable
  BY DEF IInv, TypeOK, LeaseTable
<1>2. ASSUME NEW w \in Works, Submit(w) \/ \E n \in Nodes : Refuse(w, n) PROVE Replaced(w)
  BY <1>2, SubmitShape, RefuseShape
<1>3. CASE RecoverPlace
  BY <1>3, PlaceShape
<1>4. CASE RecoverMark
  BY <1>1, <1>4, UnexpiredType DEF RecoverMark, Fewer
<1>5. CASE Crash
  BY <1>1, <1>5 DEF Crash, Fewer, LeaseTable
<1>6. ASSUME NEW w \in Works, NEW r \in Results, Complete(w, r) PROVE Fewer(leases')
  BY <1>1, <1>6 DEF Complete, Closed, coordVars, Fewer, LeaseTable
<1>7. CASE leases' = leases
  BY <1>1, <1>7 DEF Fewer
<1>8. ASSUME \/ \E n \in Nodes, a \in Availability, t \in Tasks : Heartbeat(n, a, t)
             \/ ReceiptHeartbeat \/ Tick \/ Boot \/ RecordInterrupted \/ Serve \/ UNCHANGED vars
             \/ \E w \in Works, n \in Nodes : Accept(w, n)
             \/ RecoverScan \/ RecoverPlaced \/ RecoverReport
      PROVE  leases' = leases
  BY <1>8 DEF Heartbeat, ReceiptHeartbeat, Tick, Boot, RecordInterrupted, Serve, vars, Accept,
              RecoverScan, RecoverPlaced, RecoverReport, coordVars
<1> QED BY <1>2, <1>3, <1>4, <1>5, <1>6, <1>7, <1>8 DEF Next, RecoverStep

HasLimit(ls, n) == IsFiniteSet(Held(ls, n)) /\ Cardinality(Held(ls, n)) <= MaxTasks[n]

(* Fewer leases stay within the limits.                                    *)
LEMMA FewerRoom ==
    ASSUME RoomInv, NEW ls, Fewer(ls), NEW n \in Nodes PROVE HasLimit(ls, n)
<1>1. Held(ls, n) \in SUBSET Held(leases, n)
  BY NodesAssumption DEF Held, Holder, Fewer
<1>2. IsFiniteSet(Held(leases, n)) /\ Cardinality(Held(leases, n)) <= MaxTasks[n]
  BY DEF RoomInv
<1>3. IsFiniteSet(Held(ls, n)) /\ Cardinality(Held(ls, n)) <= Cardinality(Held(leases, n))
  BY <1>1, <1>2, FS_Subset
<1>4. Cardinality(Held(ls, n)) \in Nat /\ Cardinality(Held(leases, n)) \in Nat
  BY <1>2, <1>3, FS_CardinalityType
<1>5. MaxTasks[n] \in Nat
  BY NodesAssumption
<1> QED BY <1>2, <1>3, <1>4, <1>5 DEF HasLimit

(* A work placed on a node with room fits: the advertised tasks are not    *)
(* negative, so the leases alone are below the limit.                      *)
LEMMA PlacedRoom ==
    ASSUME IInv, RoomInv, NEW w \in Works, Replaced(w), NEW m \in Nodes PROVE HasLimit(leases', m)
<1>1. PICK ls \in LeaseTable :
        /\ Fewer(ls) /\ ls[w] = NoLease
        /\ \/ leases' = ls
           \/ \E l \in Leases : /\ nodes[l.node] # NoNode /\ HasRoom(ls, l.node)
                               /\ leases' = [ls EXCEPT ![w] = l]
  BY DEF Replaced
<1>2. HasLimit(ls, m)
  BY <1>1, FewerRoom
<1>3. CASE leases' = ls
  BY <1>2, <1>3
<1>4. ASSUME NEW l \in Leases, nodes[l.node] # NoNode, HasRoom(ls, l.node), leases' = [ls EXCEPT ![w] = l]
      PROVE  HasLimit(leases', m)
  <2>1. /\ \A v \in Works \ {w} : leases'[v] = ls[v]
        /\ leases'[w] = l /\ l # NoLease /\ l.node \in Nodes
    BY <1>4, AbsentAssumption DEF LeaseTable, Leases
  <2>2. CASE l.node = m
    <3>1. Held(leases', m) = Held(ls, m) \cup {w} /\ w \notin Held(ls, m)
      BY <1>1, <2>1, <2>2, NodesAssumption DEF Held, Holder
    <3>2. IsFiniteSet(Held(leases', m)) /\ Cardinality(Held(leases', m)) = Cardinality(Held(ls, m)) + 1
      BY <1>2, <3>1, FS_AddElement DEF HasLimit
    <3>3. Cardinality(Held(ls, m)) \in Nat /\ MaxTasks[m] \in Nat
      BY <1>2, FS_CardinalityType, NodesAssumption DEF HasLimit
    <3>4. nodes[m].tasks \in Nat
      <4>1. nodes[m] \in Adverts
        BY <1>4, <2>2 DEF IInv, TypeOK
      <4> QED BY <4>1, TasksAssumption DEF Adverts
    <3>5. nodes[m].tasks + Cardinality(Held(ls, m)) < MaxTasks[m]
      BY <1>4, <2>2 DEF HasRoom
    <3>6. Cardinality(Held(ls, m)) + 1 <= MaxTasks[m]
      BY <3>3, <3>4, <3>5
    <3> QED BY <3>2, <3>6 DEF HasLimit
  <2>3. CASE l.node # m
    <3>1. Held(leases', m) = Held(ls, m)
      BY <1>1, <2>1, <2>3, NodesAssumption DEF Held, Holder
    <3> QED BY <1>2, <3>1 DEF HasLimit
  <2> QED BY <2>2, <2>3
<1> QED BY <1>1, <1>3, <1>4

(* Every step keeps every node within its limit.                           *)
LEMMA NextRoom == IInv /\ RoomInv /\ [Next]_vars => RoomInv'
<1> SUFFICES ASSUME IInv, RoomInv, [Next]_vars, NEW n \in Nodes PROVE HasLimit(leases', n)
  BY DEF RoomInv, HasLimit, Held, Holder
<1> QED BY LeaseSteps, FewerRoom, PlacedRoom

(* No node ever holds more leases than its task limit, whatever placement, *)
(* expiry, refusal and recovery do to the table.                           *)
THEOREM WithinCapacity == Spec => []CapacityRespected
<1>1. Init => RoomInv
  <2>1. ASSUME Init, NEW n \in Nodes PROVE Held(leases, n) = {} /\ MaxTasks[n] \in Nat
    BY <2>1, NodesAssumption DEF Init, Held, Holder
  <2> QED BY <2>1, FS_EmptySet DEF RoomInv
<1>2. RoomInv => CapacityRespected
  BY DEF RoomInv, CapacityRespected
<1> QED BY <1>1, <1>2, NextRoom, Invariance, PTL DEF Spec

-----------------------------------------------------------------------------
(* Acceptance.                                                             *)

(* A step that keeps the acceptances and the proposals, and takes no work  *)
(* off the list of decided or unreported ones.                             *)
LEMMA AcceptStable ==
    ASSUME AcceptInv, accepted' = accepted, proposals \subseteq proposals',
           \A v \in Works : leases'[v] \in {leases[v], NoLease},
           unreported' = unreported, rec.decided \subseteq rec'.decided
    PROVE  AcceptInv'
BY DEF AcceptInv

(* Requests: a new lease is unaccepted, accept() is by the holder, and a   *)
(* refused or completed work loses its acceptance with its lease.          *)
LEMMA RequestAccept ==
    ASSUME IInv, AcceptInv, NEW w \in Works,
           \/ Submit(w)
           \/ \E n \in Nodes : Accept(w, n) \/ Refuse(w, n)
           \/ \E r \in Results : Complete(w, r)
    PROVE  AcceptInv'
<1>1. CASE Submit(w)
  <2>1. \A v \in Works \ {w} : leases'[v] \in {leases[v], NoLease}
    BY <1>1, SubmitShape, ReplacedType
  <2>2. accepted[w] = NoNode
    BY <1>1 DEF Submit, AcceptInv
  <2>3. proposals \subseteq proposals' /\ UNCHANGED <<accepted, unreported, rec>>
    BY <1>1 DEF Submit
  <2> QED BY <2>1, <2>2, <2>3 DEF AcceptInv
<1>2. ASSUME NEW n \in Nodes, Accept(w, n) PROVE AcceptInv'
  BY <1>2, NodesAssumption DEF Accept, Owns, Holder, AcceptInv, IInv, TypeOK, coordVars
<1>3. ASSUME NEW n \in Nodes, Refuse(w, n) PROVE AcceptInv'
  <2>1. \A v \in Works \ {w} : leases'[v] \in {leases[v], NoLease}
    BY <1>3, RefuseShape, ReplacedType
  <2>2. /\ accepted' = [accepted EXCEPT ![w] = NoNode] /\ unreported' = unreported \ {w}
        /\ UNCHANGED <<proposals, rec>>
    BY <1>3 DEF Refuse, Revoke
  <2> QED BY <2>1, <2>2 DEF AcceptInv, IInv, TypeOK
<1>4. ASSUME NEW r \in Results, Complete(w, r) PROVE AcceptInv'
  BY <1>4 DEF Complete, Closed, Revoke, AcceptInv, IInv, TypeOK, coordVars
<1> QED BY <1>1, <1>2, <1>3, <1>4

(* A pass: a moved work counts as decided until its report revokes the     *)
(* acceptance, or until the pass raises and leaves it unreported.          *)
LEMMA PassAccept ==
    ASSUME IInv, AcceptInv, RecoverStep PROVE AcceptInv'
<1>1. CASE RecoverScan
  <2>1. rec.decided = {}
    BY <1>1 DEF RecoverScan, IInv, PassInv
  <2> QED BY <1>1, <2>1, AcceptStable DEF RecoverScan, coordVars, serviceVars
<1>2. CASE RecoverMark
  <2>1. \A v \in Works : leases'[v] \in {leases[v], NoLease}
    BY <1>2, UnexpiredType DEF RecoverMark, IInv, TypeOK, LeaseTable
  <2>2. rec'.decided = rec.decided
    BY <1>2 DEF RecoverMark, IInv, TypeOK
  <2> QED BY <1>2, <2>1, <2>2, AcceptStable DEF RecoverMark, serviceVars
<1>3. CASE RecoverPlace
  <2>0. PICK w \in Works : w = First(rec.todo)
    BY <1>3, PlaceShape
  <2>1. \A v \in Works \ {w} : leases'[v] \in {leases[v], NoLease}
    BY <1>3, <2>0, PlaceShape, ReplacedType
  <2>2. rec'.decided = rec.decided \cup {w} /\ UNCHANGED <<serviceVars, unreported>>
    BY <1>3, <2>0 DEF RecoverPlace, IInv, TypeOK
  <2> QED BY <2>1, <2>2 DEF AcceptInv, serviceVars
<1>4. CASE RecoverPlaced
  <2>1. rec.decided \subseteq rec'.decided
    BY <1>4, NoPassType DEF RecoverPlaced, IInv, TypeOK
  <2> QED BY <1>4, <2>1, AcceptStable DEF RecoverPlaced, coordVars, serviceVars
<1>5. CASE RecoverReport
  <2>1. UNCHANGED <<leases, proposals>> /\ rec.decided \in SUBSET Works
    BY <1>5 DEF RecoverReport, coordVars, IInv, TypeOK
  <2>2. PICK w \in rec.decided :
          /\ \/ accepted' = [accepted EXCEPT ![w] = NoNode]
             \/ accepted' = accepted
          /\ \/ /\ accepted' = [accepted EXCEPT ![w] = NoNode]
                /\ rec' = IF rec.decided = {w} THEN NoPass ELSE [rec EXCEPT !.decided = @ \ {w}]
                /\ unreported' = unreported \ {w}
             \/ PassRaises
    BY <1>5, ReportShape
  <2>3. CASE /\ accepted' = [accepted EXCEPT ![w] = NoNode]
             /\ rec' = IF rec.decided = {w} THEN NoPass ELSE [rec EXCEPT !.decided = @ \ {w}]
             /\ unreported' = unreported \ {w}
    <3>1. rec'.decided = rec.decided \ {w}
      BY <2>3, NoPassType DEF IInv, TypeOK
    <3> QED BY <2>1, <2>3, <3>1 DEF AcceptInv, IInv, TypeOK
  <2>4. CASE PassRaises
    <3>1. /\ unreported' = unreported \cup {v \in rec.decided : accepted'[v] # NoNode}
          /\ rec'.decided = {}
      BY <2>4, NoPassType DEF PassRaises
    <3> QED BY <2>1, <2>2, <3>1 DEF AcceptInv, IInv, TypeOK
  <2> QED BY <2>2, <2>3, <2>4
<1> QED BY <1>1, <1>2, <1>3, <1>4, <1>5 DEF RecoverStep

(* Every step preserves the acceptance invariant.                          *)
LEMMA NextAccept == IInv /\ AcceptInv /\ [Next]_vars => AcceptInv'
<1> SUFFICES ASSUME IInv, AcceptInv, [Next]_vars PROVE AcceptInv'
  OBVIOUS
<1>1. CASE \/ \E w \in Works : Submit(w)
           \/ \E w \in Works, n \in Nodes : Accept(w, n) \/ Refuse(w, n)
           \/ \E w \in Works, r \in Results : Complete(w, r)
  BY <1>1, RequestAccept
<1>2. CASE RecoverStep
  BY <1>2, PassAccept
<1>3. CASE Crash
  BY <1>3 DEF Crash, AcceptInv
<1>4. CASE \/ \E n \in Nodes, a \in Availability, t \in Tasks : Heartbeat(n, a, t)
           \/ ReceiptHeartbeat \/ Tick \/ Boot \/ RecordInterrupted \/ Serve \/ UNCHANGED vars
  <2>1. UNCHANGED <<leases, proposals, accepted, unreported, rec>>
    BY <1>4 DEF Heartbeat, ReceiptHeartbeat, Tick, Boot, RecordInterrupted, Serve, vars,
                coordVars, serviceVars
  <2> QED BY <2>1, AcceptStable
<1> QED BY <1>1, <1>2, <1>3, <1>4 DEF Next

(* A recovered or reassigned lease revokes the acceptance: outside a pass, *)
(* and but for works a pass moved and raised before it reported them, an   *)
(* accepted work is accepted by the node that holds it.                    *)
THEOREM AcceptanceByHolder == Spec => []AcceptanceRevoked
<1>1. Init => AcceptInv
  BY DEF Init, AcceptInv
<1>2. IInv /\ AcceptInv => AcceptanceRevoked
  BY DEF IInv, PassInv, AcceptInv, AcceptanceRevoked
<1> QED BY <1>1, <1>2, NextAccept, Invariance, PTL DEF Spec

-----------------------------------------------------------------------------
(* Restart reporting.                                                      *)

(* Requests journal the work they lease, and drop it from active_work only *)
(* with its lease or with its result pending.                              *)
LEMMA RequestReports ==
    ASSUME IInv, RestartReports, NEW w \in Works,
           \/ Submit(w)
           \/ \E n \in Nodes : Accept(w, n) \/ Refuse(w, n)
           \/ \E r \in Results : Complete(w, r)
    PROVE  RestartReports'
<1>1. CASE Submit(w)
  <2>1. \A v \in Works \ {w} : leases'[v] \in {leases[v], NoLease}
    BY <1>1, SubmitShape, ReplacedType
  <2>2. pending' = pending /\ active' \in {active, active \cup {w}, active \ {w}}
    BY <1>1 DEF Submit, Journaled
  <2>3. leases'[w] # NoLease => w \in active'
    <3>1. leases' \in LeaseTable
      BY <1>1, SubmitShape, ReplacedType
    <3> QED BY <1>1, <3>1 DEF Submit, Journaled, LeaseTable
  <2> QED BY <2>1, <2>2, <2>3 DEF RestartReports
<1>2. ASSUME NEW n \in Nodes, Accept(w, n) PROVE RestartReports'
  BY <1>2 DEF Accept, Journaled, RestartReports, coordVars
<1>3. ASSUME NEW n \in Nodes, Refuse(w, n) PROVE RestartReports'
  <2>1. \A v \in Works \ {w} : leases'[v] \in {leases[v], NoLease}
    BY <1>3, RefuseShape, ReplacedType
  <2>2. pending' = pending /\ (active' = active \/ active' = Journaled(w, leases'[w] # NoLease))
    BY <1>3 DEF Refuse
  <2>3. leases[w] # NoLease
    BY <1>3, NodesAssumption DEF Refuse, Owns, Holder
  <2> QED BY <2>1, <2>2, <2>3 DEF RestartReports, Journaled
<1>4. ASSUME NEW r \in Results, Complete(w, r) PROVE RestartReports'
  <2>1. active' = active \ {w} \/ (active' = active /\ pending[w] # NoResult)
    BY <1>4 DEF Complete, Journaled
  <2>2. CASE Closed(w) /\ pending' = [pending EXCEPT ![w] = NoResult]
    BY <2>1, <2>2 DEF Closed, RestartReports, IInv, TypeOK
  <2>3. CASE pending' = [pending EXCEPT ![w] = r] /\ UNCHANGED leases
    <3>1. r # NoResult
      BY AbsentAssumption
    <3> QED BY <2>1, <2>3, <3>1 DEF RestartReports, IInv, TypeOK
  <2> QED BY <1>4, <2>2, <2>3 DEF Complete, coordVars
<1> QED BY <1>1, <1>2, <1>3, <1>4

(* Recovery moves leases of works that are journaled already, and its      *)
(* report drops a work from active_work only when it lost its lease.       *)
LEMMA PassReports ==
    ASSUME IInv, RestartReports, RecoverStep PROVE RestartReports'
<1>1. CASE RecoverScan \/ RecoverPlaced
  BY <1>1 DEF RecoverScan, RecoverPlaced, RestartReports, coordVars, serviceVars
<1>2. CASE RecoverMark
  <2>1. \A v \in Works : leases'[v] \in {leases[v], NoLease}
    BY <1>2, UnexpiredType DEF RecoverMark, IInv, TypeOK, LeaseTable
  <2> QED BY <1>2, <2>1 DEF RecoverMark, RestartReports, serviceVars
<1>3. CASE RecoverPlace
  <2>0. PICK w \in Works : w = First(rec.todo)
    BY <1>3, PlaceShape
  <2>1. leases[w] # NoLease /\ \A v \in Works \ {w} : leases'[v] \in {leases[v], NoLease}
    BY <1>3, <2>0, PlaceShape, ReplacedType
  <2>2. UNCHANGED <<active, pending>>
    BY <1>3 DEF RecoverPlace, serviceVars
  <2> QED BY <2>1, <2>2 DEF RestartReports
<1>4. CASE RecoverReport
  <2>1. UNCHANGED <<leases, pending>>
    BY <1>4 DEF RecoverReport, coordVars
  <2>2. active' = active \/ \E w \in rec.decided : active' = Journaled(w, leases[w] # NoLease)
    BY <1>4, ReportShape
  <2> QED BY <2>1, <2>2 DEF RestartReports, Journaled
<1> QED BY <1>1, <1>2, <1>3, <1>4 DEF RecoverStep

(* Every step keeps leased works journaled.                                *)
LEMMA NextReports == IInv /\ RestartReports /\ [Next]_vars => RestartReports'
<1> SUFFICES ASSUME IInv, RestartReports, [Next]_vars PROVE RestartReports'
  OBVIOUS
<1>1. CASE \/ \E w \in Works : Submit(w)
           \/ \E w \in Works, n \in Nodes : Accept(w, n) \/ Refuse(w, n)
           \/ \E w \in Works, r \in Results : Complete(w, r)
  BY <1>1, RequestReports
<1>2. CASE RecoverStep
  BY <1>2, PassReports
<1>3. CASE Crash
  BY <1>3 DEF Crash, RestartReports
<1>4. CASE Boot
  BY <1>4 DEF Boot, RestartReports, IInv, BootInv, coordVars
<1>5. CASE \/ \E n \in Nodes, a \in Availability, t \in Tasks : Heartbeat(n, a, t)
           \/ ReceiptHeartbeat \/ Tick \/ RecordInterrupted \/ Serve \/ UNCHANGED vars
  <2>1. UNCHANGED <<leases, active, pending>>
    BY <1>5 DEF Heartbeat, ReceiptHeartbeat, Tick, RecordInterrupted, Serve, vars,
                coordVars, serviceVars
  <2> QED BY <2>1 DEF RestartReports
<1> QED BY <1>1, <1>2, <1>3, <1>4, <1>5 DEF Next

(* Restart reporting: a leased work is in active_work of the state file,   *)
(* or its completion is receipted, at every moment the daemon may die.     *)
THEOREM LeasesReported == Spec => []RestartReports
<1>1. Init => RestartReports
  BY DEF Init, RestartReports
<1> QED BY <1>1, NextReports, Invariance, PTL DEF Spec

=============================================================================
