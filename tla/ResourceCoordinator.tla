------------------------ MODULE ResourceCoordinator ------------------------
(***************************************************************************)
(* The in-memory ownership table of services/resource_coordinator.py.      *)
(* acquire() and release() run under one RLock, so each is one operator    *)
(* from the table before to the table after, next to the decision state    *)
(* the caller is told.  A table is the pair of the two dictionaries:       *)
(* owner is _owners, lease is _leases.  An absent key of _owners is        *)
(* NoOwner; an absent key of _leases is the empty lease, because an empty  *)
(* request never creates an entry.                                         *)
(***************************************************************************)
CONSTANTS Owners,     \* execution-scoped owner identities
          Resources,  \* exclusive resource names, already normalized
          NoOwner     \* the resource has no entry in _owners

Tables == [owner : [Resources -> Owners \cup {NoOwner}],
           lease : [Owners -> SUBSET Resources]]

EmptyTable == [owner |-> [r \in Resources |-> NoOwner],
               lease |-> [o \in Owners |-> {}]]

MutConflicts(tb, o, R) == {}

(* The requested resources that another owner holds now.                   *)
Conflicts(tb, o, R) == {r \in R : tb.owner[r] \notin {NoOwner, o}}

(* The state string of the ResourceDecision acquire() returns.             *)
AcquireState(tb, o, R) ==
    IF R = {} THEN "no_resources_required"
    ELSE IF tb.lease[o] = R THEN "already_acquired"
    ELSE IF tb.lease[o] # {} THEN "owner_lease_mismatch"
    ELSE IF Conflicts(tb, o, R) # {} THEN "resource_conflict"
    ELSE "acquired"

Granted(s) == s \in {"no_resources_required", "already_acquired", "acquired", "released"}

Acquire(tb, o, R) ==
    IF AcquireState(tb, o, R) = "acquired"
    THEN [owner |-> [r \in Resources |-> IF r \in R THEN o ELSE tb.owner[r]],
          lease |-> [tb.lease EXCEPT ![o] = R]]
    ELSE tb

ReleaseState(tb, o) == IF tb.lease[o] = {} THEN "lease_not_found" ELSE "released"

(* A release that forgets the lease but not the ownership of its resources. *)
MutRelease(tb, o) ==
    [owner |-> tb.owner, lease |-> [tb.lease EXCEPT ![o] = {}]]

Release(tb, o) ==
    [owner |-> [r \in Resources |-> IF r \in tb.lease[o] /\ tb.owner[r] = o
                                    THEN NoOwner ELSE tb.owner[r]],
     lease |-> [tb.lease EXCEPT ![o] = {}]]

(* The two dictionaries describe one relation: a resource has an owner     *)
(* exactly when that owner's lease names it.                               *)
Consistent(tb) ==
    \A r \in Resources, o \in Owners : tb.owner[r] = o <=> r \in tb.lease[o]

=============================================================================
