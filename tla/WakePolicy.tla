----------------------------- MODULE WakePolicy -----------------------------
(***************************************************************************)
(* The Founder wake supervisor: AuthenticatedWakeEnvelopeReceiver hands an *)
(* authenticated payload to WakePowerSupervisor, which asks the policy     *)
(* engine for a decision (under the engine's lock) and then, outside the   *)
(* lock, lets the dispatcher touch the wake hardware.                      *)
(* Several carrier threads may be between the two.  All of the engine's    *)
(* state is in memory; the reason file, which nothing reads back, is left  *)
(* out.                                                                    *)
(***************************************************************************)
EXTENDS Naturals, Sequences, FiniteSets

CONSTANTS
    WakeRequests,  \* parsed requests [id, source, fit, from, till]
    WakeSources,   \* sources with a WakeSourcePolicy
    WakeMethods,   \* enabled backends
    WakeRoutes,    \* method_by_power_state, or "none"
    WakeMaxLife,   \* longest lifetime of a request
    WakeWindow, WakeBudget, WakeCooldown,   \* the source policy, in ticks
    WakeCache,     \* MAX_REQUEST_CACHE
    WakeSkew,      \* MAX_FUTURE_OBSERVATION_SKEW_MS
    WakeEnd        \* bound of the clock

(* What WakeSourcePolicy and WakePolicyConfig accept.                      *)
WakeSourcePolicyOK ==
    /\ WakeBudget \in 1 .. 100
    /\ WakeWindow \in Nat \ {0}
    /\ WakeCooldown \in 0 .. WakeWindow

(* What the actuator configuration accepts: no route from awake, and no    *)
(* route to a backend that is not enabled.                                 *)
WakeRoutesOK ==
    /\ WakeMethods \subseteq {"wake-on-lan", "power-button-contact"}
    /\ WakeRoutes["awake"] = "none"
    /\ \A p \in DOMAIN WakeRoutes : WakeRoutes[p] \in WakeMethods \cup {"none"}

ASSUME WakeAssumption ==
    /\ WakeSourcePolicyOK /\ WakeRoutesOK /\ {"awake", "off"} \subseteq DOMAIN WakeRoutes
    /\ WakeCache \in Nat \ {0} /\ WakeEnd \in Nat

VARIABLES
    wkNow,         \* the clock
    wkPower,       \* the Founder's observed power state
    wkAttempts,    \* _attempts: per source, the times of counted requests
    wkLast,        \* _last_accepted: per source, the last acceptance or none
    wkDecisions,   \* _decisions, oldest first
    wkPending,     \* requests decided eligible and not yet dispatched
    wkSent,        \* history: dispatches of each id since boot
    wkAccepted,    \* history: accepted decisions since boot
    wkEvicted      \* history: ids whose decision left the cache since boot

wkVars == <<wkNow, wkPower, wkAttempts, wkLast, wkDecisions, wkPending,
            wkSent, wkAccepted, wkEvicted>>

WakeIds == {r.id : r \in WakeRequests}
WakeTimes == 0 .. WakeEnd

WakeTypeOK ==
    /\ wkNow \in WakeTimes
    /\ wkPower \in DOMAIN WakeRoutes
    /\ wkAttempts \in [WakeSources -> Seq(WakeTimes)]
    /\ wkLast \in [WakeSources -> SUBSET WakeTimes]
    /\ \A i \in DOMAIN wkDecisions : wkDecisions[i].accepted \in BOOLEAN
    /\ Len(wkDecisions) <= WakeCache
    /\ wkPending \subseteq WakeRequests
    /\ wkSent \in [WakeIds -> Nat]
    /\ wkEvicted \subseteq WakeIds

WakeInit ==
    /\ wkNow = 0
    /\ wkPower = "off"
    /\ wkAttempts = [s \in WakeSources |-> <<>>]
    /\ wkLast = [s \in WakeSources |-> {}]
    /\ wkDecisions = <<>>
    /\ wkPending = {}
    /\ wkSent = [i \in WakeIds |-> 0] /\ wkAccepted = {} /\ wkEvicted = {}

-----------------------------------------------------------------------------
(* parse_wake_request: a bounded lifetime.                                 *)
WakeWellFormed(r) == r.till > r.from /\ r.till - r.from <= WakeMaxLife

(* Requests that never reach the source's budget: expired, too far in the  *)
(* future, or of a source without a policy.                                *)
WakeUntimely(r) ==
    \/ r.till <= wkNow
    \/ r.from > wkNow + WakeSkew
    \/ r.source \notin WakeSources

(* The loop over the oldest attempts: the first k have left the window and *)
(* the next one, if any, has not.                                          *)
WakePast(s, k) ==
    /\ \A i \in 1 .. k : wkAttempts[s][i] + WakeWindow <= wkNow
    /\ k < Len(wkAttempts[s]) => wkAttempts[s][k + 1] + WakeWindow > wkNow

(* The attempts of a source that are still inside its window.              *)
WakeRecent(s, k) == SubSeq(wkAttempts[s], k + 1, Len(wkAttempts[s]))

(* The last acceptance is less than the cooldown ago.                      *)
WakeCooling(s) == \E t \in wkLast[s] : wkNow - t < WakeCooldown

(* The cache of decisions grows without eviction.                          *)
MutWakeRemember(r, accepted) ==
    /\ wkDecisions' = Append(wkDecisions, [req |-> r, accepted |-> accepted])
    /\ UNCHANGED wkEvicted

(* _remember with its FIFO eviction.                                       *)
WakeRemember(r, accepted) ==
    LET all == Append(wkDecisions, [req |-> r, accepted |-> accepted])
        over == Len(all) > WakeCache
    IN  /\ wkDecisions' = IF over THEN Tail(all) ELSE all
        /\ wkEvicted' = IF over THEN wkEvicted \cup {Head(all).req.id} ELSE wkEvicted

(* The budget refuses without counting the attempt.                        *)
WakeOverBudget(s, k) == Len(WakeRecent(s, k)) >= WakeBudget

(* _evaluate_new accepts; the observed power state decides whether there   *)
(* is a method to dispatch (none when awake, none without a route).        *)
WakeAccept(r) ==
    LET s == r.source IN
    /\ wkLast' = [wkLast EXCEPT ![s] = {wkNow}]
    /\ wkAccepted' = wkAccepted \cup {[id |-> r.id, source |-> s, at |-> wkNow]}
    /\ wkPending' = IF WakeRoutes[wkPower] # "none" THEN wkPending \cup {r} ELSE wkPending
    /\ WakeRemember(r, TRUE)

WakeRefuse(r) ==
    /\ WakeRemember(r, FALSE)
    /\ UNCHANGED <<wkLast, wkAccepted, wkPending>>

(* _evaluate_new.                                                          *)
WakeEvaluateNew(r) ==
    \/ WakeUntimely(r) /\ WakeRefuse(r) /\ UNCHANGED wkAttempts
    \/ /\ ~WakeUntimely(r)
       /\ \E k \in 0 .. Len(wkAttempts[r.source]) :
            LET s == r.source IN
            /\ WakePast(s, k)
            /\ \/ /\ WakeOverBudget(s, k) /\ WakeRefuse(r)
                  /\ wkAttempts' = [wkAttempts EXCEPT ![s] = WakeRecent(s, k)]
               \/ /\ ~WakeOverBudget(s, k)
                  /\ wkAttempts' = [wkAttempts EXCEPT ![s] = Append(WakeRecent(s, k), wkNow)]
                  /\ IF r.fit /\ ~WakeCooling(s) THEN WakeAccept(r) ELSE WakeRefuse(r)

(* A repeated request is recognised only if it was refused before.         *)
MutWakeKnown(r) == \E i \in DOMAIN wkDecisions : wkDecisions[i].req = r /\ ~wkDecisions[i].accepted

(* evaluate: an id with a remembered decision is refused (other content)   *)
(* or acknowledged as a duplicate; neither changes anything.               *)
WakeKnown(r) == \E i \in DOMAIN wkDecisions : wkDecisions[i].req.id = r.id

(* A payload whose declared source is the authenticated peer.              *)
WakeReceive(r) ==
    /\ WakeWellFormed(r)
    /\ ~WakeKnown(r)
    /\ WakeEvaluateNew(r)
    /\ UNCHANGED <<wkNow, wkPower, wkSent>>

(* dispatch, outside the lock: the backend raises before it had an effect, *)
(* or it had one (whether it then raises or the reason is recorded).       *)
WakeDispatch(r) ==
    /\ r \in wkPending
    /\ wkPending' = wkPending \ {r}
    /\ wkSent' \in {wkSent, [wkSent EXCEPT ![r.id] = @ + 1]}
    /\ UNCHANGED <<wkNow, wkPower, wkAttempts, wkLast, wkDecisions, wkAccepted, wkEvicted>>

WakeTick ==
    /\ wkNow < WakeEnd /\ wkNow' = wkNow + 1
    /\ UNCHANGED <<wkPower, wkAttempts, wkLast, wkDecisions, wkPending, wkSent, wkAccepted, wkEvicted>>

WakePowerChange ==
    /\ wkPower' \in DOMAIN WakeRoutes \ {wkPower}
    /\ UNCHANGED <<wkNow, wkAttempts, wkLast, wkDecisions, wkPending, wkSent, wkAccepted, wkEvicted>>

(* The supervisor restarts: the engine knows nothing of earlier requests.  *)
WakeRestart ==
    /\ wkAttempts' = [s \in WakeSources |-> <<>>]
    /\ wkLast' = [s \in WakeSources |-> {}]
    /\ wkDecisions' = <<>>
    /\ wkPending' = {} /\ wkSent' = [i \in WakeIds |-> 0] /\ wkAccepted' = {} /\ wkEvicted' = {}
    /\ UNCHANGED <<wkNow, wkPower>>

WakeNext ==
    \/ \E r \in WakeRequests : WakeReceive(r) \/ WakeDispatch(r)
    \/ WakeTick \/ WakePowerChange \/ WakeRestart

-----------------------------------------------------------------------------
(* wake_power_supervisor.py: "a retransmitted request must be acknowledged *)
(* without touching the wake hardware again".  Within one life of the      *)
(* supervisor a request id reaches the hardware a second time only if its  *)
(* decision had been evicted from the bounded cache.                       *)
WakeOnce == \A i \in WakeIds : wkSent[i] > 1 => i \in wkEvicted

(* The source's cooldown and its budget pace what a source can have        *)
(* accepted, also through evictions that make the engine evaluate the same *)
(* request again.                                                          *)
WakePaced ==
    \A a \in wkAccepted :
        /\ \A b \in wkAccepted :
             a # b /\ a.source = b.source /\ a.at <= b.at => b.at - a.at >= WakeCooldown
        /\ Cardinality({b \in wkAccepted : b.source = a.source /\ b.at <= a.at /\ b.at + WakeWindow > a.at})
             <= WakeBudget

(* What the wake policy promises of the hardware it guards.                *)
WakeSound == WakeOnce /\ WakePaced
=============================================================================
