------------------------------ MODULE SensorLan ------------------------------
(***************************************************************************)
(* Sensor evidence from a LAN node to the sensor fabric: the node's client *)
(* numbers its messages within a session and sends each once over its own  *)
(* connection; the single listener thread of Runtime verifies and admits a *)
(* message, and publishes it on the event bus, where the event bridge      *)
(* applies it to the fabric.  The network may lose, delay, reorder and     *)
(* replay frames.  Signatures, framing and field checks are one verdict on *)
(* a frame: one that fails them carries no sensor event.                   *)
(***************************************************************************)
EXTENDS Integers, Sequences, FiniteSets

CONSTANTS
    SlSensors, SlCapabilities,
    SlEvents,        \* payloads: [kind, sensor, caps | state | recv, health, maturity]
    SlSubscribers,   \* subscriptions [cap, min]
    SlMaxSessions,   \* max_sessions of the ingress
    SlMaxPending,    \* max_pending of the bridge
    SlStarts,        \* bound: sessions the node opens
    SlMessages       \* bound: messages sent

ASSUME SlAssumption ==
    /\ SlMaxSessions \in Nat \ {0} /\ SlMaxPending \in Nat \ {0}
    /\ SlStarts \in Nat \ {0} /\ SlMessages \in Nat

(* The sets name every sensor and capability a payload does; the fabric    *)
(* takes no negative time of reception (_nonnegative_number).              *)
ASSUME SlEventAssumption ==
    \A e \in SlEvents : /\ e.sensor \in SlSensors
                        /\ e.kind = "capabilities" => e.caps \subseteq SlCapabilities
                        /\ e.kind = "observation" => e.recv \in Nat

VARIABLES
    slSession,    \* the node's current session
    slNextSeq,    \* _next_sequence of the node's client
    slNet,        \* frames sent; one that is never served is lost
    slListening,  \* the listener thread is alive
    slLast,       \* _last_sequence: session -> sequence, for the tracked sessions
    slSensor,     \* _sensors
    slIndex,      \* _capability_sources
    slSubs,       \* _subscriptions
    slPending,    \* number of deliveries in the bridge's queue
    slDropped,    \* dropped_delivery_count
    slPublished,  \* history: per session, the sequences published, in order
    slRouted      \* history: per sensor, the observations routed

slVars == <<slSession, slNextSeq, slNet, slListening, slLast, slSensor, slIndex,
            slSubs, slPending, slDropped, slPublished, slRouted>>

slFabric == <<slSensor, slIndex, slPending, slDropped, slRouted>>

Sessions == 1 .. SlStarts

SlTypeOK ==
    /\ slSession \in Sessions /\ slNextSeq \in 0 .. SlMessages
    /\ \A f \in slNet : f.session \in Sessions /\ f.seq \in 0 .. SlMessages - 1
    /\ DOMAIN slLast \subseteq Sessions /\ Cardinality(DOMAIN slLast) <= SlMaxSessions
    /\ \A s \in DOMAIN slSensor : slSensor[s].caps \subseteq SlCapabilities
    /\ slIndex \in [SlCapabilities -> SUBSET SlSensors]
    /\ slSubs \subseteq SlSubscribers
    /\ slPending \in 0 .. SlMaxPending /\ slDropped \in Nat

SlInit ==
    /\ slSession = 1 /\ slNextSeq = 0 /\ slNet = {}
    /\ slListening = TRUE
    /\ slLast = << >> /\ slSensor = << >>
    /\ slIndex = [c \in SlCapabilities |-> {}]
    /\ slSubs = {} /\ slPending = 0 /\ slDropped = 0
    /\ slPublished = [n \in Sessions |-> <<>>]
    /\ slRouted = [s \in SlSensors |-> {}]

-----------------------------------------------------------------------------
(* The node.                                                               *)

(* SensorLanTcpClient.send: the sequence is used up before the connection  *)
(* is tried; a failed transmission may still arrive.                       *)
Send(e) ==
    /\ Cardinality(slNet) < SlMessages
    /\ slNextSeq' = slNextSeq + 1
    /\ slNet' = slNet \cup {[session |-> slSession, seq |-> slNextSeq, event |-> e]}
    /\ UNCHANGED <<slSession, slListening, slLast, slSubs, slPublished, slFabric>>

(* A restarted node opens a fresh session.                                 *)
NodeRestart ==
    /\ slSession < SlStarts
    /\ slSession' = slSession + 1 /\ slNextSeq' = 0
    /\ UNCHANGED <<slNet, slListening, slLast, slSubs, slPublished, slFabric>>

-----------------------------------------------------------------------------
(* The fabric.                                                             *)

SlKnown(s) == s \in DOMAIN slSensor

(* A record before it has any evidence.                                    *)
NewRecord == [caps |-> {}, state |-> "discovered", recv |-> -1, health |-> "unknown"]

Record(s) == IF SlKnown(s) THEN slSensor[s] ELSE NewRecord

PutRecord(s, r) == slSensor' = [t \in DOMAIN slSensor \cup {s} |-> IF t = s THEN r ELSE slSensor[t]]

(* _remove_from_capability_index, then _add_to_capability_index.           *)
Reindex(s, caps) == [c \in SlCapabilities |-> IF c \in caps THEN slIndex[c] \cup {s} ELSE slIndex[c] \ {s}]

(* register_capabilities: a declaration replaces the previous one and      *)
(* keeps the live state.                                                   *)
RegisterCapabilities(e) ==
    /\ PutRecord(e.sensor, [Record(e.sensor) EXCEPT !.caps = e.caps])
    /\ slIndex' = Reindex(e.sensor, e.caps)
    /\ UNCHANGED <<slPending, slDropped, slRouted>>

(* apply_lifecycle, also before the capabilities arrive.                   *)
ApplyLifecycle(e) ==
    /\ PutRecord(e.sensor, [Record(e.sensor) EXCEPT !.state = e.state])
    /\ UNCHANGED <<slIndex, slPending, slDropped, slRouted>>

(* route_observation finds the sensor and its capabilities, or raises.     *)
SlRoutable(e) == SlKnown(e.sensor) /\ slSensor[e.sensor].caps # {}

(* The last reading to arrive becomes the snapshot, however old it is.     *)
MutNewer(r, e) == TRUE

(* Older evidence does not roll the live snapshot back.                    *)
Newer(r, e) == e.recv >= r.recv

(* The subscriptions the observation is delivered to.                      *)
SlEligible(e) == {u \in slSubs : u.cap \in slSensor[e.sensor].caps /\ e.maturity >= u.min}

(* route_observation, then _retain of its deliveries, which drops the      *)
(* oldest of a full queue one by one.                                      *)
RouteObservation(e) ==
    LET r == slSensor[e.sensor]
        queued == slPending + Cardinality(SlEligible(e))
    IN  /\ PutRecord(e.sensor,
              IF Newer(r, e) THEN [r EXCEPT !.recv = e.recv, !.health = e.health] ELSE r)
        /\ slPending' = IF queued > SlMaxPending THEN SlMaxPending ELSE queued
        /\ slDropped' = slDropped + queued - slPending'
        /\ slRouted' = [slRouted EXCEPT ![e.sensor] = @ \cup {[recv |-> e.recv, health |-> e.health]}]
        /\ UNCHANGED slIndex

(* SensorFabricEventBridge.handle of an event it can apply.                *)
HandleEvent(e) ==
    \/ e.kind = "capabilities" /\ RegisterCapabilities(e)
    \/ e.kind = "lifecycle" /\ ApplyLifecycle(e)
    \/ e.kind = "observation" /\ SlRoutable(e) /\ RouteObservation(e)

-----------------------------------------------------------------------------
(* The listener thread.                                                    *)

(* admit up to the signature: size, encoding, fields, event allowlist, a   *)
(* known node and its signature.  Nothing is kept of a frame that fails.   *)
SlAdmissible(f) == f.event.kind \in {"capabilities", "lifecycle", "observation"}

(* Replay protection per session.                                          *)
InOrder(f) == f.session \in DOMAIN slLast => f.seq > slLast[f.session]

(* A new session needs a free entry of the session table, which never      *)
(* forgets one.                                                            *)
Tracked(f) == f.session \in DOMAIN slLast \/ Cardinality(DOMAIN slLast) < SlMaxSessions

(* admit's last step: the sequence is taken before anything is published.  *)
TakeSequence(f) ==
    slLast' = [n \in DOMAIN slLast \cup {f.session} |-> IF n = f.session THEN f.seq ELSE slLast[n]]

(* serve_once: a frame is admitted and published.  An event the fabric     *)
(* cannot apply raises in the bus handler: the bus isolates it, or it      *)
(* reaches the listener, where the missing sensor's KeyError ends the      *)
(* thread (_run records the failure).                                      *)
ServeOnce(f) ==
    /\ slListening /\ f \in slNet
    /\ SlAdmissible(f) /\ InOrder(f) /\ Tracked(f)
    /\ TakeSequence(f)
    /\ slPublished' = [slPublished EXCEPT ![f.session] = Append(@, f.seq)]
    /\ \/ HandleEvent(f.event) /\ UNCHANGED slListening
       \/ /\ f.event.kind = "observation" /\ ~SlRoutable(f.event)
          /\ slListening' \in {TRUE, SlKnown(f.event.sensor)}
          /\ UNCHANGED slFabric
    /\ UNCHANGED <<slSession, slNextSeq, slNet, slSubs>>

-----------------------------------------------------------------------------
(* Consumers and restarts.                                                 *)

Subscribe(u) ==
    /\ u \in SlSubscribers \ slSubs /\ slSubs' = slSubs \cup {u}
    /\ UNCHANGED <<slSession, slNextSeq, slNet, slListening, slLast, slPublished, slFabric>>

(* drain_deliveries with or without a limit.                               *)
DrainDeliveries ==
    /\ slPending > 0 /\ slPending' \in {0, slPending - 1}
    /\ UNCHANGED <<slSession, slNextSeq, slNet, slListening, slLast, slSubs, slPublished,
                   slSensor, slIndex, slDropped, slRouted>>

(* Replay state, fabric and subscriptions are in memory only.              *)
RuntimeRestart ==
    /\ slListening' = TRUE
    /\ slLast' = << >> /\ slSensor' = << >>
    /\ slIndex' = [c \in SlCapabilities |-> {}]
    /\ slSubs' = {} /\ slPending' = 0 /\ slDropped' = 0
    /\ slPublished' = [n \in Sessions |-> <<>>]
    /\ slRouted' = [s \in SlSensors |-> {}]
    /\ UNCHANGED <<slSession, slNextSeq, slNet>>

SlNext ==
    \/ \E e \in SlEvents : Send(e)
    \/ \E f \in slNet : ServeOnce(f)
    \/ \E u \in SlSubscribers : Subscribe(u)
    \/ NodeRestart \/ DrainDeliveries \/ RuntimeRestart

-----------------------------------------------------------------------------
(* Replay protection: within one life of Runtime the messages of a session *)
(* are published in the order they were sent and none of them twice,       *)
(* whatever the network does with the frames.                              *)
SensorOrdered ==
    \A n \in Sessions : \A i, j \in DOMAIN slPublished[n] :
        i < j => slPublished[n][i] < slPublished[n][j]

(* sensor_fabric.py: older evidence "must not roll the live state snapshot *)
(* backwards".  The snapshot is the newest observation routed so far, also *)
(* through lifecycle reports and new declarations in between.              *)
SensorSnapshotNewest ==
    \A s \in DOMAIN slSensor :
        IF slRouted[s] = {} THEN slSensor[s].recv = -1
        ELSE /\ \A o \in slRouted[s] : o.recv <= slSensor[s].recv
             /\ [recv |-> slSensor[s].recv, health |-> slSensor[s].health] \in slRouted[s]

(* providers_for answers from the index: it lists exactly the sensors that *)
(* now declare the capability, through every re-declaration.               *)
SensorIndexExact ==
    \A c \in SlCapabilities : slIndex[c] = {s \in DOMAIN slSensor : c \in slSensor[s].caps}

(* What the sensor fabric promises: ordered evidence, a snapshot that is   *)
(* the newest, and an index that is the declarations.                      *)
SensorSound == SensorOrdered /\ SensorSnapshotNewest /\ SensorIndexExact
=============================================================================
