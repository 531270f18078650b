------------------------------- MODULE LanNode -------------------------------
(***************************************************************************)
(* Threads and locks of one offer between two hosts.  On the Founder a     *)
(* dispatcher submits a proposal and calls the selected node, and a LAN    *)
(* thread serves the calls of nodes one at a time.  On the node a server   *)
(* thread processes the offer, calling the Founder back to accept or       *)
(* refuse and to complete, and the main thread sends heartbeat pairs and   *)
(* shuts the node down.  A call blocks its thread; the runner lock is held *)
(* across a call to the Founder and released while the handler runs.  The  *)
(* byte RPC has no retry and no response cache: a call whose reply is lost *)
(* fails, whether or not it was served.                                    *)
(***************************************************************************)
EXTENDS Integers, FiniteSets

CONSTANTS
    LcPeers,      \* provisioned peers; the first offer goes to LcNode
    LcNode,
    LcBeats,      \* bound: heartbeat pairs
    LcFaults      \* bound: calls whose request or reply the carrier loses

ASSUME LcAssumption == LcBeats \in Nat /\ LcFaults \in Nat

VARIABLES
    lcDispatch,  \* the dispatcher
    lcServer,    \* the node's server thread
    lcMain,      \* the node's main thread
    lcBeat,      \* heartbeat pairs begun
    lcCall,      \* per thread of the node: its call to the Founder
    lcLate,      \* operations given up by their caller that may still arrive
    lcServing,   \* the call the Founder's LAN thread serves
    lcService,   \* holder of the service lock
    lcRunner,    \* holder of the runner lock
    lcFounderUp, lcNodeUp,  \* the LAN servers accept connections
    lcDraining,  \* the runner drains
    lcActive,    \* the runner has the work as an active task
    lcLease,     \* the work at the service
    lcSeen,      \* the node in the functional registry
    lcListed,    \* the node has resources in the resource registry
    lcFaulty     \* calls lost so far

lcVars == <<lcDispatch, lcServer, lcMain, lcBeat, lcCall, lcLate, lcServing, lcService, lcRunner,
            lcFounderUp, lcNodeUp, lcDraining, lcActive, lcLease, lcSeen, lcListed,
            lcFaulty>>

LcThreads == {"server", "main"}
LcOps == {"register", "drained", "resources", "withdraw", "accept", "refuse", "complete"}
LcNoCall == [op |-> "none", at |-> "none"]
LcIdle == [by |-> "none", op |-> "none"]

LcTypeOK ==
    /\ lcDispatch \in {"idle", "locked", "offering", "ended"}
    /\ lcServer \in {"idle", "receive", "accept", "refuse", "run", "finish", "complete",
                     "gone"}
    /\ lcMain \in {"wait", "lock", "beat", "resources", "drain", "lastlock", "lastbeat",
                   "withdraw", "join", "ended"}
    /\ lcCall \in [LcThreads -> [op : LcOps \cup {"none"},
                                 at : {"none", "sent", "answered", "failed"}]]
    /\ lcLate \subseteq LcOps
    /\ lcServing \in [by : LcThreads \cup {"late"}, op : LcOps] \cup {LcIdle}
    /\ lcService \in {"none", "dispatcher", "lan"} /\ lcRunner \in LcThreads \cup {"none"}
    /\ lcLease \in {"none", "offered", "accepted", "refused", "complete"}
    /\ lcSeen \in {"none", "available", "draining"}
    /\ lcFounderUp \in BOOLEAN /\ lcNodeUp \in BOOLEAN /\ lcDraining \in BOOLEAN
    /\ lcActive \in BOOLEAN /\ lcListed \in BOOLEAN
    /\ lcBeat \in 0 .. LcBeats /\ lcFaulty \in 0 .. LcFaults

LcInit ==
    /\ lcDispatch = "idle" /\ lcServer = "idle" /\ lcMain = "wait" /\ lcBeat = 0
    /\ lcCall = [t \in LcThreads |-> LcNoCall]
    /\ lcLate = {} /\ lcServing = LcIdle /\ lcService = "none" /\ lcRunner = "none"
    /\ lcFounderUp = TRUE /\ lcNodeUp = TRUE /\ lcDraining = FALSE /\ lcActive = FALSE
    /\ lcLease = "none" /\ lcSeen = "none" /\ lcListed = FALSE /\ lcFaulty = 0

-----------------------------------------------------------------------------
(* Calls of the node to the Founder.                                       *)

LcSend(t, op) == lcCall' = [lcCall EXCEPT ![t] = [op |-> op, at |-> "sent"]]
LcReturned(t) == lcCall[t].at \in {"answered", "failed"}
LcDoneWith(t) == lcCall' = [lcCall EXCEPT ![t] = LcNoCall]

(* The LAN thread accepts one connection and works on it to its end.       *)
LcAcceptCall(t) ==
    /\ lcFounderUp /\ lcServing = LcIdle /\ lcCall[t].at = "sent"
    /\ lcServing' = [by |-> t, op |-> lcCall[t].op]
    /\ UNCHANGED <<lcDispatch, lcServer, lcMain, lcBeat, lcCall, lcLate, lcService, lcRunner,
                   lcFounderUp, lcNodeUp, lcDraining, lcActive, lcLease, lcSeen, lcListed,
                   lcFaulty>>

(* ... a request whose caller has given up included.                       *)
LcAcceptLate(op) ==
    /\ lcFounderUp /\ lcServing = LcIdle /\ op \in lcLate
    /\ lcServing' = [by |-> "late", op |-> op] /\ lcLate' = lcLate \ {op}
    /\ UNCHANGED <<lcDispatch, lcServer, lcMain, lcBeat, lcCall, lcService, lcRunner,
                   lcFounderUp, lcNodeUp, lcDraining, lcActive, lcLease, lcSeen, lcListed,
                   lcFaulty>>

(* Every endpoint acts for the authenticated peer only: _bind_node.        *)
LcBound(n) == n \in LcPeers

(* What the operation does at the Founder.  Resources need the functional  *)
(* node, and a withdrawal removes it.                                      *)
LcEffect(op) ==
    /\ lcSeen' = CASE op = "register" /\ LcBound(LcNode) -> "available"
                   [] op = "drained" /\ LcBound(LcNode) -> "draining"
                   [] OTHER -> lcSeen
    /\ lcListed' = CASE op = "resources" -> lcListed \/ lcSeen # "none"
                     [] op = "withdraw" -> FALSE
                     [] OTHER -> lcListed
    /\ lcLease' = CASE op = "accept" /\ lcLease = "offered" -> "accepted"
                    [] op = "refuse" /\ lcLease = "offered" -> "refused"
                    [] op = "complete" /\ lcLease = "accepted" -> "complete"
                    [] OTHER -> lcLease

(* Registrations hold no lock of the service, nor do resources.            *)
LcUnlocked == {"register", "drained", "resources", "withdraw"}

LcTakeService ==
    /\ lcServing # LcIdle /\ lcService = "none"
    /\ lcServing.op \notin LcUnlocked
    /\ lcService' = "lan"
    /\ UNCHANGED <<lcDispatch, lcServer, lcMain, lcBeat, lcCall, lcLate, lcServing, lcRunner,
                   lcFounderUp, lcNodeUp, lcDraining, lcActive, lcLease, lcSeen, lcListed,
                   lcFaulty>>

(* The operation is done and the reply goes out; a caller that gave up     *)
(* does not see it.                                                        *)
LcServe ==
    /\ lcServing # LcIdle
    /\ lcService = "lan" \/ lcServing.op \in LcUnlocked
    /\ LcEffect(lcServing.op)
    /\ lcCall' = [t \in LcThreads |->
                    IF t = lcServing.by /\ lcCall[t] = [op |-> lcServing.op, at |-> "sent"]
                    THEN [lcCall[t] EXCEPT !.at = "answered"] ELSE lcCall[t]]
    /\ lcServing' = LcIdle
    /\ lcService' = IF lcService = "lan" THEN "none" ELSE lcService
    /\ UNCHANGED <<lcDispatch, lcServer, lcMain, lcBeat, lcLate, lcRunner, lcFounderUp,
                   lcNodeUp, lcDraining, lcActive, lcFaulty>>

(* The caller gives up: its request is lost, late or being served, or the  *)
(* Founder is gone.                                                        *)
LcCallFails(t) ==
    /\ lcCall[t].at = "sent"
    /\ lcFaulty < LcFaults \/ ~lcFounderUp
    /\ lcFaulty' = IF lcFounderUp THEN lcFaulty + 1 ELSE lcFaulty
    /\ lcCall' = [lcCall EXCEPT ![t].at = "failed"]
    /\ \/ lcLate' = lcLate
       \/ lcServing.by # t /\ lcLate' = lcLate \cup {lcCall[t].op}
    /\ UNCHANGED <<lcDispatch, lcServer, lcMain, lcBeat, lcServing, lcService, lcRunner,
                   lcFounderUp, lcNodeUp, lcDraining, lcActive, lcLease, lcSeen, lcListed>>

(* The reply of a served call is lost.                                     *)
LcReplyLost(t) ==
    /\ lcCall[t].at = "answered" /\ lcFaulty < LcFaults
    /\ lcFaulty' = lcFaulty + 1
    /\ lcCall' = [lcCall EXCEPT ![t].at = "failed"]
    /\ UNCHANGED <<lcDispatch, lcServer, lcMain, lcBeat, lcLate, lcServing, lcService, lcRunner,
                   lcFounderUp, lcNodeUp, lcDraining, lcActive, lcLease, lcSeen, lcListed>>

(* The Founder's bridge is told to stop.                                   *)
LcFounderStops ==
    /\ lcFounderUp /\ lcServing = LcIdle
    /\ lcFounderUp' = FALSE
    /\ UNCHANGED <<lcDispatch, lcServer, lcMain, lcBeat, lcCall, lcLate, lcServing, lcService,
                   lcRunner, lcNodeUp, lcDraining, lcActive, lcLease, lcSeen, lcListed,
                   lcFaulty>>

-----------------------------------------------------------------------------
(* The dispatcher.                                                         *)

LcSubmit ==
    /\ lcDispatch = "idle" /\ lcService = "none" /\ lcSeen = "available"
    /\ lcDispatch' = "locked" /\ lcService' = "dispatcher"
    /\ UNCHANGED <<lcServer, lcMain, lcBeat, lcCall, lcLate, lcServing, lcRunner, lcFounderUp,
                   lcNodeUp, lcDraining, lcActive, lcLease, lcSeen, lcListed, lcFaulty>>

(* The service lock stays held while the node is called.                   *)
MutLcOffer ==
    /\ lcDispatch = "locked"
    /\ lcLease' = "offered"
    /\ lcDispatch' = "offering"
    /\ UNCHANGED <<lcServer, lcMain, lcBeat, lcCall, lcLate, lcServing, lcService, lcRunner,
                   lcFounderUp, lcNodeUp, lcDraining, lcActive, lcSeen, lcListed, lcFaulty>>

(* The lease is made and the lock released before the node is called; a    *)
(* node without a provisioned route ends the dispatch with its lease left. *)
LcOffer ==
    /\ lcDispatch = "locked"
    /\ lcLease' = "offered" /\ lcService' = "none"
    /\ lcDispatch' = IF LcNode \in LcPeers THEN "offering" ELSE "ended"
    /\ UNCHANGED <<lcServer, lcMain, lcBeat, lcCall, lcLate, lcServing, lcRunner, lcFounderUp,
                   lcNodeUp, lcDraining, lcActive, lcSeen, lcListed, lcFaulty>>

(* The offer never reaches the node.                                       *)
LcOfferFails ==
    /\ lcDispatch = "offering" /\ lcServer \in {"idle", "gone"}
    /\ lcFaulty < LcFaults \/ ~lcNodeUp
    /\ lcFaulty' = IF lcNodeUp THEN lcFaulty + 1 ELSE lcFaulty
    /\ lcDispatch' = "ended"
    /\ UNCHANGED <<lcServer, lcMain, lcBeat, lcCall, lcLate, lcServing, lcService, lcRunner,
                   lcFounderUp, lcNodeUp, lcDraining, lcActive, lcLease, lcSeen, lcListed>>

-----------------------------------------------------------------------------
(* The node's server thread: process_offer.                                *)

LcNodeServes ==
    /\ lcNodeUp /\ lcServer = "idle" /\ lcDispatch = "offering"
    /\ lcServer' = "receive"
    /\ UNCHANGED <<lcDispatch, lcMain, lcBeat, lcCall, lcLate, lcServing, lcService, lcRunner,
                   lcFounderUp, lcNodeUp, lcDraining, lcActive, lcLease, lcSeen, lcListed,
                   lcFaulty>>

(* receive_offer: under the runner lock, a draining runner refuses.        *)
LcReceive ==
    /\ lcServer = "receive" /\ lcRunner = "none"
    /\ lcRunner' = "server"
    /\ lcServer' = IF lcDraining THEN "refuse" ELSE "accept"
    /\ LcSend("server", lcServer')
    /\ UNCHANGED <<lcDispatch, lcMain, lcBeat, lcLate, lcServing, lcService, lcFounderUp, lcNodeUp,
                   lcDraining, lcActive, lcLease, lcSeen, lcListed, lcFaulty>>

(* The reply of process_offer; the dispatcher may see it or not.           *)
LcAnswerOffer == lcServer' = "idle" /\ lcDispatch' = "ended"

LcReceived ==
    /\ lcServer \in {"accept", "refuse"} /\ LcReturned("server")
    /\ lcRunner' = "none" /\ LcDoneWith("server")
    /\ IF lcServer = "accept" /\ lcCall["server"].at = "answered"
       THEN lcActive' = TRUE /\ lcServer' = "run" /\ UNCHANGED lcDispatch
       ELSE LcAnswerOffer /\ UNCHANGED lcActive
    /\ UNCHANGED <<lcMain, lcBeat, lcLate, lcServing, lcService, lcFounderUp, lcNodeUp, lcDraining,
                   lcLease, lcSeen, lcListed, lcFaulty>>

(* The handler returns, without the lock.                                  *)
LcHandlerEnds ==
    /\ lcServer = "run" /\ lcServer' = "finish"
    /\ UNCHANGED <<lcDispatch, lcMain, lcBeat, lcCall, lcLate, lcServing, lcService, lcRunner,
                   lcFounderUp, lcNodeUp, lcDraining, lcActive, lcLease, lcSeen, lcListed,
                   lcFaulty>>

LcFinish ==
    /\ lcServer = "finish" /\ lcRunner = "none"
    /\ lcRunner' = "server" /\ lcServer' = "complete" /\ LcSend("server", "complete")
    /\ UNCHANGED <<lcDispatch, lcMain, lcBeat, lcLate, lcServing, lcService, lcFounderUp, lcNodeUp,
                   lcDraining, lcActive, lcLease, lcSeen, lcListed, lcFaulty>>

LcCompleted ==
    /\ lcServer = "complete" /\ LcReturned("server")
    /\ lcRunner' = "none" /\ LcDoneWith("server") /\ LcAnswerOffer
    /\ lcActive' = (lcCall["server"].at = "failed")
    /\ UNCHANGED <<lcMain, lcBeat, lcLate, lcServing, lcService, lcFounderUp, lcNodeUp, lcDraining,
                   lcLease, lcSeen, lcListed, lcFaulty>>

-----------------------------------------------------------------------------
(* The node's main thread.                                                 *)

LcMainGoes(from, to) == lcMain = from /\ lcMain' = to

(* A heartbeat pair begins: observe_once, then heartbeat for the lock.     *)
LcBegin ==
    /\ lcBeat < LcBeats
    /\ LcMainGoes("wait", "lock") /\ lcBeat' = lcBeat + 1
    /\ UNCHANGED <<lcDispatch, lcServer, lcCall, lcLate, lcServing, lcService, lcRunner, lcFounderUp,
                   lcNodeUp, lcDraining, lcActive, lcLease, lcSeen, lcListed, lcFaulty>>

LcHeartbeat ==
    /\ \/ LcMainGoes("lock", "beat")
       \/ LcMainGoes("lastlock", "lastbeat")
    /\ lcRunner = "none" /\ lcRunner' = "main"
    /\ LcSend("main", IF lcDraining THEN "drained" ELSE "register")
    /\ UNCHANGED <<lcDispatch, lcServer, lcBeat, lcLate, lcServing, lcService, lcFounderUp, lcNodeUp,
                   lcDraining, lcActive, lcLease, lcSeen, lcListed, lcFaulty>>

(* The functional heartbeat returned, well or not; the resources follow,   *)
(* unless the host could not observe them, or the withdrawal when this was *)
(* the last one.                                                           *)
LcThenResources ==
    /\ LcReturned("main") /\ lcRunner' = "none"
    /\ \/ LcMainGoes("beat", "resources") /\ LcSend("main", "resources")
       \/ LcMainGoes("beat", "wait") /\ LcDoneWith("main")
       \/ LcMainGoes("lastbeat", "withdraw") /\ LcSend("main", "withdraw")
    /\ UNCHANGED <<lcDispatch, lcServer, lcBeat, lcLate, lcServing, lcService, lcFounderUp, lcNodeUp,
                   lcDraining, lcActive, lcLease, lcSeen, lcListed, lcFaulty>>

LcPairEnds ==
    /\ LcReturned("main") /\ LcDoneWith("main")
    /\ LcMainGoes("resources", "wait") \/ LcMainGoes("withdraw", "join")
    /\ UNCHANGED <<lcDispatch, lcServer, lcBeat, lcLate, lcServing, lcService, lcRunner, lcFounderUp,
                   lcNodeUp, lcDraining, lcActive, lcLease, lcSeen, lcListed, lcFaulty>>

(* The stop event is set, or the server thread was found dead.             *)
LcStopNode ==
    /\ LcMainGoes("wait", "drain")
    /\ UNCHANGED <<lcDispatch, lcServer, lcBeat, lcCall, lcLate, lcServing, lcService, lcRunner,
                   lcFounderUp, lcNodeUp, lcDraining, lcActive, lcLease, lcSeen, lcListed,
                   lcFaulty>>

(* Shutdown does not make the runner drain.                                *)
MutLcDrain ==
    /\ LcMainGoes("drain", "lastlock") /\ lcRunner = "none"
    /\ UNCHANGED <<lcDispatch, lcServer, lcBeat, lcCall, lcLate, lcServing, lcService, lcRunner,
                   lcFounderUp, lcNodeUp, lcDraining, lcActive, lcLease, lcSeen, lcListed,
                   lcFaulty>>

LcDrain ==
    /\ LcMainGoes("drain", "lastlock") /\ lcRunner = "none"
    /\ lcDraining' = TRUE
    /\ UNCHANGED <<lcDispatch, lcServer, lcBeat, lcCall, lcLate, lcServing, lcService, lcRunner,
                   lcFounderUp, lcNodeUp, lcActive, lcLease, lcSeen, lcListed, lcFaulty>>

(* join with a timeout, close, mark_shutdown, and the end of the process:  *)
(* a server thread that is still busy dies with it.                        *)
LcJoin ==
    /\ LcMainGoes("join", "ended")
    /\ lcNodeUp' = FALSE /\ lcServer' = "gone"
    /\ lcRunner' = IF lcRunner = "server" THEN "none" ELSE lcRunner
    /\ lcCall' = [lcCall EXCEPT !["server"].at = IF @ = "sent" THEN "failed" ELSE @]
    /\ lcDispatch' = IF lcServer # "idle" /\ lcDispatch = "offering" THEN "ended" ELSE lcDispatch
    /\ UNCHANGED <<lcBeat, lcLate, lcServing, lcService, lcFounderUp, lcDraining, lcActive, lcLease,
                   lcSeen, lcListed, lcFaulty>>

LcThreadsStep ==
    \/ \E t \in LcThreads : LcAcceptCall(t)
    \/ LcTakeService \/ LcServe
    \/ LcOffer \/ LcNodeServes \/ LcReceive \/ LcReceived \/ LcHandlerEnds \/ LcFinish
    \/ LcCompleted \/ LcHeartbeat \/ LcThenResources \/ LcPairEnds \/ LcDrain \/ LcJoin

LcNext ==
    \/ LcThreadsStep
    \/ \E t \in LcThreads : LcCallFails(t) \/ LcReplyLost(t)
    \/ \E op \in LcOps : LcAcceptLate(op)
    \/ LcFounderStops \/ LcSubmit \/ LcOfferFails \/ LcBegin \/ LcStopNode

(* Threads run, handlers return, and a call to a host that is gone fails.  *)
LcFairness ==
    /\ WF_lcVars(LcThreadsStep)
    /\ WF_lcVars(LcReceive) /\ WF_lcVars(LcFinish) /\ WF_lcVars(LcReceived)
    /\ WF_lcVars(LcHeartbeat)
    /\ \A t \in LcThreads : WF_lcVars(LcAcceptCall(t)) /\ WF_lcVars(~lcFounderUp /\ LcCallFails(t))
    /\ WF_lcVars(~lcNodeUp /\ LcOfferFails)

-----------------------------------------------------------------------------
(* Nobody waits for ever: an offer under way is eventually answered or     *)
(* given up, although both hosts call each other while they hold locks.    *)
LcOfferEnds == lcDispatch = "offering" ~> lcDispatch = "ended"

(* A node that is shutting down comes to its end.                          *)
LcShutdownEnds == lcMain = "drain" ~> lcMain = "ended"

(* The service takes an acceptance or a result as given only from a node   *)
(* that has, or had, the work as a task: a lease that is accepted at the   *)
(* Founder while the node neither runs nor awaits the answer means that a  *)
(* call was lost or a host went down.                                      *)
LcLeaseTracked ==
    lcLease = "accepted" /\ lcFaulty = 0 /\ lcFounderUp /\ lcNodeUp =>
        lcActive \/ lcServer = "accept"

(* A node that withdrew its resources and lost no call is not listed.      *)
LcWithdrawn ==
    lcMain \in {"join", "ended"} /\ lcFaulty = 0 /\ lcFounderUp => ~lcListed /\ lcSeen # "available"

(* Node and Founder agree while no call is lost and both run: on the lease *)
(* that is accepted, and on a node that withdrew.                          *)
LcAgree == LcLeaseTracked /\ LcWithdrawn

(* Offers and shutdowns come to an end, though the two hosts call each     *)
(* other and calls are lost.                                               *)
LcEnds == LcOfferEnds /\ LcShutdownEnds
=============================================================================
