----------------------------- MODULE RpcTransport -----------------------------
(***************************************************************************)
(* The Unix-socket RPC of the distributed-work and resource services: a    *)
(* client opens one connection per attempt and repeats a call, under the   *)
(* same request id, while the transport fails; the single-threaded server  *)
(* answers a repeated request from a bounded cache in memory.  A request   *)
(* is the call that made it: two calls may share an id a caller chose.     *)
(* Frames, envelopes and the outcome of an operation are data; a response  *)
(* is told apart by the dispatch that produced it.                         *)
(***************************************************************************)
EXTENDS Integers, Sequences, SequencesExt

CONSTANTS
    RcCalls,
    RcId,        \* call -> request id
    RcForeign,   \* calls from a peer whose uid or gid is not allowed
    RcLarge,     \* calls whose response exceeds the frame limit
    RcRetries,   \* retries of the client
    RcCacheSize, \* request_cache_size of the server
    RcBacklog,   \* listen backlog
    RcStarts     \* bound: processes the server is started in

ASSUME RcAssumption ==
    /\ RcForeign \subseteq RcCalls /\ RcLarge \subseteq RcCalls
    /\ RcStarts \in Nat /\ RcRetries \in Nat /\ RcCacheSize \in Nat \ {0} /\ RcBacklog \in Nat \ {0}

VARIABLES
    rcCall,    \* per call: where the client is, attempts left, the attempt under way
    rcAnswer,  \* per call: the response it returned with
    rcUp,      \* the server is bound and its thread serves
    rcStarts,  \* times it was bound
    rcQueue,   \* connections waiting to be accepted
    rcHand,    \* the connection being served, with its response
    rcCache,   \* the response cache, least recently used first
    rcRuns,    \* history: dispatches of each call
    rcLost     \* history: times the response of a call left the cache

rcVars == <<rcCall, rcAnswer, rcUp, rcStarts, rcQueue, rcHand, rcCache, rcRuns, rcLost>>

RcNothing == <<>>

RcTypeOK ==
    /\ \A c \in RcCalls : /\ rcCall[c].at \in {"idle", "sent", "answered", "failed"}
                          /\ rcCall[c].left \in 0 .. RcRetries + 1
    /\ Len(rcQueue) <= RcBacklog /\ Len(rcHand) <= 1 /\ Len(rcCache) <= RcCacheSize
    /\ rcStarts \in 0 .. RcStarts

RcInit ==
    /\ rcCall = [c \in RcCalls |-> [at |-> "idle", left |-> RcRetries + 1]]
    /\ rcAnswer = [c \in RcCalls |-> RcNothing]
    /\ rcUp = FALSE /\ rcStarts = 0
    /\ rcQueue = <<>> /\ rcHand = RcNothing /\ rcCache = <<>>
    /\ rcRuns = [c \in RcCalls |-> 0] /\ rcLost = [c \in RcCalls |-> 0]

-----------------------------------------------------------------------------
(* The client.                                                             *)

RcAttempt(c) == [call |-> c, left |-> rcCall[c].left]

(* An attempt that finds the socket and room in its backlog.               *)
RcConnect(c) ==
    /\ rcCall[c].at = "idle" /\ rcCall[c].left > 0
    /\ rcUp /\ Len(rcQueue) < RcBacklog
    /\ rcQueue' = Append(rcQueue, RcAttempt(c))
    /\ rcCall' = [rcCall EXCEPT ![c].at = "sent"]
    /\ UNCHANGED <<rcAnswer, rcUp, rcStarts, rcHand, rcCache, rcRuns, rcLost>>

(* An attempt ends without a response: no socket, no room, a timeout or a  *)
(* closed connection.  What the server has accepted it still serves.       *)
RcAttemptFails(c) ==
    /\ \/ rcCall[c].at = "sent"
       \/ rcCall[c].at = "idle" /\ rcCall[c].left > 0
          /\ (~rcUp \/ Len(rcQueue) = RcBacklog)
    /\ rcCall' = [rcCall EXCEPT ![c] =
                    [at |-> IF @.left = 1 THEN "failed" ELSE "idle", left |-> @.left - 1]]
    /\ UNCHANGED <<rcAnswer, rcUp, rcStarts, rcQueue, rcHand, rcCache, rcRuns, rcLost>>

-----------------------------------------------------------------------------
(* The server.                                                             *)

(* RequestIdReuseError: a response without a dispatch.                     *)
RcReused(c) == [by |-> c, nth |-> 0]

(* Where the cache holds the request id, which it does at most once.       *)
RcEntries(c) == {i \in DOMAIN rcCache : RcId[rcCache[i].call] = RcId[c]}

(* move_to_end: the entry becomes the most recent.                         *)
RcTouch(i) == Append(RemoveAt(rcCache, i), rcCache[i])

(* A full cache takes no further response.                                 *)
MutRcStore(e) == IF Len(rcCache) < RcCacheSize THEN Append(rcCache, e) ELSE rcCache

(* A new entry is the most recent; the oldest beyond the size goes.        *)
RcStore(e) ==
    LET all == Append(rcCache, e)
    IN  IF Len(all) > RcCacheSize THEN Tail(all) ELSE all

(* _handle_request for an allowed peer: a cached response, a refused reuse *)
(* of the id, or a dispatch, whose response (an error's too) is cached.    *)
RcHandle ==
    /\ rcUp /\ rcHand = RcNothing /\ rcQueue # <<>>
    /\ LET r == Head(rcQueue)
           c == r.call
           reply(resp) == rcHand' = <<[call |-> c, left |-> r.left, resp |-> resp]>>
       IN  \/ /\ c \in RcForeign
              /\ UNCHANGED <<rcHand, rcCache, rcRuns, rcLost>>
           \/ /\ c \notin RcForeign
              /\ \E i \in RcEntries(c) :
                    IF rcCache[i].call = c
                    THEN reply(rcCache[i].run) /\ rcCache' = RcTouch(i)
                    ELSE reply(RcReused(c)) /\ UNCHANGED rcCache
              /\ UNCHANGED <<rcRuns, rcLost>>
           \/ /\ c \notin RcForeign /\ RcEntries(c) = {}
              /\ LET run == [by |-> c, nth |-> rcRuns[c] + 1]
                 IN  /\ reply(run)
                     /\ rcCache' = RcStore([call |-> c, run |-> run])
              /\ rcRuns' = [rcRuns EXCEPT ![c] = @ + 1]
              /\ rcLost' = [d \in RcCalls |->
                    IF (\E i \in DOMAIN rcCache : rcCache[i].call = d)
                       /\ (\A i \in DOMAIN rcCache' : rcCache'[i].call # d)
                    THEN rcLost[d] + 1 ELSE rcLost[d]]
    /\ rcQueue' = Tail(rcQueue)
    /\ UNCHANGED <<rcCall, rcAnswer, rcUp, rcStarts>>

RcForgotten ==
    [c \in RcCalls |-> IF \E i \in DOMAIN rcCache : rcCache[i].call = c
                       THEN rcLost[c] + 1 ELSE rcLost[c]]

(* The response is sent.  A client that is no longer there is ignored; a   *)
(* response too large for a frame raises out of serve_once and ends the    *)
(* serving thread, and with it its process.                                *)
RcReply ==
    /\ rcHand # RcNothing
    /\ LET h == rcHand[1]
           waiting == rcCall[h.call] = [at |-> "sent", left |-> h.left]
       IN  IF h.call \in RcLarge /\ h.resp.nth # 0
           THEN /\ rcUp' = FALSE /\ rcQueue' = <<>> /\ rcCache' = <<>>
                /\ rcLost' = RcForgotten
                /\ UNCHANGED <<rcCall, rcAnswer>>
           ELSE /\ rcCall' = IF waiting THEN [rcCall EXCEPT ![h.call].at = "answered"]
                             ELSE rcCall
                /\ rcAnswer' = IF waiting THEN [rcAnswer EXCEPT ![h.call] = <<h.resp>>]
                               ELSE rcAnswer
                /\ UNCHANGED <<rcUp, rcQueue, rcCache, rcLost>>
    /\ rcHand' = RcNothing
    /\ UNCHANGED <<rcStarts, rcRuns>>

(* The process is told to stop between two connections, or dies in one.    *)
RcStop ==
    /\ rcUp
    /\ rcUp' = FALSE /\ rcQueue' = <<>> /\ rcHand' = RcNothing /\ rcCache' = <<>>
    /\ rcLost' = RcForgotten
    /\ UNCHANGED <<rcCall, rcAnswer, rcStarts, rcRuns>>

(* A new process replaces the socket its predecessor left.                 *)
RcBind ==
    /\ ~rcUp /\ rcStarts < RcStarts
    /\ rcUp' = TRUE /\ rcStarts' = rcStarts + 1
    /\ UNCHANGED <<rcCall, rcAnswer, rcQueue, rcHand, rcCache, rcRuns, rcLost>>

RcNext ==
    \/ \E c \in RcCalls : RcConnect(c) \/ RcAttemptFails(c)
    \/ RcHandle \/ RcReply \/ RcStop \/ RcBind

-----------------------------------------------------------------------------
(* A retried call is dispatched again only after its response left the     *)
(* cache, by eviction or with its process: as often as that, and no more.  *)
RcOncePerEntry == \A c \in RcCalls : rcRuns[c] <= rcLost[c] + 1

(* A call returns with the response of a dispatch of its own request; it   *)
(* is told that its id was reused only when another request of that id ran.*)
RcOwnResponse ==
    \A c \in RcCalls :
        rcAnswer[c] # RcNothing =>
            /\ rcAnswer[c][1].by = c /\ rcAnswer[c][1].nth \in 0 .. rcRuns[c]
            /\ rcAnswer[c][1].nth = 0 =>
                  \E d \in RcCalls \ {c} : RcId[d] = RcId[c] /\ rcRuns[d] > 0

(* A repeated call runs again only when its response is gone, and always   *)
(* returns with a response to its own request.                             *)
RcSound == RcOncePerEntry /\ RcOwnResponse
=============================================================================
