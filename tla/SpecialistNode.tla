--------------------------- MODULE SpecialistNode ---------------------------
(***************************************************************************)
(* One specialist node daemon: SpecialistNodeRunner behind its Unix socket, *)
(* PersistentSpecialistNodeRunner's state file, and the node's view of the *)
(* Runtime service it calls over another socket.                           *)
(*                                                                         *)
(* The socket thread serves one request at a time; the main thread sends   *)
(* heartbeats, each of which saves the state file.  The runner's lock is   *)
(* held over the calls to Runtime and released while the handler runs.     *)
(* A call to Runtime succeeds, fails before it has an effect, or loses its *)
(* reply in every attempt of the client after it has had its effect.       *)
(* Runtime itself, which DistributedWork models, is here what the node can *)
(* see of it: whether the node holds a lease of the work, and whether it   *)
(* has been accepted.                                                      *)
(***************************************************************************)
EXTENDS Naturals, FiniteSets

CONSTANTS
    Works,        \* work ids
    Fit,          \* works within the node's contract and its handler's
    MaxTasks,     \* max_concurrent_tasks
    NoWork

ASSUME WorksAssumption == Fit \subseteq Works /\ NoWork \notin Works
ASSUME TasksAssumption == MaxTasks \in Nat \ {0}

VARIABLES
    up,           \* the process runs
    active,       \* keys of _active
    result,       \* the active tasks whose handler left a result
    completed,    \* _completed
    draining,     \* _draining
    quarantined,  \* _quarantine_reason is set
    pc,           \* the socket thread: idle, running a handler, saving
    handling,     \* the work whose handler runs, or NoWork
    file,         \* active_work_ids in the state file
    lease,        \* what Runtime holds for this node: no lease, offered, accepted
    runs,         \* history: handler entries since the work was last accepted
    scar,         \* history: a boot found interrupted work; not cleared since
    unsaved,      \* history: active works whose save raised
    lost          \* history: active works Runtime took back, or closed unheard

memVars == <<active, result, completed, draining, quarantined, pc, handling>>
histVars == <<runs, scar, unsaved, lost>>
vars == <<up, memVars, file, lease, histVars>>

TypeOK ==
    /\ up \in BOOLEAN
    /\ active \in SUBSET Works /\ result \in SUBSET Works /\ completed \in SUBSET Works
    /\ draining \in BOOLEAN /\ quarantined \in BOOLEAN
    /\ pc \in {"idle", "running", "saving"}
    /\ handling \in Works \cup {NoWork}
    /\ file \in SUBSET Works
    /\ lease \in [Works -> {"none", "offered", "accepted"}]
    /\ runs \in [Works -> Nat]
    /\ scar \in BOOLEAN
    /\ unsaved \in SUBSET Works /\ lost \in SUBSET Works

Init ==
    /\ up = TRUE
    /\ active = {} /\ result = {} /\ completed = {}
    /\ draining = FALSE /\ quarantined = FALSE
    /\ pc = "idle" /\ handling = NoWork
    /\ file = {}
    /\ lease = [w \in Works |-> "none"]
    /\ runs = [w \in Works |-> 0]
    /\ scar = FALSE /\ unsaved = {} /\ lost = {}

-----------------------------------------------------------------------------
(* Runtime.                                                                *)

(* A placement on this node, for a work it holds no lease of.              *)
Place(w) ==
    /\ lease[w] = "none"
    /\ lease' = [lease EXCEPT ![w] = "offered"]
    /\ UNCHANGED <<up, memVars, file, histVars>>

(* The lease expires, is recovered for another node, or dies with Runtime. *)
TakeBack(w) ==
    /\ lease[w] # "none"
    /\ lease' = [lease EXCEPT ![w] = "none"]
    /\ lost' = lost \cup ({w} \cap active)
    /\ UNCHANGED <<up, memVars, file, runs, scar, unsaved>>

(* What a call to Runtime may come back with.  Only a call Runtime can     *)
(* grant has an effect.                                                    *)
Replies(granted) == IF granted THEN {"ok", "failed", "unheard"} ELSE {"failed"}
Applied(reply) == reply \in {"ok", "unheard"}

-----------------------------------------------------------------------------
(* The socket thread.                                                      *)

Idle == up /\ pc = "idle"

(* The task limit of _refusal_reason.                                      *)
Full == Cardinality(active) >= MaxTasks

(* _refusal_reason: expired offer, quarantine, drain, task limit, contract. *)
Refuses(w, expired) == expired \/ quarantined \/ draining \/ Full \/ w \notin Fit

(* A reply that never came is taken for a grant.                           *)
MutTakeOn(w, reply) ==
    /\ active' = active \cup {w}
    /\ runs' = [runs EXCEPT ![w] = 0]

(* The slot is taken once Runtime has confirmed the acceptance.            *)
TakeOn(w, reply) ==
    IF reply = "ok"
    THEN active' = active \cup {w} /\ runs' = [runs EXCEPT ![w] = 0]
    ELSE UNCHANGED <<active, runs>>

(* receive_offer: a known work is answered without a call to Runtime,      *)
(* another one is refused or accepted there.                               *)
ReceiveOffer(w, expired) ==
    /\ Idle
    /\ pc' = "saving"
    /\ \/ /\ w \in completed \cup active
          /\ UNCHANGED <<active, runs, lease>>
       \/ /\ w \notin completed \cup active /\ Refuses(w, expired)
          /\ \E reply \in Replies(lease[w] # "none") :
               lease' = IF Applied(reply) THEN [lease EXCEPT ![w] = "none"] ELSE lease
          /\ UNCHANGED <<active, runs>>
       \/ /\ w \notin completed \cup active /\ ~Refuses(w, expired)
          /\ \E reply \in Replies(lease[w] # "none") :
               /\ lease' = IF Applied(reply) THEN [lease EXCEPT ![w] = "accepted"] ELSE lease
               /\ TakeOn(w, reply)
    /\ UNCHANGED <<up, result, completed, draining, quarantined, handling, file, scar, unsaved, lost>>

(* run_accepted of a task without a result: the handler is entered and the *)
(* lock released.                                                          *)
RunAccepted(w) ==
    /\ Idle /\ w \in active \ result
    /\ pc' = "running" /\ handling' = w
    /\ runs' = [runs EXCEPT ![w] = @ + 1]
    /\ UNCHANGED <<up, active, result, completed, draining, quarantined, file, lease, scar, unsaved, lost>>

(* _retry_completion_locked: the task leaves its slot when Runtime confirms *)
(* the completion, and stays pending on every error.                       *)
ReportCompletion(w, pending) ==
    \E reply \in Replies(lease[w] = "accepted") :
        /\ lease' = IF Applied(reply) THEN [lease EXCEPT ![w] = "none"] ELSE lease
        /\ IF reply = "ok"
           THEN /\ active' = active \ {w}
                /\ result' = pending \ {w}
                /\ completed' = completed \cup {w}
                /\ unsaved' = unsaved \ {w} /\ lost' = lost \ {w}
           ELSE /\ result' = pending
                /\ lost' = IF Applied(reply) THEN lost \cup {w} ELSE lost
                /\ UNCHANGED <<active, completed, unsaved>>

MutKeepResult(w) == result

(* The outcome of the handler, also of one that raised, is stored.         *)
KeepResult(w) == result \cup {w}

(* The handler returns; its result is stored and reported.                 *)
FinishRun ==
    /\ up /\ pc = "running"
    /\ pc' = "saving" /\ handling' = NoWork
    /\ ReportCompletion(handling, KeepResult(handling))
    /\ UNCHANGED <<up, draining, quarantined, file, runs, scar>>

(* retry_completion, and run_accepted of a task that has its result.       *)
RetryCompletion(w) ==
    /\ Idle /\ w \in result
    /\ pc' = "saving"
    /\ ReportCompletion(w, result)
    /\ UNCHANGED <<up, draining, quarantined, handling, file, runs, scar>>

(* The file is not written.                                                *)
MutSave == file' = file /\ unsaved' = unsaved

(* The slot of the running handler is written also when there is none.     *)
MutSaveHandling == file' = active \cup {handling} /\ unsaved' = {}

(* _persist writes the active works, or raises and leaves the file.        *)
Save ==
    \/ file' = active /\ unsaved' = {}
    \/ file' = file /\ unsaved' = unsaved \cup (active \ file)

(* The request ends with its _persist, then the reply.                     *)
EndRequest ==
    /\ up /\ pc = "saving"
    /\ pc' = "idle"
    /\ Save
    /\ UNCHANGED <<up, active, result, completed, draining, quarantined, handling, lease, runs, scar, lost>>

-----------------------------------------------------------------------------
(* The main thread and the operator.                                       *)

(* A heartbeat ends with its own _persist.                                 *)
Heartbeat ==
    /\ up /\ Save
    /\ UNCHANGED <<up, memVars, lease, runs, scar, lost>>

(* drain() at shutdown, quarantine() and clear_quarantine() by maintenance. *)
Drain ==
    /\ up /\ draining' = TRUE /\ Save
    /\ UNCHANGED <<up, active, result, completed, quarantined, pc, handling, lease, runs, scar, lost>>

Resume ==
    /\ up /\ ~quarantined /\ draining' = FALSE /\ Save
    /\ UNCHANGED <<up, active, result, completed, quarantined, pc, handling, lease, runs, scar, lost>>

Quarantine ==
    /\ up /\ quarantined' = TRUE /\ Save
    /\ UNCHANGED <<up, active, result, completed, draining, pc, handling, lease, runs, scar, lost>>

ClearQuarantine ==
    /\ up /\ quarantined' = FALSE /\ draining' = FALSE /\ scar' = FALSE /\ Save
    /\ UNCHANGED <<up, active, result, completed, pc, handling, lease, runs, lost>>

(* The process dies, or stops after mark_shutdown wrote its last state.    *)
Stop ==
    /\ up /\ up' = FALSE
    /\ file' \in {file, active}
    /\ active' = {} /\ result' = {} /\ completed' = {}
    /\ draining' = FALSE /\ quarantined' = FALSE
    /\ pc' = "idle" /\ handling' = NoWork
    /\ runs' = [w \in Works |-> 0]
    /\ unsaved' = {} /\ lost' = {}
    /\ UNCHANGED <<lease, scar>>

(* The constructor: the works of the prior state are interrupted, the file *)
(* starts anew without them, and the runner is quarantined if there were   *)
(* any.                                                                    *)
Boot ==
    /\ ~up /\ up' = TRUE
    /\ quarantined' = (file # {})
    /\ scar' = (scar \/ file # {})
    /\ file' = {}
    /\ UNCHANGED <<active, result, completed, draining, pc, handling, lease, runs, unsaved, lost>>

Next ==
    \/ \E w \in Works : Place(w) \/ TakeBack(w) \/ RunAccepted(w) \/ RetryCompletion(w)
    \/ \E w \in Works, expired \in BOOLEAN : ReceiveOffer(w, expired)
    \/ FinishRun \/ EndRequest \/ Heartbeat
    \/ Drain \/ Resume \/ Quarantine \/ ClearQuarantine
    \/ Stop \/ Boot

Spec == Init /\ [][Next]_vars

-----------------------------------------------------------------------------
(* Properties.                                                             *)

(* The task limit holds although Runtime offers work from its own count.   *)
SlotsBounded == Cardinality(active) <= MaxTasks

(* run_accepted: a handler is entered at most once for an acceptance,      *)
(* through duplicate offers, repeated run requests and completion retries. *)
HandlerOnce == \A w \in Works : runs[w] <= 1

(* Restart detection: a work whose handler was entered is in the state     *)
(* file, so that a boot after a crash finds it and quarantines the node -  *)
(* unless the save of its acceptance raised.                               *)
RunRecorded == \A w \in active : runs[w] > 0 => w \in file \cup unsaved

(* Node and Runtime agree: Runtime has the work accepted by this node as   *)
(* long as the node has it in a slot, unless Runtime took the lease back   *)
(* or closed it in a call whose reply was lost.                            *)
ActiveAgrees == \A w \in active : lease[w] = "accepted" \/ w \in lost

(* Why HandlerOnce and RunRecorded hold, as an inductive invariant: the    *)
(* socket thread runs a task without a result, a task waiting for its run  *)
(* has not run, between requests every task is saved or known not to be,   *)
(* and a process that is down has no task.                                 *)
RunInv ==
    /\ result \subseteq active
    /\ ~up => active = {}
    /\ pc = "running" => handling \in active \ result
    /\ \A w \in active \ result : runs[w] = (IF pc = "running" /\ handling = w THEN 1 ELSE 0)
    /\ \A w \in Works : runs[w] \in {0, 1}
    /\ pc # "saving" => active \subseteq file \cup unsaved
    /\ RunRecorded

(* docs/distributed_work_daemons.md: a node that started with interrupted  *)
(* work does not "accept new work until the quarantine is explicitly       *)
(* cleared by a later trusted local maintenance path".                     *)
ScarKept == scar => active = {}

=============================================================================
