------------------------ MODULE CoordinatedExecution ------------------------
(***************************************************************************)
(* The secure request spine: RuntimePipeline.submit, which asks Court for  *)
(* a capability token and hands it to execute_coordinated, which takes the *)
(* executor's exclusive resources, runs execute_authorized inside a        *)
(* try/finally lane and releases them.                                     *)
(*                                                                         *)
(* A call is one thread inside submit().  Threads of one process share the *)
(* in-memory ResourceCoordinator; all processes share the replay ledger    *)
(* file, guarded by flock for writers and by nothing for readers of        *)
(* another process.  A process may crash and restart: its calls and its    *)
(* coordinator die, the ledger stays.  Every receipt sink call may fail.   *)
(***************************************************************************)
EXTENDS Naturals

CONSTANTS
    Calls,         \* submit() invocations
    Procs,         \* Runtime processes on this host
    ProcOf,        \* [Calls -> Procs]
    Intents,       \* intent identities
    Request,       \* [Intents -> capability, target, executor, params, court]
    Executors,     \* names registered in the ExecutorRegistry
    Spec_,         \* [Executors -> capability, targets, resources]
    Gates,         \* safety gates: records of capability and targets
    AnyTarget,     \* the "*" of an executor's or a gate's target tuple
    Resources, NoOwner, NoToken, NoCall,
    Ttl,           \* token_ttl_seconds
    MaxNow         \* bound on the wall clock, in seconds

Now == 0..MaxNow

(* token_id is a hash over the intent's fields and issued_at in whole      *)
(* seconds: an intent submitted twice in a second gets the same token_id.  *)
Tokens == Intents \X Now

INSTANCE ResourceCoordinator WITH Owners <- Tokens

(* The decision states of authorize_intent: they are Court's own, no state *)
(* of an execution result is among them.                                   *)
CourtStates == {"authorized", "invalid_intent", "authority_unknown", "authority_conflict",
                "invalid_capability_context", "context_mismatch", "capability_not_proposed",
                "policy_denied", "target_denied"}

ASSUME CallsAssumption == ProcOf \in [Calls -> Procs] /\ NoCall \notin Calls
ASSUME RequestAssumption ==
    \A i \in Intents :
        /\ {"capability", "target", "executor", "params", "court"} \subseteq DOMAIN Request[i]
        /\ Request[i].court \in CourtStates
ASSUME SpecAssumption == \A e \in Executors : Spec_[e].resources \in SUBSET Resources
ASSUME NoneAssumption == NoOwner \notin Tokens /\ NoToken \notin Tokens
ASSUME TimeAssumption == MaxNow \in Nat /\ Ttl \in 1..300

VARIABLES
    now,       \* time.time(), whole seconds
    up,        \* [Procs -> BOOLEAN]: the process runs
    tables,    \* [Procs -> Tables]: the ResourceCoordinator of each process
    ledger,    \* token ids whose record is in the replay ledger file
    appender,  \* the call that holds the flock and is appending, or NoCall
    file,      \* how the ledger file ends, or that a line of it does not parse
    pc,        \* where each call is
    tok,       \* the token Court issued to the call
    leased,    \* the call is inside the try/finally lane
    state,     \* ExecutionResult.state of the call, or why it ended
    executed,  \* ExecutionResult.executed
    handler,   \* what the handler did in this call
    receipts,  \* [Calls -> event types persisted by the call]
    runs       \* [Tokens -> handler invocations], across processes

callVars == <<pc, tok, leased, state, executed, handler, receipts>>
fileVars == <<ledger, appender, file>>
vars == <<now, up, tables, fileVars, callVars, runs>>

Labels == {"idle", "preflight", "acquire", "acquired", "rollback", "authorize", "gate",
           "start", "consume", "appending", "written", "consumed", "running", "release", "done", "dead"}

Events == {"COURT_AUTHORIZED", "COURT_DENIED", "RESOURCE_ACQUIRED", "RESOURCE_DENIED",
           "RESOURCE_RELEASED", "RESOURCE_RELEASE_FAILED", "EXECUTION_STARTED",
           "EXECUTION_COMPLETED", "EXECUTION_FAILED", "EXECUTION_DENIED"}

FileStates == {"clean", "unterminated", "torn"}

DenialStates == {"none", "token_replay", "invalid_token", "executor_not_registered",
                 "executor_capability_mismatch", "executor_target_mismatch",
                 "execution_contract_denied"}

ResourceStates == {"no_resources_required", "already_acquired", "owner_lease_mismatch",
                   "resource_conflict", "acquired", "resource_receipt_unpersisted",
                   "resource_release_failed", "resource_release_unreceipted"}

States == DenialStates \cup ResourceStates \cup CourtStates \cup
          {"authorization_unreceipted", "raised", "safety_denied", "start_receipt_unpersisted",
           "replay_ledger_failed", "executor_failed", "contract_completion_mismatch",
           "completed", "completed_unreceipted"}

HandlerResults == {"none", "running", "ok", "mismatch", "raised"}

TypeOK ==
    /\ now \in Now
    /\ up \in [Procs -> BOOLEAN]
    /\ tables \in [Procs -> Tables]
    /\ ledger \in SUBSET Tokens
    /\ appender \in Calls \cup {NoCall}
    /\ file \in FileStates
    /\ pc \in [Calls -> Labels]
    /\ tok \in [Calls -> Tokens \cup {NoToken}]
    /\ leased \in [Calls -> BOOLEAN]
    /\ state \in [Calls -> States]
    /\ executed \in [Calls -> BOOLEAN]
    /\ handler \in [Calls -> HandlerResults]
    /\ receipts \in [Calls -> SUBSET Events]
    /\ runs \in [Tokens -> Nat]

Init ==
    /\ now = 0
    /\ up = [p \in Procs |-> TRUE]
    /\ tables = [p \in Procs |-> EmptyTable]
    /\ ledger = {} /\ appender = NoCall /\ file = "clean"
    /\ pc = [c \in Calls |-> "idle"]
    /\ tok = [c \in Calls |-> NoToken]
    /\ leased = [c \in Calls |-> FALSE]
    /\ state = [c \in Calls |-> "none"]
    /\ executed = [c \in Calls |-> FALSE]
    /\ handler = [c \in Calls |-> "none"]
    /\ receipts = [c \in Calls |-> {}]
    /\ runs = [t \in Tokens |-> 0]

-----------------------------------------------------------------------------
(* Reading the call's inputs.                                              *)

Intent(c) == Request[tok[c][1]]
Executor(c) == Intent(c).executor

MutIssueToken(i) == <<i, now + 1>>

(* issue_token with the current second.                                    *)
IssueToken(i) == <<i, now>>

(* verify_token without a pinned clock: issued_at <= now <= expires_at.    *)
(* The signature part holds: every token here was signed with the key.     *)
VerifyToken(t) == t[2] <= now /\ now <= t[2] + Ttl

(* The ledger, as read now, names the token.                               *)
Consumed(c) == tok[c] \in ledger

(* The executor must be registered and bound to the token's capability and *)
(* target, and the parameters must satisfy its contract.                   *)
BindingDenial(r) ==
    IF r.executor \notin Executors THEN "executor_not_registered"
    ELSE IF Spec_[r.executor].capability # r.capability THEN "executor_capability_mismatch"
    ELSE IF {AnyTarget, r.target} \cap Spec_[r.executor].targets = {}
         THEN "executor_target_mismatch"
    ELSE IF r.params # "valid" THEN "execution_contract_denied"
    ELSE "none"

(* Why _preflight, and execute_authorized after it, turn the call away:    *)
(* the replay check, the token check, then the executor's binding.         *)
Denial(c) ==
    IF Consumed(c) THEN "token_replay"
    ELSE IF ~VerifyToken(tok[c]) THEN "invalid_token"
    ELSE BindingDenial(Intent(c))

(* SafetyGateRegistry.evaluate: exactly one gate must match; that gate's   *)
(* own check may approve, deny or raise, and raising counts as a denial.   *)
MatchingGates(r) ==
    {g \in Gates : g.capability = r.capability /\ {AnyTarget, r.target} \cap g.targets # {}}

GateVerdicts(c) ==
    IF \E g \in Gates : MatchingGates(Intent(c)) = {g} THEN BOOLEAN ELSE {FALSE}

(* TokenReplayLedger.__contains__ holds the process's own thread lock, so  *)
(* it waits for an append of its own process.  It takes no flock: while    *)
(* another process appends it may read the record in part and raise.  On a *)
(* torn file it always raises.                                             *)
Readable(c) == \A d \in Calls : appender = d => ProcOf[d] # ProcOf[c]
ReadMayRaise == file = "torn" \/ \E d \in Calls : appender = d /\ pc[d] = "appending"
ReadMaySucceed == file # "torn"

-----------------------------------------------------------------------------
(* Steps shared by the actions.                                            *)

Goto(c, l) == pc' = [pc EXCEPT ![c] = l]

(* A receipt sink call whose result the code does not branch on.           *)
TryReceipt(c, e) ==
    \/ receipts' = [receipts EXCEPT ![c] = @ \cup {e}]
    \/ UNCHANGED receipts

MutAfterExecution(c) == "done"

(* execute_authorized returns to the finally lane when there is one.       *)
AfterExecution(c) == IF leased[c] THEN "release" ELSE "done"

Return(c, s, e) ==
    /\ state' = [state EXCEPT ![c] = s]
    /\ TryReceipt(c, e)
    /\ Goto(c, AfterExecution(c))

Live(c) == up[ProcOf[c]]

-----------------------------------------------------------------------------
(* Court.  authorize_intent decides on the request (its decision state is  *)
(* Request[i].court), and an authorization counts only once receipted.     *)
Submit(c, i) ==
    /\ Live(c) /\ pc[c] = "idle"
    /\ \/ /\ Request[i].court # "authorized"
          /\ state' = [state EXCEPT ![c] = Request[i].court]
          /\ TryReceipt(c, "COURT_DENIED")
          /\ Goto(c, "done")
          /\ UNCHANGED tok
       \/ /\ Request[i].court = "authorized"
          /\ state' = [state EXCEPT ![c] = "authorization_unreceipted"]
          /\ Goto(c, "done")
          /\ UNCHANGED <<tok, receipts>>
       \/ /\ Request[i].court = "authorized"
          /\ receipts' = [receipts EXCEPT ![c] = {"COURT_AUTHORIZED"}]
          /\ tok' = [tok EXCEPT ![c] = IssueToken(i)]
          /\ Goto(c, "preflight")
          /\ UNCHANGED state
    /\ UNCHANGED <<now, up, tables, fileVars, leased, executed, handler, runs>>

(* _preflight.  A denied call goes straight to execute_authorized, without *)
(* a lease; so does one with no resources.  What preflight said stays in   *)
(* the call's state until execute_authorized gives its own result.         *)
Preflight(c) ==
    /\ Live(c) /\ pc[c] = "preflight" /\ Readable(c)
    /\ \/ /\ ReadMayRaise
          /\ state' = [state EXCEPT ![c] = "raised"]
          /\ Goto(c, "done")
       \/ /\ ReadMaySucceed
          /\ IF Denial(c) = "none" /\ Spec_[Executor(c)].resources # {}
             THEN Goto(c, "acquire") ELSE Goto(c, "authorize")
          /\ state' = [state EXCEPT ![c] = Denial(c)]
    /\ UNCHANGED <<now, up, tables, fileVars, tok, leased, executed, handler, receipts, runs>>

(* resource_coordinator.acquire, and RESOURCE_DENIED when it refuses.      *)
AcquireResources(c) ==
    LET tb == tables[ProcOf[c]]
        R  == Spec_[Executor(c)].resources
        s  == AcquireState(tb, tok[c], R)
    IN  /\ Live(c) /\ pc[c] = "acquire"
        /\ tables' = [tables EXCEPT ![ProcOf[c]] = Acquire(tb, tok[c], R)]
        /\ IF Granted(s)
           THEN Goto(c, "acquired") /\ UNCHANGED <<state, receipts>>
           ELSE /\ state' = [state EXCEPT ![c] = s]
                /\ TryReceipt(c, "RESOURCE_DENIED")
                /\ Goto(c, "done")
        /\ UNCHANGED <<now, up, fileVars, tok, leased, executed, handler, runs>>

(* RESOURCE_ACQUIRED must persist before the call enters the finally lane. *)
ReceiptAcquired(c) ==
    /\ Live(c) /\ pc[c] = "acquired"
    /\ \/ /\ receipts' = [receipts EXCEPT ![c] = @ \cup {"RESOURCE_ACQUIRED"}]
          /\ leased' = [leased EXCEPT ![c] = TRUE]
          /\ Goto(c, "authorize")
       \/ Goto(c, "rollback") /\ UNCHANGED <<receipts, leased>>
    /\ UNCHANGED <<now, up, tables, fileVars, tok, state, executed, handler, runs>>

(* The lease is given back when its receipt could not be persisted.        *)
Rollback(c) ==
    /\ Live(c) /\ pc[c] = "rollback"
    /\ tables' = [tables EXCEPT ![ProcOf[c]] = Release(@, tok[c])]
    /\ state' = [state EXCEPT ![c] = "resource_receipt_unpersisted"]
    /\ Goto(c, "done")
    /\ UNCHANGED <<now, up, fileVars, tok, leased, executed, handler, receipts, runs>>

(* The checks of execute_authorized up to the safety gate.                 *)
Authorize(c) ==
    /\ Live(c) /\ pc[c] = "authorize" /\ Readable(c)
    /\ \/ /\ ReadMayRaise
          /\ state' = [state EXCEPT ![c] = "raised"]
          /\ Goto(c, AfterExecution(c))
          /\ UNCHANGED receipts
       \/ /\ ReadMaySucceed /\ Denial(c) # "none"
          /\ Return(c, Denial(c), "EXECUTION_DENIED")
       \/ /\ ReadMaySucceed /\ Denial(c) = "none"
          /\ Goto(c, "gate") /\ UNCHANGED <<state, receipts>>
    /\ UNCHANGED <<now, up, tables, fileVars, tok, leased, executed, handler, runs>>

(* safety_check: the verdict True lets the call on, all else denies it.    *)
SafetyGate(c) ==
    /\ Live(c) /\ pc[c] = "gate"
    /\ \E safe \in GateVerdicts(c) :
         IF safe THEN Goto(c, "start") /\ UNCHANGED <<state, receipts>>
                 ELSE Return(c, "safety_denied", "EXECUTION_DENIED")
    /\ UNCHANGED <<now, up, tables, fileVars, tok, leased, executed, handler, runs>>

(* Execution goes on although its start could not be receipted.            *)
MutReceiptStarted(c) ==
    /\ Live(c) /\ pc[c] = "start"
    /\ TryReceipt(c, "EXECUTION_STARTED") /\ Goto(c, "consume")
    /\ UNCHANGED <<now, up, tables, fileVars, tok, leased, state, executed, handler, runs>>

(* EXECUTION_STARTED must persist before the token is consumed.            *)
ReceiptStarted(c) ==
    /\ Live(c) /\ pc[c] = "start"
    /\ \/ /\ receipts' = [receipts EXCEPT ![c] = @ \cup {"EXECUTION_STARTED"}]
          /\ Goto(c, "consume") /\ UNCHANGED state
       \/ /\ state' = [state EXCEPT ![c] = "start_receipt_unpersisted"]
          /\ Goto(c, AfterExecution(c)) /\ UNCHANGED receipts
    /\ UNCHANGED <<now, up, tables, fileVars, tok, leased, executed, handler, runs>>

MutSeenConsumed(c) == FALSE

(* consume() looks the token up in what it read under the flock.           *)
SeenConsumed(c) == Consumed(c)

(* consume() up to the append: under the flock the whole file is read      *)
(* again, so a token another call consumed meanwhile is seen here.         *)
BeginConsume(c) ==
    /\ Live(c) /\ pc[c] = "consume" /\ appender = NoCall
    /\ \/ /\ file = "torn"
          /\ Return(c, "replay_ledger_failed", "EXECUTION_DENIED")
          /\ UNCHANGED appender
       \/ /\ file # "torn" /\ SeenConsumed(c)
          /\ Return(c, "token_replay", "EXECUTION_DENIED")
          /\ UNCHANGED appender
       \/ /\ file # "torn" /\ ~SeenConsumed(c)
          /\ appender' = c
          /\ Goto(c, "appending") /\ UNCHANGED <<state, receipts>>
    /\ UNCHANGED <<now, up, tables, ledger, file, tok, leased, executed, handler, runs>>

(* A record appended in whole.  After a record that lost its newline it    *)
(* lands on the same line, which no longer parses.                         *)
WholeAppend(c) ==
    /\ ledger' = ledger \cup {tok[c]}
    /\ file' = IF file = "clean" THEN "clean" ELSE "torn"

(* What a write that failed or was cut off leaves in the file: nothing, a  *)
(* part of the record, or the record without its newline.                  *)
BrokenAppend(c) ==
    \/ UNCHANGED <<ledger, file>>
    \/ file' = "torn" /\ UNCHANGED ledger
    \/ file = "clean" /\ file' = "unterminated" /\ ledger' = ledger \cup {tok[c]}

MutUnlock == UNCHANGED appender

(* LOCK_UN in the finally of consume().                                    *)
Unlock == appender' = NoCall

(* The write is not waited for: consume() answers before the record is in. *)
MutWriteRecord(c) ==
    /\ Live(c) /\ pc[c] = "appending"
    /\ BrokenAppend(c) /\ Goto(c, "written")
    /\ UNCHANGED <<now, up, tables, appender, tok, leased, state, executed, handler, receipts, runs>>

(* write and flush of the record, or the failure of one.                   *)
WriteRecord(c) ==
    /\ Live(c) /\ pc[c] = "appending"
    /\ \/ /\ WholeAppend(c)
          /\ Goto(c, "written") /\ UNCHANGED <<appender, state, receipts>>
       \/ /\ BrokenAppend(c) /\ Unlock
          /\ Return(c, "replay_ledger_failed", "EXECUTION_DENIED")
    /\ UNCHANGED <<now, up, tables, tok, leased, executed, handler, runs>>

(* fsync, and the unlock on the way out.  When fsync raises the record is  *)
(* in the file and the token is spent without an execution.                *)
FinishConsume(c) ==
    /\ Live(c) /\ pc[c] = "written"
    /\ Unlock
    /\ \/ Goto(c, "consumed") /\ UNCHANGED <<state, receipts>>
       \/ Return(c, "replay_ledger_failed", "EXECUTION_DENIED")
    /\ UNCHANGED <<now, up, tables, ledger, file, tok, leased, executed, handler, runs>>

(* spec.handler is entered.                                                *)
StartHandler(c) ==
    /\ Live(c) /\ pc[c] = "consumed"
    /\ runs' = [runs EXCEPT ![tok[c]] = @ + 1]
    /\ handler' = [handler EXCEPT ![c] = "running"]
    /\ Goto(c, "running")
    /\ UNCHANGED <<now, up, tables, fileVars, tok, leased, state, executed, receipts>>

(* A completed action that loses its final receipt is reported undone.     *)
MutCompleteHandler(c) ==
    /\ handler' = [handler EXCEPT ![c] = "ok"]
    /\ \/ /\ receipts' = [receipts EXCEPT ![c] = @ \cup {"EXECUTION_COMPLETED"}]
          /\ state' = [state EXCEPT ![c] = "completed"]
          /\ executed' = [executed EXCEPT ![c] = TRUE]
       \/ /\ state' = [state EXCEPT ![c] = "completed_unreceipted"]
          /\ UNCHANGED <<receipts, executed>>
    /\ Goto(c, AfterExecution(c))

(* A completed action stays executed even when its final receipt cannot be *)
(* persisted.                                                              *)
CompleteHandler(c) ==
    /\ handler' = [handler EXCEPT ![c] = "ok"]
    /\ executed' = [executed EXCEPT ![c] = TRUE]
    /\ \/ /\ receipts' = [receipts EXCEPT ![c] = @ \cup {"EXECUTION_COMPLETED"}]
          /\ state' = [state EXCEPT ![c] = "completed"]
       \/ /\ state' = [state EXCEPT ![c] = "completed_unreceipted"]
          /\ UNCHANGED receipts
    /\ Goto(c, AfterExecution(c))

(* The handler raises, reports another completion state than the contract  *)
(* requires, or completes.                                                 *)
FinishHandler(c) ==
    /\ Live(c) /\ pc[c] = "running"
    /\ \/ /\ handler' = [handler EXCEPT ![c] = "raised"]
          /\ Return(c, "executor_failed", "EXECUTION_FAILED") /\ UNCHANGED executed
       \/ /\ handler' = [handler EXCEPT ![c] = "mismatch"]
          /\ Return(c, "contract_completion_mismatch", "EXECUTION_FAILED") /\ UNCHANGED executed
       \/ CompleteHandler(c)
    /\ UNCHANGED <<now, up, tables, fileVars, tok, leased, runs>>

(* The finally lane: release, receipt it, and mark the result degraded     *)
(* when either failed.  A call that raised has no result to mark.          *)
ReleaseResources(c) ==
    LET tb == tables[ProcOf[c]]
        released == Granted(ReleaseState(tb, tok[c]))
        event == IF released THEN "RESOURCE_RELEASED" ELSE "RESOURCE_RELEASE_FAILED"
        degraded == IF released THEN "resource_release_unreceipted" ELSE "resource_release_failed"
        Mark(s) == IF state[c] = "raised" THEN UNCHANGED state
                                          ELSE state' = [state EXCEPT ![c] = s]
    IN  /\ Live(c) /\ pc[c] = "release"
        /\ tables' = [tables EXCEPT ![ProcOf[c]] = Release(tb, tok[c])]
        /\ leased' = [leased EXCEPT ![c] = FALSE]
        /\ Goto(c, "done")
        /\ \/ /\ receipts' = [receipts EXCEPT ![c] = @ \cup {event}]
              /\ IF released THEN UNCHANGED state ELSE Mark(degraded)
           \/ UNCHANGED receipts /\ Mark(degraded)
        /\ UNCHANGED <<now, up, fileVars, tok, executed, handler, runs>>

-----------------------------------------------------------------------------
(* The environment.                                                        *)

(* time.time() goes on, or the clock of the machine is set: to any second. *)
Tick == /\ now' \in Now \ {now}
        /\ UNCHANGED <<up, tables, fileVars, callVars, runs>>

(* A process dies: its threads and its coordinator are gone, the flock is  *)
(* dropped by the kernel, and an append in flight is left as it is.        *)
Crash(p) ==
    LET mine == {c \in Calls : ProcOf[c] = p}
    IN  /\ up[p]
        /\ up' = [up EXCEPT ![p] = FALSE]
        /\ tables' = [tables EXCEPT ![p] = EmptyTable]
        /\ pc' = [c \in Calls |-> IF c \in mine /\ pc[c] \notin {"idle", "done"}
                                  THEN "dead" ELSE pc[c]]
        /\ leased' = [c \in Calls |-> IF c \in mine THEN FALSE ELSE leased[c]]
        /\ IF appender \in mine
           THEN /\ Unlock
                /\ IF pc[appender] = "written" THEN UNCHANGED <<ledger, file>>
                                               ELSE BrokenAppend(appender)
           ELSE UNCHANGED fileVars
        /\ UNCHANGED <<now, tok, state, executed, handler, receipts, runs>>

MutBootLoads == TRUE

(* TokenReplayLedger.__init__ loads the file, or keeps Runtime from booting. *)
BootLoads == file # "torn"

Restart(p) ==
    /\ ~up[p] /\ BootLoads
    /\ up' = [up EXCEPT ![p] = TRUE]
    /\ UNCHANGED <<now, tables, fileVars, callVars, runs>>

CallStep(c) ==
    \/ Preflight(c) \/ AcquireResources(c) \/ ReceiptAcquired(c) \/ Rollback(c)
    \/ Authorize(c) \/ SafetyGate(c) \/ ReceiptStarted(c) \/ BeginConsume(c)
    \/ WriteRecord(c) \/ FinishConsume(c) \/ StartHandler(c) \/ FinishHandler(c) \/ ReleaseResources(c)

Next ==
    \/ \E c \in Calls, i \in Intents : Submit(c, i)
    \/ \E c \in Calls : CallStep(c)
    \/ \E p \in Procs : Crash(p) \/ Restart(p)
    \/ Tick

Spec == Init /\ [][Next]_vars

(* A thread inside submit() keeps running while its process is up, and the *)
(* handler it entered returns.  Nothing obliges a client to submit, the    *)
(* clock to reach its bound or a process to crash.                         *)
FairSpec == Spec /\ \A c \in Calls : WF_vars(CallStep(c))

-----------------------------------------------------------------------------
(* Properties.                                                             *)

(* Replay protection: over all threads, processes, crashes and restarts    *)
(* the handler is entered at most once for a capability token.             *)
AtMostOnce == \A t \in Tokens : runs[t] <= 1

(* Preflight refused the token for its time.                               *)
OutOfTime(c) == state[c] = "invalid_token"

(* The execution law: a running handler has a Court receipt, a persisted   *)
(* EXECUTION_STARTED, a consumed token, a matching binding and exactly one *)
(* safety gate - although the checks ran steps earlier and the clock, the  *)
(* ledger and the lease table moved on since.  If its executor claims      *)
(* resources it has a receipted lease, with one exception: preflight found *)
(* the token outside its time and the clock was set before the second look.*)
HandlerGuarded ==
    \A c \in Calls : pc[c] = "running" =>
        /\ tok[c] \in ledger
        /\ {"COURT_AUTHORIZED", "EXECUTION_STARTED"} \subseteq receipts[c]
        /\ BindingDenial(Intent(c)) = "none"
        /\ \E g \in Gates : MatchingGates(Intent(c)) = {g}
        /\ Spec_[Executor(c)].resources # {} =>
              "RESOURCE_ACQUIRED" \in receipts[c] \/ OutOfTime(c)


(* Why replay protection holds, as an inductive invariant.  A call past    *)
(* Court has a token; one past preflight towards a lease has a registered  *)
(* executor.  The writer of the ledger is the one call inside an append,   *)
(* its token is not in the file before its record is and is afterwards,    *)
(* and the calls between record and handler hold different, unused tokens. *)
HasToken(c) == pc[c] \notin {"idle", "done", "dead"}
Fresh(c) == pc[c] \in {"written", "consumed"}

TokenInv ==
    /\ \A c \in Calls :
         /\ HasToken(c) => tok[c] \in Tokens
         /\ pc[c] = "acquire" => Executor(c) \in Executors
         /\ pc[c] \in {"appending", "written"} <=> appender = c
         /\ pc[c] = "appending" => tok[c] \notin ledger
         /\ pc[c] \in {"written", "consumed", "running"} => tok[c] \in ledger
         /\ Fresh(c) => runs[tok[c]] = 0
    /\ \A c, d \in Calls : c # d /\ Fresh(c) /\ Fresh(d) => tok[c] # tok[d]
    /\ \A t \in Tokens : runs[t] = 0 \/ (runs[t] = 1 /\ t \in ledger)

Overlap(c, d) ==
    /\ c # d /\ ProcOf[c] = ProcOf[d]
    /\ pc[c] = "running" /\ pc[d] = "running"
    /\ Spec_[Executor(c)].resources \cap Spec_[Executor(d)].resources # {}

(* docs/resource_coordination.md: the coordinator "prevents approved       *)
(* executions from using the same exclusive resource simultaneously".      *)
ExclusiveUse == \A c, d \in Calls : ~Overlap(c, d)

SharedToken(c) == \E d \in Calls \ {c} : tok[d] = tok[c]

(* Two handlers overlap on an exclusive resource of their process only if  *)
(* one of the two shares its token with another call, or came without a    *)
(* lease because preflight found its token outside its time.               *)
ExclusiveUnlessShared ==
    \A c, d \in Calls : Overlap(c, d) =>
        SharedToken(c) \/ SharedToken(d) \/ OutOfTime(c) \/ OutOfTime(d)

InLane(c) == pc[c] \in {"acquired", "rollback"} \/ (leased[c] /\ pc[c] # "done")

(* Guaranteed release: the two dictionaries of the coordinator agree, and  *)
(* no lease outlives the calls that took it, on any exit path.             *)
NoLeakedLease ==
    \A p \in Procs :
        /\ Consistent(tables[p])
        /\ \A t \in Tokens : tables[p].lease[t] # {} =>
              \E c \in Calls : ProcOf[c] = p /\ tok[c] = t /\ InLane(c)

(* README: a successful action is never rewritten as though it did not     *)
(* occur because a later receipt or release failed, and a call that never  *)
(* entered the handler never claims to have executed.                      *)
HonestOutcome ==
    \A c \in Calls : pc[c] = "done" =>
        /\ executed[c] <=> handler[c] = "ok"
        /\ state[c] \in {"completed", "completed_unreceipted"} => executed[c]
        /\ handler[c] # "none" => state[c] \notin {"token_replay", "replay_ledger_failed", "raised"}

(* Malformed replay history fails closed: once a line of the file does not *)
(* parse, no further token is consumed and no process boots.               *)
TornFailsClosed ==
    [][file = "torn" => ledger' = ledger /\ \A p \in Procs : up'[p] => up[p]]_vars

(* The spine implements the abstract promise about tokens.                 *)
Promise == INSTANCE CapabilityUse WITH spent <- ledger, runs <- runs
PromiseSpec == Promise!Spec

(* Every submitted call ends (or dies with its process), although readers  *)
(* and writers of the ledger wait for each other.                          *)
CallsEnd == \A c \in Calls : pc[c] = "preflight" ~> pc[c] \in {"done", "dead"}

=============================================================================
