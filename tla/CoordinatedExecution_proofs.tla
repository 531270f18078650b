-------------------- MODULE CoordinatedExecution_proofs --------------------
(***************************************************************************)
(* Proofs about the request spine, for any number of calls, processes,     *)
(* intents, executors and gates and any clock bound.                       *)
(***************************************************************************)
EXTENDS CoordinatedExecution, TLAPS

-----------------------------------------------------------------------------
(* The ownership table.                                                    *)

(* An empty table is a table.                                              *)
LEMMA EmptyTableType == EmptyTable \in Tables
BY DEF EmptyTable, Tables

(* acquire() of declared resources maps tables to tables.                  *)
LEMMA AcquireType ==
    ASSUME NEW tb \in Tables, NEW o \in Tokens, NEW R \in SUBSET Resources
    PROVE  Acquire(tb, o, R) \in Tables
<1>1. [owner |-> [r \in Resources |-> IF r \in R THEN o ELSE tb.owner[r]],
       lease |-> [tb.lease EXCEPT ![o] = R]] \in Tables
  BY DEF Tables
<1> QED BY <1>1 DEF Acquire

(* release() maps tables to tables.                                        *)
LEMMA ReleaseType ==
    ASSUME NEW tb \in Tables, NEW o \in Tokens
    PROVE  Release(tb, o) \in Tables
BY DEF Release, Tables

(* The decision states of acquire() are known.                             *)
LEMMA AcquireStateType ==
    ASSUME NEW tb, NEW o, NEW R PROVE AcquireState(tb, o, R) \in ResourceStates
BY DEF AcquireState, ResourceStates

(* The reasons of a denial are known.                                      *)
LEMMA DenialType == ASSUME NEW c \in Calls PROVE Denial(c) \in DenialStates
BY DEF DenialStates, Denial, BindingDenial

-----------------------------------------------------------------------------
(* Type correctness and the token invariant, by one induction.             *)

IInv == TypeOK /\ TokenInv

(* The initial state satisfies the invariant.                              *)
LEMMA InitInv == Init => IInv
<1> SUFFICES ASSUME Init PROVE IInv
  OBVIOUS
<1>1. TypeOK
  <2>1. 0 \in Now
    BY TimeAssumption DEF Now
  <2> QED BY <2>1, EmptyTableType
      DEF Init, TypeOK, Labels, Events, States, DenialStates, HandlerResults, FileStates
<1>2. TokenInv
  BY CallsAssumption DEF Init, TokenInv, HasToken, Fresh
<1> QED BY <1>1, <1>2 DEF IInv

(* Submit: a call that gets past Court holds a token of the current second. *)
LEMMA SubmitInv ==
    ASSUME IInv, NEW c \in Calls, NEW i \in Intents, Submit(c, i) PROVE IInv'
<1> USE DEF IInv
<1>1. IssueToken(i) \in Tokens
  BY DEF IssueToken, Tokens, TypeOK
<1>2. Request[i].court \in States
  BY RequestAssumption DEF States
<1>3. TypeOK'
  BY <1>1, <1>2 DEF TypeOK, Submit, fileVars, Goto, TryReceipt, Labels, Events, States
<1>4. TokenInv'
  BY <1>1 DEF TypeOK, TokenInv, Submit, fileVars, Goto, HasToken, Fresh, Executor, Intent, Labels
<1> QED BY <1>3, <1>4

(* A step of a call with a token that stays away from the ledger and from  *)
(* the handler preserves the token invariant.                              *)
LEMMA PlainStep ==
    ASSUME IInv, NEW c \in Calls, NEW l,
           HasToken(c), pc[c] \notin {"appending", "written"},
           l \notin {"idle", "acquire", "appending", "written", "consumed", "running", "dead"},
           Goto(c, l), UNCHANGED <<tok, ledger, appender, runs>>
    PROVE  TokenInv'
BY DEF IInv, TypeOK, TokenInv, Goto, HasToken, Fresh, Executor, Intent

(* Where execute_authorized returns to.                                    *)
LEMMA AfterType == ASSUME NEW c \in Calls PROVE AfterExecution(c) \in {"release", "done"}
BY DEF AfterExecution

(* A returned result is well typed.                                        *)
LEMMA ReturnType ==
    ASSUME TypeOK, NEW c \in Calls, NEW s \in States, NEW e \in Events, Return(c, s, e)
    PROVE  /\ pc' \in [Calls -> Labels]
           /\ state' \in [Calls -> States]
           /\ receipts' \in [Calls -> SUBSET Events]
<1>1. AfterExecution(c) \in Labels
  BY AfterType DEF Labels
<1> QED BY <1>1 DEF TypeOK, Return, TryReceipt, Goto

(* Preflight sends a call on to acquire only with a registered executor.   *)
LEMMA PreflightInv ==
    ASSUME IInv, NEW c \in Calls, Preflight(c) PROVE IInv'
<1> USE DEF IInv
<1>1. TypeOK'
  BY DenialType DEF TypeOK, Preflight, fileVars, Goto, Labels, States
<1>2. TokenInv'
  <2>1. CASE Goto(c, "acquire")
    <3>1. Executor(c) \in Executors
      BY <2>1 DEF TypeOK, Preflight, Goto, Denial, BindingDenial, Executor
    <3> QED BY <2>1, <3>1
        DEF TypeOK, TokenInv, Preflight, fileVars, Goto, HasToken, Fresh, Executor, Intent
  <2>2. CASE Goto(c, "done") \/ Goto(c, "authorize")
    BY <2>2, PlainStep DEF Preflight, fileVars, HasToken
  <2> QED BY <2>1, <2>2 DEF Preflight
<1> QED BY <1>1, <1>2

(* AcquireResources leaves a well typed table and state.                   *)
LEMMA AcquireInv ==
    ASSUME IInv, NEW c \in Calls, AcquireResources(c) PROVE IInv'
<1> USE DEF IInv
<1> DEFINE tb == tables[ProcOf[c]]
           R == Spec_[Executor(c)].resources
<1>1. tok[c] \in Tokens /\ R \in SUBSET Resources /\ tb \in Tables
  BY CallsAssumption, SpecAssumption DEF AcquireResources, TokenInv, HasToken, TypeOK
<1>2. Acquire(tb, tok[c], R) \in Tables
  BY <1>1, AcquireType
<1>3. AcquireState(tb, tok[c], R) \in States
  BY AcquireStateType DEF States
<1> HIDE DEF tb, R
<1>4. TypeOK'
  <2>1. tables' \in [Procs -> Tables]
    BY <1>2 DEF AcquireResources, TypeOK, tb, R
  <2>2. /\ state' \in [Calls -> States]
        /\ receipts' \in [Calls -> SUBSET Events]
        /\ pc' \in [Calls -> Labels]
    BY <1>3 DEF AcquireResources, TypeOK, tb, R, Goto, TryReceipt, Events, Labels
  <2> QED BY <2>1, <2>2 DEF AcquireResources, TypeOK, fileVars
<1>5. Goto(c, "acquired") \/ Goto(c, "done")
  BY DEF AcquireResources
<1>6. TokenInv'
  BY <1>5, PlainStep DEF AcquireResources, fileVars, HasToken
<1> QED BY <1>4, <1>6

(* The acquisition receipt is persisted, or the call turns to its rollback. *)
LEMMA ReceiptAcquiredInv ==
    ASSUME IInv, NEW c \in Calls, ReceiptAcquired(c) PROVE IInv'
<1> USE DEF IInv
<1>1. TypeOK'
  <2>0. "RESOURCE_ACQUIRED" \in Events
    BY DEF Events
  <2>1. receipts' \in [Calls -> SUBSET Events]
    <3>1. TryReceipt(c, "RESOURCE_ACQUIRED")
      BY DEF ReceiptAcquired, TryReceipt
    <3> QED BY <2>0, <3>1 DEF TypeOK, TryReceipt
  <2>3. leased' \in [Calls -> BOOLEAN]
    BY DEF TypeOK, ReceiptAcquired
  <2>2. pc' \in [Calls -> Labels]
    BY DEF TypeOK, ReceiptAcquired, Goto, Labels
  <2> QED BY <2>1, <2>2, <2>3 DEF TypeOK, ReceiptAcquired, fileVars
<1>2. Goto(c, "authorize") \/ Goto(c, "rollback")
  BY DEF ReceiptAcquired
<1>3. TokenInv'
  BY <1>2, PlainStep DEF ReceiptAcquired, fileVars, HasToken
<1> QED BY <1>1, <1>3

(* The rollback of an unreceipted lease.                                   *)
LEMMA RollbackInv ==
    ASSUME IInv, NEW c \in Calls, Rollback(c) PROVE IInv'
<1> USE DEF IInv
<1>1. Release(tables[ProcOf[c]], tok[c]) \in Tables
  BY ReleaseType, CallsAssumption DEF Rollback, TokenInv, HasToken, TypeOK
<1>2. TypeOK'
  BY <1>1 DEF TypeOK, Rollback, fileVars, Goto, Labels, States, ResourceStates
<1>3. TokenInv'
  BY PlainStep DEF Rollback, fileVars, HasToken
<1> QED BY <1>2, <1>3

(* The checks of execute_authorized before the token is consumed.          *)
LEMMA AuthorizeInv ==
    ASSUME IInv, NEW c \in Calls, Authorize(c) PROVE IInv'
<1> USE DEF IInv
<1>1. /\ pc' \in [Calls -> Labels]
      /\ state' \in [Calls -> States]
      /\ receipts' \in [Calls -> SUBSET Events]
  <2>1. "EXECUTION_DENIED" \in Events /\ Denial(c) \in States
    BY DenialType DEF Events, States
  <2>2. CASE Return(c, Denial(c), "EXECUTION_DENIED")
    BY <2>1, <2>2, ReturnType
  <2>3. CASE ~Return(c, Denial(c), "EXECUTION_DENIED")
    BY <2>3, AfterType DEF Authorize, TypeOK, Goto, Labels, States
  <2> QED BY <2>2, <2>3
<1>2. TypeOK'
  BY <1>1 DEF TypeOK, Authorize, fileVars
<1>3. Goto(c, AfterExecution(c)) \/ Goto(c, "gate")
  BY DEF Authorize, Return
<1>4. TokenInv'
  BY <1>3, AfterType, PlainStep DEF Authorize, fileVars, HasToken
<1> QED BY <1>2, <1>4

(* The safety gate's verdict.                                              *)
LEMMA SafetyGateInv ==
    ASSUME IInv, NEW c \in Calls, SafetyGate(c) PROVE IInv'
<1> USE DEF IInv
<1>1. /\ pc' \in [Calls -> Labels]
      /\ state' \in [Calls -> States]
      /\ receipts' \in [Calls -> SUBSET Events]
  <2>1. "EXECUTION_DENIED" \in Events /\ "safety_denied" \in States
    BY DEF Events, States
  <2>2. CASE Return(c, "safety_denied", "EXECUTION_DENIED")
    BY <2>1, <2>2, ReturnType
  <2>3. CASE ~Return(c, "safety_denied", "EXECUTION_DENIED")
    BY <2>3 DEF SafetyGate, TypeOK, Goto, Labels
  <2> QED BY <2>2, <2>3
<1>2. TypeOK'
  BY <1>1 DEF TypeOK, SafetyGate, fileVars
<1>3. Goto(c, AfterExecution(c)) \/ Goto(c, "start")
  BY DEF SafetyGate, Return
<1>4. TokenInv'
  BY <1>3, AfterType, PlainStep DEF SafetyGate, fileVars, HasToken
<1> QED BY <1>2, <1>4

(* EXECUTION_STARTED is persisted, or the call ends.                       *)
LEMMA ReceiptStartedInv ==
    ASSUME IInv, NEW c \in Calls, ReceiptStarted(c) PROVE IInv'
<1> USE DEF IInv
<1>1. TypeOK'
  BY AfterType DEF TypeOK, ReceiptStarted, fileVars, Goto, Labels, Events, States
<1>2. Goto(c, "consume") \/ Goto(c, AfterExecution(c))
  BY DEF ReceiptStarted
<1>3. TokenInv'
  BY <1>2, AfterType, PlainStep DEF ReceiptStarted, fileVars, HasToken
<1> QED BY <1>1, <1>3

(* Under the flock a call starts its append only for a token not in the    *)
(* file.                                                                   *)
LEMMA BeginConsumeInv ==
    ASSUME IInv, NEW c \in Calls, BeginConsume(c) PROVE IInv'
<1> USE DEF IInv
<1>1. {"replay_ledger_failed", "token_replay"} \subseteq States /\ "EXECUTION_DENIED" \in Events
  BY DEF States, DenialStates, Events
<1>2. CASE \E s \in {"replay_ledger_failed", "token_replay"} :
              Return(c, s, "EXECUTION_DENIED") /\ UNCHANGED appender
  <2>1. TypeOK'
    BY <1>1, <1>2, ReturnType DEF TypeOK, BeginConsume
  <2>2. TokenInv'
    BY <1>2, AfterType, PlainStep DEF BeginConsume, Return, HasToken
  <2> QED BY <2>1, <2>2
<1>3. CASE /\ ~SeenConsumed(c) /\ appender' = c
           /\ Goto(c, "appending") /\ UNCHANGED <<state, receipts>>
  <2>1. TypeOK'
    BY <1>3 DEF TypeOK, BeginConsume, Goto, Labels
  <2>2. TokenInv'
    BY <1>3, CallsAssumption
    DEF TypeOK, TokenInv, BeginConsume, Goto, HasToken, Fresh, Executor, Intent, SeenConsumed, Consumed
  <2> QED BY <2>1, <2>2
<1> QED BY <1>2, <1>3 DEF BeginConsume

(* The record of the one writer enters the file: its token was in no       *)
(* complete record before, so no handler ran for it.                       *)
LEMMA WriteRecordInv ==
    ASSUME IInv, NEW c \in Calls, WriteRecord(c) PROVE IInv'
<1> USE DEF IInv
<1>1. tok[c] \in Tokens /\ tok[c] \notin ledger /\ appender = c /\ runs[tok[c]] = 0
  BY DEF WriteRecord, TokenInv, HasToken
<1>2. \A d \in Calls : Fresh(d) => tok[d] # tok[c]
  BY <1>1 DEF TokenInv, Fresh
<1>3. CASE WholeAppend(c) /\ Goto(c, "written") /\ UNCHANGED <<appender, state, receipts>>
  <2>1. TypeOK'
    BY <1>1, <1>3 DEF TypeOK, WriteRecord, WholeAppend, Goto, Labels, FileStates
  <2>2. TokenInv'
    BY <1>1, <1>2, <1>3
    DEF TypeOK, TokenInv, WriteRecord, WholeAppend, Goto, HasToken, Fresh, Executor, Intent
  <2> QED BY <2>1, <2>2
<1>4. CASE BrokenAppend(c) /\ Unlock /\ Return(c, "replay_ledger_failed", "EXECUTION_DENIED")
  <2>1. "replay_ledger_failed" \in States /\ "EXECUTION_DENIED" \in Events
    BY DEF States, Events
  <2>2. ledger' \in SUBSET Tokens /\ file' \in FileStates
    BY <1>1, <1>4 DEF TypeOK, BrokenAppend, FileStates
  <2>3. TypeOK'
    BY <1>4, <2>1, <2>2, ReturnType DEF TypeOK, WriteRecord, Unlock
  <2>4. ledger' \in {ledger, ledger \cup {tok[c]}}
    BY <1>4 DEF BrokenAppend
  <2>5. TokenInv'
    BY <1>1, <1>4, <2>4, AfterType, CallsAssumption
    DEF TypeOK, TokenInv, WriteRecord, Unlock, Return, Goto, HasToken, Fresh, Executor, Intent
  <2> QED BY <2>3, <2>5
<1> QED BY <1>3, <1>4 DEF WriteRecord

(* The writer returns from consume().                                      *)
LEMMA FinishConsumeInv ==
    ASSUME IInv, NEW c \in Calls, FinishConsume(c) PROVE IInv'
<1> USE DEF IInv
<1>1. "replay_ledger_failed" \in States /\ "EXECUTION_DENIED" \in Events
  BY DEF States, Events
<1>2. TypeOK'
  <2>1. CASE Return(c, "replay_ledger_failed", "EXECUTION_DENIED")
    BY <1>1, <2>1, ReturnType DEF TypeOK, FinishConsume, Unlock
  <2>2. CASE Goto(c, "consumed") /\ UNCHANGED <<state, receipts>>
    BY <2>2 DEF TypeOK, FinishConsume, Unlock, Goto, Labels
  <2> QED BY <2>1, <2>2 DEF FinishConsume
<1>3. appender = c
  BY DEF FinishConsume, TokenInv
<1>4. Goto(c, "consumed") \/ Goto(c, AfterExecution(c))
  BY DEF FinishConsume, Return
<1>5. TokenInv'
  BY <1>3, <1>4, AfterType, CallsAssumption
  DEF TypeOK, TokenInv, FinishConsume, Unlock, Goto, HasToken, Fresh, Executor, Intent
<1> QED BY <1>2, <1>5

(* The handler is entered: its token was unused, and no other call between *)
(* record and handler has the same one.                                    *)
LEMMA StartHandlerInv ==
    ASSUME IInv, NEW c \in Calls, StartHandler(c) PROVE IInv'
<1> USE DEF IInv
<1>1. tok[c] \in Tokens /\ tok[c] \in ledger /\ runs[tok[c]] = 0
  BY DEF StartHandler, TokenInv, HasToken, Fresh
<1>2. TypeOK'
  BY <1>1 DEF TypeOK, StartHandler, fileVars, Goto, Labels, HandlerResults
<1>3. runs' = [runs EXCEPT ![tok[c]] = 1]
  BY <1>1 DEF StartHandler, TypeOK
<1>4. \A d \in Calls \ {c} : Fresh(d) => tok[d] # tok[c]
  BY DEF TokenInv, StartHandler, Fresh
<1>5. TokenInv'
  BY <1>1, <1>3, <1>4
  DEF TypeOK, TokenInv, StartHandler, fileVars, Goto, HasToken, Fresh, Executor, Intent
<1> QED BY <1>2, <1>5

(* The handler's outcome.                                                  *)
LEMMA FinishHandlerInv ==
    ASSUME IInv, NEW c \in Calls, FinishHandler(c) PROVE IInv'
<1> USE DEF IInv
<1>1. /\ {"executor_failed", "contract_completion_mismatch", "completed", "completed_unreceipted"} \subseteq States
      /\ {"EXECUTION_FAILED", "EXECUTION_COMPLETED"} \subseteq Events
      /\ {"raised", "mismatch", "ok"} \subseteq HandlerResults
  BY DEF States, Events, HandlerResults
<1>2. CASE CompleteHandler(c)
  <2>1. /\ handler' \in [Calls -> HandlerResults]
        /\ executed' \in [Calls -> BOOLEAN]
        /\ state' \in [Calls -> States]
        /\ receipts' \in [Calls -> SUBSET Events]
    BY <1>1, <1>2 DEF CompleteHandler, TypeOK
  <2>2. AfterExecution(c) \in Labels
    BY AfterType DEF Labels
  <2>3. TypeOK'
    BY <1>2, <2>1, <2>2 DEF TypeOK, FinishHandler, fileVars, CompleteHandler, Goto
  <2>4. TokenInv'
    BY <1>2, AfterType, PlainStep DEF FinishHandler, fileVars, CompleteHandler, HasToken
  <2> QED BY <2>3, <2>4
<1>3. CASE \E s \in {"executor_failed", "contract_completion_mismatch"}, h \in {"raised", "mismatch"} :
              /\ handler' = [handler EXCEPT ![c] = h]
              /\ Return(c, s, "EXECUTION_FAILED") /\ UNCHANGED executed
  <2>1. TypeOK'
    BY <1>1, <1>3, ReturnType DEF TypeOK, FinishHandler, fileVars
  <2>2. TokenInv'
    BY <1>3, AfterType, PlainStep DEF FinishHandler, fileVars, Return, HasToken
  <2> QED BY <2>1, <2>2
<1> QED BY <1>2, <1>3 DEF FinishHandler

(* The finally lane.                                                       *)
LEMMA ReleaseInv ==
    ASSUME IInv, NEW c \in Calls, ReleaseResources(c) PROVE IInv'
<1> USE DEF IInv
<1>1. Release(tables[ProcOf[c]], tok[c]) \in Tables
  BY ReleaseType, CallsAssumption DEF ReleaseResources, TokenInv, HasToken, TypeOK
<1>2. /\ {"resource_release_unreceipted", "resource_release_failed"} \subseteq States
      /\ {"RESOURCE_RELEASED", "RESOURCE_RELEASE_FAILED"} \subseteq Events
  BY DEF States, ResourceStates, Events
<1>3. tables' \in [Procs -> Tables]
  BY <1>1 DEF ReleaseResources, TypeOK
<1>4. state' \in [Calls -> States] /\ receipts' \in [Calls -> SUBSET Events]
  BY <1>2 DEF ReleaseResources, TypeOK
<1>5. TypeOK'
  BY <1>3, <1>4 DEF ReleaseResources, TypeOK, fileVars, Goto, Labels
<1>6. Goto(c, "done")
  BY DEF ReleaseResources
<1>7. TokenInv'
  BY <1>6, PlainStep DEF ReleaseResources, fileVars, HasToken
<1> QED BY <1>5, <1>7

(* The clock moves.                                                        *)
LEMMA TickInv == ASSUME IInv, Tick PROVE IInv'
<1> USE DEF IInv
<1>1. now' \in Now
  BY TimeAssumption DEF Tick, TypeOK, Now
<1>2. TypeOK'
  BY <1>1 DEF Tick, TypeOK, fileVars, callVars
<1>3. TokenInv'
  BY DEF Tick, TokenInv, fileVars, callVars, HasToken, Fresh, Executor, Intent
<1> QED BY <1>2, <1>3

(* A process dies, perhaps in the middle of an append of its own.          *)
LEMMA CrashInv == ASSUME IInv, NEW p \in Procs, Crash(p) PROVE IInv'
<1> USE DEF IInv
<1> DEFINE mine == {c \in Calls : ProcOf[c] = p}
<1>1. /\ ledger' = ledger \/ (appender \in mine /\ ledger' = ledger \cup {tok[appender]})
      /\ file' \in FileStates
      /\ IF appender \in mine THEN appender' = NoCall ELSE appender' = appender /\ ledger' = ledger
  BY DEF Crash, BrokenAppend, Unlock, fileVars, TypeOK, FileStates
<1>2. appender \in mine => tok[appender] \in Tokens
  BY DEF TokenInv, HasToken
<1>3. \A c \in Calls : pc'[c] = pc[c] \/ (c \in mine /\ pc'[c] = "dead")
  BY DEF Crash, TypeOK
<1>4. pc' \in [Calls -> Labels]
  BY DEF Crash, TypeOK, Labels
<1>5. \A c \in mine : pc'[c] \in {"idle", "done", "dead"}
  BY DEF Crash
<1>6. tables' \in [Procs -> Tables] /\ up' \in [Procs -> BOOLEAN] /\ leased' \in [Calls -> BOOLEAN]
  BY EmptyTableType DEF Crash, TypeOK
<1>7. TypeOK'
  BY <1>1, <1>2, <1>4, <1>6 DEF Crash, TypeOK
<1>8. TokenInv'
  BY <1>1, <1>2, <1>3, <1>5, CallsAssumption
  DEF Crash, TokenInv, TypeOK, HasToken, Fresh, Executor, Intent
<1> QED BY <1>7, <1>8

(* A process boots.                                                        *)
LEMMA RestartInv == ASSUME IInv, NEW p \in Procs, Restart(p) PROVE IInv'
<1> USE DEF IInv
<1>1. TypeOK'
  BY DEF Restart, TypeOK, fileVars, callVars
<1>2. TokenInv'
  BY DEF Restart, TokenInv, fileVars, callVars, HasToken, Fresh, Executor, Intent
<1> QED BY <1>1, <1>2

(* A stuttering step.                                                      *)
LEMMA StutterInv == ASSUME IInv, UNCHANGED vars PROVE IInv'
<1> USE DEF IInv
<1>1. TypeOK'
  BY DEF TypeOK, vars, fileVars, callVars
<1>2. TokenInv'
  BY DEF TokenInv, vars, fileVars, callVars, HasToken, Fresh, Executor, Intent
<1> QED BY <1>1, <1>2

(* Every step preserves the invariant.                                     *)
LEMMA NextInv == IInv /\ [Next]_vars => IInv'
<1> SUFFICES ASSUME IInv, [Next]_vars PROVE IInv'
  OBVIOUS
<1>1. CASE \E c \in Calls, i \in Intents : Submit(c, i)
  BY <1>1, SubmitInv
<1>2. CASE \E c \in Calls : CallStep(c)
  <2> PICK c \in Calls : CallStep(c)
    BY <1>2
  <2> QED BY PreflightInv, AcquireInv, ReceiptAcquiredInv, RollbackInv, AuthorizeInv,
             SafetyGateInv, ReceiptStartedInv, BeginConsumeInv, WriteRecordInv,
             FinishConsumeInv, StartHandlerInv, FinishHandlerInv, ReleaseInv DEF CallStep
<1>3. CASE \E p \in Procs : Crash(p) \/ Restart(p)
  BY <1>3, CrashInv, RestartInv
<1>4. CASE Tick
  BY <1>4, TickInv
<1>5. CASE UNCHANGED vars
  BY <1>5, StutterInv
<1> QED BY <1>1, <1>2, <1>3, <1>4, <1>5 DEF Next

(* The invariant holds in every reachable state.                           *)
THEOREM Invariance == Spec => []IInv
BY InitInv, NextInv, PTL DEF Spec

(* Type correctness of the spine's state.                                  *)
THEOREM TypeCorrect == Spec => []TypeOK
<1>1. IInv => TypeOK
  BY DEF IInv
<1> QED BY <1>1, Invariance, PTL

(* Replay protection: over all threads, processes, crashes and restarts a  *)
(* handler is entered at most once per capability token, because consume() *)
(* looks the token up again under the lock it appends with.                *)
THEOREM ReplayProtection == Spec => []AtMostOnce
<1>1. IInv => AtMostOnce
  BY DEF IInv, TypeOK, TokenInv, AtMostOnce
<1> QED BY <1>1, Invariance, PTL

(* The flock has one holder, whose record is new to the file before it is  *)
(* written and in it afterwards; calls between their record and their      *)
(* handler hold different tokens, and a token whose handler was entered is *)
(* in the file.                                                            *)
THEOREM TokensTracked == Spec => []TokenInv
<1>1. IInv => TokenInv
  BY DEF IInv
<1> QED BY <1>1, Invariance, PTL

-----------------------------------------------------------------------------
(* Refinement of the abstract promise.                                     *)

(* The record of a call inside its append is new to the ledger: whatever   *)
(* reaches the file spends its token, or leaves the ledger as it was.      *)
LEMMA AppendSpends ==
    ASSUME IInv, NEW c \in Calls, pc[c] = "appending",
           WholeAppend(c) \/ BrokenAppend(c), UNCHANGED runs
    PROVE  Promise!Next \/ UNCHANGED <<ledger, runs>>
<1>1. tok[c] \in Tokens /\ tok[c] \notin ledger
  BY DEF IInv, TokenInv, HasToken
<1>2. CASE ledger' = ledger \cup {tok[c]}
  BY <1>1, <1>2 DEF Promise!Next, Promise!Spend
<1>3. CASE ledger' = ledger
  BY <1>3
<1> QED BY <1>2, <1>3 DEF WholeAppend, BrokenAppend

(* Every step of the spine spends one token, runs one spent token for the  *)
(* first time, or changes neither the ledger nor the runs.                 *)
LEMMA StepRefines ==
    ASSUME IInv, [Next]_vars PROVE Promise!Next \/ UNCHANGED <<ledger, runs>>
<1>1. CASE \E c \in Calls, i \in Intents : Submit(c, i)
  BY <1>1 DEF Submit, fileVars
<1>2. CASE \E c \in Calls : CallStep(c)
  <2> PICK c \in Calls : CallStep(c)
    BY <1>2
  <2>1. CASE WriteRecord(c)
    BY <2>1, AppendSpends DEF WriteRecord
  <2>2. CASE StartHandler(c)
    <3>1. tok[c] \in Tokens /\ tok[c] \in ledger /\ runs[tok[c]] = 0
      BY <2>2 DEF StartHandler, IInv, TokenInv, HasToken, Fresh
    <3>2. runs' = [runs EXCEPT ![tok[c]] = 1] /\ UNCHANGED ledger
      BY <2>2, <3>1 DEF StartHandler, fileVars, IInv, TypeOK
    <3> QED BY <3>1, <3>2 DEF Promise!Next, Promise!Run
  <2>3. CASE Preflight(c) \/ AcquireResources(c) \/ ReceiptAcquired(c) \/ Rollback(c)
    BY <2>3 DEF Preflight, AcquireResources, ReceiptAcquired, Rollback, fileVars
  <2>4. CASE Authorize(c) \/ SafetyGate(c) \/ ReceiptStarted(c) \/ BeginConsume(c)
    BY <2>4 DEF Authorize, SafetyGate, ReceiptStarted, BeginConsume, fileVars
  <2>5. CASE FinishConsume(c) \/ FinishHandler(c) \/ ReleaseResources(c)
    BY <2>5 DEF FinishConsume, FinishHandler, ReleaseResources, fileVars
  <2> QED BY <2>1, <2>2, <2>3, <2>4, <2>5 DEF CallStep
<1>3. CASE \E p \in Procs : Crash(p)
  <2> PICK p \in Procs : Crash(p)
    BY <1>3
  <2>1. CASE appender \in Calls /\ BrokenAppend(appender) /\ pc[appender] = "appending"
    BY <2>1, AppendSpends DEF Crash
  <2>2. CASE UNCHANGED ledger
    BY <2>2 DEF Crash
  <2>3. appender \in Calls => pc[appender] \in {"appending", "written"}
    BY DEF IInv, TokenInv
  <2> QED BY <2>1, <2>2, <2>3 DEF Crash, fileVars
<1>4. CASE Tick \/ \E p \in Procs : Restart(p)
  BY <1>4 DEF Tick, Restart, fileVars
<1>5. CASE UNCHANGED vars
  BY <1>5 DEF vars, fileVars
<1> QED BY <1>1, <1>2, <1>3, <1>4, <1>5 DEF Next

(* The spine, with its ledger file, locks, crashes and broken appends,     *)
(* implements the abstract promise: a token is spent once and for good,    *)
(* and a handler runs at most once and only for a spent token.             *)
THEOREM Refinement == Spec => PromiseSpec
<1>1. Init => Promise!Init
  BY DEF Init, Promise!Init
<1>2. IInv /\ [Next]_vars => [Promise!Next]_<<ledger, runs>>
  BY StepRefines
<1> QED BY <1>1, <1>2, Invariance, PTL DEF Spec, PromiseSpec, Promise!Spec

-----------------------------------------------------------------------------
(***************************************************************************)
(* The execution law: what guards a running handler, that results are      *)
(* honest about what was done, and that a torn ledger fails closed.  Each  *)
(* is an induction of its own on top of the token invariant.               *)
(***************************************************************************)

(* The checks a call has behind it, by its label.                          *)

Started == {"consume", "appending", "written", "consumed", "running"}
Gated == Started \cup {"start"}
Bound == Gated \cup {"gate"}

Claims(c) == Spec_[Executor(c)].resources

(* What the call knows when it stands at its label.  A call at authorize   *)
(* without a receipted lease will be turned away there, claims nothing, or *)
(* had its token refused by the clock: the ledger only grows and a binding *)
(* does not change, so every other reason preflight found is still one.    *)
GuardOf(c) ==
    /\ HasToken(c) => "COURT_AUTHORIZED" \in receipts[c]
    /\ pc[c] = "authorize" =>
          \/ Consumed(c)
          \/ OutOfTime(c)
          \/ BindingDenial(Intent(c)) # "none"
          \/ Claims(c) = {}
          \/ "RESOURCE_ACQUIRED" \in receipts[c]
    /\ pc[c] \in Bound => /\ BindingDenial(Intent(c)) = "none"
                          /\ Claims(c) # {} => "RESOURCE_ACQUIRED" \in receipts[c] \/ OutOfTime(c)
    /\ pc[c] \in Gated => \E g \in Gates : MatchingGates(Intent(c)) = {g}
    /\ pc[c] \in Started => "EXECUTION_STARTED" \in receipts[c]

GuardInv == \A c \in Calls : GuardOf(c)

(* What the result of the call says, against what its handler did.         *)
OutcomeOf(c) ==
    /\ executed[c] <=> handler[c] = "ok"
    /\ state[c] \in {"completed", "completed_unreceipted"} => executed[c]
    /\ pc[c] \notin {"running", "release", "done", "dead"} => handler[c] = "none"
    /\ pc[c] = "running" => handler[c] = "running"
    /\ handler[c] # "none" /\ pc[c] \in {"release", "done"}
          => state[c] \notin {"token_replay", "replay_ledger_failed", "raised"}

OutcomeInv == \A c \in Calls : OutcomeOf(c)

(* The one call inside an append found the file readable.                  *)
AppendInv == \A c \in Calls : pc[c] = "appending" => file # "torn"

-----------------------------------------------------------------------------
(* What a step leaves alone.                                               *)

SameCall(d) ==
    /\ pc'[d] = pc[d] /\ tok'[d] = tok[d] /\ leased'[d] = leased[d] /\ state'[d] = state[d]
    /\ executed'[d] = executed[d] /\ handler'[d] = handler[d] /\ receipts'[d] = receipts[d]

(* A step of one call, by Court or by the executor.                        *)
StepOf(c) == CallStep(c) \/ \E i \in Intents : Submit(c, i)

(* A step of one call leaves the locals of every other call alone, does    *)
(* not move the clock, and takes nothing out of the ledger.                *)
LEMMA CallFrame ==
    ASSUME TypeOK, NEW c \in Calls, StepOf(c)
    PROVE  /\ \A d \in Calls : d # c => SameCall(d)
           /\ ledger \subseteq ledger' /\ now' = now /\ up' = up
<1> USE DEF SameCall, Goto, TryReceipt, fileVars
<1>1. CASE \E i \in Intents : Submit(c, i)
  BY <1>1 DEF TypeOK, Submit
<1>2. CASE Preflight(c)
  BY <1>2 DEF TypeOK, Preflight
<1>3. CASE AcquireResources(c)
  BY <1>3 DEF TypeOK, AcquireResources
<1>4. CASE ReceiptAcquired(c)
  BY <1>4 DEF TypeOK, ReceiptAcquired
<1>5. CASE Rollback(c)
  BY <1>5 DEF TypeOK, Rollback
<1>6. CASE Authorize(c)
  BY <1>6 DEF TypeOK, Authorize, Return
<1>7. CASE SafetyGate(c)
  BY <1>7 DEF TypeOK, SafetyGate, Return
<1>8. CASE ReceiptStarted(c)
  BY <1>8 DEF TypeOK, ReceiptStarted
<1>9. CASE BeginConsume(c)
  BY <1>9 DEF TypeOK, BeginConsume, Return
<1>10. CASE WriteRecord(c)
  BY <1>10 DEF TypeOK, WriteRecord, WholeAppend, BrokenAppend, Return
<1>11. CASE FinishConsume(c)
  BY <1>11 DEF TypeOK, FinishConsume, Return
<1>12. CASE StartHandler(c)
  BY <1>12 DEF TypeOK, StartHandler
<1>13. CASE FinishHandler(c)
  BY <1>13 DEF TypeOK, FinishHandler, CompleteHandler, Return
<1>14. CASE ReleaseResources(c)
  BY <1>14 DEF TypeOK, ReleaseResources
<1> QED BY <1>1, <1>2, <1>3, <1>4, <1>5, <1>6, <1>7, <1>8, <1>9, <1>10, <1>11, <1>12,
           <1>13, <1>14 DEF StepOf, CallStep

(* A crash only moves labels to dead and drops leases.                     *)
LEMMA CrashFrame ==
    ASSUME TypeOK, NEW p \in Procs, Crash(p), NEW c \in Calls
    PROVE  /\ pc'[c] = pc[c] \/ pc'[c] = "dead"
           /\ tok' = tok /\ state' = state /\ executed' = executed /\ handler' = handler
           /\ receipts' = receipts /\ now' = now /\ ledger \subseteq ledger'
BY DEF TypeOK, Crash, BrokenAppend, fileVars

(* The clock, a boot and a stuttering step leave every call alone.         *)
LEMMA QuietFrame ==
    ASSUME TypeOK, Tick \/ (\E p \in Procs : Restart(p)) \/ UNCHANGED vars
    PROVE  /\ UNCHANGED <<callVars, fileVars>>
BY DEF Tick, Restart, vars

-----------------------------------------------------------------------------
(* The guards of the handler.                                              *)

(* A token's second is a number.                                           *)
LEMMA TokenTime ==
    ASSUME NEW t \in Tokens PROVE t[2] \in Nat /\ t[1] \in Intents
BY TimeAssumption DEF Tokens, Now

(* What a call knows stays true while others move: the ledger only grows,  *)
(* and nothing here depends on the clock.                                  *)
LEMMA GuardStable ==
    ASSUME IInv, NEW c \in Calls, GuardOf(c),
           pc'[c] \in {pc[c], "dead"}, tok'[c] = tok[c], receipts'[c] = receipts[c],
           state'[c] = state[c], ledger \subseteq ledger'
    PROVE  GuardOf(c)'
<1>1. CASE pc'[c] = "dead"
  BY <1>1 DEF GuardOf, HasToken, Bound, Gated, Started
<1>2. CASE pc'[c] = pc[c]
  BY <1>2 DEF GuardOf, HasToken, Bound, Gated, Started, Claims, Executor, Intent, Consumed,
              OutOfTime
<1> QED BY <1>1, <1>2

(* Court: the receipt and the token come together.                         *)
LEMMA SubmitGuard ==
    ASSUME IInv, NEW c \in Calls, NEW i \in Intents, Submit(c, i), GuardOf(c) PROVE GuardOf(c)'
BY DEF IInv, TypeOK, Submit, Goto, IssueToken, GuardOf, HasToken, Bound, Gated, Started

(* Preflight: a call that does not go for its lease has a lasting reason,  *)
(* or the clock's.                                                         *)
LEMMA PreflightGuard ==
    ASSUME IInv, NEW c \in Calls, Preflight(c), GuardOf(c) PROVE GuardOf(c)'
<1>2. CASE Goto(c, "done") \/ Goto(c, "acquire")
  BY <1>2 DEF IInv, TypeOK, Preflight, Goto, GuardOf, HasToken, Bound, Gated, Started
<1>3. CASE Goto(c, "authorize") /\ (Denial(c) # "none" \/ Claims(c) = {})
  <2>1. \/ Consumed(c) \/ Denial(c) = "invalid_token"
        \/ BindingDenial(Intent(c)) # "none" \/ Claims(c) = {}
    BY <1>3 DEF Denial
  <2> QED BY <1>3, <2>1
      DEF IInv, TypeOK, Preflight, fileVars, Goto, GuardOf, HasToken, Bound, Gated, Started,
          Claims, Executor, Intent, Consumed, OutOfTime
<1> QED BY <1>2, <1>3 DEF Preflight, Claims

(* Authorize: all checks hold at once, so the lease was taken if one is    *)
(* claimed.                                                                *)
LEMMA AuthorizeGuard ==
    ASSUME IInv, NEW c \in Calls, Authorize(c), GuardOf(c) PROVE GuardOf(c)'
<1>2. CASE Goto(c, AfterExecution(c)) /\ TryReceipt(c, "EXECUTION_DENIED")
  BY <1>2, AfterType DEF IInv, TypeOK, Authorize, Goto, TryReceipt, GuardOf, HasToken, Bound, Gated, Started
<1>3. CASE Denial(c) = "none" /\ Goto(c, "gate") /\ UNCHANGED <<state, receipts>>
  <2>1. BindingDenial(Intent(c)) = "none" /\ (Claims(c) # {} => "RESOURCE_ACQUIRED" \in receipts[c] \/ OutOfTime(c))
    BY <1>3 DEF Denial, GuardOf, Authorize
  <2> QED BY <1>3, <2>1
      DEF IInv, TypeOK, Authorize, Goto, GuardOf, HasToken, Bound, Gated, Started,
          Claims, Executor, Intent, OutOfTime
<1> QED BY <1>2, <1>3 DEF Authorize, Return, TryReceipt

(* The gate: a verdict to go on needs exactly one matching gate.           *)
LEMMA GateGuard ==
    ASSUME IInv, NEW c \in Calls, SafetyGate(c), GuardOf(c) PROVE GuardOf(c)'
<1>1. CASE Goto(c, AfterExecution(c)) /\ TryReceipt(c, "EXECUTION_DENIED")
  BY <1>1, AfterType DEF IInv, TypeOK, SafetyGate, Goto, TryReceipt, GuardOf, HasToken, Bound, Gated, Started
<1>2. CASE TRUE \in GateVerdicts(c) /\ Goto(c, "start") /\ UNCHANGED <<state, receipts>>
  <2>1. \E g \in Gates : MatchingGates(Intent(c)) = {g}
    BY <1>2 DEF GateVerdicts
  <2> QED BY <1>2, <2>1
      DEF IInv, TypeOK, SafetyGate, Goto, GuardOf, HasToken, Bound, Gated, Started,
          Claims, Executor, Intent, OutOfTime
<1> QED BY <1>1, <1>2 DEF SafetyGate, Return

(* The other steps of a call keep what it knows, and add the receipt of    *)
(* the lease or of the start.                                              *)
LEMMA OtherGuard ==
    ASSUME IInv, NEW c \in Calls, GuardOf(c),
           \/ AcquireResources(c) \/ ReceiptAcquired(c) \/ Rollback(c) \/ ReceiptStarted(c)
           \/ BeginConsume(c) \/ WriteRecord(c) \/ FinishConsume(c) \/ StartHandler(c)
           \/ FinishHandler(c) \/ ReleaseResources(c)
    PROVE  GuardOf(c)'
<1> USE AfterType DEF IInv, TypeOK, Goto, TryReceipt, Return, GuardOf, HasToken, Bound, Gated,
                      Started, Claims, Executor, Intent, OutOfTime
<1>1. CASE AcquireResources(c) \/ Rollback(c)
  BY <1>1 DEF AcquireResources, Rollback
<1>2. CASE ReceiptAcquired(c)
  BY <1>2 DEF ReceiptAcquired
<1>3. CASE ReceiptStarted(c)
  BY <1>3 DEF ReceiptStarted
<1>4. CASE BeginConsume(c)
  BY <1>4 DEF BeginConsume
<1>5. CASE WriteRecord(c)
  BY <1>5 DEF WriteRecord
<1>6. CASE FinishConsume(c)
  BY <1>6 DEF FinishConsume
<1>7. CASE StartHandler(c)
  BY <1>7 DEF StartHandler
<1>8. CASE FinishHandler(c)
  BY <1>8 DEF FinishHandler, CompleteHandler
<1>9. CASE ReleaseResources(c)
  BY <1>9 DEF ReleaseResources
<1> QED BY <1>1, <1>2, <1>3, <1>4, <1>5, <1>6, <1>7, <1>8, <1>9

(* Every step preserves the guards.                                        *)
LEMMA NextGuard == IInv /\ GuardInv /\ [Next]_vars => GuardInv'
<1> SUFFICES ASSUME IInv, GuardInv, [Next]_vars PROVE GuardInv'
  OBVIOUS
<1>1. TypeOK
  BY DEF IInv
<1>2. ASSUME NEW c \in Calls, StepOf(c) PROVE GuardInv'
  <2>1. GuardOf(c)'
    BY <1>2, SubmitGuard, PreflightGuard, AuthorizeGuard, GateGuard, OtherGuard
    DEF StepOf, CallStep, GuardInv
  <2>2. ASSUME NEW d \in Calls, d # c PROVE GuardOf(d)'
    BY <1>1, <1>2, <2>2, CallFrame, GuardStable DEF GuardInv, SameCall
  <2> QED BY <2>1, <2>2 DEF GuardInv
<1>3. ASSUME NEW p \in Procs, Crash(p) PROVE GuardInv'
  BY <1>1, <1>3, CrashFrame, GuardStable DEF GuardInv
<1>4. CASE Tick \/ (\E p \in Procs : Restart(p)) \/ UNCHANGED vars
  BY <1>1, <1>4, QuietFrame, GuardStable DEF GuardInv, callVars, fileVars
<1> QED BY <1>2, <1>3, <1>4 DEF Next, StepOf

(* The execution law: a handler runs only behind Court's receipt, a        *)
(* persisted start, a consumed token, the executor's binding, exactly one  *)
(* safety gate and, if it claims resources, a receipted lease - unless     *)
(* preflight refused its token for its time.                               *)
THEOREM ExecutionLaw == Spec => []HandlerGuarded
<1>1. Init => GuardInv
  BY DEF Init, GuardInv, GuardOf, HasToken, Bound, Gated, Started
<1>2. IInv /\ GuardInv => HandlerGuarded
  BY DEF IInv, TokenInv, GuardInv, GuardOf, HandlerGuarded, HasToken, Bound, Gated, Started, Claims
<1> QED BY <1>1, <1>2, NextGuard, Invariance, PTL DEF Spec

-----------------------------------------------------------------------------
(* Honest results.                                                         *)

(* The outcome of a call concerns that call alone.                         *)
LEMMA OutcomeStable ==
    ASSUME NEW c \in Calls, OutcomeOf(c), pc'[c] \in {pc[c], "dead"},
           executed'[c] = executed[c], handler'[c] = handler[c], state'[c] = state[c]
    PROVE  OutcomeOf(c)'
BY DEF OutcomeOf

(* Before the handler a call ends only in states that claim nothing: they  *)
(* are Court's, the coordinator's or the executor's denials.               *)
LEMMA EarlyOutcome ==
    ASSUME IInv, NEW c \in Calls, OutcomeOf(c),
           \/ \E i \in Intents : Submit(c, i)
           \/ Preflight(c) \/ AcquireResources(c) \/ ReceiptAcquired(c) \/ Rollback(c)
           \/ Authorize(c) \/ SafetyGate(c) \/ ReceiptStarted(c) \/ BeginConsume(c)
           \/ WriteRecord(c) \/ FinishConsume(c)
    PROVE  OutcomeOf(c)'
<1> DEFINE Denied == States \ {"completed", "completed_unreceipted"}
<1>1. /\ pc[c] \notin {"running", "release", "done", "dead"}
      /\ executed' = executed /\ handler' = handler
  BY DEF Submit, Preflight, AcquireResources, ReceiptAcquired, Rollback, Authorize, SafetyGate,
         ReceiptStarted, BeginConsume, WriteRecord, FinishConsume
<1>2. handler[c] = "none"
  BY <1>1 DEF OutcomeOf
<1>3. state'[c] = state[c] \/ state'[c] \in Denied
  <2> USE DEF IInv, TypeOK, Return, States, ResourceStates, DenialStates, CourtStates
  <2>1. CASE \E i \in Intents : Submit(c, i)
    BY <2>1, RequestAssumption DEF Submit
  <2>2. CASE Preflight(c) \/ Rollback(c) \/ ReceiptAcquired(c)
    BY <2>2, DenialType DEF Preflight, Rollback, ReceiptAcquired
  <2>3. CASE AcquireResources(c)
    BY <2>3, AcquireStateType DEF AcquireResources
  <2>4. CASE Authorize(c)
    BY <2>4, DenialType DEF Authorize
  <2>5. CASE SafetyGate(c) \/ ReceiptStarted(c)
    BY <2>5 DEF SafetyGate, ReceiptStarted
  <2>6. CASE BeginConsume(c)
    BY <2>6 DEF BeginConsume
  <2>7. CASE WriteRecord(c) \/ FinishConsume(c)
    BY <2>7 DEF WriteRecord, FinishConsume
  <2> QED BY <2>1, <2>2, <2>3, <2>4, <2>5, <2>6, <2>7
<1>4. pc'[c] # "running"
  <2> USE AfterType DEF IInv, TypeOK, Goto, Return
  <2>1. CASE \E i \in Intents : Submit(c, i)
    BY <2>1 DEF Submit
  <2>2. CASE Preflight(c) \/ AcquireResources(c) \/ Rollback(c) \/ ReceiptAcquired(c)
    BY <2>2 DEF Preflight, AcquireResources, Rollback, ReceiptAcquired
  <2>3. CASE Authorize(c) \/ SafetyGate(c) \/ ReceiptStarted(c)
    BY <2>3 DEF Authorize, SafetyGate, ReceiptStarted
  <2>4. CASE BeginConsume(c) \/ WriteRecord(c) \/ FinishConsume(c)
    BY <2>4 DEF BeginConsume, WriteRecord, FinishConsume
  <2> QED BY <2>1, <2>2, <2>3, <2>4
<1> QED BY <1>1, <1>2, <1>3, <1>4 DEF OutcomeOf

(* The handler's own result, and what the finally lane may make of it.     *)
LEMMA LateOutcome ==
    ASSUME IInv, NEW c \in Calls, OutcomeOf(c),
           StartHandler(c) \/ FinishHandler(c) \/ ReleaseResources(c)
    PROVE  OutcomeOf(c)'
<1> USE DEF IInv, TypeOK, OutcomeOf, Goto
<1>1. CASE StartHandler(c)
  BY <1>1 DEF StartHandler
<1>2. CASE FinishHandler(c)
  BY <1>2, AfterType DEF FinishHandler, CompleteHandler, Return
<1>3. CASE ReleaseResources(c)
  BY <1>3 DEF ReleaseResources
<1> QED BY <1>1, <1>2, <1>3

(* Every step preserves the outcome invariant.                             *)
LEMMA NextOutcome == IInv /\ OutcomeInv /\ [Next]_vars => OutcomeInv'
<1> SUFFICES ASSUME IInv, OutcomeInv, [Next]_vars PROVE OutcomeInv'
  OBVIOUS
<1>1. TypeOK
  BY DEF IInv
<1>2. ASSUME NEW c \in Calls, StepOf(c) PROVE OutcomeInv'
  <2>1. OutcomeOf(c)'
    BY <1>2, EarlyOutcome, LateOutcome DEF StepOf, CallStep, OutcomeInv
  <2>2. ASSUME NEW d \in Calls, d # c PROVE OutcomeOf(d)'
    BY <1>1, <1>2, <2>2, CallFrame, OutcomeStable DEF OutcomeInv, SameCall
  <2> QED BY <2>1, <2>2 DEF OutcomeInv
<1>3. ASSUME NEW p \in Procs, Crash(p) PROVE OutcomeInv'
  BY <1>1, <1>3, CrashFrame, OutcomeStable DEF OutcomeInv
<1>4. CASE Tick \/ (\E p \in Procs : Restart(p)) \/ UNCHANGED vars
  BY <1>1, <1>4, QuietFrame, OutcomeStable DEF OutcomeInv, callVars
<1> QED BY <1>2, <1>3, <1>4 DEF Next, StepOf

(* Results are honest: a call that ended reports executed exactly when its *)
(* handler completed, and one whose handler ran is never passed off as a   *)
(* replay or an exception, whatever receipt or release failed later.       *)
THEOREM HonestResults == Spec => []HonestOutcome
<1>1. Init => OutcomeInv
  BY DEF Init, OutcomeInv, OutcomeOf
<1>2. OutcomeInv => HonestOutcome
  BY DEF OutcomeInv, OutcomeOf, HonestOutcome
<1> QED BY <1>1, <1>2, NextOutcome, Invariance, PTL DEF Spec

-----------------------------------------------------------------------------
(* A torn ledger.                                                          *)

(* Every step preserves that the one writer found the file readable, and   *)
(* none adds a token to a torn file or boots a process on it.              *)
LEMMA NextAppend ==
    ASSUME IInv, AppendInv, [Next]_vars
    PROVE  /\ AppendInv'
           /\ file = "torn" => ledger' = ledger /\ \A p \in Procs : up'[p] => up[p]
<1>1. \A c \in Calls : pc[c] = "appending" => appender = c
  BY DEF IInv, TokenInv
<1>2. ASSUME NEW c \in Calls, StepOf(c), pc'[c] # "appending" \/ BeginConsume(c),
             \/ UNCHANGED <<ledger, file>>
             \/ WriteRecord(c)
      PROVE  /\ AppendInv'
             /\ file = "torn" => ledger' = ledger /\ \A p \in Procs : up'[p] => up[p]
  <2>1. up' = up /\ \A d \in Calls : d # c => pc'[d] = pc[d]
    BY <1>2, CallFrame DEF IInv, SameCall
  <2>2. file = "torn" => ledger' = ledger
    BY <1>2 DEF WriteRecord, AppendInv
  <2>3. AppendInv'
    <3>1. CASE WriteRecord(c)
      BY <1>1, <3>1, <1>2, <2>1 DEF WriteRecord, AppendInv, BeginConsume
    <3>2. CASE UNCHANGED <<ledger, file>>
      BY <1>2, <2>1, <3>2 DEF AppendInv, BeginConsume, IInv, TypeOK, Goto, Return, AfterExecution
    <3> QED BY <1>2, <3>1, <3>2
  <2> QED BY <2>1, <2>2, <2>3
<1>3. ASSUME NEW c \in Calls, StepOf(c)
      PROVE  /\ pc'[c] # "appending" \/ BeginConsume(c)
             /\ UNCHANGED <<ledger, file>> \/ WriteRecord(c)
  <2> USE DEF IInv, TypeOK, Goto, fileVars
  <2>1. CASE \E i \in Intents : Submit(c, i)
    BY <2>1 DEF Submit
  <2>2. CASE Preflight(c) \/ AcquireResources(c) \/ ReceiptAcquired(c) \/ Rollback(c)
    BY <2>2 DEF Preflight, AcquireResources, ReceiptAcquired, Rollback
  <2>3. CASE Authorize(c) \/ SafetyGate(c) \/ ReceiptStarted(c)
    BY <2>3, AfterType DEF Authorize, SafetyGate, ReceiptStarted, Return
  <2>4. CASE BeginConsume(c)
    BY <2>4 DEF BeginConsume
  <2>5. CASE WriteRecord(c)
    BY <2>5, AfterType DEF WriteRecord, Return
  <2>6. CASE FinishConsume(c) \/ StartHandler(c) \/ FinishHandler(c) \/ ReleaseResources(c)
    BY <2>6, AfterType DEF FinishConsume, StartHandler, FinishHandler, CompleteHandler,
                           ReleaseResources, Return
  <2> QED BY <1>3, <2>1, <2>2, <2>3, <2>4, <2>5, <2>6 DEF StepOf, CallStep
<1>4. ASSUME NEW p \in Procs, Crash(p)
      PROVE  /\ AppendInv'
             /\ file = "torn" => ledger' = ledger /\ \A q \in Procs : up'[q] => up[q]
  <2>1. \A c \in Calls : pc'[c] = pc[c] \/ pc'[c] = "dead"
    BY <1>4, CrashFrame DEF IInv
  <2>2. \A c \in Calls : ProcOf[c] = p => pc'[c] # "appending"
    BY <1>4 DEF Crash, IInv, TypeOK
  <2>3. \A q \in Procs : up'[q] => up[q]
    BY <1>4 DEF Crash, IInv, TypeOK
  <2>4. file = "torn" => ledger' = ledger
    BY <1>4 DEF Crash, BrokenAppend, fileVars
  <2>5. CASE appender \in Calls /\ ProcOf[appender] = p
    BY <1>1, <2>1, <2>2, <2>3, <2>4, <2>5 DEF AppendInv
  <2>6. CASE ~(appender \in Calls /\ ProcOf[appender] = p)
    BY <1>4, <2>1, <2>3, <2>4, <2>6 DEF Crash, AppendInv, fileVars
  <2> QED BY <2>5, <2>6
<1>5. CASE Tick \/ (\E p \in Procs : Restart(p)) \/ UNCHANGED vars
  BY <1>5 DEF Tick, Restart, BootLoads, vars, fileVars, callVars, AppendInv, IInv, TypeOK
<1> QED BY <1>2, <1>3, <1>4, <1>5 DEF Next, StepOf

(* Malformed replay history fails closed: once a line of the ledger does   *)
(* not parse, no token is consumed any more and no process boots.          *)
THEOREM TornLedgerFailsClosed == Spec => TornFailsClosed
<1>1. Init => AppendInv
  BY DEF Init, AppendInv
<1>2. IInv /\ AppendInv /\ [Next]_vars => AppendInv'
  BY NextAppend
<1>3. IInv /\ AppendInv /\ [Next]_vars
        => [file = "torn" => ledger' = ledger /\ \A p \in Procs : up'[p] => up[p]]_vars
  BY NextAppend
<1> QED BY <1>1, <1>2, <1>3, Invariance, PTL DEF Spec, TornFailsClosed

-----------------------------------------------------------------------------
(***************************************************************************)
(* The exclusive resources: no lease outlives the calls that took it, on   *)
(* any exit path, and two handlers of a process overlap on a resource only *)
(* when a token was issued twice or was outside its time at preflight.     *)
(***************************************************************************)

Laned == Bound \cup {"authorize", "release"}

(* The call and the lease it took.  A call that shares its token may find  *)
(* its lease released by the other; one that does not finds it as it was.  *)
LaneOf(c) ==
    /\ pc[c] = "idle" => tok[c] = NoToken
    /\ leased[c] => pc[c] \in Laned
    /\ pc[c] = "acquire" => Claims(c) # {}
    /\ pc[c] \in {"preflight", "acquire", "acquired"} => "RESOURCE_ACQUIRED" \notin receipts[c]
    /\ pc[c] \in Bound \cup {"authorize"} /\ "RESOURCE_ACQUIRED" \in receipts[c] => leased[c]
    /\ InLane(c) => SharedToken(c) \/ tables[ProcOf[c]].lease[tok[c]] = Claims(c)

LaneInv == NoLeakedLease /\ \A c \in Calls : LaneOf(c)

-----------------------------------------------------------------------------
(* The ownership table.                                                    *)

(* A new coordinator is consistent and leases nothing.                     *)
LEMMA EmptyConsistent == Consistent(EmptyTable) /\ \A t \in Tokens : EmptyTable.lease[t] = {}
BY NoneAssumption DEF Consistent, EmptyTable

(* acquire() keeps the two dictionaries in agreement: it takes only        *)
(* resources nobody else owns, for an owner without a lease.               *)
LEMMA AcquireConsistent ==
    ASSUME NEW tb \in Tables, Consistent(tb), NEW o \in Tokens, NEW R \in SUBSET Resources
    PROVE  Consistent(Acquire(tb, o, R))
<1>1. CASE AcquireState(tb, o, R) = "acquired"
  <2>1. tb.lease[o] = {} /\ \A r \in R : tb.owner[r] \in {NoOwner, o}
    BY <1>1 DEF AcquireState, Conflicts
  <2>2. \A r \in R, t \in Tokens : r \notin tb.lease[t]
    BY <2>1, NoneAssumption DEF Consistent
  <2>3. Acquire(tb, o, R) =
          [owner |-> [r \in Resources |-> IF r \in R THEN o ELSE tb.owner[r]],
           lease |-> [tb.lease EXCEPT ![o] = R]]
    BY <1>1 DEF Acquire
  <2> QED BY <2>1, <2>2, <2>3 DEF Consistent, Tables
<1>2. CASE AcquireState(tb, o, R) # "acquired"
  BY <1>2 DEF Acquire
<1> QED BY <1>1, <1>2

(* release() keeps the two dictionaries in agreement.                      *)
LEMMA ReleaseConsistent ==
    ASSUME NEW tb \in Tables, Consistent(tb), NEW o \in Tokens
    PROVE  Consistent(Release(tb, o))
BY NoneAssumption DEF Consistent, Tables, Release

(* acquire() changes the lease of its owner only, to what was asked for    *)
(* when it grants, and not at all when it refuses.                         *)
LEMMA AcquireLease ==
    ASSUME NEW tb \in Tables, NEW o \in Tokens, NEW R \in SUBSET Resources, R # {}
    PROVE  /\ \A t \in Tokens : t # o => Acquire(tb, o, R).lease[t] = tb.lease[t]
           /\ Granted(AcquireState(tb, o, R)) => Acquire(tb, o, R).lease[o] = R
           /\ ~Granted(AcquireState(tb, o, R)) => Acquire(tb, o, R) = tb
BY DEF Acquire, AcquireState, Granted, Tables

(* release() empties the lease of its owner only.                          *)
LEMMA ReleaseLease ==
    ASSUME NEW tb \in Tables, NEW o \in Tokens
    PROVE  /\ \A t \in Tokens : t # o => Release(tb, o).lease[t] = tb.lease[t]
           /\ Release(tb, o).lease[o] = {}
BY DEF Release, Tables

-----------------------------------------------------------------------------
(* What one step does to the tables.                                       *)

(* What a step of call c may do to the tables: nothing, or a change to the *)
(* lease of its own token in its own process that leaves them consistent.  *)
TableStep(c) ==
    /\ \A p \in Procs : Consistent(tables'[p])
    /\ \A p \in Procs, t \in Tokens :
          p # ProcOf[c] \/ t # tok[c] => tables'[p].lease[t] = tables[p].lease[t]

(* A step of a call that leaves the coordinator alone.                     *)
LEMMA SameTables ==
    ASSUME LaneInv, NEW c \in Calls, tables' = tables PROVE TableStep(c)
BY DEF TableStep, LaneInv, NoLeakedLease

(* acquire().                                                              *)
LEMMA AcquireTables ==
    ASSUME IInv, LaneInv, NEW c \in Calls, AcquireResources(c)
    PROVE  /\ TableStep(c)
           /\ pc'[c] \in {"acquired", "done"}
           /\ pc'[c] = "acquired" => /\ tables'[ProcOf[c]].lease[tok[c]] = Claims(c)
                                     /\ receipts' = receipts
           /\ pc'[c] = "done" => tables' = tables
<1> DEFINE tb == tables[ProcOf[c]]
           R == Claims(c)
<1>1. tok[c] \in Tokens /\ R \in SUBSET Resources /\ tb \in Tables /\ R # {} /\ ProcOf[c] \in Procs
  BY CallsAssumption, SpecAssumption
  DEF AcquireResources, IInv, TokenInv, HasToken, TypeOK, LaneInv, LaneOf, Claims
<1>2. Consistent(tb)
  BY <1>1 DEF LaneInv, NoLeakedLease
<1>3. Consistent(Acquire(tb, tok[c], R))
  BY <1>1, <1>2, AcquireConsistent
<1>4. /\ \A t \in Tokens : t # tok[c] => Acquire(tb, tok[c], R).lease[t] = tb.lease[t]
      /\ Granted(AcquireState(tb, tok[c], R)) => Acquire(tb, tok[c], R).lease[tok[c]] = R
      /\ ~Granted(AcquireState(tb, tok[c], R)) => Acquire(tb, tok[c], R) = tb
  BY <1>1, AcquireLease
<1>5. tables' = [tables EXCEPT ![ProcOf[c]] = Acquire(tb, tok[c], R)]
  BY DEF AcquireResources, Claims
<1>6. /\ Granted(AcquireState(tb, tok[c], R)) => pc'[c] = "acquired" /\ receipts' = receipts
      /\ ~Granted(AcquireState(tb, tok[c], R)) => pc'[c] = "done"
  BY DEF AcquireResources, Claims, Goto, IInv, TypeOK
<1>7. tables \in [Procs -> Tables]
  BY DEF IInv, TypeOK
<1> HIDE DEF tb, R
<1>8. TableStep(c)
  BY <1>1, <1>3, <1>4, <1>5, <1>7 DEF TableStep, LaneInv, NoLeakedLease, tb
<1>9. ~Granted(AcquireState(tb, tok[c], R)) => tables' = tables
  BY <1>1, <1>4, <1>5, <1>7 DEF tb
<1> QED BY <1>1, <1>4, <1>5, <1>6, <1>7, <1>8, <1>9 DEF R

(* release(), in the rollback or in the finally lane.                      *)
LEMMA ReleaseTables ==
    ASSUME IInv, LaneInv, NEW c \in Calls, HasToken(c),
           tables' = [tables EXCEPT ![ProcOf[c]] = Release(tables[ProcOf[c]], tok[c])]
    PROVE  TableStep(c) /\ tables'[ProcOf[c]].lease[tok[c]] = {}
<1> DEFINE tb == tables[ProcOf[c]]
<1>1. tok[c] \in Tokens /\ tb \in Tables /\ ProcOf[c] \in Procs /\ tables \in [Procs -> Tables]
  BY CallsAssumption DEF IInv, TokenInv, TypeOK
<1>2. Consistent(tb)
  BY <1>1 DEF LaneInv, NoLeakedLease
<1>3. Consistent(Release(tb, tok[c]))
  BY <1>1, <1>2, ReleaseConsistent
<1>4. /\ \A t \in Tokens : t # tok[c] => Release(tb, tok[c]).lease[t] = tb.lease[t]
      /\ Release(tb, tok[c]).lease[tok[c]] = {}
  BY <1>1, ReleaseLease
<1> HIDE DEF tb
<1> QED BY <1>1, <1>3, <1>4 DEF TableStep, LaneInv, NoLeakedLease, tb

-----------------------------------------------------------------------------
(* The lane of each call.                                                  *)

(* A token once issued stays with its call.                                *)
LEMMA TokenStays ==
    ASSUME IInv, LaneInv, [Next]_vars, NEW d \in Calls, tok[d] \in Tokens PROVE tok'[d] = tok[d]
<1>1. ASSUME NEW c \in Calls, NEW i \in Intents, Submit(c, i) PROVE tok'[d] = tok[d]
  BY <1>1, NoneAssumption DEF Submit, IInv, TypeOK, LaneInv, LaneOf
<1>2. ASSUME NEW c \in Calls, CallStep(c) PROVE tok' = tok
  BY <1>2 DEF CallStep, Preflight, AcquireResources, ReceiptAcquired, Rollback, Authorize,
              SafetyGate, ReceiptStarted, BeginConsume, WriteRecord, FinishConsume,
              StartHandler, FinishHandler, ReleaseResources
<1>3. ASSUME ~(\E c \in Calls : StepOf(c)) PROVE tok' = tok
  BY <1>3 DEF Next, StepOf, Crash, Restart, Tick, vars, callVars
<1> QED BY <1>1, <1>2, <1>3 DEF StepOf

(* So a call that shares its token goes on sharing it.                     *)
LEMMA SharedStays ==
    ASSUME IInv, LaneInv, [Next]_vars, NEW c \in Calls, tok[c] \in Tokens, SharedToken(c)
    PROVE  SharedToken(c)'
<1> PICK d \in Calls \ {c} : tok[d] = tok[c]
  BY DEF SharedToken
<1> QED BY TokenStays DEF SharedToken

(* A call in its lane holds a token.                                       *)
LEMMA LaneToken ==
    ASSUME IInv, LaneInv, NEW c \in Calls, InLane(c) PROVE tok[c] \in Tokens /\ HasToken(c)
BY DEF IInv, TokenInv, LaneInv, LaneOf, InLane, HasToken, Laned, Bound, Gated, Started

(* A step of call c that changes at most its own lease leaves the lane of  *)
(* every other call as it was.                                             *)
LEMMA OtherLane ==
    ASSUME IInv, LaneInv, [Next]_vars, NEW c \in Calls, StepOf(c), TableStep(c),
           NEW d \in Calls, d # c
    PROVE  LaneOf(d)' /\ InLane(d)' = InLane(d)
<1>1. SameCall(d)
  BY CallFrame DEF IInv
<1>2. InLane(d)' = InLane(d)
  BY <1>1 DEF InLane, SameCall
<1>3. ASSUME InLane(d)
      PROVE  SharedToken(d)' \/ tables'[ProcOf[d]].lease[tok[d]] = Claims(d)
  <2>1. tok[d] \in Tokens /\ ProcOf[d] \in Procs
    BY <1>3, LaneToken, CallsAssumption
  <2>2. CASE SharedToken(d)
    BY <2>1, <2>2, SharedStays
  <2>3. CASE ~SharedToken(d)
    <3>1. tok[d] # tok[c] /\ tables[ProcOf[d]].lease[tok[d]] = Claims(d)
      BY <1>3, <2>3 DEF SharedToken, LaneInv, LaneOf
    <3> QED BY <2>1, <3>1 DEF TableStep
  <2> QED BY <2>2, <2>3
<1>4. LaneOf(d)
  BY DEF LaneInv
<1> QED BY <1>1, <1>2, <1>3, <1>4 DEF LaneOf, SameCall, Claims, Executor, Intent

(* So the lane invariant follows from what happens to call c alone: its    *)
(* own lane is right, and a lease of its token is backed by it or by       *)
(* another call.                                                           *)
LEMMA OneLane ==
    ASSUME IInv, LaneInv, [Next]_vars, NEW c \in Calls, StepOf(c), TableStep(c), LaneOf(c)',
           \/ tok[c] \notin Tokens
           \/ tables'[ProcOf[c]].lease[tok[c]] = {}
           \/ InLane(c)'
           \/ ~InLane(c) /\ tables' = tables
    PROVE  LaneInv'
<1>1. \A d \in Calls : LaneOf(d)'
  BY OtherLane
<1>2. ASSUME NEW p \in Procs, NEW t \in Tokens, tables'[p].lease[t] # {}
      PROVE  \E d \in Calls : ProcOf[d] = p /\ tok'[d] = t /\ InLane(d)'
  <2>1. CASE p = ProcOf[c] /\ t = tok[c] /\ InLane(c)'
    BY <2>1, TokenStays
  <2>2. CASE ~(p = ProcOf[c] /\ t = tok[c] /\ InLane(c)')
    <3>1. p # ProcOf[c] \/ t # tok[c] \/ (~InLane(c) /\ tables' = tables)
      BY <1>2, <2>2
    <3>2. tables[p].lease[t] # {}
      BY <1>2, <3>1 DEF TableStep
    <3>3. PICK d \in Calls : ProcOf[d] = p /\ tok[d] = t /\ InLane(d)
      BY <3>2 DEF LaneInv, NoLeakedLease
    <3>4. d # c
      BY <3>1, <3>3
    <3> QED BY <3>3, <3>4, OtherLane, TokenStays
  <2> QED BY <2>1, <2>2
<1>3. \A p \in Procs : Consistent(tables[p])'
  BY DEF TableStep, Consistent
<1> QED BY <1>1, <1>2, <1>3 DEF LaneInv, NoLeakedLease

(* Court and preflight: the call has no lease yet.                         *)
LEMMA EarlyLane ==
    ASSUME IInv, LaneInv, [Next]_vars, NEW c \in Calls,
           Preflight(c) \/ \E i \in Intents : Submit(c, i)
    PROVE  LaneInv'
<1>1. tables' = tables /\ leased' = leased /\ ~InLane(c) /\ ~leased[c]
  BY DEF Preflight, Submit, LaneInv, LaneOf, InLane, Laned, Bound, Gated, Started
<1>2. LaneOf(c)'
  <2>1. CASE Preflight(c)
    BY <1>1, <2>1 DEF Preflight, LaneInv, LaneOf, IInv, TypeOK, Goto, InLane, Laned, Bound, Gated,
                      Started, Claims, Executor, Intent
  <2>2. CASE \E i \in Intents : Submit(c, i)
    BY <1>1, <2>2 DEF Submit, LaneInv, LaneOf, IInv, TypeOK, Goto, InLane, Laned, Bound, Gated,
                      Started
  <2> QED BY <2>1, <2>2
<1>3. StepOf(c)
  BY DEF StepOf, CallStep
<1> QED BY <1>1, <1>2, <1>3, SameTables, OneLane

(* A granted lease puts its call into the lane; a refusal changes nothing. *)
LEMMA AcquireLane ==
    ASSUME IInv, LaneInv, [Next]_vars, NEW c \in Calls, AcquireResources(c) PROVE LaneInv'
<1>1. ~InLane(c) /\ leased' = leased /\ tok' = tok /\ ~leased[c] /\ "RESOURCE_ACQUIRED" \notin receipts[c]
  BY DEF AcquireResources, LaneInv, LaneOf, InLane, Laned, Bound, Gated, Started
<1>2. LaneOf(c)'
  BY <1>1, AcquireTables DEF LaneOf, InLane, Bound, Gated, Started, Claims, Executor, Intent
<1>3. StepOf(c)
  BY DEF StepOf, CallStep
<1> QED BY <1>1, <1>2, <1>3, AcquireTables, OneLane DEF InLane

(* The call stays in its lane from the receipt of the lease to the return  *)
(* of execute_authorized, on every path.                                   *)
LEMMA MiddleLane ==
    ASSUME IInv, LaneInv, [Next]_vars, NEW c \in Calls,
           \/ ReceiptAcquired(c) \/ Authorize(c) \/ SafetyGate(c) \/ ReceiptStarted(c)
           \/ BeginConsume(c) \/ WriteRecord(c) \/ FinishConsume(c) \/ StartHandler(c)
           \/ FinishHandler(c)
    PROVE  LaneInv'
<1>1. tables' = tables /\ tok' = tok /\ StepOf(c)
  BY DEF ReceiptAcquired, Authorize, SafetyGate, ReceiptStarted, BeginConsume, WriteRecord,
         FinishConsume, StartHandler, FinishHandler, StepOf, CallStep
<1>2. /\ InLane(c)' = InLane(c)
      /\ pc'[c] \notin {"idle", "preflight", "acquire", "acquired"}
      /\ leased'[c] => pc'[c] \in Laned
      /\ pc'[c] \in Bound \cup {"authorize"} /\ "RESOURCE_ACQUIRED" \in receipts'[c] => leased'[c]
  <2> USE DEF IInv, TypeOK, LaneInv, LaneOf, InLane, Goto, AfterExecution, Laned, Bound, Gated, Started
  <2>1. CASE ReceiptAcquired(c)
    BY <2>1 DEF ReceiptAcquired
  <2>2. CASE Authorize(c)
    BY <2>2 DEF Authorize, Return, TryReceipt
  <2>3. CASE SafetyGate(c)
    BY <2>3 DEF SafetyGate, Return, TryReceipt
  <2>4. CASE ReceiptStarted(c)
    BY <2>4 DEF ReceiptStarted
  <2>5. CASE BeginConsume(c)
    BY <2>5 DEF BeginConsume, Return, TryReceipt
  <2>6. CASE WriteRecord(c)
    BY <2>6 DEF WriteRecord, Return, TryReceipt
  <2>7. CASE FinishConsume(c)
    BY <2>7 DEF FinishConsume, Return, TryReceipt
  <2>8. CASE StartHandler(c)
    BY <2>8 DEF StartHandler
  <2>9. CASE FinishHandler(c)
    BY <2>9 DEF FinishHandler, CompleteHandler, Return, TryReceipt
  <2> QED BY <2>1, <2>2, <2>3, <2>4, <2>5, <2>6, <2>7, <2>8, <2>9
<1>3. LaneOf(c)'
  BY <1>1, <1>2, SharedStays, LaneToken DEF LaneInv, LaneOf, Claims, Executor, Intent
<1> QED BY <1>1, <1>2, <1>3, SameTables, OneLane

(* Rollback and the finally lane give the lease back.                      *)
LEMMA ReleaseLane ==
    ASSUME IInv, LaneInv, [Next]_vars, NEW c \in Calls, Rollback(c) \/ ReleaseResources(c)
    PROVE  LaneInv'
<1>1. /\ tables' = [tables EXCEPT ![ProcOf[c]] = Release(tables[ProcOf[c]], tok[c])]
      /\ HasToken(c) /\ StepOf(c)
  BY DEF Rollback, ReleaseResources, HasToken, StepOf, CallStep
<1>2. pc'[c] = "done" /\ ~leased'[c]
  BY DEF Rollback, ReleaseResources, Goto, IInv, TypeOK, LaneInv, LaneOf, Laned, Bound, Gated, Started
<1>3. LaneOf(c)'
  BY <1>2 DEF LaneOf, InLane, Bound, Gated, Started
<1> QED BY <1>1, <1>3, ReleaseTables, OneLane

(* A crash takes the coordinator of its process and all its lanes.         *)
LEMMA CrashLane ==
    ASSUME IInv, LaneInv, [Next]_vars, NEW p \in Procs, Crash(p) PROVE LaneInv'
<1>1. /\ tables' = [tables EXCEPT ![p] = EmptyTable] /\ tables \in [Procs -> Tables]
      /\ tok' = tok /\ receipts' = receipts
  BY DEF Crash, IInv, TypeOK
<1>2. \A c \in Calls : ProcOf[c] = p => ~leased'[c] /\ pc'[c] \in {"idle", "done", "dead"}
  BY DEF Crash
<1>3. \A c \in Calls : ProcOf[c] # p => leased'[c] = leased[c] /\ pc'[c] = pc[c]
  BY DEF Crash
<1>4. ASSUME NEW c \in Calls PROVE LaneOf(c)'
  <2>1. CASE ProcOf[c] = p
    <3>1. pc'[c] = "idle" => pc[c] = "idle"
      BY CrashFrame DEF IInv
    <3> QED BY <1>1, <1>2, <2>1, <3>1 DEF LaneInv, LaneOf, InLane, Bound, Gated, Started
  <2>2. CASE ProcOf[c] # p
    BY <1>1, <1>3, <2>2, CallsAssumption
    DEF LaneInv, LaneOf, InLane, SharedToken, Claims, Executor, Intent
  <2> QED BY <2>1, <2>2
<1>5. ASSUME NEW q \in Procs PROVE Consistent(tables'[q])
  BY <1>1, EmptyConsistent DEF LaneInv, NoLeakedLease
<1>6. ASSUME NEW q \in Procs, NEW t \in Tokens, tables'[q].lease[t] # {}
      PROVE  \E c \in Calls : ProcOf[c] = q /\ tok'[c] = t /\ InLane(c)'
  <2>1. q # p /\ tables[q].lease[t] # {}
    BY <1>1, <1>6, EmptyConsistent
  <2>2. PICK c \in Calls : ProcOf[c] = q /\ tok[c] = t /\ InLane(c)
    BY <2>1 DEF LaneInv, NoLeakedLease
  <2> QED BY <1>1, <1>3, <2>1, <2>2 DEF InLane
<1> QED BY <1>4, <1>5, <1>6 DEF LaneInv, NoLeakedLease, Consistent

(* The clock, a boot and a stuttering step change no lane.                 *)
LEMMA QuietLane ==
    ASSUME LaneInv, Tick \/ (\E p \in Procs : Restart(p)) \/ UNCHANGED vars PROVE LaneInv'
<1>1. UNCHANGED <<tables, callVars>>
  BY DEF Tick, Restart, vars
<1> QED BY <1>1 DEF LaneInv, NoLeakedLease, LaneOf, InLane, SharedToken, Claims, Executor, Intent,
                    Consistent, callVars

(* Every step preserves the lane invariant.                                *)
LEMMA NextLane == IInv /\ LaneInv /\ [Next]_vars => LaneInv'
<1> SUFFICES ASSUME IInv, LaneInv, [Next]_vars PROVE LaneInv'
  OBVIOUS
<1>1. CASE \E c \in Calls : StepOf(c)
  BY <1>1, EarlyLane, AcquireLane, MiddleLane, ReleaseLane DEF StepOf, CallStep
<1>2. CASE \E p \in Procs : Crash(p)
  BY <1>2, CrashLane
<1>3. CASE Tick \/ (\E p \in Procs : Restart(p)) \/ UNCHANGED vars
  BY <1>3, QuietLane
<1> QED BY <1>1, <1>2, <1>3 DEF Next, StepOf

(* A fresh process has no leases and no calls.                             *)
LEMMA InitLane == Init => LaneInv
BY EmptyConsistent, CallsAssumption
DEF Init, LaneInv, NoLeakedLease, LaneOf, InLane, Bound, Gated, Started

(* Guaranteed release: the coordinator's dictionaries agree, and a lease   *)
(* is backed by a call of its process that is still on its way to release  *)
(* it, whatever check, receipt or handler failed and whoever crashed.      *)
THEOREM GuaranteedRelease == Spec => []NoLeakedLease
<1>1. LaneInv => NoLeakedLease
  BY DEF LaneInv
<1> QED BY <1>1, InitLane, NextLane, Invariance, PTL DEF Spec

(* Two running handlers of a process hold a common resource only if one of *)
(* them has a token that Court issued to another call too, or none of its  *)
(* resources because preflight refused its token for its time.             *)
LEMMA LanesExclude == IInv /\ GuardInv /\ LaneInv => ExclusiveUnlessShared
<1> SUFFICES ASSUME IInv, GuardInv, LaneInv, NEW c \in Calls, NEW d \in Calls,
                    Overlap(c, d), ~SharedToken(c), ~SharedToken(d),
                    ~OutOfTime(c), ~OutOfTime(d)
             PROVE  FALSE
  BY DEF ExclusiveUnlessShared
<1>1. PICK r \in Claims(c) \cap Claims(d) : TRUE
  BY DEF Overlap, Claims
<1>2. leased[c] /\ leased[d]
  BY <1>1 DEF Overlap, GuardInv, GuardOf, LaneInv, LaneOf, Bound, Gated, Started
<1>3. InLane(c) /\ InLane(d)
  BY <1>2 DEF InLane, Overlap
<1>4. /\ tables[ProcOf[c]].lease[tok[c]] = Claims(c)
      /\ tables[ProcOf[c]].lease[tok[d]] = Claims(d)
  BY <1>3 DEF LaneInv, LaneOf, Overlap
<1>5. tok[c] \in Tokens /\ tok[d] \in Tokens /\ tok[c] # tok[d] /\ ProcOf[c] \in Procs
  BY <1>3, LaneToken, CallsAssumption DEF SharedToken, Overlap
<1>6. r \in Resources
  BY <1>1, <1>4, <1>5 DEF IInv, TypeOK, Tables
<1> QED BY <1>1, <1>4, <1>5, <1>6 DEF LaneInv, NoLeakedLease, Consistent

(* Exclusive use, as far as the code gives it: handlers of one process     *)
(* overlap on an exclusive resource only when a token was issued twice, or *)
(* the clock was set between the two looks at a token.                     *)
THEOREM ExclusiveUseUnlessShared == Spec => []ExclusiveUnlessShared
<1>1. Init => GuardInv
  BY DEF Init, GuardInv, GuardOf, HasToken, Bound, Gated, Started
<1> QED BY <1>1, InitLane, NextLane, NextGuard, LanesExclude, Invariance, PTL DEF Spec
=============================================================================
