------------------------------- MODULE BodyState -------------------------------
(***************************************************************************)
(* Body evidence: each organ is a process whose adapter turns what it      *)
(* senses into sensor and health records; the processes merge them, under  *)
(* a file lock, into one snapshot after appending them to a journal; the   *)
(* Runtime reports the unhealthy states of the snapshot when it starts and *)
(* then follows the journal.  A record is its family, module, timestamp    *)
(* and, for health, the states before and after.                           *)
(***************************************************************************)
EXTENDS Integers, SequencesExt

CONSTANTS
    BsModules,    \* modules; each is published by one process
    BsDetails,    \* texts a failure may have
    BsThreshold,  \* failure_threshold of the adapters
    BsMaxModules, \* max_modules of the bridge
    BsClockMax,   \* bound: the wall clock
    BsEvents,     \* bound: length of the journal
    BsFaults,     \* bound: crashes, reboots and clock steps
    BsBoots       \* bound: starts of the Runtime

ASSUME BsAssumption ==
    /\ BsThreshold \in Nat \ {0} /\ BsMaxModules \in Nat \ {0}
    /\ BsClockMax \in Nat \ {0} /\ BsEvents \in Nat /\ BsFaults \in Nat /\ BsBoots \in Nat

VARIABLES
    bsAdapter,  \* per module: the adapter of its process
    bsAt,       \* per module: where its process is
    bsCycle,    \* per module: the records of this cycle still to publish
    bsLock,     \* the process holding the lock, or nobody
    bsMem,      \* the bridge of the process that holds the lock
    bsSnapshot, \* the snapshot file: newest record of each module and family
    bsJournal,  \* the journal file
    bsWall,     \* the wall clock
    bsRuntime,  \* the Runtime: down, primed, or armed
    bsOffset,   \* journal records the follower has passed
    bsTold,     \* per module: the health state the Runtime was told, this session
    bsDone,     \* history: newest timestamp of a publication that returned
    bsFaults, bsBoots

bsVars == <<bsAdapter, bsAt, bsCycle, bsLock, bsMem, bsSnapshot, bsJournal, bsWall,
            bsRuntime, bsOffset, bsTold, bsDone, bsFaults, bsBoots>>
bsProducer == <<bsAdapter, bsAt, bsCycle, bsLock, bsMem, bsSnapshot, bsJournal, bsDone>>
bsFollower == <<bsRuntime, bsOffset, bsTold, bsBoots>>

BsNobody == "nobody"
ASSUME BsNobodyAssumption == BsNobody \notin BsModules
BsFamilies == {"sensor", "health"}
BsNothing == [at |-> 0, after |-> "UNKNOWN"]
BsEmpty == [f \in BsFamilies |-> [m \in BsModules |-> BsNothing]]
BsNewAdapter == [state |-> "UNKNOWN", failures |-> 0, detail |-> "none"]

BsTypeOK ==
    /\ \A m \in BsModules :
          /\ bsAdapter[m].state \in {"UNKNOWN", "ONLINE", "DEGRADED", "FAILED"}
          /\ bsAt[m] \in {"sense", "publish", "merge"} /\ Len(bsCycle[m]) <= 2
    /\ bsLock \in BsModules \cup {BsNobody}
    /\ Len(bsJournal) <= BsEvents /\ bsOffset \in 0 .. BsEvents
    /\ bsRuntime \in {"down", "primed", "armed"}

BsInit ==
    /\ bsAdapter = [m \in BsModules |-> BsNewAdapter]
    /\ bsAt = [m \in BsModules |-> "sense"] /\ bsCycle = [m \in BsModules |-> <<>>]
    /\ bsLock = BsNobody /\ bsMem = BsEmpty
    /\ bsSnapshot = BsEmpty /\ bsJournal = <<>> /\ bsWall = 1
    /\ bsRuntime = "down" /\ bsOffset = 0 /\ bsTold = [m \in BsModules |-> "none"]
    /\ bsDone = [f \in BsFamilies |-> [m \in BsModules |-> 0]]
    /\ bsFaults = 0 /\ bsBoots = 0

-----------------------------------------------------------------------------
(* The adapter: a cycle's records, stamped by the wall clock.              *)

BsSensorEvent(m) == [family |-> "sensor", module |-> m, at |-> bsWall, after |-> "ONLINE"]

BsHealthEvent(m, state) == [family |-> "health", module |-> m, at |-> bsWall, after |-> state]

(* A reading: always a sensor record, and a health record unless the       *)
(* module was online already.                                              *)
BsObserve(m) ==
    /\ bsAt[m] = "sense"
    /\ bsCycle' = [bsCycle EXCEPT ![m] =
          IF bsAdapter[m].state = "ONLINE" THEN <<BsSensorEvent(m)>>
          ELSE <<BsSensorEvent(m), BsHealthEvent(m, "ONLINE")>>]
    /\ bsAdapter' = [bsAdapter EXCEPT ![m] = [BsNewAdapter EXCEPT !.state = "ONLINE"]]
    /\ bsAt' = [bsAt EXCEPT ![m] = "publish"]
    /\ UNCHANGED <<bsLock, bsMem, bsSnapshot, bsJournal, bsDone, bsWall, bsFollower, bsFaults>>

(* A failure: the same state for the same reason is not reported again.    *)
BsMarkFailure(m, detail) ==
    LET failures == IF bsAdapter[m].failures < BsThreshold
                    THEN bsAdapter[m].failures + 1 ELSE BsThreshold
        state == IF failures >= BsThreshold THEN "FAILED" ELSE "DEGRADED"
        silent == state = bsAdapter[m].state /\ detail = bsAdapter[m].detail
    IN  /\ bsAt[m] = "sense"
        /\ bsAdapter' = [bsAdapter EXCEPT ![m] =
              [state |-> state, failures |-> failures, detail |-> detail]]
        /\ bsCycle' = [bsCycle EXCEPT ![m] = IF silent THEN <<>>
                                             ELSE <<BsHealthEvent(m, state)>>]
        /\ bsAt' = [bsAt EXCEPT ![m] = IF silent THEN "sense" ELSE "publish"]
        /\ UNCHANGED <<bsLock, bsMem, bsSnapshot, bsJournal, bsDone, bsWall, bsFollower,
                       bsFaults>>

-----------------------------------------------------------------------------
(* publish_many of the locked bridge.                                      *)

(* The bridge starts empty instead of from the file.                       *)
MutBsLoad == BsEmpty

(* The bridge built under the lock starts from the file.                   *)
BsLoad == bsSnapshot

BsAcquire(m) ==
    /\ bsAt[m] = "publish" /\ bsLock = BsNobody
    /\ bsLock' = m
    /\ bsMem' = BsLoad
    /\ bsAt' = [bsAt EXCEPT ![m] = "merge"]
    /\ UNCHANGED <<bsAdapter, bsCycle, bsSnapshot, bsJournal, bsDone, bsWall, bsFollower,
                   bsFaults>>

BsKnown(family) == {k \in BsModules : bsMem[family][k].at > 0}

BsFull(family, m) ==
    m \notin BsKnown(family) /\ Cardinality(BsKnown(family)) >= BsMaxModules

(* An older record does not replace the one that is held.                  *)
BsNewest(held, r) == IF r.at < held.at THEN held ELSE [at |-> r.at, after |-> r.after]

BsExit(m) ==
    /\ bsAdapter' = [bsAdapter EXCEPT ![m] = BsNewAdapter]
    /\ bsAt' = [bsAt EXCEPT ![m] = "sense"] /\ bsCycle' = [bsCycle EXCEPT ![m] = <<>>]
    /\ bsLock' = IF bsLock = m THEN BsNobody ELSE bsLock
    /\ bsMem' = IF bsLock = m THEN BsEmpty ELSE bsMem

(* What a record must be; a reader of the files asks it as well.           *)
BsValid(r) == r.family \in BsFamilies /\ r.module \in BsModules /\ r.at >= 0

BsJournalled(r) == Append(bsJournal, r)

(* One record: it is journalled, then applied.  A full table raises after  *)
(* the append; nothing catches it, the process ends and is started again.  *)
BsMerge(m) ==
    /\ bsAt[m] = "merge" /\ bsCycle[m] # <<>> /\ Len(bsJournal) < BsEvents
    /\ LET r == Head(bsCycle[m])
       IN  /\ BsValid(r)
           /\ bsJournal' = BsJournalled(r)
           /\ IF BsFull(r.family, m)
              THEN BsExit(m)
              ELSE /\ bsMem' = [bsMem EXCEPT ![r.family][m] = BsNewest(@, r)]
                   /\ bsCycle' = [bsCycle EXCEPT ![m] = Tail(@)]
                   /\ UNCHANGED <<bsAdapter, bsAt, bsLock>>
    /\ UNCHANGED <<bsSnapshot, bsDone, bsWall, bsFollower, bsFaults>>

(* The snapshot file is replaced in one rename, and the lock released.     *)
BsWrite(m) ==
    /\ bsAt[m] = "merge" /\ bsCycle[m] = <<>>
    /\ bsSnapshot' = bsMem /\ bsMem' = BsEmpty
    /\ bsDone' = [f \in BsFamilies |-> [bsDone[f] EXCEPT ![m] = bsMem[f][m].at]]
    /\ bsLock' = BsNobody
    /\ bsAt' = [bsAt EXCEPT ![m] = "sense"]
    /\ UNCHANGED <<bsAdapter, bsCycle, bsJournal, bsWall, bsFollower, bsFaults>>

-----------------------------------------------------------------------------
(* Faults: a process is killed, and the kernel frees its lock; the host    *)
(* reboots, which clears the snapshot under /run; the clock moves.         *)

BsCrash(m) ==
    /\ bsFaults < BsFaults /\ bsFaults' = bsFaults + 1
    /\ BsExit(m)
    /\ UNCHANGED <<bsSnapshot, bsJournal, bsDone, bsWall, bsFollower>>

BsReboot ==
    /\ bsFaults < BsFaults /\ bsFaults' = bsFaults + 1
    /\ bsAdapter' = [m \in BsModules |-> BsNewAdapter]
    /\ bsAt' = [m \in BsModules |-> "sense"] /\ bsCycle' = [m \in BsModules |-> <<>>]
    /\ bsLock' = BsNobody /\ bsMem' = BsEmpty /\ bsSnapshot' = BsEmpty
    /\ bsDone' = [f \in BsFamilies |-> [m \in BsModules |-> 0]]
    /\ bsRuntime' = "down" /\ bsOffset' = 0 /\ bsTold' = [m \in BsModules |-> "none"]
    /\ UNCHANGED <<bsJournal, bsWall, bsBoots>>

BsClock(t) ==
    /\ t # bsWall /\ t < bsWall => bsFaults < BsFaults
    /\ bsWall' = t
    /\ bsFaults' = IF t < bsWall THEN bsFaults + 1 ELSE bsFaults
    /\ UNCHANGED <<bsProducer, bsFollower>>

-----------------------------------------------------------------------------
(* The Runtime's follower.                                                 *)

BsHealthyStates == {"ONLINE", "UNKNOWN"}

(* prime: history before this process is ignored.                          *)
BsPrime ==
    /\ bsRuntime = "down" /\ bsBoots < BsBoots
    /\ bsBoots' = bsBoots + 1
    /\ bsOffset' = Len(bsJournal)
    /\ bsTold' = [m \in BsModules |-> "none"]
    /\ bsRuntime' = "primed"
    /\ UNCHANGED <<bsProducer, bsWall, bsFaults>>

(* publish_current_unhealthy: the unhealthy states of the snapshot.        *)
BsReportCurrent ==
    /\ bsRuntime = "primed"
    /\ bsTold' = [m \in BsModules |->
          LET state == bsSnapshot["health"][m].after
          IN  IF state \in BsHealthyStates THEN bsTold[m] ELSE state]
    /\ bsRuntime' = "armed"
    /\ UNCHANGED <<bsOffset, bsBoots, bsProducer, bsWall, bsFaults>>

(* A line of the journal that holds a health record.                       *)
BsParsed(r) == BsValid(r) /\ r.family = "health"

(* poll: every complete line after the offset, in order.                   *)
BsPoll ==
    LET new == SelectSeq(SubSeq(bsJournal, bsOffset + 1, Len(bsJournal)), BsParsed)
    IN  /\ bsRuntime = "armed" /\ bsOffset < Len(bsJournal)
        /\ bsOffset' = Len(bsJournal)
        /\ bsTold' = FoldLeft(LAMBDA told, r : [told EXCEPT ![r.module] = r.after],
                              bsTold, new)
        /\ UNCHANGED <<bsRuntime, bsBoots, bsProducer, bsWall, bsFaults>>

BsRuntimeStop ==
    /\ bsRuntime # "down"
    /\ bsRuntime' = "down"
    /\ UNCHANGED <<bsOffset, bsTold, bsBoots, bsProducer, bsWall, bsFaults>>

BsNext ==
    \/ \E m \in BsModules :
          \/ BsObserve(m) \/ \E d \in BsDetails : BsMarkFailure(m, d)
          \/ BsAcquire(m) \/ BsMerge(m) \/ BsWrite(m) \/ BsCrash(m)
    \/ BsReboot \/ \E t \in 1 .. BsClockMax : BsClock(t)
    \/ BsPrime \/ BsReportCurrent \/ BsPoll \/ BsRuntimeStop

BsSpec == BsInit /\ [][BsNext]_bsVars

-----------------------------------------------------------------------------
(* No publication is lost: what a publish_many that returned left in the   *)
(* snapshot is there, or something newer, whatever other processes, of     *)
(* which each reads and replaces the whole file, did since.                *)
BsMerged ==
    \A f \in BsFamilies, m \in BsModules : bsSnapshot[f][m].at >= bsDone[f][m]

(* docs/self_health_speech_protocol.md: "a fault that already existed      *)
(* before Runtime started is not silently grandfathered into the session": *)
(* once the follower has read the whole journal, the Runtime was told of   *)
(* every unhealthy state in the snapshot.                                  *)
BsFaultTold ==
    bsRuntime = "armed" /\ bsOffset = Len(bsJournal) =>
        \A m \in BsModules : \/ bsSnapshot["health"][m].after \in BsHealthyStates
                             \/ bsTold[m] # "none"
=============================================================================
