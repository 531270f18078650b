----------------------------- MODULE CurrentFrame -----------------------------
(***************************************************************************)
(* The current camera frame: one cycle captures a still, from a camera     *)
(* process or from a file an upstream writer keeps replacing, inspects the *)
(* bytes and replaces the one published file.  A content is whole,         *)
(* truncated or foreign; image parsing, names and permissions are data.    *)
(***************************************************************************)
EXTENDS Integers

CONSTANTS
    CfMaxAge,   \* max_age_seconds of the file source
    CfFuture,   \* tolerated clock difference of an upstream timestamp
    CfEnd,      \* bound: the clock
    CfWrites    \* bound: contents the upstream writer starts

ASSUME CfAssumption ==
    CfMaxAge \in Nat /\ CfFuture \in Nat /\ CfEnd \in Nat /\ CfWrites \in Nat

VARIABLES
    cfNow,
    cfUp,      \* the upstream file: inode, time of modification, content
    cfWrites,  \* contents started by the upstream writer
    cfAt,      \* where the publisher's cycle is
    cfBefore,  \* what stat said before the read
    cfBytes,   \* the bytes captured, with the time they are stamped with
    cfTemp,    \* the temporary file beside the target
    cfTarget   \* the published file

cfVars == <<cfNow, cfUp, cfWrites, cfAt, cfBefore, cfBytes, cfTemp, cfTarget>>

CfKinds == {"whole", "truncated", "foreign"}
CfNoBytes == [id |-> 0, kind |-> "truncated", modified |-> 0, stamp |-> 0]
CfAbsent == [inode |-> 0, modified |-> 0, id |-> 0, kind |-> "truncated", made |-> 0]

CfTypeOK ==
    /\ cfNow \in 0 .. CfEnd /\ cfWrites \in 0 .. CfWrites
    /\ cfUp.kind \in CfKinds /\ cfBytes.kind \in CfKinds
    /\ cfAt \in {"idle", "opened", "read", "captured", "written"}

CfInit ==
    /\ cfNow = 0 /\ cfUp = CfAbsent /\ cfWrites = 0
    /\ cfAt = "idle" /\ cfBefore = CfAbsent
    /\ cfBytes = CfNoBytes /\ cfTemp = CfNoBytes /\ cfTarget = CfNoBytes

-----------------------------------------------------------------------------
(* The upstream writer: a new file renamed into place, or the same file    *)
(* truncated and written again.  Every write has a modification time of    *)
(* its own (nanoseconds); the clock the age is taken from is coarser.      *)

CfRenamed(kind) ==
    /\ cfWrites < CfWrites /\ cfWrites' = cfWrites + 1
    /\ cfUp' = [inode |-> cfWrites + 1, modified |-> cfUp.modified + 1,
                id |-> cfWrites + 1, kind |-> kind, made |-> cfNow]
    /\ UNCHANGED <<cfNow, cfAt, cfBefore, cfBytes, cfTemp, cfTarget>>

CfTruncated ==
    /\ cfUp.inode # 0 /\ cfUp.kind # "truncated"
    /\ cfWrites < CfWrites /\ cfWrites' = cfWrites + 1
    /\ cfUp' = [cfUp EXCEPT !.modified = @ + 1, !.id = cfWrites + 1,
                            !.kind = "truncated", !.made = cfNow]
    /\ UNCHANGED <<cfNow, cfAt, cfBefore, cfBytes, cfTemp, cfTarget>>

CfRewritten ==
    /\ cfUp.inode # 0 /\ cfUp.kind = "truncated"
    /\ cfUp' = [cfUp EXCEPT !.modified = @ + 1, !.kind = "whole", !.made = cfNow]
    /\ UNCHANGED <<cfNow, cfWrites, cfAt, cfBefore, cfBytes, cfTemp, cfTarget>>

CfTick ==
    /\ cfNow < CfEnd /\ cfNow' = cfNow + 1
    /\ UNCHANGED <<cfUp, cfWrites, cfAt, cfBefore, cfBytes, cfTemp, cfTarget>>

-----------------------------------------------------------------------------
(* Inspection: a PNG or JPEG with its end marker, within the bounds.       *)
CfInspect(kind) == kind = "whole"

CfTimely(file) == cfNow - file.made \in -CfFuture .. CfMaxAge

(* FileFrameCaptureSource.capture: the path is examined, opened, read and  *)
(* examined again.                                                         *)
CfStat ==
    /\ cfAt = "idle" /\ cfUp.inode # 0 /\ CfTimely(cfUp)
    /\ cfBefore' = cfUp /\ cfAt' = "opened"
    /\ UNCHANGED <<cfNow, cfUp, cfWrites, cfBytes, cfTemp, cfTarget>>

(* The descriptor names the file the path named, or the cycle fails.       *)
CfRead ==
    /\ cfAt = "opened"
    /\ IF cfUp.inode = cfBefore.inode
       THEN /\ cfBytes' = [id |-> cfUp.id, kind |-> cfUp.kind, modified |-> cfUp.modified,
                           stamp |-> cfBefore.modified]
            /\ cfAt' = "read"
       ELSE cfAt' = "idle" /\ UNCHANGED cfBytes
    /\ UNCHANGED <<cfNow, cfUp, cfWrites, cfBefore, cfTemp, cfTarget>>

(* Only a replaced file is noticed, not one that is rewritten in place.    *)
MutCfUnchanged == cfUp.inode = cfBefore.inode

(* The same file, with the same time of modification, after the read.      *)
CfUnchanged == cfUp.inode = cfBefore.inode /\ cfUp.modified = cfBefore.modified

CfCheck ==
    /\ cfAt = "read"
    /\ cfAt' = IF CfUnchanged /\ CfInspect(cfBytes.kind) THEN "captured" ELSE "idle"
    /\ UNCHANGED <<cfNow, cfUp, cfWrites, cfBefore, cfBytes, cfTemp, cfTarget>>

(* The capture process gives bytes, or could not start, or is killed at    *)
(* its deadline.                                                           *)
CfOutcomes == CfKinds \cup {"not started", "timed out"}
CfProcessEnds(outcome) == outcome \in CfKinds

(* FfmpegV4L2FrameSource.capture: the output of the process is inspected   *)
(* and stamped with the time of the capture.                               *)
CfProcess(outcome) ==
    /\ cfAt = "idle"
    /\ CfProcessEnds(outcome) /\ CfInspect(outcome)
    /\ cfBytes' = [id |-> 0, kind |-> outcome, modified |-> cfNow, stamp |-> cfNow]
    /\ cfAt' = "captured"
    /\ UNCHANGED <<cfNow, cfUp, cfWrites, cfBefore, cfTemp, cfTarget>>

(* AtomicCurrentFramePublisher.publish: a temporary file is written, then  *)
(* renamed over the target.                                                *)
CfWriteTemp ==
    /\ cfAt = "captured" /\ CfInspect(cfBytes.kind)
    /\ cfTemp' \in {cfBytes, [cfBytes EXCEPT !.kind = "truncated"]}
    /\ cfAt' = IF cfTemp' = cfBytes THEN "written" ELSE "captured"
    /\ UNCHANGED <<cfNow, cfUp, cfWrites, cfBefore, cfBytes, cfTarget>>

(* The rename happens after every byte is written and synced.              *)
CfReplace == cfAt = "written"

CfPublish ==
    /\ CfReplace
    /\ cfTarget' = cfTemp /\ cfTemp' = CfNoBytes
    /\ cfAt' = "idle" /\ cfBytes' = CfNoBytes
    /\ UNCHANGED <<cfNow, cfUp, cfWrites, cfBefore>>

(* An error ends the cycle and removes the temporary file; a kill leaves   *)
(* it behind.                                                              *)
CfAbort(killed) ==
    /\ cfAt # "idle"
    /\ cfAt' = "idle" /\ cfBytes' = CfNoBytes
    /\ cfTemp' = IF killed THEN cfTemp ELSE CfNoBytes
    /\ UNCHANGED <<cfNow, cfUp, cfWrites, cfBefore, cfTarget>>

CfNext ==
    \/ \E kind \in CfKinds : CfRenamed(kind)
    \/ CfTruncated \/ CfRewritten \/ CfTick
    \/ CfStat \/ CfRead \/ CfCheck
    \/ \E outcome \in CfOutcomes : CfProcess(outcome)
    \/ CfWriteTemp \/ CfPublish \/ \E killed \in BOOLEAN : CfAbort(killed)

-----------------------------------------------------------------------------
(* The published file is a whole frame, stamped with the modification time *)
(* of the very content it holds, whenever the upstream file is replaced or *)
(* rewritten around the read and whenever the publisher is killed.         *)
CfTrueFrame ==
    cfTarget # CfNoBytes => /\ cfTarget.kind = "whole"
                            /\ cfTarget.stamp = cfTarget.modified
=============================================================================
