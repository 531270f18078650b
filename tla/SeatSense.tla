------------------------------- MODULE SeatSense -------------------------------
(***************************************************************************)
(* One seat's witnesses on one read-only serial line: a radar, a pressure  *)
(* array, a body map derived from it, and a heartbeat sensor.  Each has an *)
(* adapter object that keeps the order of its stream and a health state;   *)
(* the bridge process reads a line, gives it to the adapter of its schema  *)
(* and publishes what the adapter says into the body state.                *)
(*                                                                         *)
(* A line is what its parser makes of it: a report with a health, or a     *)
(* refusal whose text the adapters' 96-character bound takes or not.       *)
(*                                                                         *)
(* A health record carries the wall clock's time.  The clock may be set    *)
(* between any two records, so a record's stamp is any time, and the body  *)
(* state ignores one that is older than the record it holds.               *)
(***************************************************************************)
EXTENDS Integers, Sequences

CONSTANTS
    SnConfigs,        \* configurations: sequences of the witnesses enabled
    SnStaleAfter,     \* stale_after_ms, in turns of the read loop
    SnThreshold,      \* failure_threshold
    SnLongReasons,    \* source failures whose text exceeds the bound
    SnBoots, SnSeqs,  \* bounds: boots of the node, sequence numbers
    SnEvents,         \* bound: lines and source failures
    SnClock           \* bound: the times the wall clock may show, from 0

SnWitnesses == {"radar", "pressure", "map", "beat"}
SnStates == {"UNKNOWN", "ONLINE", "DEGRADED", "FAILED"}
SnReasons == {"none", "replay", "invalid", "schema", "read", "open", "io",
              "detail", "reason"}
SnOld == SnStaleAfter + 2   \* an age beyond which ages are not told apart

ASSUME SnAssumption ==
    /\ SnStaleAfter \in Nat /\ SnThreshold \in Nat \ {0} /\ SnClock \in Nat
    /\ SnBoots \in Nat \ {0} /\ SnSeqs \in Nat \ {0} /\ SnEvents \in Nat
    /\ SnLongReasons \subseteq SnReasons
    /\ SnConfigs \subseteq Seq(SnWitnesses)
    /\ \A c \in SnConfigs : \E i \in DOMAIN c : c[i] = "radar"  \* main makes it always

VARIABLES
    snOn,        \* the witnesses enabled, in the order the bridge visits them
    snAdapter,   \* per witness: the fields of its adapter object
    snShown,     \* per witness: the body state's health record and its stamp
    snSaid,      \* history, per witness: the stamp of the last health record written
    snPc,        \* where the bridge's loop is
    snTodo,      \* witnesses still to visit in this turn
    snWhy,       \* the failure being handled
    snReport,    \* the pressure report on its way to the body map
    snEvents

snVars == <<snOn, snAdapter, snShown, snSaid, snPc, snTodo, snWhy,
            snReport, snEvents>>

(* A new adapter: nothing seen; age -1 stands for no observation yet.      *)
SnNew == [st |-> "UNKNOWN", boot |-> 0, seq |-> 0, up |-> 0, age |-> -1,
          stale |-> FALSE, fails |-> 0, why |-> "none"]

SnTypeOK ==
    /\ snOn \in SnConfigs
    /\ \A w \in SnWitnesses :
         /\ snAdapter[w].st \in SnStates /\ snShown[w].st \in SnStates
         /\ snAdapter[w].boot \in 0 .. SnBoots /\ snAdapter[w].seq \in 0 .. SnSeqs
         /\ snAdapter[w].age \in -1 .. SnOld /\ snAdapter[w].fails \in 0 .. SnThreshold
         /\ snAdapter[w].why \in SnReasons
         /\ snShown[w].at \in 0 .. SnClock /\ snSaid[w] \in 0 .. SnClock
    /\ snPc \in {"open", "read", "stale", "map", "fail", "down"}
    /\ snWhy \in SnReasons /\ snEvents \in 0 .. SnEvents

SnInit ==
    /\ snOn \in SnConfigs
    /\ snAdapter = [w \in SnWitnesses |-> SnNew]
    /\ snShown = [w \in SnWitnesses |-> [st |-> "UNKNOWN", at |-> 0]]
    /\ snSaid = [w \in SnWitnesses |-> 0]
    /\ snPc = "open" /\ snTodo = <<>> /\ snWhy = "none" /\ snReport = <<>> /\ snEvents = 0

SnEnabled(w) == \E i \in DOMAIN snOn : snOn[i] = w
SnLesser(a, b) == IF a <= b THEN a ELSE b

-----------------------------------------------------------------------------
(* What the parsers of the three schemas make of a line: a refusal, with a *)
(* text within the bound or not, or a report with its health; a pressure   *)
(* report is of exactly the pads of the topology file, or not.             *)

SnRefusals == [parsed : {FALSE}, short : BOOLEAN]
SnHealths == {"ONLINE", "DEGRADED"}

(* parse_seat_node_line.                                                   *)
SnRadarReports == SnRefusals \cup [parsed : {TRUE}, health : SnHealths]

(* parse_seat_pressure_line.                                               *)
SnPressureReports == SnRefusals \cup [parsed : {TRUE}, health : SnHealths, fits : BOOLEAN]

(* parse_seat_heartbeat_line.                                              *)
SnBeatReports == SnRefusals \cup [parsed : {TRUE}, health : SnHealths]

-----------------------------------------------------------------------------
(* The adapters.  A cycle is the adapter after a call with the health      *)
(* transition it publishes, if any.                                        *)

SnCycle(a, told) == [adapter |-> a, told |-> told]

(* A stamp is the boot, the sequence number and the uptime of a line.      *)
SnReplayed(a, n) == /\ a.boot = n.boot
                    /\ n.seq <= a.seq \/ n.up < a.up

SnObserve(a, n, health) ==
    SnCycle([SnNew EXCEPT !.st = health, !.boot = n.boot, !.seq = n.seq,
                          !.up = n.up, !.age = 0],
            (a.boot # 0 /\ n.boot # a.boot) \/ a.st # health)

(* The body map keeps no stamp: only its health and the pattern of pads.   *)
SnMapObserve(a, health) ==
    SnCycle([SnNew EXCEPT !.st = health, !.age = 0], a.st # health)

SnReject(a, why) ==
    IF a.why = why THEN SnCycle(a, FALSE)
    ELSE SnCycle([a EXCEPT !.st = "DEGRADED", !.why = why], TRUE)

(* A change is published only when the reason changes, not when the        *)
(* failures reach the threshold.                                           *)
MutSnMarkFailure(a, why) ==
    LET n == SnLesser(a.fails + 1, SnThreshold)
        st == IF n >= SnThreshold THEN "FAILED" ELSE "DEGRADED"
    IN  SnCycle([a EXCEPT !.fails = n, !.st = st, !.why = why], a.why # why)

(* The count of failures is kept up to the threshold it is compared with.  *)
SnMarkFailure(a, why) ==
    LET n == SnLesser(a.fails + 1, SnThreshold)
        st == IF n >= SnThreshold THEN "FAILED" ELSE "DEGRADED"
    IN  IF a.st = st /\ a.why = why THEN SnCycle([a EXCEPT !.fails = n], FALSE)
        ELSE SnCycle([a EXCEPT !.fails = n, !.st = st, !.why = why], TRUE)

SnCheckStale(a) ==
    IF a.age = -1 \/ a.stale \/ a.age <= SnStaleAfter THEN SnCycle(a, FALSE)
    ELSE SnCycle([a EXCEPT !.st = "DEGRADED", !.stale = TRUE], TRUE)

(* d turns pass for every adapter that has seen an observation.            *)
SnAged(ads, d) ==
    [w \in SnWitnesses |->
       IF ads[w].age = -1 THEN ads[w]
       ELSE [ads[w] EXCEPT !.age = SnLesser(@ + d, SnOld)]]

-----------------------------------------------------------------------------
(* The bridge process.                                                     *)

(* An exception reaches the outer handler; a turn of the loop ends.        *)
SnToHandler(why) == snPc' = "fail" /\ snTodo' = snOn /\ snWhy' = why /\ snReport' = <<>>
SnBack == snPc' = "read" /\ snTodo' = <<>> /\ snWhy' = "none" /\ snReport' = <<>>

(* _apply of the body state: a health record stamped t, unless the one     *)
(* held is later.                                                          *)
SnApply(held, st, t) == IF t < held.at THEN held ELSE [st |-> st, at |-> t]

(* _publish_cycle: the records of one cycle of w are written, and the      *)
(* bridge goes on, whether or not the body state took them; or writing     *)
(* fails.  Of the records only the health is followed; a cycle without     *)
(* records is not written.                                                 *)
SnPublish(w, ads, c, sensor, after, failed) ==
    /\ snAdapter' = [ads EXCEPT ![w] = c.adapter]
    /\ \/ /\ c.told /\ after
          /\ \E t \in 0 .. SnClock :
               /\ snShown' = [snShown EXCEPT ![w] = SnApply(@, c.adapter.st, t)]
               /\ snSaid' = [snSaid EXCEPT ![w] = t]
       \/ ~c.told /\ after /\ UNCHANGED <<snShown, snSaid>>
       \/ (c.told \/ sensor) /\ failed /\ UNCHANGED <<snShown, snSaid>>

SnSpend == snEvents < SnEvents /\ snEvents' = snEvents + 1

(* ReadOnlyJsonSerial opens the device, or raises.                         *)
SnOpen ==
    /\ snPc = "open"
    /\ \/ SnBack /\ UNCHANGED snEvents
       \/ SnSpend /\ SnToHandler("open")
    /\ UNCHANGED <<snOn, snAdapter, snShown, snSaid>>

(* readline() fails: the device is gone, or a line exceeded its bound.     *)
SnSourceFails ==
    /\ snPc = "read" /\ SnSpend /\ SnToHandler("read")
    /\ UNCHANGED <<snOn, snAdapter, snShown, snSaid>>

(* readline() times out: only then are the adapters asked for staleness.   *)
SnTimeout ==
    /\ snPc = "read" /\ snPc' = "stale" /\ snTodo' = snOn
    /\ snAdapter' = SnAged(snAdapter, 1)
    /\ UNCHANGED <<snOn, snShown, snSaid, snWhy, snReport, snEvents>>

SnStaleStep ==
    /\ snPc = "stale"
    /\ \/ snTodo = <<>> /\ SnBack /\ UNCHANGED <<snAdapter, snShown, snSaid, snEvents>>
       \/ /\ snTodo # <<>>
          /\ SnPublish(Head(snTodo), snAdapter, SnCheckStale(snAdapter[Head(snTodo)]), FALSE,
                       /\ snTodo' = Tail(snTodo)
                       /\ UNCHANGED <<snPc, snWhy, snReport, snEvents>>,
                       SnSpend /\ SnToHandler("io"))
    /\ UNCHANGED snOn

SnStamps == [boot : 1 .. SnBoots, seq : 1 .. SnSeqs, up : 0 .. 1]

(* reject_observation with a text it takes; any other raises ValueError    *)
(* inside the except clause, which is the outer handler's.                 *)
SnRefuse(w, ads, why, short) ==
    \/ short /\ SnPublish(w, ads, SnReject(ads[w], why), FALSE, SnBack, SnToHandler("io"))
    \/ ~short /\ snAdapter' = ads /\ UNCHANGED <<snShown, snSaid>> /\ SnToHandler("detail")

(* A line of the witness w: ignored, rejected, or observed and published.  *)
SnTake(w, r, n, after) ==
    \E d \in 0 .. 1 :
      LET ads == SnAged(snAdapter, d)
      IN  \/ ~SnEnabled(w) /\ snAdapter' = ads /\ UNCHANGED <<snShown, snSaid>> /\ SnBack
          \/ SnEnabled(w) /\ ~r.parsed /\ SnRefuse(w, ads, "invalid", r.short)
          \/ SnEnabled(w) /\ r.parsed /\ SnReplayed(ads[w], n) /\ SnRefuse(w, ads, "replay", TRUE)
          \/ /\ SnEnabled(w) /\ r.parsed /\ ~SnReplayed(ads[w], n)
             /\ SnPublish(w, ads, SnObserve(ads[w], n, r.health), TRUE, after, SnToHandler("io"))

SnLine == snPc = "read" /\ SnSpend /\ UNCHANGED snOn

SnRadarLine ==
    SnLine /\ \E r \in SnRadarReports, n \in SnStamps : SnTake("radar", r, n, SnBack)

SnBeatLine ==
    SnLine /\ \E r \in SnBeatReports, n \in SnStamps : SnTake("beat", r, n, SnBack)

(* A pressure report that was published goes on to the body map.           *)
SnPressureLine ==
    /\ SnLine
    /\ \E r \in SnPressureReports, n \in SnStamps :
         SnTake("pressure", r, n,
                \/ ~SnEnabled("map") /\ SnBack
                \/ /\ SnEnabled("map") /\ snPc' = "map" /\ snReport' = <<r>>
                   /\ UNCHANGED <<snTodo, snWhy>>)

(* A line that is not JSON is a pressure protocol error; a line of another *)
(* schema is the radar's to reject.                                        *)
SnOtherLine ==
    /\ SnLine
    /\ \E json \in BOOLEAN, short \in BOOLEAN, d \in 0 .. 1 :
         LET ads == SnAged(snAdapter, d)
         IN  \/ json /\ SnRefuse("radar", ads, "schema", short)
             \/ ~json /\ SnEnabled("pressure") /\ SnRefuse("pressure", ads, "invalid", short)
             \/ ~json /\ ~SnEnabled("pressure") /\ snAdapter' = ads /\ SnBack
                /\ UNCHANGED <<snShown, snSaid>>

(* The body map takes a report of exactly its pads.  Of any other it says  *)
(* so with a text that is always over the bound: mark_failure raises.      *)
SnMapStep ==
    /\ snPc = "map"
    /\ LET r == snReport[1]
       IN  \/ /\ r.fits
              /\ SnPublish("map", snAdapter, SnMapObserve(snAdapter["map"], r.health), TRUE,
                           SnBack /\ UNCHANGED snEvents, SnSpend /\ SnToHandler("io"))
           \/ /\ ~r.fits /\ SnToHandler("reason")
              /\ UNCHANGED <<snAdapter, snShown, snSaid, snEvents>>
    /\ UNCHANGED snOn

(* The outer handler marks every adapter.  A text over the bound raises    *)
(* again, and a failed write too: nothing catches them, the process ends.  *)
SnHandlerStep ==
    /\ snPc = "fail"
    /\ \/ /\ snTodo = <<>> /\ snPc' = "open" /\ snWhy' = "none"
          /\ snAdapter' = SnAged(snAdapter, 1)
          /\ UNCHANGED <<snTodo, snShown, snSaid, snReport, snEvents>>
       \/ /\ snTodo # <<>> /\ snWhy \in SnLongReasons /\ snPc' = "down"
          /\ UNCHANGED <<snAdapter, snShown, snSaid, snTodo, snWhy, snReport, snEvents>>
       \/ /\ snTodo # <<>> /\ snWhy \notin SnLongReasons
          /\ SnPublish(Head(snTodo), snAdapter,
                       SnMarkFailure(snAdapter[Head(snTodo)], snWhy), FALSE,
                       /\ snTodo' = Tail(snTodo)
                       /\ UNCHANGED <<snPc, snWhy, snReport, snEvents>>,
                       SnSpend /\ snPc' = "down" /\ UNCHANGED <<snTodo, snWhy, snReport>>)
    /\ UNCHANGED snOn

(* systemd starts the bridge again: new adapters over the same body state. *)
SnRestart ==
    /\ snPc = "down" /\ snPc' = "open" /\ snTodo' = <<>> /\ snWhy' = "none"
    /\ snAdapter' = [w \in SnWitnesses |-> SnNew] /\ snReport' = <<>>
    /\ UNCHANGED <<snOn, snShown, snSaid, snEvents>>

SnNext == \/ SnOpen \/ SnSourceFails \/ SnTimeout \/ SnStaleStep
          \/ SnRadarLine \/ SnBeatLine \/ SnPressureLine \/ SnOtherLine
          \/ SnMapStep \/ SnHandlerStep \/ SnRestart

SnSpec == SnInit /\ [][SnNext]_snVars

-----------------------------------------------------------------------------
(* Whenever the bridge waits for a line, the health the body state shows   *)
(* of a witness is the state of its adapter, if the adapter has one, or is *)
(* stamped later than all the bridge wrote since, which then a clock that  *)
(* was set back explains: failed writes, rejected lines, repeated failures *)
(* whose report is suppressed and restarts of the node all end in          *)
(* agreement.                                                              *)
SnTold ==
    snPc = "read" =>
        \A w \in SnWitnesses :
            snAdapter[w].st # "UNKNOWN" =>
                snShown[w].st = snAdapter[w].st \/ snShown[w].at > snSaid[w]
=============================================================================
