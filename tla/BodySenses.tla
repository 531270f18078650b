------------------------------ MODULE BodySenses ------------------------------
(***************************************************************************)
(* The bridges of four single-source senses into the body state: the       *)
(* microphone health probe, the GNSS receiver, the vehicle's supply and    *)
(* ignition, and the contactless-token reader.  Each is a process of its   *)
(* own around an adapter object; a process that ends is started again by   *)
(* systemd with a new adapter over the same body state.  They share only   *)
(* the locked body state of BodyState, so one of them is followed at a     *)
(* time.                                                                   *)
(*                                                                         *)
(* A health record carries the wall clock's time.  The clock may be set    *)
(* between any two records, so a record's stamp is any time, and the body  *)
(* state ignores one that is older than the record it holds.               *)
(***************************************************************************)
EXTENDS Integers, FiniteSets

CONSTANTS
    AdTags,           \* token reader: references of the tags presented
    AdStaleAfter,     \* GNSS: stale_after_ms, in turns
    AdRepeat,         \* token reader: repeat_suppression_ms, in turns
    AdFailures,       \* microphone: failure_threshold
    AdFaults,         \* bound: writes of the body state that fail
    AdClock           \* bound: the times the wall clock may show, from 0

AdSenses == {"microphone", "gnss", "power", "token"}
AdStates == {"UNKNOWN", "ONLINE", "DEGRADED", "FAILED"}
AdOld == AdStaleAfter + AdRepeat + 2   \* ages beyond it are not told apart

ASSUME AdAssumption ==
    /\ AdStaleAfter \in Nat /\ AdRepeat \in Nat /\ AdFaults \in Nat
    /\ AdFailures \in Nat \ {0} /\ AdClock \in Nat

VARIABLES
    adSense,   \* the sense followed
    adUp,      \* its process runs
    adState,   \* the adapter's health state
    adWhy,     \* microphone: last reason; power: last band
    adFails,   \* microphone: consecutive failures; token: consecutive errors
    adAge,     \* turns since the last observation or presentation; -1: none
    adStale,   \* GNSS: staleness was reported
    adTag,     \* token reader: the last reference
    adShown,   \* the body state's health record of the sense and its stamp
    adSaid,    \* history: the stamp of the last health record written
    adMissed,  \* history: captures failed in a row in this process
    adFaults

adVars == <<adSense, adUp, adState, adWhy, adFails, adAge, adStale, adTag,
            adShown, adSaid, adMissed, adFaults>>

AdTypeOK ==
    /\ adSense \in AdSenses /\ adUp \in BOOLEAN /\ adState \in AdStates
    /\ adFails \in 0 .. 3 \cup 0 .. AdFailures /\ adAge \in -1 .. AdOld
    /\ adStale \in BOOLEAN /\ adTag \in AdTags \cup {"none"}
    /\ adShown.st \in AdStates /\ adShown.at \in 0 .. AdClock /\ adSaid \in 0 .. AdClock
    /\ adFaults \in 0 .. AdFaults

AdNewAdapter ==
    /\ adState' = "UNKNOWN" /\ adWhy' = "none" /\ adFails' = 0 /\ adAge' = -1
    /\ adStale' = FALSE /\ adTag' = "none" /\ adMissed' = 0

AdInit ==
    /\ adSense \in AdSenses /\ adUp = FALSE
    /\ adState = "UNKNOWN" /\ adWhy = "none" /\ adFails = 0 /\ adAge = -1
    /\ adStale = FALSE /\ adTag = "none" /\ adMissed = 0
    /\ adShown = [st |-> "UNKNOWN", at |-> 0] /\ adSaid = 0 /\ adFaults = 0

AdLeast(a, b) == IF a <= b THEN a ELSE b
AdOlder == IF adAge = -1 THEN -1 ELSE AdLeast(adAge + 1, AdOld)

(* _apply of the body state: a health record stamped t, unless the one     *)
(* held is later.                                                          *)
AdApply(held, st, t) == IF t < held.at THEN held ELSE [st |-> st, at |-> t]

(* A health record is written, whether or not the body state took it.      *)
AdWrite(st) == \E t \in 0 .. AdClock : adShown' = AdApply(adShown, st, t) /\ adSaid' = t

(* A write of the body state fails.                                        *)
AdUnwritten ==
    adFaults < AdFaults /\ adFaults' = adFaults + 1 /\ UNCHANGED <<adShown, adSaid>>

(* publish_many: the sensor record and the health record of a cycle, of    *)
(* which only the health is followed; a failed write ends the process,     *)
(* whatever the adapter has become.                                        *)
AdPublish(told, sensor) ==
    \/ told /\ AdWrite(adState') /\ UNCHANGED <<adUp, adFaults>>
    \/ ~told /\ UNCHANGED <<adShown, adSaid, adUp, adFaults>>
    \/ (told \/ sensor) /\ AdUnwritten /\ adUp' = FALSE

-----------------------------------------------------------------------------
(* The microphone: a window of samples, by the states of its channels.     *)

AdChannels == {"DIGITAL_SILENCE", "CLIPPING", "QUIET", "ACTIVE"}
AdWindows == (SUBSET AdChannels) \ {{}}

AdAnalysis(window) ==
    CASE "CLIPPING" \in window -> [st |-> "DEGRADED", reason |-> "CHANNEL_CLIPPING"]
      [] "CLIPPING" \notin window /\ "DIGITAL_SILENCE" \in window ->
           [st |-> "DEGRADED", reason |-> "CHANNEL_DIGITAL_SILENCE"]
      [] OTHER -> [st |-> "ONLINE", reason |-> "none"]

(* arecord returned whole frames: the adapter takes the analysis.          *)
AdMicObserve ==
    /\ adSense = "microphone" /\ adUp
    /\ \E window \in AdWindows :
         LET a == AdAnalysis(window)
         IN  /\ adState' = a.st /\ adWhy' = a.reason
             /\ AdPublish(adState # a.st \/ adWhy # a.reason \/ adState = "UNKNOWN", TRUE)
    /\ adFails' = 0 /\ adMissed' = 0
    /\ UNCHANGED <<adSense, adAge, adStale, adTag>>

(* What a failed capture makes of the adapter, and whether it is told.     *)
AdMicFailure ==
    LET n == AdLeast(adFails + 1, AdFailures)
        st == IF n >= AdFailures THEN "FAILED" ELSE "DEGRADED"
    IN  [fails |-> n, st |-> st,
         told |-> ~(adState = st /\ adWhy = "CAPTURE_FAILURE")]

(* arecord fails, times out, or returns partial frames.                    *)
AdMicFails ==
    /\ adSense = "microphone" /\ adUp
    /\ LET f == AdMicFailure
       IN  /\ adFails' = f.fails /\ adState' = f.st /\ adWhy' = "CAPTURE_FAILURE"
           /\ AdPublish(f.told, FALSE)
    /\ adMissed' = AdLeast(adMissed + 1, AdFailures)
    /\ UNCHANGED <<adSense, adAge, adStale, adTag>>

-----------------------------------------------------------------------------
(* The GNSS receiver.                                                      *)

(* What parse_nmea_sentence takes from the line: a GGA or RMC sentence     *)
(* with a fix or without.  A checksum that is there must be right; a       *)
(* sentence without one is taken.                                          *)
AdSentences == {"fix", "no fix"}

AdGnssObserve ==
    /\ adSense = "gnss" /\ adUp
    /\ \E s \in AdSentences : adState' = IF s = "fix" THEN "ONLINE" ELSE "DEGRADED"
    /\ AdPublish(adState # adState', TRUE)
    /\ adAge' = 0 /\ adStale' = FALSE
    /\ UNCHANGED <<adSense, adWhy, adFails, adTag, adMissed>>

(* check_stale of the adapter after a turn.                                *)
AdCheckStale ==
    /\ adAge' = AdOlder
    /\ \/ /\ adAge' # -1 /\ adAge' > AdStaleAfter /\ ~adStale
          /\ adState' = "DEGRADED" /\ adStale' = TRUE /\ AdPublish(TRUE, FALSE)
       \/ /\ adAge' = -1 \/ adAge' <= AdStaleAfter \/ adStale
          /\ UNCHANGED <<adState, adStale, adShown, adSaid, adUp, adFaults>>

(* A turn with no line.                                                    *)
AdGnssQuiet ==
    /\ adSense = "gnss" /\ adUp /\ AdCheckStale
    /\ UNCHANGED <<adSense, adWhy, adFails, adTag, adMissed>>

(* Noise on the line counts as a sign of life.                             *)
MutAdGnssNoise ==
    /\ adSense = "gnss" /\ adUp
    /\ adAge' = AdOlder
    /\ UNCHANGED <<adState, adStale, adShown, adSaid, adUp, adFaults>>
    /\ UNCHANGED <<adSense, adWhy, adFails, adTag, adMissed>>

(* A line that is not a trustworthy sentence counts as no observation.     *)
AdGnssNoise ==
    /\ adSense = "gnss" /\ adUp
    /\ AdCheckStale
    /\ UNCHANGED <<adSense, adWhy, adFails, adTag, adMissed>>

(* The serial port fails: the failure is published and the process ends.   *)
AdGnssFails ==
    /\ adSense = "gnss" /\ adUp
    /\ adState' = "FAILED" /\ adUp' = FALSE
    /\ \/ AdWrite("FAILED") /\ UNCHANGED adFaults
       \/ AdUnwritten
    /\ UNCHANGED <<adSense, adWhy, adFails, adAge, adStale, adTag, adMissed>>

-----------------------------------------------------------------------------
(* The vehicle's supply.                                                   *)

(* The bands classify_voltage tells apart.                                 *)
AdBands == {"CRITICAL_LOW", "LOW", "NORMAL", "CHARGING", "HIGH"}

AdPowerObserve ==
    /\ adSense = "power" /\ adUp
    /\ \E band \in AdBands :
         /\ adState' = IF band \in {"NORMAL", "CHARGING"} THEN "ONLINE" ELSE "DEGRADED"
         /\ adWhy' = band
         /\ AdPublish(adState # adState' \/ adWhy # band, TRUE)
    /\ UNCHANGED <<adSense, adFails, adAge, adStale, adTag, adMissed>>

(* The files cannot be read, or hold a voltage above the maximum.          *)
AdPowerFails ==
    /\ adSense = "power" /\ adUp
    /\ \/ adState = "FAILED" /\ UNCHANGED <<adState, adWhy, adShown, adSaid, adUp, adFaults>>
       \/ adState # "FAILED" /\ adState' = "FAILED" /\ adWhy' = "none" /\ AdPublish(TRUE, FALSE)
    /\ UNCHANGED <<adSense, adFails, adAge, adStale, adTag, adMissed>>

-----------------------------------------------------------------------------
(* The contactless-token reader.                                           *)

(* The same tag within the suppression window of its last publication.     *)
AdRepeated(t) == t = adTag /\ adAge # -1 /\ adAge < AdRepeat

AdTokenObserve ==
    /\ adSense = "token" /\ adUp /\ adFails' = 0
    /\ \E t \in AdTags :
         \/ AdRepeated(t) /\ UNCHANGED <<adTag, adAge, adState, adShown, adSaid, adUp, adFaults>>
         \/ /\ ~AdRepeated(t)
            /\ adTag' = t /\ adAge' = 0 /\ adState' = "ONLINE"
            /\ AdPublish(adState \in {"FAILED", "UNKNOWN"}, TRUE)
    /\ UNCHANGED <<adSense, adWhy, adStale, adMissed>>

(* Nothing on the reader: the count of errors stands.                      *)
AdTokenQuiet ==
    /\ adSense = "token" /\ adUp /\ adAge' = AdOlder
    /\ UNCHANGED <<adSense, adUp, adState, adWhy, adFails, adStale, adTag,
                   adShown, adSaid, adMissed, adFaults>>

(* The bridge gives up one error too late.                                 *)
MutAdTokenError ==
    /\ adSense = "token" /\ adUp /\ adFails' = adFails + 1
    /\ \/ adFails' < 4 /\ UNCHANGED <<adState, adTag, adAge, adShown, adSaid, adUp, adFaults>>
       \/ /\ adFails' >= 4
          /\ adState' = "FAILED" /\ adTag' = "none" /\ adAge' = -1 /\ adUp' = FALSE
          /\ \/ AdWrite("FAILED") /\ UNCHANGED adFaults
             \/ AdUnwritten
    /\ UNCHANGED <<adSense, adWhy, adStale, adMissed>>

(* A frame that cannot be read; at the third the bridge gives up.          *)
AdTokenError ==
    /\ adSense = "token" /\ adUp /\ adFails' = adFails + 1
    /\ \/ adFails' < 3 /\ UNCHANGED <<adState, adTag, adAge, adShown, adSaid, adUp, adFaults>>
       \/ /\ adFails' >= 3
          /\ adState' = "FAILED" /\ adTag' = "none" /\ adAge' = -1 /\ adUp' = FALSE
          /\ \/ AdWrite("FAILED") /\ UNCHANGED adFaults
             \/ AdUnwritten
    /\ UNCHANGED <<adSense, adWhy, adStale, adMissed>>

-----------------------------------------------------------------------------
(* systemd starts the process: a new adapter.  The GNSS port and the token *)
(* reader's files may not open, which is published before it ends, unless  *)
(* the body state cannot be written either.                                *)
AdStart ==
    /\ ~adUp /\ UNCHANGED <<adSense, adFaults>>
    /\ \/ /\ adSense \in {"microphone", "power", "gnss"}
          /\ AdNewAdapter /\ adUp' = TRUE /\ UNCHANGED <<adShown, adSaid>>
       \/ /\ adSense = "token"      \* mark_ready
          /\ adState' = "ONLINE" /\ AdWrite("ONLINE")
          /\ adWhy' = "none" /\ adFails' = 0 /\ adAge' = -1 /\ adStale' = FALSE
          /\ adTag' = "none" /\ adMissed' = 0 /\ adUp' = TRUE
       \/ /\ adSense \in {"gnss", "token"}
          /\ AdNewAdapter /\ adUp' = FALSE
          /\ AdWrite("FAILED") \/ UNCHANGED <<adShown, adSaid>>

AdNext == \/ AdMicObserve \/ AdMicFails
          \/ AdGnssObserve \/ AdGnssQuiet \/ AdGnssNoise \/ AdGnssFails
          \/ AdPowerObserve \/ AdPowerFails
          \/ AdTokenObserve \/ AdTokenQuiet \/ AdTokenError
          \/ AdStart

AdSpec == AdInit /\ [][AdNext]_adVars

-----------------------------------------------------------------------------
(* The record the body state shows is later than the last one written:     *)
(* that one was ignored, for the clock was set back before it.             *)
AdHidden == adShown.at > adSaid

(* While a bridge runs, the health the body state shows of its sense is    *)
(* the adapter's, once the adapter has one, unless its report was ignored: *)
(* reports that are suppressed as repetitions never hide a change of       *)
(* state.                                                                  *)
AdTold == adUp /\ adState # "UNKNOWN" => adShown.st = adState \/ AdHidden

(* A receiver whose trustworthy sentences stopped is not shown online past *)
(* the staleness window and a turn, however much noise the line carries,   *)
(* unless the report of it was ignored.                                    *)
AdSilenceTold ==
    adSense = "gnss" /\ adUp /\ adState # "UNKNOWN" /\ adAge > AdStaleAfter
        => adShown.st # "ONLINE" \/ AdHidden

(* The microphone is shown FAILED exactly when as many captures in a row   *)
(* failed as the threshold asks, as long as the process that counts lives  *)
(* and its report was not ignored.                                         *)
AdFailedTold ==
    adSense = "microphone" /\ adUp /\ adState # "UNKNOWN"
        => (adShown.st = "FAILED" <=> adMissed >= AdFailures) \/ AdHidden

(* The body state does not show a sense as better than its bridge knows,   *)
(* but for a clock that was set back.                                      *)
AdSound == AdTold /\ AdSilenceTold /\ AdFailedTold
=============================================================================
