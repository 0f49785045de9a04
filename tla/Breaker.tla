------------------------------ MODULE Breaker ------------------------------
(***************************************************************************)
(* The circuit breaker of one carrier (internal/callcontrol/breaker.go):   *)
(* Record, window and trip, by the handlers of concurrent attempts.  A     *)
(* TxPipeline is one step, every other Redis command is a step of its own, *)
(* and the reply of any of them may be lost.  A key outlives the window it *)
(* is counted in.                                                          *)
(***************************************************************************)
EXTENDS Sums

CONSTANTS
    Recorders,    \* handlers that record attempts, one after the other each
    Consecutive,  \* ConsecutiveFaults
    MinSamples,
    Percent,      \* ASRThresholdPercent
    Window,       \* minutes in the window
    LastMinute,   \* bound on time
    MaxAttempts,  \* bound on attempts
    MaxLost       \* bound on commands that fail

ASSUME BreakerBounds ==
    /\ Consecutive \in Nat /\ MinSamples \in Nat /\ Percent \in Nat
    /\ Window \in Nat /\ LastMinute \in Nat

VARIABLES
    minute,
    consec,     \* cb:<id>:consec
    counted,    \* counted["att"][m], counted["ans"][m]: cb:<id>:att:<m>, cb:<id>:ans:<m>
    degraded,   \* cb:<id>:degraded: the reason, or "no"
    rec,        \* per recorder: [at, minute, att, low, failed]
    since,      \* faults in a row that were counted while nobody was tripping
    lostReplies

brkVars == <<minute, consec, counted, degraded, rec, since, lostReplies>>

Minutes == 0..LastMinute
Away == [at |-> "idle", minute |-> 0, att |-> 0, low |-> FALSE, failed |-> FALSE]
RecorderGoes(r, step) == rec' = [rec EXCEPT ![r] = step]
Reply(ok) == IF ok THEN UNCHANGED lostReplies
             ELSE lostReplies < MaxLost /\ lostReplies' = lostReplies + 1

\* The sum over the keys of the window that ends with minute m.
WindowSum(which, m) ==
    Total(counted[which], {k \in Minutes : k <= m /\ m < k + Window})
Low(attempts, answered) == attempts >= MinSamples /\ answered * 100 < attempts * Percent

BrkInit ==
    /\ minute = 0 /\ consec = 0 /\ degraded = "no" /\ since = 0 /\ lostReplies = 0
    /\ counted = [which \in {"att", "ans"} |-> [m \in Minutes |-> 0]]
    /\ rec = [r \in Recorders |-> Away]

\* Mutant: one fault more is needed.
MoreThanConsecutive(n) == n > Consecutive

Reached(n) == Consecutive > 0 /\ n >= Consecutive

\* Record's transaction: the attempt is counted in this minute, and ends a row
\* of faults unless it is one.  Without the reply Record ends.
Count(r, class, ok) ==
    /\ rec[r].at = "idle"
    /\ Reply(ok)
    /\ Total(counted["att"], Minutes) < MaxAttempts
    /\ counted' = [counted EXCEPT !["att"][minute] = @ + 1,
                                  !["ans"][minute] = IF class = "answered" THEN @ + 1 ELSE @]
    /\ consec' = IF class = "carrier_fault" THEN consec + 1 ELSE 0
    /\ since' = IF class # "carrier_fault" THEN 0
                ELSE IF ~ok \/ \E q \in Recorders : rec[q].at \in {"trip", "reset"} THEN since ELSE since + 1
    /\ RecorderGoes(r, IF ~ok THEN Away
                       ELSE IF class = "carrier_fault" /\ Reached(consec + 1)
                       THEN [Away EXCEPT !.at = "trip"]
                       ELSE IF Percent > 0 /\ MinSamples > 0
                       THEN [Away EXCEPT !.at = "att", !.minute = minute] ELSE Away)
    /\ UNCHANGED <<minute, degraded>>

\* window's MGET of the attempts; one that fails counts as 0.  low remembers
\* whether the carrier was below the threshold now.
ReadAttempts(r, ok) ==
    LET q == rec[r]
        attempts == WindowSum("att", q.minute)
    IN
    /\ q.at = "att"
    /\ Reply(ok)
    /\ RecorderGoes(r, [q EXCEPT !.at = "ans", !.att = IF ok THEN attempts ELSE 0,
                                 !.low = Low(attempts, WindowSum("ans", q.minute))])
    /\ UNCHANGED <<minute, consec, counted, degraded, since>>

\* window's MGET of the answers, and Record's decision.
ReadAnswers(r, ok) ==
    LET q == rec[r]
        answered == IF ok THEN WindowSum("ans", q.minute) ELSE 0
    IN
    /\ q.at = "ans"
    /\ Reply(ok)
    /\ RecorderGoes(r, IF Low(q.att, answered) THEN [q EXCEPT !.at = "low", !.failed = ~ok] ELSE Away)
    /\ UNCHANGED <<minute, consec, counted, degraded, since>>

\* trip sets the mark ...
SetDegraded(r, ok) ==
    /\ rec[r].at \in {"trip", "low"}
    /\ Reply(ok)
    /\ degraded' = IF ~ok THEN degraded
                   ELSE IF rec[r].at = "low" THEN "low_asr" ELSE "consecutive_faults"
    /\ since' = IF ok THEN since ELSE 0
    /\ RecorderGoes(r, [Away EXCEPT !.at = "reset"])
    /\ UNCHANGED <<minute, consec, counted>>

\* ... and clears the counter.
ResetConsec(r, ok) ==
    /\ rec[r].at = "reset"
    /\ Reply(ok)
    /\ consec' = IF ok THEN 0 ELSE consec
    /\ RecorderGoes(r, Away)
    /\ UNCHANGED <<minute, counted, degraded, since>>

\* The mark's time to live, DegradedFor, is over.
MarkExpires ==
    /\ degraded # "no"
    /\ degraded' = "no" /\ since' = 0
    /\ UNCHANGED <<minute, consec, counted, rec, lostReplies>>

\* No attempt was recorded for ten minutes.
ConsecExpires ==
    /\ consec > 0
    /\ consec' = 0 /\ since' = 0
    /\ UNCHANGED <<minute, counted, degraded, rec, lostReplies>>

NextMinute ==
    /\ minute < LastMinute /\ minute' = minute + 1
    /\ UNCHANGED <<consec, counted, degraded, rec, since, lostReplies>>

BrkNext ==
    \/ \E r \in Recorders, ok \in BOOLEAN :
        \/ \E class \in {"carrier_fault", "number_fault", "answered"} : Count(r, class, ok)
        \/ ReadAttempts(r, ok) \/ ReadAnswers(r, ok)
        \/ SetDegraded(r, ok) \/ ResetConsec(r, ok)
    \/ MarkExpires \/ ConsecExpires \/ NextMinute

BrkSpec == BrkInit /\ [][BrkNext]_brkVars

-----------------------------------------------------------------------------
\* The carrier is marked for a cause and never without one (Record).  When every
\* recorder is done, as many faults in a row as ConsecutiveFaults have marked
\* it: concurrent trips, resets and expiries lose none, except those counted
\* while another recorder was tripping.  And a carrier that is to be marked for
\* its answer ratio was below the threshold, with enough attempts, when its
\* attempts were read, though others were recorded between the two sums; unless
\* the second sum failed.
MarkedForCause ==
    /\ (\A r \in Recorders : rec[r].at = "idle") /\ Consecutive > 0 /\ since >= Consecutive
            => degraded # "no"
    /\ \A r \in Recorders : rec[r].at = "low" => rec[r].low \/ rec[r].failed
=============================================================================
