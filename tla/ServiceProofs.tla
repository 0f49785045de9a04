---------------------------- MODULE ServiceProofs ----------------------------
(***************************************************************************)
(* The parts of the API beside the billing of a call: the carrier address, *)
(* the circuit breaker, the quality scores, the table cache and the        *)
(* periods of invoices.  For each the invariant that makes its property    *)
(* inductive, and the property for any number of handlers and any setting. *)
(***************************************************************************)
EXTENDS EndpointHealth, Breaker, QualityPairs, TableCache, InvoicePeriods, SumLemmas

\* A leaf that names no prover is tried with each of these in turn.
USE SMTT(30), Z3T(30), ZenonT(30)

-----------------------------------------------------------------------------
(***************************************************************************)
(* EndpointHealth.                                                         *)
(***************************************************************************)

\* What is counted for the address counts at least the row, and the row that
\* reached the limit has somebody about to park it.  While somebody who has
\* parked it is about to clear the counter, the row is empty or the address is
\* parked.
EpInv ==
    /\ fail \in Nat /\ inARow \in Nat /\ lastRow \in Nat
    /\ rep \in [Reporters -> {"idle", "park", "clear"}]
    /\ parked /\ fail <= lastRow
    /\ ~dead =>
        /\ inARow <= fail
        /\ (\E r \in Reporters : rep[r] = "clear") => inARow = 0
        /\ inARow >= FailLimit => \E r \in Reporters : rep[r] = "park"

\* An address is parked for a row of failures and for nothing else, whatever
\* the limit and however many attempts report at once (RecordAttempt, Revive).
THEOREM ParkingHasCause == EpSpec => []ParkedForCause
<1>0. FailLimit \in Nat \ {0} BY EndpointBounds DEF FailLimit
<1> HIDE DEF FailLimit
<1>1. EpInit => EpInv BY <1>0 DEF EpInit, EpInv
<1>2. EpInv /\ [EpNext]_epVars => EpInv'
    <2> SUFFICES ASSUME EpInv, [EpNext]_epVars PROVE EpInv' OBVIOUS
    <2> USE <1>0 DEF EpInv
    <2>1. ASSUME NEW r \in Reporters, Reachable(r) PROVE EpInv' BY <2>1 DEF Reachable
    <2>2. ASSUME NEW r \in Reporters, NEW ok \in BOOLEAN, Unreachable(r, ok) PROVE EpInv'
        <3>1. /\ rep[r] = "idle" /\ fail' = fail + 1 /\ lastRow' = lastRow + 1 /\ dead' = dead
              /\ inARow' = IF ~ok \/ \E q \in Reporters : rep[q] # "idle" THEN inARow ELSE inARow + 1
              BY <2>2 DEF Unreachable
        <3>2. CASE ok /\ fail + 1 >= FailLimit
            <4>1. rep' = [rep EXCEPT ![r] = "park"] /\ parked' = (lastRow + 1 >= FailLimit)
                  BY <2>2, <3>2 DEF Unreachable, Parks, ReporterGoes
            <4>2. rep'[r] = "park" /\ \A q \in Reporters : q # r => rep'[q] = rep[q] BY <4>1
            <4>3. rep' \in [Reporters -> {"idle", "park", "clear"}] BY <4>1
            <4>4. lastRow + 1 >= FailLimit BY <3>2
            <4>5. parked' BY <4>1, <4>4, Zenon
            <4>6. (\E q \in Reporters : rep'[q] = "clear") => \E q \in Reporters : rep[q] # "idle"
                  BY <4>2
            <4>7. ~dead /\ (\E q \in Reporters : rep'[q] = "clear") => inARow' = 0
                  BY <3>1, <4>2, <4>6
            <4> QED BY <3>1, <3>2, <4>2, <4>3, <4>5, <4>7
        <3>3. CASE ~(ok /\ fail + 1 >= FailLimit)
            <4>1. rep' = rep /\ parked' = parked BY <2>2, <3>3 DEF Unreachable, Parks
            <4> QED BY <3>1, <3>3, <4>1
        <3> QED BY <3>2, <3>3
    <2>3. ASSUME NEW r \in Reporters, NEW ok \in BOOLEAN, SetDead(r, ok) PROVE EpInv'
        BY <2>3 DEF SetDead, ReporterGoes
    <2>4. ASSUME NEW r \in Reporters, NEW ok \in BOOLEAN, ClearFail(r, ok) PROVE EpInv'
        BY <2>4 DEF ClearFail, ReporterGoes
    <2>5. CASE Revive BY <2>5 DEF Revive
    <2>6. CASE DeadExpires BY <2>6 DEF DeadExpires
    <2>7. CASE FailExpires BY <2>7 DEF FailExpires
    <2>8. CASE UNCHANGED epVars BY <2>8 DEF epVars
    <2> QED BY <2>1, <2>2, <2>3, <2>4, <2>5, <2>6, <2>7, <2>8, Zenon DEF EpNext
<1>3. EpInv => ParkedForCause BY <1>0 DEF EpInv, ParkedForCause
<1> QED BY <1>1, <1>2, <1>3, PTL DEF EpSpec

-----------------------------------------------------------------------------
(***************************************************************************)
(* Breaker.                                                                *)
(***************************************************************************)

Steps == {"idle", "att", "ans", "trip", "low", "reset"}
Recording == [at : Steps, minute : Nat, att : Nat, low : BOOLEAN, failed : BOOLEAN]

BrkTypes ==
    /\ minute \in Minutes /\ consec \in Nat /\ since \in Nat
    /\ counted \in [{"att", "ans"} -> [Minutes -> Nat]]
    /\ rec \in [Recorders -> Recording]

\* A row that the counter does not hold is excused, and a full row has somebody
\* about to set the mark.
RowInv ==
    degraded = "no" =>
        /\ (\E r \in Recorders : rec[r].at = "reset") => since = 0
        /\ since <= consec
        /\ Consecutive > 0 /\ since >= Consecutive => \E r \in Recorders : rec[r].at = "trip"

\* The answers of the window that ends with minute m.
Answers(c, m) == Total(c["ans"], {k \in Minutes : k <= m /\ m < k + Window})

\* Between its two sums a recorder knows of every cause it will find: answers
\* only come on top.
RatioInv ==
    \A r \in Recorders :
        /\ rec[r].at = "ans" /\ Low(rec[r].att, Answers(counted, rec[r].minute)) => rec[r].low
        /\ rec[r].at = "low" => rec[r].low \/ rec[r].failed

\* The sums of a window are numbers.
LEMMA WindowType ==
    ASSUME BrkTypes, NEW which \in {"att", "ans"}, NEW m
    PROVE  WindowSum(which, m) \in Nat
<1> DEFINE S == {k \in Minutes : k <= m /\ m < k + Window}
           f == counted[which]
<1>1. IsFiniteSet(Minutes) BY BreakerBounds, FS_Interval DEF Minutes
<1>2. IsFiniteSet(S)
    <2>1. S \subseteq Minutes OBVIOUS
    <2> HIDE DEF S
    <2> QED BY <1>1, <2>1, FS_Subset
<1>3. \A x \in S : f[x] \in Nat BY DEF BrkTypes
<1> HIDE DEF S, f
<1>4. Total(f, S) \in Nat BY <1>2, <1>3, TotalType
<1> QED BY <1>4 DEF WindowSum, S, f

\* In particular the answers.
LEMMA AnswersType == ASSUME BrkTypes, NEW m PROVE Answers(counted, m) \in Nat
<1>1. WindowSum("ans", m) \in Nat BY WindowType
<1> QED BY <1>1 DEF WindowSum, Answers

\* An attempt that is counted takes no answer away.
LEMMA AnswersGrow ==
    ASSUME BrkTypes, NEW r, NEW class, NEW ok, Count(r, class, ok), NEW m
    PROVE  /\ Answers(counted, m) \in Nat /\ Answers(counted', m) \in Nat
           /\ Answers(counted', m) >= Answers(counted, m)
<1> DEFINE S == {k \in Minutes : k <= m /\ m < k + Window}
           f == counted["ans"]
           g == counted'["ans"]
<1>1. IsFiniteSet(Minutes) BY BreakerBounds, FS_Interval DEF Minutes
<1>2. IsFiniteSet(S)
    <2>1. S \subseteq Minutes OBVIOUS
    <2> HIDE DEF S
    <2> QED BY <1>1, <2>1, FS_Subset
<1>3. f \in [Minutes -> Nat] /\ minute \in Minutes BY DEF BrkTypes
<1>4. g = [f EXCEPT ![minute] = IF class = "answered" THEN f[minute] + 1 ELSE f[minute]]
      BY DEF Count, BrkTypes
<1>5. g \in [Minutes -> Nat] /\ g[minute] >= f[minute] /\ \A x \in Minutes : x # minute => g[x] = f[x]
      BY <1>3, <1>4
<1>6. S \subseteq Minutes OBVIOUS
<1> HIDE DEF S, f, g
<1>7. Total(f, S) \in Nat /\ Total(g, S) \in Nat BY <1>2, <1>3, <1>5, <1>6, TotalType
<1>8. Total(g, S) >= Total(f, S)
    <2>1. CASE minute \in S
        <3>1. Total(g, S) = Total(f, S) - f[minute] + g[minute]
              BY <1>2, <1>3, <1>5, <1>6, <2>1, TotalUpdate
        <3>2. f[minute] \in Nat /\ g[minute] \in Nat BY <1>3, <1>5
        <3> QED BY <1>5, <1>7, <3>1, <3>2
    <2>2. CASE minute \notin S
        <3>1. Total(g, S) = Total(f, S)
            <4>1. \A x \in S : g[x] = f[x] BY <1>5, <1>6, <2>2
            <4> QED BY <4>1, TotalSame
        <3> QED BY <1>7, <3>1
    <2> QED BY <2>1, <2>2
<1> QED BY <1>7, <1>8 DEF Answers, S, f, g

\* A carrier that is low with more answers was low with fewer.
LEMMA LowWithFewer ==
    ASSUME NEW a \in Nat, NEW n \in Nat, NEW m \in Nat, m >= n, Low(a, m)
    PROVE  Low(a, n)
<1>1. Percent \in Nat BY BreakerBounds
<1> DEFINE b == a * Percent
<1>2. b \in Nat BY <1>1
<1> HIDE DEF b
<1>3. m * 100 < b BY DEF Low, b
<1>4. n * 100 < b BY <1>2, <1>3
<1> QED BY <1>4 DEF Low, b

\* No attempts, no cause.
LEMMA NotLowWithout == ASSUME NEW n \in Nat PROVE ~Low(0, n)
<1>1. Percent \in Nat BY BreakerBounds
<1>2. 0 * Percent = 0 BY <1>1
<1>3. ~(n * 100 < 0) OBVIOUS
<1> QED BY <1>2, <1>3 DEF Low

\* While no attempt is counted the sums stay.
LEMMA AnswersStay ==
    ASSUME BrkTypes, UNCHANGED counted, NEW m
    PROVE  /\ Answers(counted, m) \in Nat /\ Answers(counted', m) \in Nat
           /\ Answers(counted', m) >= Answers(counted, m)
  BY AnswersType

\* One recorder goes on, the others keep what they know.
LEMMA RecorderMoves ==
    ASSUME BrkTypes, RatioInv, NEW r \in Recorders, NEW l \in Recording,
           rec' = [rec EXCEPT ![r] = l],
           \A m : /\ Answers(counted, m) \in Nat /\ Answers(counted', m) \in Nat
                  /\ Answers(counted', m) >= Answers(counted, m),
           l.at = "ans" /\ Low(l.att, Answers(counted', l.minute)) => l.low,
           l.at = "low" => l.low \/ l.failed
    PROVE  RatioInv' /\ rec' \in [Recorders -> Recording]
<1>1. rec' \in [Recorders -> Recording] BY DEF BrkTypes
<1>2. rec'[r] = l /\ \A q \in Recorders : q # r => rec'[q] = rec[q] BY DEF BrkTypes
<1>3. ASSUME NEW q \in Recorders
      PROVE  /\ rec'[q].at = "ans" /\ Low(rec'[q].att, Answers(counted', rec'[q].minute)) => rec'[q].low
             /\ rec'[q].at = "low" => rec'[q].low \/ rec'[q].failed
    <2>1. CASE q = r BY <1>2, <2>1
    <2>2. CASE q # r
        <3> DEFINE m == rec[q].minute
                   a == rec[q].att
        <3>1. a \in Nat BY DEF BrkTypes, Recording
        <3>2. rec'[q] = rec[q] BY <1>2, <2>2
        <3> HIDE DEF m, a
        <3>3. Low(a, Answers(counted', m)) => Low(a, Answers(counted, m)) BY <3>1, LowWithFewer
        <3> QED BY <3>2, <3>3 DEF RatioInv, m, a
    <2> QED BY <2>1, <2>2
<1> QED BY <1>1, <1>3 DEF RatioInv

\* The breaker marks a carrier for a cause and never without one, for any
\* settings and any number of recorders and lost replies (Record, trip).
THEOREM MarksHaveCause == BrkSpec => []MarkedForCause
<1> DEFINE BrkInv == BrkTypes /\ RowInv /\ RatioInv
<1> USE BreakerBounds
<1>0. Away \in Recording /\ Away.at = "idle" BY DEF Away, Recording, Steps
<1>1. BrkInit => BrkInv
    <2> SUFFICES ASSUME BrkInit PROVE BrkInv OBVIOUS
    <2>1. \A r \in Recorders : rec[r] = Away BY DEF BrkInit
    <2>2. BrkTypes BY <1>0 DEF BrkInit, BrkTypes, Minutes
    <2>3. RowInv BY <1>0, <2>1 DEF BrkInit, RowInv
    <2>4. RatioInv BY <1>0, <2>1 DEF RatioInv
    <2> QED BY <2>2, <2>3, <2>4
<1>2. BrkInv /\ [BrkNext]_brkVars => BrkInv'
    <2> SUFFICES ASSUME BrkInv, [BrkNext]_brkVars PROVE BrkInv' OBVIOUS
    <2>1. ASSUME NEW r \in Recorders, NEW ok \in BOOLEAN,
                 NEW class \in {"carrier_fault", "number_fault", "answered"}, Count(r, class, ok)
          PROVE  BrkInv'
        <3> DEFINE full == class = "carrier_fault" /\ Reached(consec + 1)
                   l == IF ~ok THEN Away
                        ELSE IF class = "carrier_fault" /\ Reached(consec + 1)
                        THEN [Away EXCEPT !.at = "trip"]
                        ELSE IF Percent > 0 /\ MinSamples > 0
                        THEN [Away EXCEPT !.at = "att", !.minute = minute] ELSE Away
        <3>1. minute \in Nat BY DEF BrkTypes, Minutes
        <3>2. l \in Recording /\ l.at \in {"idle", "trip", "att"} /\ (ok /\ full => l.at = "trip")
              BY Zenon, <3>1 DEF Away, Recording, Steps
        <3> HIDE DEF l
        <3>3. rec' = [rec EXCEPT ![r] = l] /\ rec[r].at = "idle" BY <2>1, Zenon DEF Count, RecorderGoes, l
        <3>4. RatioInv' /\ rec' \in [Recorders -> Recording]
              BY Zenon, <2>1, <3>2, <3>3, AnswersGrow, RecorderMoves
        <3>5. /\ counted' \in [{"att", "ans"} -> [Minutes -> Nat]] /\ minute' = minute
              /\ degraded' = degraded
              BY <2>1 DEF Count, BrkTypes
        <3>6. /\ consec' = IF class = "carrier_fault" THEN consec + 1 ELSE 0
              /\ since' = IF class # "carrier_fault" THEN 0
                          ELSE IF ~ok \/ \E q \in Recorders : rec[q].at \in {"trip", "reset"}
                          THEN since ELSE since + 1
              BY <2>1 DEF Count
        <3>7. rec'[r].at # "reset" /\ \A q \in Recorders : q # r => rec'[q] = rec[q]
              BY <3>2, <3>3 DEF BrkTypes
        <3>8. consec' \in Nat /\ since' \in Nat BY <3>6 DEF BrkTypes
        <3>9. RowInv'
            <4> SUFFICES ASSUME degraded = "no"
                         PROVE  /\ (\E q \in Recorders : rec'[q].at = "reset") => since' = 0
                                /\ since' <= consec'
                                /\ Consecutive > 0 /\ since' >= Consecutive
                                        => \E q \in Recorders : rec'[q].at = "trip"
                  BY <3>5 DEF RowInv
            <4>1. /\ (\E q \in Recorders : rec[q].at = "reset") => since = 0
                  /\ since <= consec
                  /\ Consecutive > 0 /\ since >= Consecutive => \E q \in Recorders : rec[q].at = "trip"
                  BY DEF RowInv
            <4>2. CASE class # "carrier_fault" BY <3>6, <4>2
            <4>3. CASE class = "carrier_fault" /\ (~ok \/ \E q \in Recorders : rec[q].at \in {"trip", "reset"})
                <5>1. since' = since /\ consec' = consec + 1 BY <3>6, <4>3
                <5> QED BY <3>3, <3>7, <4>1, <5>1 DEF BrkTypes
            <4>4. CASE class = "carrier_fault" /\ ok /\ ~\E q \in Recorders : rec[q].at \in {"trip", "reset"}
                <5>1. since' = since + 1 /\ consec' = consec + 1 BY <3>6, <4>4
                <5>2. since + 1 >= Consecutive /\ Consecutive > 0 => rec'[r].at = "trip"
                      BY <3>2, <3>3, <4>1, <4>4 DEF BrkTypes, Reached
                <5>3. ~\E q \in Recorders : rec'[q].at = "reset" BY <3>7, <4>4
                <5> QED BY <4>1, <5>1, <5>2, <5>3 DEF BrkTypes
            <4> QED BY <4>2, <4>3, <4>4
        <3> QED BY <3>4, <3>5, <3>8, <3>9 DEF BrkTypes
    <2>2. ASSUME NEW r \in Recorders, NEW l \in Recording, rec' = [rec EXCEPT ![r] = l],
                 rec[r].at \in {"att", "ans"}, l.at \in {"idle", "ans", "low"},
                 l.at = "ans" /\ Low(l.att, Answers(counted', l.minute)) => l.low,
                 l.at = "low" => l.low \/ l.failed,
                 UNCHANGED <<minute, consec, counted, degraded, since>>
          PROVE  BrkInv'
        <3>1. RatioInv' /\ rec' \in [Recorders -> Recording] BY Zenon, <2>2, AnswersStay, RecorderMoves
        <3>2. rec'[r] = l /\ \A q \in Recorders : q # r => rec'[q] = rec[q] BY <2>2 DEF BrkTypes
        <3>3. RowInv' BY <2>2, <3>2 DEF RowInv
        <3> QED BY <2>2, <3>1, <3>3 DEF BrkTypes
    <2>3. ASSUME NEW r \in Recorders, NEW ok \in BOOLEAN, ReadAttempts(r, ok) PROVE BrkInv'
        <3> DEFINE m == rec[r].minute
                   n == WindowSum("att", m)
                   b == Answers(counted, m)
                   x == IF ok THEN n ELSE 0
                   c == Low(n, b)
                   l == [rec[r] EXCEPT !.at = "ans", !.att = x, !.low = c]
        <3>1. m \in Nat /\ n \in Nat /\ b \in Nat /\ rec[r] \in Recording
              BY WindowType, AnswersType DEF BrkTypes, Recording
        <3>2. x \in Nat /\ c \in BOOLEAN BY <3>1 DEF Low
        <3>3. Low(x, b) => c
            <4>1. CASE ok BY <4>1
            <4>2. CASE ~ok BY <3>1, <4>2, NotLowWithout
            <4> QED BY <4>1, <4>2
        <3>4. rec' = [rec EXCEPT ![r] = l] /\ rec[r].at = "att"
              BY <2>3, Zenon DEF ReadAttempts, RecorderGoes, Answers, WindowSum
        <3>5. UNCHANGED <<minute, consec, counted, degraded, since>> BY <2>3 DEF ReadAttempts
        <3> HIDE DEF x, c, b, n
        <3>7. l \in Recording /\ l.at = "ans" /\ l.att = x /\ l.low = c /\ l.minute = m
              BY Zenon, <3>1, <3>2 DEF Recording, Steps
        <3>8. l.at = "ans" /\ Low(l.att, Answers(counted', l.minute)) => l.low
              BY <3>3, <3>5, <3>7 DEF b
        <3> HIDE DEF l, m
        <3> QED BY Zenon, <2>2, <3>4, <3>5, <3>7, <3>8
    <2>4. ASSUME NEW r \in Recorders, NEW ok \in BOOLEAN, ReadAnswers(r, ok) PROVE BrkInv'
        <3> DEFINE m == rec[r].minute
                   x == IF ok THEN WindowSum("ans", m) ELSE 0
                   l == IF Low(rec[r].att, x) THEN [rec[r] EXCEPT !.at = "low", !.failed = ~ok] ELSE Away
        <3>1. rec[r] \in Recording /\ rec[r].at = "ans" BY <2>4 DEF BrkTypes, ReadAnswers
        <3>2. rec' = [rec EXCEPT ![r] = l] BY <2>4, Zenon DEF ReadAnswers, RecorderGoes
        <3>3. UNCHANGED <<minute, consec, counted, degraded, since>> BY <2>4 DEF ReadAnswers
        <3>4. Low(rec[r].att, x) => ~ok \/ rec[r].low BY <3>1 DEF RatioInv, Answers, WindowSum
        <3> HIDE DEF x
        <3>5. l \in Recording /\ l.at \in {"idle", "low"} /\ (l.at = "low" => l.low \/ l.failed)
            <4>1. CASE Low(rec[r].att, x)
                <5>1. l = [rec[r] EXCEPT !.at = "low", !.failed = ~ok] BY <4>1
                <5> HIDE DEF l
                <5>2. l \in Recording /\ l.at = "low" /\ l.failed = ~ok /\ l.low = rec[r].low
                      BY Zenon, <3>1, <5>1 DEF Recording, Steps
                <5> QED BY Zenon, <3>4, <4>1, <5>2
            <4>2. CASE ~Low(rec[r].att, x) BY <1>0, <4>2
            <4> QED BY <4>1, <4>2
        <3> HIDE DEF l
        <3> QED BY Zenon, <2>2, <3>1, <3>2, <3>3, <3>5
    <2>5. ASSUME NEW r \in Recorders, NEW ok \in BOOLEAN, SetDegraded(r, ok) PROVE BrkInv'
        <3> DEFINE l == [Away EXCEPT !.at = "reset"]
        <3>1. l \in Recording /\ l.at = "reset" BY Zenon DEF Away, Recording, Steps
        <3> HIDE DEF l
        <3>2. rec' = [rec EXCEPT ![r] = l] /\ UNCHANGED <<minute, consec, counted>>
              BY <2>5 DEF SetDegraded, RecorderGoes, l
        <3>3. RatioInv' /\ rec' \in [Recorders -> Recording]
              BY Zenon, <3>1, <3>2, AnswersStay, RecorderMoves
        <3>4. degraded' = "no" => since' = 0 BY <2>5 DEF SetDegraded
        <3>5. since' \in Nat BY <2>5 DEF SetDegraded, BrkTypes
        <3>6. RowInv' BY <3>2, <3>4 DEF RowInv, BrkTypes
        <3> QED BY <3>2, <3>3, <3>5, <3>6 DEF BrkTypes
    <2>6. ASSUME NEW r \in Recorders, NEW ok \in BOOLEAN, ResetConsec(r, ok) PROVE BrkInv'
        <3>1. rec' = [rec EXCEPT ![r] = Away] /\ UNCHANGED <<minute, counted, degraded, since>>
              /\ rec[r].at = "reset" /\ consec' = IF ok THEN 0 ELSE consec
              BY <2>6 DEF ResetConsec, RecorderGoes
        <3>2. RatioInv' /\ rec' \in [Recorders -> Recording]
              BY Zenon, <1>0, <3>1, AnswersStay, RecorderMoves
        <3>3. RowInv' BY <3>1 DEF RowInv, BrkTypes
        <3> QED BY <3>1, <3>2, <3>3 DEF BrkTypes
    <2>7. CASE MarkExpires \/ ConsecExpires
        <3>1. since' = 0 /\ UNCHANGED <<minute, counted, rec>> /\ consec' \in Nat
              BY <2>7 DEF MarkExpires, ConsecExpires, BrkTypes
        <3>2. RatioInv' BY <3>1 DEF RatioInv, Answers
        <3>3. RowInv' BY <3>1 DEF RowInv
        <3> QED BY <3>1, <3>2, <3>3 DEF BrkTypes
    <2>8. CASE NextMinute \/ UNCHANGED brkVars
        <3>1. UNCHANGED <<consec, counted, degraded, rec, since>> /\ minute' \in Minutes
              BY <2>8 DEF NextMinute, brkVars, BrkTypes, Minutes
        <3>2. RatioInv' BY <3>1 DEF RatioInv, Answers
        <3>3. RowInv' BY <3>1 DEF RowInv
        <3> QED BY <3>1, <3>2, <3>3 DEF BrkTypes
    <2> QED BY <2>1, <2>3, <2>4, <2>5, <2>6, <2>7, <2>8, Zenon DEF BrkNext
<1>3. BrkInv => MarkedForCause
    <2> SUFFICES ASSUME BrkInv PROVE MarkedForCause OBVIOUS
    <2>1. (\A r \in Recorders : rec[r].at = "idle") /\ Consecutive > 0 /\ since >= Consecutive
                => degraded # "no"
          BY DEF RowInv
    <2> QED BY <2>1 DEF RatioInv, MarkedForCause
<1> QED BY <1>1, <1>2, <1>3, PTL DEF BrkSpec

-----------------------------------------------------------------------------
(***************************************************************************)
(* QualityPairs.                                                           *)
(***************************************************************************)

\* A pair that the running refresh found empty and that has attempts now was
\* counted after the refresh read it.
QuaInv ==
    /\ attempted \in [Pairs -> Nat]
    /\ recording \in [QualityHandlers -> SUBSET Pairs]
    /\ ref \in [at : {"idle", "listed", "read"}, listed : SUBSET Pairs, got : [Pairs -> Nat]]
    /\ pairs \subseteq Pairs
    /\ CountedIsListed
    /\ ref.at = "read" =>
        \A p \in ref.listed : ref.got[p] = 0 /\ attempted[p] > 0 => p \in lateFor

\* No refresh forgets a pair, but for an attempt that was counted between its
\* read and its SREM, with any number of handlers and pairs (Record, Refresh).
THEOREM PairsStayListed == QuaSpec => []CountedIsListed
<1>1. QuaInit => QuaInv BY DEF QuaInit, QuaInv, RefreshIdle, CountedIsListed
<1>2. QuaInv /\ [QuaNext]_quaVars => QuaInv'
    <2> SUFFICES ASSUME QuaInv, [QuaNext]_quaVars PROVE QuaInv' OBVIOUS
    <2> USE DEF QuaInv, CountedIsListed
    <2>1. ASSUME NEW h \in QualityHandlers, AddPair(h) PROVE QuaInv' BY <2>1 DEF AddPair
    <2>2. ASSUME NEW h \in QualityHandlers, NEW p \in Pairs, CountAttempt(h, p) PROVE QuaInv'
        <3>1. /\ attempted' = [attempted EXCEPT ![p] = @ + 1]
              /\ recording' = [recording EXCEPT ![h] = {p}] /\ recording[h] = {}
              /\ lateFor' = IF ref.at = "read" THEN lateFor \union {p} ELSE lateFor
              /\ UNCHANGED <<pairs, ref, dropped>>
              BY <2>2 DEF CountAttempt
        <3>2. attempted' \in [Pairs -> Nat] /\ recording' \in [QualityHandlers -> SUBSET Pairs] BY <3>1
        <3>3. CountedIsListed' BY <3>1
        <3> QED BY <3>1, <3>2, <3>3
    <2>3. ASSUME NEW p \in Pairs, WindowMoves(p) PROVE QuaInv' BY <2>3 DEF WindowMoves
    <2>4. CASE ListPairs BY Zenon, <2>4 DEF ListPairs, RefreshIdle
    <2>5. CASE ReadCounters
        <3> DEFINE new == [p \in Pairs |-> IF p \in ref.listed THEN attempted[p] ELSE 0]
        <3>1. /\ ref' = [ref EXCEPT !.at = "read", !.got = new]
              /\ UNCHANGED <<attempted, pairs, recording, dropped>>
              BY <2>5 DEF ReadCounters
        <3>2. new \in [Pairs -> Nat] /\ \A p \in ref.listed : new[p] = attempted[p] OBVIOUS
        <3> HIDE DEF new
        <3>3. ref'.got = new /\ ref'.listed = ref.listed BY <3>1
        <3>4. ref' \in [at : {"idle", "listed", "read"}, listed : SUBSET Pairs, got : [Pairs -> Nat]]
              BY Zenon, <3>1, <3>2
        <3> QED BY <3>1, <3>2, <3>3, <3>4
    <2>6. CASE RefreshFails BY <2>6 DEF RefreshFails, RefreshIdle
    <2>7. ASSUME NEW ok \in BOOLEAN, DropStale(ok) PROVE QuaInv'
          BY <2>7 DEF DropStale, StalePairs, RefreshIdle
    <2>8. CASE UNCHANGED quaVars BY <2>8 DEF quaVars
    <2> QED BY <2>1, <2>2, <2>3, <2>4, <2>5, <2>6, <2>7, <2>8, Zenon DEF QuaNext
<1>3. QuaInv => CountedIsListed BY DEF QuaInv
<1> QED BY <1>1, <1>2, <1>3, PTL DEF QuaSpec

-----------------------------------------------------------------------------
(***************************************************************************)
(* TableCache.                                                             *)
(***************************************************************************)

LoadType == [at : {"idle", "asked", "rows"}, copy : Int, ticks : Nat, excused : BOOLEAN]

TabTypes ==
    /\ table \in [here : BOOLEAN, age : Nat, copy : Int, excused : BOOLEAN]
    /\ load \in [Handlers -> LoadType]
    /\ served \in Int

\* What a load has read was superseded no longer ago than the load takes, and
\* what the table holds no longer ago than its age and that.
LoadInv(l) ==
    /\ l.copy >= -1 /\ l.ticks <= MaxLoad
    /\ l.at = "rows" => l.copy <= l.ticks
    /\ l.at # "rows" => l.copy = -1

TabInv ==
    /\ TabTypes
    /\ table.copy >= -1 /\ (Fresh(table) => table.copy <= table.age + MaxLoad)
    /\ \A h \in Handlers : LoadInv(load[h])
    /\ served < MaxAge + MaxLoad

\* An announcement that passes by leaves the loads what they are.
LEMMA OvertakenLoads ==
    ASSUME TabTypes
    PROVE  /\ Overtaken \in [Handlers -> LoadType]
           /\ \A h \in Handlers :
                /\ Overtaken[h].at = load[h].at /\ Overtaken[h].copy = load[h].copy
                /\ Overtaken[h].ticks = load[h].ticks
                /\ load[h].excused \/ load[h].copy # -1 => Overtaken[h].excused
<1>1. ASSUME NEW h \in Handlers
      PROVE  LET after == [load[h] EXCEPT !.excused = load[h].excused \/ load[h].copy # -1] IN
             /\ after \in LoadType
             /\ after.at = load[h].at /\ after.copy = load[h].copy /\ after.ticks = load[h].ticks
             /\ load[h].excused \/ load[h].copy # -1 => after.excused
      BY Zenon DEF TabTypes, LoadType
<1> QED BY Zenon, <1>1 DEF Overtaken

\* A tick.
LEMMA TickedLoads ==
    ASSUME TabTypes, Tick
    PROVE  /\ load' \in [Handlers -> LoadType]
           /\ \A h \in Handlers :
                /\ load'[h].at = load[h].at /\ load'[h].excused = load[h].excused
                /\ load[h].at = "idle" => load'[h] = load[h]
                /\ load[h].at # "idle" =>
                    /\ load[h].ticks < MaxLoad /\ load'[h].ticks = load[h].ticks + 1
                    /\ load'[h].copy = Later(load[h].copy)
<1>1. ASSUME NEW h \in Handlers, load[h].at # "idle"
      PROVE  LET after == [load[h] EXCEPT !.ticks = load[h].ticks + 1, !.copy = Later(load[h].copy)] IN
             /\ after \in LoadType
             /\ after.at = load[h].at /\ after.excused = load[h].excused
             /\ after.ticks = load[h].ticks + 1 /\ after.copy = Later(load[h].copy)
    <2>1. load[h] \in LoadType BY DEF TabTypes
    <2> DEFINE k == Later(load[h].copy)
               t == load[h].ticks + 1
    <2>2. k \in Int /\ t \in Nat BY <2>1 DEF LoadType, Later
    <2> HIDE DEF k, t
    <2>3. LET after == [load[h] EXCEPT !.ticks = t, !.copy = k] IN
             /\ after \in LoadType
             /\ after.at = load[h].at /\ after.excused = load[h].excused
             /\ after.ticks = t /\ after.copy = k
          BY Zenon, <2>1, <2>2 DEF LoadType
    <2> QED BY <2>3 DEF k, t
<1> QED BY <1>1 DEF Tick, TabTypes

\* While the database answers, no call sees rows superseded MaxAge plus a load
\* ago or earlier, for any number of calls and any MaxAge and deadline (tables).
THEOREM StalenessIsBounded == TabSpec => []StaleBounded
<1> USE CacheBounds
<1>1. TabInit => TabInv
      BY DEF TabInit, TabInv, TabTypes, LoadType, LoadInv, NoTable, Ready, Fresh
<1>2. TabInv /\ [TabNext]_tabVars => TabInv'
    <2> SUFFICES ASSUME TabInv, [TabNext]_tabVars PROVE TabInv' OBVIOUS
    <2> USE DEF TabInv, TabTypes, LoadType
    <2>1. ASSUME NEW h \in Handlers, Hit(h) PROVE TabInv' BY <2>1 DEF Hit, Fresh, LoadInv
    <2>2. ASSUME NEW h \in Handlers, Miss(h) PROVE TabInv'
        <3> DEFINE l == [Ready EXCEPT !.at = "asked"]
        <3>0. Ready \in LoadType /\ Ready.copy = -1 /\ Ready.ticks = 0 BY DEF Ready
        <3>1. l \in LoadType /\ LoadInv(l)
            <4>1. l \in LoadType /\ l.at = "asked" /\ l.copy = Ready.copy /\ l.ticks = Ready.ticks
                  BY <3>0, Zenon DEF LoadType
            <4> HIDE DEF l
            <4> QED BY <3>0, <4>1 DEF LoadInv
        <3> HIDE DEF l
        <3>2. load' = [load EXCEPT ![h] = l] /\ UNCHANGED <<table, served>> BY <2>2 DEF Miss, l
        <3>3. load' \in [Handlers -> LoadType] /\ \A i \in Handlers : LoadInv(load'[i])
              BY <3>1, <3>2, Zenon
        <3> QED BY <3>2, <3>3 DEF Fresh
    <2>3. ASSUME NEW h \in Handlers, Queried(h) PROVE TabInv' BY <2>3 DEF Queried, LoadInv
    <2>4. ASSUME NEW h \in Handlers, QueryFails(h) PROVE TabInv' BY <2>4 DEF QueryFails, LoadInv, Ready
    <2>5. ASSUME NEW h \in Handlers, Publish(h) PROVE TabInv'
          BY <2>5 DEF Publish, LoadInv, Ready, Fresh
    <2>6. CASE Change BY <2>6 DEF Change, LoadInv, Fresh, Superseded
    <2>7. CASE Invalidate
        <3>1. load' = Overtaken BY <2>7 DEF Invalidate
        <3>4. table' = NoTable /\ served' = served BY <2>7 DEF Invalidate
        <3> QED BY <3>1, <3>4, OvertakenLoads DEF LoadInv, NoTable, Fresh
    <2>8. CASE MessageLost BY Zenon, <2>8 DEF MessageLost, Overtaken, LoadInv, Fresh
    <2>9. CASE Tick
        <3>1. /\ load' \in [Handlers -> LoadType]
              /\ \A h \in Handlers :
                /\ load'[h].at = load[h].at /\ load'[h].excused = load[h].excused
                /\ load[h].at = "idle" => load'[h] = load[h]
                /\ load[h].at # "idle" =>
                    /\ load[h].ticks < MaxLoad /\ load'[h].ticks = load[h].ticks + 1
                    /\ load'[h].copy = Later(load[h].copy)
              BY <2>9, TickedLoads, Zenon DEF TabInv
        <3>2. /\ table' = IF table.here
                          THEN [table EXCEPT !.age = IF table.age < MaxAge THEN table.age + 1 ELSE table.age,
                                         !.copy = Later(table.copy)]
                          ELSE table
              /\ served' = -1 /\ message' = message
              BY <2>9 DEF Tick
        <3>3. \A h \in Handlers : LoadInv(load'[h])
              BY <3>1 DEF LoadInv, Later, Horizon
        <3>4. /\ table' \in [here : BOOLEAN, age : Nat, copy : Int, excused : BOOLEAN]
              /\ table'.copy >= -1 /\ (Fresh(table') => table'.copy <= table'.age + MaxLoad)
            <4>1. CASE ~table.here BY <3>2, <4>1 DEF Fresh
            <4>2. CASE table.here
                <5> DEFINE a == IF table.age < MaxAge THEN table.age + 1 ELSE table.age
                           k == Later(table.copy)
                <5>1. a \in Nat /\ k \in Int /\ k >= -1 BY DEF Later, Horizon
                <5>2. a < MaxAge => table.age < MaxAge /\ a = table.age + 1 OBVIOUS
                <5>3. table.copy <= table.age + MaxLoad => k <= table.age + 1 + MaxLoad BY DEF Later, Horizon
                <5> HIDE DEF a, k
                <5>4. table' = [table EXCEPT !.age = a, !.copy = k] BY <3>2, <4>2 DEF a, k
                <5>5. table'.age = a /\ table'.copy = k /\ table'.here = table.here
                      /\ table' \in [here : BOOLEAN, age : Nat, copy : Int, excused : BOOLEAN]
                      BY Zenon, <5>1, <5>4
                <5> QED BY <4>2, <5>1, <5>2, <5>3, <5>5 DEF Fresh
            <4> QED BY <4>1, <4>2
        <3> QED BY <3>1, <3>2, <3>3, <3>4
    <2>10. CASE UNCHANGED tabVars BY <2>10 DEF tabVars
    <2> QED BY <2>1, <2>2, <2>3, <2>4, <2>5, <2>6, <2>7, <2>8, <2>9, <2>10, Zenon DEF TabNext
<1>3. TabInv => StaleBounded BY DEF TabInv, StaleBounded
<1> QED BY <1>1, <1>2, <1>3, PTL DEF TabSpec

\* A load whose rows miss a change is waited for by a message, or excused.
ReasonInv ==
    /\ TabTypes
    /\ StaleHasReason
    /\ \A h \in Handlers :
        /\ load[h].at # "rows" => load[h].copy = -1
        /\ load[h].copy # -1 => message \/ load[h].excused

\* A cached table that misses a change is about to be dropped, unless the
\* announcement was lost or a slow load overtook it (Listen, tables.go).
THEOREM StalenessHasReason == TabSpec => []StaleHasReason
<1>1. TabInit => ReasonInv
      BY DEF TabInit, ReasonInv, TabTypes, LoadType, NoTable, Ready, StaleHasReason
<1>2. ReasonInv /\ [TabNext]_tabVars => ReasonInv'
    <2> SUFFICES ASSUME ReasonInv, [TabNext]_tabVars PROVE ReasonInv' OBVIOUS
    <2> USE DEF ReasonInv, TabTypes, LoadType, StaleHasReason
    <2>1. ASSUME NEW h \in Handlers, Hit(h) PROVE ReasonInv' BY <2>1 DEF Hit
    <2>2. ASSUME NEW h \in Handlers, Miss(h) PROVE ReasonInv' BY Zenon, <2>2 DEF Miss, Ready
    <2>3. ASSUME NEW h \in Handlers, Queried(h) PROVE ReasonInv' BY <2>3 DEF Queried
    <2>4. ASSUME NEW h \in Handlers, QueryFails(h) PROVE ReasonInv' BY <2>4 DEF QueryFails, Ready
    <2>5. ASSUME NEW h \in Handlers, Publish(h) PROVE ReasonInv' BY <2>5 DEF Publish, Ready
    <2>6. CASE Change BY <2>6 DEF Change, Superseded
    <2>7. CASE Invalidate
        <3>1. load' = Overtaken BY <2>7 DEF Invalidate
        <3>4. table' = NoTable /\ served' = served BY <2>7 DEF Invalidate
        <3> QED BY <3>1, <3>4, OvertakenLoads DEF NoTable
    <2>8. CASE MessageLost BY Zenon, <2>8 DEF MessageLost, Overtaken
    <2>9. CASE Tick
        <3>1. /\ load' \in [Handlers -> LoadType]
              /\ \A h \in Handlers :
                /\ load'[h].at = load[h].at /\ load'[h].excused = load[h].excused
                /\ load[h].at = "idle" => load'[h] = load[h]
                /\ load[h].at # "idle" =>
                    /\ load[h].ticks < MaxLoad /\ load'[h].ticks = load[h].ticks + 1
                    /\ load'[h].copy = Later(load[h].copy)
              BY <2>9, TickedLoads, Zenon DEF ReasonInv
        <3>2. /\ table' = IF table.here
                          THEN [table EXCEPT !.age = IF table.age < MaxAge THEN table.age + 1 ELSE table.age,
                                         !.copy = Later(table.copy)]
                          ELSE table
              /\ served' = -1 /\ message' = message
              BY <2>9 DEF Tick
        <3>3. table' \in [here : BOOLEAN, age : Nat, copy : Int, excused : BOOLEAN]
              /\ table'.here = table.here /\ table'.excused = table.excused
              /\ (table'.copy # -1 => table.copy # -1)
            <4>1. CASE ~table.here BY <3>2, <4>1
            <4>2. CASE table.here
                <5> DEFINE a == IF table.age < MaxAge THEN table.age + 1 ELSE table.age
                           k == Later(table.copy)
                <5>1. a \in Nat /\ k \in Int /\ (k # -1 => table.copy # -1) BY CacheBounds DEF Later
                <5> HIDE DEF a, k
                <5>2. table' = [table EXCEPT !.age = a, !.copy = k] BY <3>2, <4>2 DEF a, k
                <5> QED BY Zenon, <5>1, <5>2
            <4> QED BY <4>1, <4>2
        <3> QED BY <3>1, <3>2, <3>3 DEF Later
    <2>10. CASE UNCHANGED tabVars BY <2>10 DEF tabVars
    <2> QED BY <2>1, <2>2, <2>3, <2>4, <2>5, <2>6, <2>7, <2>8, <2>9, <2>10, Zenon DEF TabNext
<1>3. ReasonInv => StaleHasReason BY DEF ReasonInv
<1> QED BY <1>1, <1>2, <1>3, PTL DEF TabSpec

-----------------------------------------------------------------------------
(***************************************************************************)
(* InvoicePeriods.                                                         *)
(***************************************************************************)

\* A common day is an overlap.
LEMMA CommonDayOverlaps ==
    ASSUME NEW a \in Periods, NEW b \in Periods, DaysOf(a) \cap DaysOf(b) # {}
    PROVE  Overlaps(a, b)
<1>1. PICK d : d \in a.first..a.last /\ d \in b.first..b.last BY DEF DaysOf
<1>2. a.first \in Nat /\ a.last \in Nat /\ b.first \in Nat /\ b.last \in Nat
      BY DEF Periods, Days
<1> QED BY <1>1, <1>2 DEF Overlaps

\* An element of a sequence.
LEMMA RowAt == ASSUME NEW T, NEW rows \in Seq(T), NEW i \in DOMAIN rows PROVE rows[i] \in T
  OBVIOUS

\* A maker's check holds for the rows it saw, as long as it has not inserted.
PerInv ==
    /\ invoices \in Seq([period : Periods, live : BOOLEAN])
    /\ maker \in [Makers -> [at : {"idle", "called", "checked"}, period : Periods, seen : Nat]]
    /\ InvoicedOnce
    /\ \A m \in Makers : maker[m].at = "checked" =>
        /\ maker[m].seen <= Len(invoices)
        /\ \A i \in Live : i <= maker[m].seen => ~Overlaps(invoices[i].period, maker[m].period)

\* No period has two live invoices, and no day either unless two makers raced,
\* for any number of makers, invoices and deletions (GeneratePeriod, Delete).
THEOREM InvoicedAtMostOnce == PerSpec => []InvoicedOnce
<1>0. Month \in Periods BY PeriodBounds DEF Month, Periods, Days
<1>1. PerInit => PerInv BY <1>0 DEF PerInit, PerInv, FreeMaker, Live, InvoicedOnce
<1>2. PerInv /\ [PerNext]_perVars => PerInv'
    <2> SUFFICES ASSUME PerInv, [PerNext]_perVars PROVE PerInv' OBVIOUS
    <2> USE DEF PerInv
    <2> DEFINE R == [period : Periods, live : BOOLEAN]
               M == [at : {"idle", "called", "checked"}, period : Periods, seen : Nat]
    <2>0. FreeMaker \in M /\ FreeMaker.at = "idle" BY <1>0 DEF FreeMaker
    <2>1. ASSUME NEW m \in Makers, NEW l \in M, l.at # "checked", maker' = [maker EXCEPT ![m] = l],
                 UNCHANGED <<invoices, raced>>
          PROVE  PerInv'
        <3>1. maker' \in [Makers -> M] BY <2>1, Zenon
        <3>2. Live' = Live /\ InvoicedOnce' BY Zenon, <2>1 DEF Live, InvoicedOnce
        <3>3. \A o \in Makers : maker'[o].at = "checked" => maker'[o] = maker[o] BY <2>1
        <3> QED BY <2>1, <3>1, <3>2, <3>3
    <2>2. ASSUME NEW m \in Makers, ListMonth(m) PROVE PerInv'
        <3> DEFINE l == [FreeMaker EXCEPT !.at = "called", !.period = Month]
        <3>1. l \in M /\ l.at # "checked" BY Zenon, <1>0, <2>0
        <3>2. maker' = [maker EXCEPT ![m] = l] /\ UNCHANGED <<invoices, raced>>
              BY <2>2 DEF ListMonth, MakerGoes
        <3> HIDE DEF l, M
        <3> QED BY Zenon, <2>1, <3>1, <3>2
    <2>3. ASSUME NEW m \in Makers, NEW period \in Periods, AskInvoice(m, period) PROVE PerInv'
        <3> DEFINE l == [FreeMaker EXCEPT !.at = "called", !.period = period]
        <3>1. l \in M /\ l.at # "checked" BY Zenon, <2>0
        <3>2. maker' = [maker EXCEPT ![m] = l] /\ UNCHANGED <<invoices, raced>>
              BY <2>3 DEF AskInvoice, MakerGoes
        <3> HIDE DEF l, M
        <3> QED BY Zenon, <2>1, <3>1, <3>2
    <2>4. ASSUME NEW m \in Makers, CheckOverlap(m) PROVE PerInv'
        <3>1. CASE \E i \in Live : Overlaps(invoices[i].period, maker[m].period)
            <4>1. maker' = [maker EXCEPT ![m] = FreeMaker] /\ UNCHANGED <<invoices, raced>>
                  BY Zenon, <2>4, <3>1 DEF CheckOverlap, MakerGoes
            <4> HIDE DEF M
            <4> QED BY Zenon, <2>0, <2>1, <4>1
        <3>2. CASE ~\E i \in Live : Overlaps(invoices[i].period, maker[m].period)
            <4> DEFINE n == Len(invoices)
                       l == [maker[m] EXCEPT !.at = "checked", !.seen = n]
            <4>0. n \in Nat /\ maker[m] \in M OBVIOUS
            <4>1. l \in M /\ l.period = maker[m].period /\ l.seen = n
                <5> HIDE DEF n
                <5> QED BY Zenon, <4>0
            <4>2. maker' = [maker EXCEPT ![m] = l] /\ UNCHANGED <<invoices, raced>>
                  BY <2>4, <3>2 DEF CheckOverlap, MakerGoes
            <4> HIDE DEF l
            <4>3. maker' \in [Makers -> M] BY <4>1, <4>2
            <4>4. Live' = Live /\ InvoicedOnce' BY Zenon, <4>2 DEF Live, InvoicedOnce
            <4>5. maker'[m] = l /\ \A o \in Makers : o # m => maker'[o] = maker[o] BY <4>2
            <4> QED BY <3>2, <4>1, <4>2, <4>3, <4>4, <4>5
        <3> QED BY <3>1, <3>2
    <2>5. ASSUME NEW m \in Makers, InsertInvoice(m) PROVE PerInv'
        <3>0. maker' = [maker EXCEPT ![m] = FreeMaker] /\ maker[m].at = "checked"
              BY <2>5 DEF InsertInvoice, MakerGoes
        <3>1. CASE Duplicate(maker[m].period) \/ Len(invoices) = MaxInvoices
            <4>1. UNCHANGED <<invoices, raced>> BY <2>5, <3>1 DEF InsertInvoice
            <4> HIDE DEF M
            <4> QED BY Zenon, <2>0, <2>1, <3>0, <4>1
        <3>2. CASE ~(Duplicate(maker[m].period) \/ Len(invoices) = MaxInvoices)
            <4> DEFINE n == Len(invoices) + 1
                       d == maker[m].period
            <4>1. /\ invoices' = Append(invoices, [period |-> d, live |-> TRUE])
                  /\ raced' = (raced \/ Len(invoices) > maker[m].seen)
                  BY <2>5, <3>2 DEF InsertInvoice
            <4>2. d \in Periods OBVIOUS
            <4>3. invoices' \in Seq(R) /\ Len(invoices') = n /\ n \in Nat BY <4>1, <4>2
            <4>4. /\ invoices'[n] = [period |-> d, live |-> TRUE]
                  /\ \A i \in 1..Len(invoices) : invoices'[i] = invoices[i]
                  BY <4>1
            <4>5. Live' = Live \cup {n} /\ Live \subseteq 1..Len(invoices)
                <5>1. invoices'[n].live /\ DOMAIN invoices = 1..Len(invoices) BY <4>4
                <5>2. DOMAIN invoices' = DOMAIN invoices \cup {n} BY <4>3, <5>1
                <5> HIDE DEF n
                <5> QED BY <4>4, <5>1, <5>2 DEF Live
            <4>6. \A i \in Live : invoices'[i] = invoices[i] BY <4>4, <4>5
            <4>7. \A i \in Live : invoices[i].period # d BY <3>2 DEF Duplicate
            <4>8. ASSUME ~raced', NEW i \in Live PROVE ~raced /\ DaysOf(invoices[i].period) \cap DaysOf(d) = {}
                <5>1. ~raced /\ ~(Len(invoices) > maker[m].seen) BY <4>1, <4>8, Zenon
                <5>2. i <= maker[m].seen BY <4>5, <5>1
                <5>3. ~Overlaps(invoices[i].period, d) BY <3>0, <5>2
                <5>4. invoices[i] \in R BY Zenon, RowAt DEF Live
                <5>5. invoices[i].period \in Periods BY <5>4
                <5> QED BY <4>2, <5>1, <5>3, <5>5, CommonDayOverlaps
            <4>9. maker' \in [Makers -> M] BY <2>0, <3>0
            <4>10. \A o \in Makers : maker'[o].at = "checked" => maker'[o] = maker[o]
                  BY <2>0, <3>0
            <4>11. InvoicedOnce'
                <5> SUFFICES ASSUME NEW i \in Live', NEW j \in Live', i # j
                             PROVE  /\ invoices'[i].period # invoices'[j].period
                                    /\ raced' \/ DaysOf(invoices'[i].period) \cap DaysOf(invoices'[j].period) = {}
                      BY DEF InvoicedOnce
                <5>0. n \notin Live /\ invoices'[n].period = d BY <4>4, <4>5
                <5>1. CASE i = n
                      BY <4>5, <4>6, <4>7, <4>8, <5>0, <5>1
                <5>2. CASE j = n
                      BY <4>5, <4>6, <4>7, <4>8, <5>0, <5>2
                <5>3. CASE i # n /\ j # n
                    <6>1. i \in Live /\ j \in Live BY <4>5, <5>3
                    <6>2. raced => raced' BY <4>1, Zenon
                    <6>3. invoices[i].period # invoices[j].period
                          /\ (raced \/ DaysOf(invoices[i].period) \cap DaysOf(invoices[j].period) = {})
                          BY Zenon, <6>1 DEF InvoicedOnce
                    <6> QED BY <4>6, <6>1, <6>2, <6>3
                <5> QED BY <5>1, <5>2, <5>3
            <4>12. ASSUME NEW o \in Makers, maker'[o].at = "checked"
                   PROVE  /\ maker'[o].seen <= Len(invoices')
                          /\ \A i \in Live' : i <= maker'[o].seen => ~Overlaps(invoices'[i].period, maker'[o].period)
                <5>1. maker'[o] = maker[o] /\ maker[o].at = "checked" BY <4>10, <4>12
                <5>2. maker[o].seen <= Len(invoices) BY <5>1
                <5> QED BY <4>3, <4>5, <4>6, <5>1, <5>2
            <4> QED BY <4>3, <4>9, <4>11, <4>12
        <3> QED BY <3>1, <3>2
    <2>6. ASSUME NEW i \in DOMAIN invoices, DeleteInvoice(i) PROVE PerInv'
        <3>1. invoices' = [invoices EXCEPT ![i].live = FALSE] /\ maker' = maker /\ raced' = raced
              BY <2>6 DEF DeleteInvoice
        <3>2. /\ invoices' \in Seq(R) /\ Len(invoices') = Len(invoices)
              /\ \A j \in DOMAIN invoices : invoices'[j].period = invoices[j].period
            <4> DEFINE l == [invoices[i] EXCEPT !.live = FALSE]
            <4>1. invoices[i] \in R BY Zenon, RowAt
            <4>2. l \in R /\ l.period = invoices[i].period BY Zenon, <4>1
            <4>3. invoices' = [invoices EXCEPT ![i] = l] BY <3>1
            <4> HIDE DEF l, R
            <4>4. invoices \in Seq(R) BY DEF R
            <4> QED BY <4>2, <4>3, <4>4
        <3>3. Live' \subseteq Live BY <3>1, <3>2 DEF Live
        <3>4. Live \subseteq DOMAIN invoices BY DEF Live
        <3>5. \A j \in Live' : j \in Live /\ invoices'[j].period = invoices[j].period
              BY <3>2, <3>3, <3>4
        <3>6. InvoicedOnce' BY Zenon, <3>1, <3>5 DEF InvoicedOnce
        <3> QED BY <3>1, <3>2, <3>5, <3>6
    <2>7. CASE UNCHANGED perVars
        <3>1. Live' = Live /\ InvoicedOnce' BY Zenon, <2>7 DEF perVars, InvoicedOnce, Live
        <3> QED BY <2>7, <3>1 DEF perVars
    <2> QED BY <2>2, <2>3, <2>4, <2>5, <2>6, <2>7, Zenon DEF PerNext
<1>3. PerInv => InvoicedOnce BY DEF PerInv
<1> QED BY <1>1, <1>2, <1>3, PTL DEF PerSpec

==============================================================================
