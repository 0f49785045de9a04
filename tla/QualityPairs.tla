---------------------------- MODULE QualityPairs ----------------------------
(***************************************************************************)
(* Quality scores (internal/quality/quality.go): attempts are counted in   *)
(* Redis by hour, a set names the carrier and prefix pairs that have       *)
(* counters, and a ticker reads the set, reads the counters, drops the     *)
(* pairs it found empty from the set and publishes the scores.  A pipeline *)
(* is no transaction: other clients run between its commands.              *)
(***************************************************************************)
EXTENDS Naturals, FiniteSets

CONSTANTS
    Pairs,            \* pairs of a carrier and a route prefix
    QualityHandlers,  \* handlers that record attempts
    MinScore,         \* MinSamples: fewer attempts leave the score neutral
    MaxCounted,       \* bound on attempts in a pair's window
    MaxAged           \* bound on hours that leave the window

VARIABLES
    attempted, \* attempts of a pair inside the window
    pairs,     \* the set of pairs in Redis
    known,     \* samples behind the published score of a pair
    recording, \* per handler the pair it counted but did not add yet
    ref,       \* [at, listed, got]: the refresh between its commands
    lateFor,   \* pairs counted after the running refresh found them empty
    dropped,   \* such pairs, once they were dropped from the set
    aged

quaVars == <<attempted, pairs, known, recording, ref, lateFor, dropped, aged>>

RefreshIdle == [at |-> "idle", listed |-> {}, got |-> [p \in Pairs |-> 0]]

QuaInit ==
    /\ attempted = [p \in Pairs |-> 0] /\ known = [p \in Pairs |-> 0]
    /\ pairs = {} /\ lateFor = {} /\ dropped = {} /\ aged = 0
    /\ recording = [h \in QualityHandlers |-> {}] /\ ref = RefreshIdle

\* Record: HINCRBY of the hour's counter.
CountAttempt(h, p) ==
    /\ recording[h] = {} /\ attempted[p] < MaxCounted
    /\ attempted' = [attempted EXCEPT ![p] = @ + 1]
    /\ recording' = [recording EXCEPT ![h] = {p}]
    /\ lateFor' = IF ref.at = "read" THEN lateFor \union {p} ELSE lateFor
    /\ UNCHANGED <<pairs, known, ref, dropped, aged>>

\* Record: SADD of the pair.
AddPair(h) ==
    /\ recording[h] # {}
    /\ pairs' = pairs \union recording[h]
    /\ dropped' = dropped \ recording[h]
    /\ recording' = [recording EXCEPT ![h] = {}]
    /\ UNCHANGED <<attempted, known, ref, lateFor, aged>>

\* The last hour with attempts of a pair leaves the window (EXPIRE).
WindowMoves(p) ==
    /\ aged < MaxAged /\ aged' = aged + 1
    /\ attempted[p] > 0 /\ attempted' = [attempted EXCEPT ![p] = 0]
    /\ UNCHANGED <<pairs, known, recording, ref, lateFor, dropped>>

\* Refresh: SMEMBERS, then the counters of every member.
ListPairs ==
    /\ ref.at = "idle"
    /\ ref' = [RefreshIdle EXCEPT !.at = "listed", !.listed = pairs]
    /\ UNCHANGED <<attempted, pairs, known, recording, lateFor, dropped, aged>>

ReadCounters ==
    /\ ref.at = "listed"
    /\ ref' = [ref EXCEPT !.at = "read", !.got = [p \in Pairs |-> IF p \in ref.listed THEN attempted[p] ELSE 0]]
    /\ lateFor' = {}
    /\ UNCHANGED <<attempted, pairs, known, recording, dropped, aged>>

\* Mutant: pairs without a score are dropped, not only those without attempts.
StalePairsUnscored == {p \in ref.listed : ref.got[p] < MinScore}

\* The pairs whose counters were all empty.
StalePairs == {p \in ref.listed : ref.got[p] = 0}

\* SREM of the stale pairs, and the new scores; a command that failed is not
\* looked at.
DropStale(ok) ==
    /\ ref.at = "read"
    /\ pairs' = IF ok THEN pairs \ StalePairs ELSE pairs
    /\ dropped' = IF ok THEN dropped \union (StalePairs \intersect lateFor) ELSE dropped
    /\ known' = ref.got
    /\ ref' = RefreshIdle
    /\ UNCHANGED <<attempted, recording, lateFor, aged>>

\* A failed read ends the refresh with the old scores.
RefreshFails ==
    /\ ref.at \in {"idle", "listed"} /\ ref' = RefreshIdle
    /\ UNCHANGED <<attempted, pairs, known, recording, lateFor, dropped, aged>>

QuaNext ==
    \/ \E h \in QualityHandlers : AddPair(h) \/ \E p \in Pairs : CountAttempt(h, p)
    \/ \E p \in Pairs : WindowMoves(p)
    \/ ListPairs \/ ReadCounters \/ RefreshFails
    \/ \E ok \in BOOLEAN : DropStale(ok)

QuaSpec == QuaInit /\ [][QuaNext]_quaVars

-----------------------------------------------------------------------------
\* A pair that has attempts is in the set, so that the next refresh scores it:
\* only an attempt counted after a refresh found the pair empty, and before the
\* refresh dropped it, can be forgotten, until the next attempt.
CountedIsListed ==
    \A p \in Pairs : attempted[p] > 0 =>
        \/ p \in pairs \/ p \in dropped
        \/ \E h \in QualityHandlers : p \in recording[h]
=============================================================================
