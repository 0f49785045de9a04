------------------------------- MODULE Rollup -------------------------------
(***************************************************************************)
(* The hourly totals of one hour (internal/reports/rollup.go): Once and    *)
(* staleHours, while Engine.Bill settles CDRs of that hour in transactions *)
(* of their own.  now() is the start of a transaction, both for a CDR's    *)
(* updated_at and for the totals' computed_at; the model keeps only which  *)
(* came first.                                                             *)
(***************************************************************************)
EXTENDS Naturals, FiniteSets

CONSTANTS
    HourCalls,  \* the calls that started in the hour
    MaxFailed   \* bound on roll-ups that fail

VARIABLES
    recent,    \* the hour is the current or the previous one
    cdr,       \* per call: "pending", "open" (its bill has begun) or "final"
    newer,     \* calls with updated_at > computed_at of the totals
    totals,    \* the calls the totals count
    roll,      \* [at, newer, open, counts, missed]
    overtaken, \* calls whose bill was open from the start of the last roll-up to its INSERT
    failed

rollVars == <<recent, cdr, newer, totals, roll, overtaken, failed>>

Final == {c \in HourCalls : cdr[c] = "final"}
Open == {c \in HourCalls : cdr[c] = "open"}
Waiting == [at |-> "idle", newer |-> {}, open |-> {}, counts |-> {}, missed |-> {}]

RollInit ==
    /\ recent = TRUE
    /\ cdr = [c \in HourCalls |-> "pending"]
    /\ newer = {} /\ totals = {} /\ overtaken = {}
    /\ roll = Waiting
    /\ failed = 0

\* Engine.Bill begins, and commits.
BeginLateBill(c) ==
    /\ cdr[c] = "pending"
    /\ cdr' = [cdr EXCEPT ![c] = "open"]
    /\ newer' = newer \cup {c}
    /\ roll' = IF roll.at \in {"begun", "inserted"} THEN [roll EXCEPT !.newer = @ \cup {c}] ELSE roll
    /\ UNCHANGED <<recent, totals, overtaken, failed>>

CommitBill(c) ==
    /\ cdr[c] = "open"
    /\ cdr' = [cdr EXCEPT ![c] = "final"]
    /\ UNCHANGED <<recent, newer, totals, roll, overtaken, failed>>

\* Mutant: only the current and the previous hour are computed.
StaleWhenRecent == recent

\* staleHours: the hour is recent, has no totals, or a CDR newer than they are.
StaleHour == recent \/ (Final # {} /\ totals = {}) \/ newer \cap Final # {}

ListHours ==
    /\ roll.at = "idle" /\ StaleHour
    /\ roll' = [roll EXCEPT !.at = "listed"]
    /\ UNCHANGED <<recent, cdr, newer, totals, overtaken, failed>>

\* The transaction begins: computed_at, then the old totals are deleted.
BeginRollup ==
    /\ roll.at = "listed"
    /\ roll' = [Waiting EXCEPT !.at = "begun", !.open = Open]
    /\ UNCHANGED <<recent, cdr, newer, totals, overtaken, failed>>

\* The INSERT counts the CDRs that have been committed by now.
InsertTotals ==
    /\ roll.at = "begun"
    /\ roll' = [roll EXCEPT !.at = "inserted", !.counts = Final, !.missed = roll.open \cap Open]
    /\ UNCHANGED <<recent, cdr, newer, totals, overtaken, failed>>

CommitRollup ==
    /\ roll.at = "inserted"
    /\ totals' = roll.counts
    /\ newer' = roll.newer
    /\ overtaken' = roll.missed
    /\ roll' = Waiting
    /\ UNCHANGED <<recent, cdr, failed>>

\* A statement fails: everything is rolled back until the next tick.
RollupFails ==
    /\ roll.at # "idle" /\ failed < MaxFailed
    /\ failed' = failed + 1
    /\ roll' = Waiting
    /\ UNCHANGED <<recent, cdr, newer, totals, overtaken>>

HourPasses ==
    /\ recent /\ recent' = FALSE
    /\ UNCHANGED <<cdr, newer, totals, roll, overtaken, failed>>

RollStep == ListHours \/ BeginRollup \/ InsertTotals \/ CommitRollup

RollNext ==
    \/ \E c \in HourCalls : BeginLateBill(c) \/ CommitBill(c)
    \/ RollStep \/ RollupFails \/ HourPasses

-----------------------------------------------------------------------------
\* Between passes a settled call is counted, or its hour will be listed again
\* because the call is newer than the totals, or its bill was open while the
\* last roll-up ran from its start to its INSERT.
CountedOrNoticed ==
    roll.at = "idle" =>
        \A c \in Final : c \in totals \cup newer \cup overtaken \/ totals = {} \/ recent

\* Every call that was settled late, after its hour had passed, is counted in
\* the end, unless its bill was overtaken.
LateCallsCounted == <>[](recent \/ Final \subseteq totals \cup overtaken)
=============================================================================
