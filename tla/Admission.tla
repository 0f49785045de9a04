----------------------------- MODULE Admission -----------------------------
(***************************************************************************)
(* The concurrent-call counters in Redis (internal/cache/admission.go): of *)
(* the customer, of the whole node group and of the carrier, one command   *)
(* at a time, and everyone who counts: Authorize, BeginAttempt and         *)
(* RecordAttempt in the handlers of a call (pipeline.go), Engine.Bill when *)
(* the call is settled (billing.go:288-305), and the reconciler's          *)
(* syncCounters (reconcile.go:98-119).                                     *)
(*                                                                         *)
(* All calls are of one customer over one carrier.  Every fault (a command *)
(* or a transaction that fails, a lost answer, a Redis failover, a hangup  *)
(* that only the reconciler settles) spends one of MaxFaults.              *)
(***************************************************************************)
EXTENDS Integers, Sequences, FiniteSets

CONSTANTS
    Calls,
    SlotLimit,       \* SlotLimit[s]: the limit of scope s, 0 for none
    MaxFaults        \* bound on faults

Scopes == {"customer", "global", "carrier"}

ASSUME SlotLimitsType ==
    SlotLimit \in [Scopes -> Nat] /\ MaxFaults \in Nat /\ IsFiniteSet(Calls)

VARIABLES
    cc,       \* cc:<scope>:<id>, 0 when there is no key
    pc,       \* where the call stands; its handlers run one at a time
    winner,   \* calls whose hangup will name the answering carrier
    row,      \* "none", "open" (active_calls row, pending CDR), "settled"
    leaving,  \* per call, thread "call" or "bill": counters to leave yet
    sync,     \* syncCounters: [pc, open], open the rows it counted
    faults

admVars == <<cc, pc, winner, row, leaving, sync, faults>>

\* Authorize uses the global counter only when a global limit is set.
CallScopes == IF SlotLimit["global"] > 0 THEN <<"customer", "global">> ELSE <<"customer">>

SyncIdle == [pc |-> "idle", open |-> 0]

AdmInit ==
    /\ cc = [s \in Scopes |-> 0]
    /\ pc = [c \in Calls |-> "idle"]
    /\ winner = {}
    /\ row = [c \in Calls |-> "none"]
    /\ leaving = [c \in Calls |-> [t \in {"call", "bill"} |-> <<>>]]
    /\ sync = SyncIdle
    /\ faults = 0

Fault == faults < MaxFaults /\ faults' = faults + 1
CallGoes(c, to) == pc' = [pc EXCEPT ![c] = to]

\* A handler of c may take its next step: it is not inside Leave.
FreeSlots(c) == leaving[c]["call"] = <<>>

\* Leave is called for these counters, one after the other.
StartLeaving(c, t, scopes) ==
    leaving' = [leaving EXCEPT ![c][t] = [i \in 1..Len(scopes) |->
                    [op |-> "decr", scope |-> scopes[i]]]]

-----------------------------------------------------------------------------
(***************************************************************************)
(* Admission.Admit and Admission.Leave.                                    *)
(***************************************************************************)

\* The counter Admit has just raised to n is over its limit.
Exceeded(s, n) == SlotLimit[s] > 0 /\ n > SlotLimit[s]

\* Admit at scope s: the pipeline raises the counter in one transaction; over
\* the limit, or over the calls per second, a second command lowers it again.
Admit(c, from, s, undo, admitted) ==
    /\ pc[c] = from /\ FreeSlots(c)
    /\ cc' = [cc EXCEPT ![s] = @ + 1]
    /\ \/ Exceeded(s, cc[s] + 1) /\ CallGoes(c, undo)
       \/ ~Exceeded(s, cc[s] + 1) /\ \E to \in {undo, admitted} : CallGoes(c, to)
    /\ UNCHANGED <<winner, row, leaving, sync, faults>>

\* Redis does not answer: the counter may have been raised all the same.
AdmitFails(c, from, s, to) ==
    /\ pc[c] = from /\ FreeSlots(c) /\ Fault
    /\ \/ cc' = [cc EXCEPT ![s] = @ + 1]
       \/ UNCHANGED cc
    /\ CallGoes(c, to)
    /\ UNCHANGED <<winner, row, sync>>

\* The DECR of a refused Admit; its error is ignored.
Undo(c, from, s, to) ==
    /\ pc[c] = from
    /\ \/ cc' = [cc EXCEPT ![s] = @ - 1] /\ UNCHANGED faults
       \/ Fault /\ UNCHANGED cc
    /\ CallGoes(c, to)
    /\ UNCHANGED <<winner, row, sync>>

\* Leave: DECR, and SET 0 in a second command when the result is negative.
Leave(c, t) ==
    LET step == Head(leaving[c][t])
        s == step.scope
        n == cc[s] - 1
        rest == Tail(leaving[c][t])
    IN  /\ leaving[c][t] # <<>>
        /\ \/ /\ step.op = "decr"
              /\ cc' = [cc EXCEPT ![s] = n]
              /\ leaving' = [leaving EXCEPT ![c][t] =
                    IF n < 0 THEN <<[op |-> "zero", scope |-> s]>> \o rest ELSE rest]
              /\ UNCHANGED faults
           \/ /\ step.op = "zero"
              /\ cc' = [cc EXCEPT ![s] = 0]
              /\ leaving' = [leaving EXCEPT ![c][t] = rest]
              /\ UNCHANGED faults
           \/ /\ Fault
              /\ leaving' = [leaving EXCEPT ![c][t] = rest]
              /\ UNCHANGED cc
        /\ UNCHANGED <<pc, winner, row, sync>>

-----------------------------------------------------------------------------
(***************************************************************************)
(* The handlers of a call.                                                 *)
(***************************************************************************)

\* Authorize: the customer's counter, then the global one.  A refusal or an
\* error of the second leaves the first.
AdmitCustomer(c) ==
    \/ Admit(c, "idle", "customer", "undo customer",
             IF SlotLimit["global"] > 0 THEN "global" ELSE "setup")
    \/ AdmitFails(c, "idle", "customer", "over") /\ UNCHANGED leaving
    \/ Undo(c, "undo customer", "customer", "over") /\ UNCHANGED leaving

AdmitGlobal(c) ==
    \/ Admit(c, "global", "global", "undo global", "setup")
    \/ AdmitFails(c, "global", "global", "over") /\ StartLeaving(c, "call", <<"customer">>)
    \/ Undo(c, "undo global", "global", "over") /\ StartLeaving(c, "call", <<"customer">>)

\* Mutant: a rejection keeps the slot.
RejectKeeps(c) ==
    /\ pc[c] = "setup" /\ CallGoes(c, "over")
    /\ UNCHANGED <<cc, winner, row, leaving, sync, faults>>
\* rejectAdmitted.
RejectAdmitted(c) ==
    /\ pc[c] = "setup" /\ CallGoes(c, "over")
    /\ StartLeaving(c, "call", CallScopes)
    /\ UNCHANGED <<cc, winner, row, sync, faults>>

\* Reserve commits.
ReserveRow(c) ==
    /\ pc[c] = "setup" /\ CallGoes(c, "reserved")
    /\ row' = [row EXCEPT ![c] = "open"]
    /\ UNCHANGED <<cc, winner, leaving, sync, faults>>

\* Setup returns an error after Authorize: no Leave.
SetupFails(c) ==
    /\ pc[c] \in {"setup", "reserved"} /\ Fault
    /\ CallGoes(c, "over")
    /\ UNCHANGED <<cc, winner, row, leaving, sync>>

\* rejectReserved: Leave follows whether the release worked, failed (the row
\* stays for the reconciler, whose Bill leaves again), or came too late.
RejectReserved(c) ==
    /\ pc[c] = "reserved" /\ CallGoes(c, "over")
    /\ \/ row' = [row EXCEPT ![c] = "settled"] /\ UNCHANGED faults
       \/ Fault /\ UNCHANGED row
    /\ StartLeaving(c, "call", CallScopes)
    /\ UNCHANGED <<cc, winner, sync>>

\* The answer is "dial".
Dial(c) ==
    /\ pc[c] = "reserved" /\ CallGoes(c, "dial")
    /\ UNCHANGED <<cc, winner, row, leaving, sync, faults>>

\* BeginAttempt.  A full carrier is skipped; without an answer from the API
\* the script dials all the same.
BeginAttempt(c) ==
    \/ Admit(c, "dial", "carrier", "undo carrier", "begun")
    \/ AdmitFails(c, "dial", "carrier", "begun") /\ UNCHANGED leaving
    \/ Undo(c, "undo carrier", "carrier", "dial") /\ UNCHANGED leaving

\* RecordAttempt of a failed attempt: the record first, then Leave; without
\* the record (or its answer) the script stops, and nobody leaves.
AttemptFails(c) ==
    /\ pc[c] = "begun" /\ FreeSlots(c)
    /\ \/ /\ StartLeaving(c, "call", <<"carrier">>)
          /\ \E to \in {"dial", "hangup"} : CallGoes(c, to)
          /\ UNCHANGED faults
       \/ Fault /\ CallGoes(c, "hangup") /\ UNCHANGED leaving
    /\ UNCHANGED <<cc, winner, row, sync>>

\* The carrier answers, and the hangup variables will name it.
Answered(c) ==
    /\ pc[c] = "begun" /\ CallGoes(c, "hangup")
    /\ winner' = winner \cup {c}
    /\ UNCHANGED <<cc, row, leaving, sync, faults>>

DialEnds(c) ==
    /\ pc[c] = "dial" /\ FreeSlots(c) /\ CallGoes(c, "hangup")
    /\ UNCHANGED <<cc, winner, row, leaving, sync, faults>>

-----------------------------------------------------------------------------
\* Engine.Bill of an open call by a trigger that has the hangup variables, or
\* by the reconciler, which knows no carrier; Leave follows the commit.
Bill(c) ==
    /\ row[c] = "open" /\ pc[c] \in {"hangup", "over"}
    /\ row' = [row EXCEPT ![c] = "settled"]
    /\ \/ /\ StartLeaving(c, "bill", IF c \in winner THEN CallScopes \o <<"carrier">>
                                                     ELSE CallScopes)
          /\ UNCHANGED faults
       \/ StartLeaving(c, "bill", CallScopes) /\ Fault
    /\ CallGoes(c, "over") /\ winner' = winner \ {c}
    /\ UNCHANGED <<cc, sync>>

\* syncCounters: count the rows, read the counter, overwrite it.
OpenRows == Cardinality({c \in Calls : row[c] = "open"})

SyncCount ==
    /\ sync.pc = "idle"
    /\ sync' = [pc |-> "counted", open |-> OpenRows]
    /\ UNCHANGED <<cc, pc, winner, row, leaving, faults>>

\* Mutant: only a counter that is too low is corrected.
RaiseOnly == sync.open > cc["customer"]
\* The counter differs from the rows.
Drifted == sync.open # cc["customer"]

SyncRead ==
    /\ sync.pc = "counted"
    /\ sync' = IF Drifted THEN [sync EXCEPT !.pc = "drifted"] ELSE SyncIdle
    /\ UNCHANGED <<cc, pc, winner, row, leaving, faults>>

SyncSet ==
    /\ sync.pc = "drifted"
    /\ \/ cc' = [cc EXCEPT !["customer"] = sync.open] /\ UNCHANGED faults
       \/ Fault /\ UNCHANGED cc
    /\ sync' = SyncIdle
    /\ UNCHANGED <<pc, winner, row, leaving>>

\* A failover to a replica that has not seen the counters.
RedisFailover ==
    /\ Fault
    /\ cc' = [s \in Scopes |-> 0]
    /\ UNCHANGED <<pc, winner, row, leaving, sync>>

-----------------------------------------------------------------------------
Handler(c) ==
    \/ AdmitCustomer(c) \/ AdmitGlobal(c)
    \/ RejectAdmitted(c) \/ ReserveRow(c) \/ SetupFails(c)
    \/ RejectReserved(c) \/ Dial(c)
    \/ BeginAttempt(c) \/ AttemptFails(c) \/ Answered(c) \/ DialEnds(c)

AllOver == \A c \in Calls : pc[c] \in {"idle", "hangup", "over"}

AdmNext ==
    \/ \E c \in Calls : Handler(c) \/ Bill(c) \/ Leave(c, "call") \/ Leave(c, "bill")
    \/ SyncCount \/ SyncRead \/ SyncSet
    \/ RedisFailover

\* Leave goes on once it is called, a call that has ended is settled, and the
\* reconciler comes every minute.
Ends(c) == Leave(c, "call") \/ Leave(c, "bill") \/ Bill(c)
Sync == SyncCount \/ SyncRead \/ SyncSet

AdmFairness == WF_admVars(Sync) /\ \A c \in Calls : WF_admVars(Ends(c))

AdmSpec == AdmInit /\ [][AdmNext]_admVars
FairAdmSpec == AdmSpec /\ AdmFairness

-----------------------------------------------------------------------------
(***************************************************************************)
(* Properties.                                                             *)
(***************************************************************************)

\* The call has yet to leave the counter of s in a Leave that has begun.
LeavesScope(c, s) == \E t \in {"call", "bill"} :
    \E i \in 1..Len(leaving[c][t]) : leaving[c][t][i].scope = s

\* c occupies a slot of scope s.
Up(c, s) ==
    IF s = "carrier"
    THEN pc[c] = "begun" \/ (pc[c] = "hangup" /\ c \in winner /\ row[c] = "open")
    ELSE pc[c] \in {"setup", "reserved", "dial", "undo carrier", "begun"}
            \/ (pc[c] = "hangup" /\ row[c] = "open")

\* c was counted at s and is about to be turned down.
Over(c, s) ==
    \/ s = "customer" /\ pc[c] \in {"undo customer", "global", "undo global"}
    \/ s = "global" /\ pc[c] = "undo global"
    \/ s = "carrier" /\ pc[c] = "undo carrier"

\* Without faults the counters nobody overwrites are exact: each counts the
\* calls that are up, about to be turned down, or about to leave, whatever
\* the order of INCR, DECR, settlement and the SET 0 of Leave.
SlotsExact ==
    faults = 0 => \A s \in {"carrier", "global"} : SlotLimit[s] > 0 =>
        cc[s] = Cardinality({c \in Calls : Up(c, s) \/ Over(c, s) \/ LeavesScope(c, s)})

\* Without faults no more calls are up than the carrier and the node group
\* allow.
LimitKept ==
    faults = 0 => \A s \in {"carrier", "global"} : SlotLimit[s] > 0 =>
        Cardinality({c \in Calls : Up(c, s)}) <= SlotLimit[s]

\* Whatever the faults did to it, the customer's counter comes back to zero
\* when the calls are over.
CounterRecovers == <>[]AllOver => <>[](cc["customer"] = 0)

\* "exceeding gives 480": no more calls of the customer are up than allowed.
CustomerLimitKept ==
    SlotLimit["customer"] > 0 =>
        Cardinality({c \in Calls : Up(c, "customer")}) <= SlotLimit["customer"]

\* "answered calls release it when billed": the carrier's counter comes back
\* to zero when the calls are over.
CarrierRecovers == <>[]AllOver => <>[](cc["carrier"] = 0)

=============================================================================
