------------------------------ MODULE BillLocks ------------------------------
(***************************************************************************)
(* The row locks of Bill (internal/billing/billing.go): the transaction    *)
(* locks the call's CDR, updates the account of the answering carrier, the *)
(* accounts of the carriers that charge for failed attempts in the order   *)
(* of the attempts, and last the customer's, while other bills and         *)
(* reservations do the same.  Postgres keeps a lock to the end of the      *)
(* transaction and aborts one transaction of a cycle.                      *)
(***************************************************************************)
EXTENDS Naturals, Sequences, FiniteSets, SequencesExt

CONSTANTS
    Bills,         \* the calls that end
    BillCarriers,  \* carriers
    Holder,        \* the customer account they share
    NoCarrier,     \* no carrier answered
    MaxFees        \* bound on failed attempts that are charged

VARIABLES
    plan,     \* per call [answered, failed]: the carriers in its CDR
    locked,   \* per call the rows its transaction holds, in order
    txn,      \* per call "open", "running", "aborted" or "billed"
    reserve   \* the setup of another call: "idle" or "holds" the customer

lckVars == <<plan, locked, txn, reserve>>

LckInit ==
    /\ plan \in [Bills -> [answered : BillCarriers \union {NoCarrier},
                           failed : BoundedSeq(BillCarriers, MaxFees)]]
    /\ locked = [b \in Bills |-> <<>>] /\ txn = [b \in Bills |-> "open"]
    /\ reserve = "idle"

\* Mutant: the customer is charged before the failed attempts are costed.
RowsCustomerEarly(b) ==
    (IF plan[b].answered = NoCarrier THEN <<>> ELSE <<plan[b].answered>>)
        \o <<Holder>> \o plan[b].failed

\* The account rows in the order in which Bill takes them.
Rows(b) ==
    (IF plan[b].answered = NoCarrier THEN <<>> ELSE <<plan[b].answered>>)
        \o plan[b].failed \o <<Holder>>

NextRow(b) == Rows(b)[Len(locked[b]) + 1]
RowsHeld(b) == ToSet(locked[b])
WaitsForRow(b) ==
    /\ txn[b] = "running" /\ Len(locked[b]) < Len(Rows(b)) /\ NextRow(b) \notin RowsHeld(b)
    /\ \/ \E o \in Bills \ {b} : NextRow(b) \in RowsHeld(o)
       \/ NextRow(b) = Holder /\ reserve = "holds"

\* One of the call's triggers begins; LockCDR keeps the others out.
BeginBill(b) ==
    /\ txn[b] = "open" /\ txn' = [txn EXCEPT ![b] = "running"]
    /\ UNCHANGED <<plan, locked, reserve>>

\* Post or LockAccount: the row is locked, or already the transaction's own.
TakeRow(b) ==
    /\ txn[b] = "running" /\ Len(locked[b]) < Len(Rows(b)) /\ ~WaitsForRow(b)
    /\ locked' = [locked EXCEPT ![b] = Append(@, NextRow(b))]
    /\ UNCHANGED <<plan, txn, reserve>>

CommitTxn(b) ==
    /\ txn[b] = "running" /\ Len(locked[b]) = Len(Rows(b))
    /\ txn' = [txn EXCEPT ![b] = "billed"]
    /\ locked' = [locked EXCEPT ![b] = <<>>]
    /\ UNCHANGED <<plan, reserve>>

\* Which transactions wait for each other.
WaitsFor(b, o) == WaitsForRow(b) /\ NextRow(b) \in RowsHeld(o)
Cycle == UNION {S \in SUBSET Bills :
    \A b \in S : (\E o \in S : WaitsFor(b, o)) /\ (\E o \in S : WaitsFor(o, b))}

\* Mutant: what the transaction had deleted stays deleted.
AbortLosesRow(b) ==
    /\ b \in Cycle
    /\ locked' = [locked EXCEPT ![b] = <<>>]
    /\ txn' = [txn EXCEPT ![b] = "lost"]
    /\ UNCHANGED <<plan, reserve>>

\* Postgres aborts one of a cycle: Bill returns an error with nothing done.
Abort(b) ==
    /\ b \in Cycle
    /\ locked' = [locked EXCEPT ![b] = <<>>]
    /\ txn' = [txn EXCEPT ![b] = "aborted"]
    /\ UNCHANGED <<plan, reserve>>

\* A later trigger, at the latest the reconciler.  It comes seconds later, when
\* the transactions that were running have ended.
NextTrigger(b) ==
    /\ txn[b] = "aborted" /\ \A o \in Bills : txn[o] # "running"
    /\ txn' = [txn EXCEPT ![b] = "open"]
    /\ UNCHANGED <<plan, locked, reserve>>

\* Reserve locks the customer's account alone.
BeginReserve ==
    /\ reserve = "idle" /\ \A b \in Bills : Holder \notin RowsHeld(b)
    /\ reserve' = "holds"
    /\ UNCHANGED <<plan, locked, txn>>
EndReserve ==
    /\ reserve = "holds" /\ reserve' = "idle"
    /\ UNCHANGED <<plan, locked, txn>>

LckNext ==
    \/ \E b \in Bills : BeginBill(b) \/ TakeRow(b) \/ CommitTxn(b) \/ Abort(b) \/ NextTrigger(b)
    \/ BeginReserve \/ EndReserve

BillStep(b) == BeginBill(b) \/ TakeRow(b) \/ CommitTxn(b) \/ Abort(b) \/ NextTrigger(b)

-----------------------------------------------------------------------------
\* Bills wait in a cycle only over the accounts of carriers whose failed
\* attempts are charged: the customer's account, the hot row, is never part of
\* one, and two calls whose bills touch one carrier each never block each
\* other for good.
CycleNeedsFees ==
    \A b \in Cycle : NextRow(b) # Holder /\ plan[b].failed # <<>>

\* A call that is being billed is billed in the end, though its transactions
\* are aborted.
BillsSettle == \A b \in Bills : (txn[b] = "running") ~> (txn[b] = "billed")
=============================================================================
