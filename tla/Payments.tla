------------------------------ MODULE Payments ------------------------------
(***************************************************************************)
(* Payments of an account and their allocation to its invoices: InsertPay- *)
(* ment (internal/invoice/payments.go) and Delete (invoice.go), which must *)
(* not meet.                                                               *)
(*                                                                         *)
(* Both read what was paid and lock the invoice rows in one statement.     *)
(* Postgres (external, READ COMMITTED) takes the statement's snapshot      *)
(* before it waits for the lock; after the wait it reads again only rows   *)
(* that were updated, and an allocation updates no invoice row.            *)
(***************************************************************************)
EXTENDS Sums

CONSTANTS
    InvoiceCount,  \* the account's invoices are numbered by the start of their period
    Owes,          \* Owes[i]: the amount of invoice i
    Payers,        \* concurrent payments
    Sums           \* what a payment may be worth

Invoices == 1..InvoiceCount

ASSUME PaymentConstants ==
    /\ InvoiceCount \in Nat /\ Owes \in [Invoices -> Nat]
    /\ Sums \subseteq Nat \ {0} /\ IsFiniteSet(Payers)

VARIABLES
    live,      \* invoices with deleted_at IS NULL
    payment,   \* per payer: [at, amount, to, auto, due, plan], due the snapshot
    deletion,  \* Delete: [at, id, paid]
    paidBy,    \* invoice_allocations: per payer and invoice
    late       \* a transaction worked on a snapshot older than its lock

payVars == <<live, payment, deletion, paidBy, late>>

Nil == [i \in Invoices |-> 0]
AllocationTotal(plan) == Total(plan, Invoices)
Paid(i) == Total([p \in Payers |-> paidBy[p][i]], Payers)
NotAsked == [at |-> "idle", amount |-> 0, to |-> Nil, auto |-> FALSE, due |-> Nil, plan |-> Nil]

PayInit ==
    /\ live = Invoices
    /\ payment = [p \in Payers |-> NotAsked]
    /\ deletion = [at |-> "idle", id |-> 0, paid |-> 0]
    /\ paidBy = [p \in Payers |-> Nil]
    /\ late = FALSE

Locked ==
    (UNION {DOMAIN payment[p].due : p \in {q \in Payers : payment[q].at = "locked"}})
        \cup (IF deletion.at = "locked" THEN {deletion.id} ELSE {})

\* InsertPayment's statement starts: the open invoices and what each still owes.
StartPayment(p, amount, to, auto) ==
    /\ payment[p].at = "idle"
    /\ payment' = [payment EXCEPT ![p] =
                      [at |-> "reading", amount |-> amount, to |-> to, auto |-> auto, plan |-> Nil,
                       due |-> [i \in live |-> Owes[i] - Paid(i)]]]
    /\ UNCHANGED <<live, deletion, paidBy, late>>

\* Mutant: an allocation is compared with the payment only.
AcceptedUpToPayment(due, to, amount) ==
    (\A i \in Invoices : to[i] > 0 => i \in DOMAIN due) /\ AllocationTotal(to) <= amount

\* The operator's allocations are refused when one is not to an open invoice,
\* exceeds what it owes, or all together exceed the payment.
Accepted(due, to, amount) ==
    /\ \A i \in Invoices : to[i] > 0 => i \in DOMAIN due /\ to[i] <= due[i]
    /\ AllocationTotal(to) <= amount

\* due := o.due.Sub(planned[o.id]), unless it is not positive.
Owed(due, to) == [i \in DOMAIN due |-> IF due[i] > to[i] THEN due[i] - to[i] ELSE 0]

\* What the operator's allocations and the older invoices leave for invoice i.
Remaining(due, to, amount, i) ==
    amount - AllocationTotal(to) - Total(Owed(due, to), {j \in DOMAIN due : j < i})

\* decimal.Min(due, remaining), until nothing remains.
Take(owed, remains) == IF remains <= 0 THEN 0 ELSE IF owed <= remains THEN owed ELSE remains

\* autoAllocate: what is left goes to the open invoices, oldest period first.
Spread(due, to, amount) ==
    [i \in Invoices |-> IF i \in DOMAIN due
                        THEN to[i] + Take(Owed(due, to)[i], Remaining(due, to, amount, i)) ELSE 0]

\* Rows deleted during the wait no longer match the statement.
AfterWait(due) == [i \in DOMAIN due \cap live |-> due[i]]

\* The rows are locked, in one order for all; the allocations are planned and
\* inserted, or the transaction is rolled back.
LockAndPlan(p) ==
    LET q == payment[p]
        due == AfterWait(q.due)
    IN
    /\ q.at = "reading"
    /\ DOMAIN q.due \cap Locked = {}
    /\ late' = (late \/ \E i \in DOMAIN due : due[i] # Owes[i] - Paid(i))
    /\ payment' = [payment EXCEPT ![p] =
            IF Accepted(due, q.to, q.amount)
            THEN [q EXCEPT !.at = "locked", !.due = due,
                           !.plan = IF q.auto THEN Spread(due, q.to, q.amount) ELSE q.to]
            ELSE [NotAsked EXCEPT !.at = "done"]]
    /\ UNCHANGED <<live, deletion, paidBy>>

CommitPayment(p) ==
    /\ payment[p].at = "locked"
    /\ paidBy' = [paidBy EXCEPT ![p] = payment[p].plan]
    /\ payment' = [payment EXCEPT ![p] = [NotAsked EXCEPT !.at = "done", !.amount = payment[p].amount]]
    /\ UNCHANGED <<live, deletion, late>>

\* Delete's statement starts with what was paid by then.
StartDelete(i) ==
    /\ deletion.at = "idle"
    /\ deletion' = [at |-> "reading", id |-> i, paid |-> Paid(i)]
    /\ UNCHANGED <<live, payment, paidBy, late>>

\* Delete refuses a deleted invoice and one that is paid, in part or whole.
Deletable(i, paid) == i \in live /\ paid = 0

\* The row is locked; a deleted or a paid invoice is refused.
LockAndDecide ==
    /\ deletion.at = "reading" /\ deletion.id \notin Locked
    /\ late' = (late \/ deletion.paid # Paid(deletion.id))
    /\ deletion' = [deletion EXCEPT !.at = IF Deletable(deletion.id, deletion.paid) THEN "locked" ELSE "idle"]
    /\ UNCHANGED <<live, payment, paidBy>>

CommitDelete ==
    /\ deletion.at = "locked"
    /\ live' = live \ {deletion.id}
    /\ deletion' = [at |-> "idle", id |-> 0, paid |-> 0]
    /\ UNCHANGED <<payment, paidBy, late>>

\* What an operator may ask for: to each invoice nothing or some amount.
Wishes == [Invoices -> {0} \cup Sums]

PayNext ==
    \/ \E p \in Payers, amount \in Sums, to \in Wishes, auto \in BOOLEAN : StartPayment(p, amount, to, auto)
    \/ \E p \in Payers : LockAndPlan(p) \/ CommitPayment(p)
    \/ \E i \in Invoices : StartDelete(i)
    \/ LockAndDecide \/ CommitDelete

PaySpec == PayInit /\ [][PayNext]_payVars

-----------------------------------------------------------------------------
\* A payment is never spent twice, no invoice is paid more than it owes, and a
\* deleted one is not paid at all (InsertPayment, Delete), the last two as long
\* as every transaction's snapshot is as new as its lock: a payment that waited
\* for a deletion does not pay the deleted invoice.
PaidWithin ==
    /\ \A p \in Payers : AllocationTotal(paidBy[p]) <= payment[p].amount
    /\ late \/ \A i \in Invoices : Paid(i) <= IF i \in live THEN Owes[i] ELSE 0

\* "Allocations may not exceed the payment or what an invoice still owes"
\* (payments.go:51).
NeverOverpaid == \A i \in Invoices : Paid(i) <= Owes[i]
=============================================================================
