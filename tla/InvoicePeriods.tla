--------------------------- MODULE InvoicePeriods ---------------------------
(***************************************************************************)
(* Which periods of an account are invoiced (internal/invoice/invoice.go): *)
(* GeneratePeriod, called by operators and by the monthly worker's         *)
(* GenerateMonth, while Delete frees periods again.  A period is given by  *)
(* its first and its last day.  Every statement is a step; only the unique *)
(* index on the period of live invoices connects the check with the        *)
(* insert.                                                                 *)
(***************************************************************************)
EXTENDS Naturals, Sequences

CONSTANTS
    LastDay,     \* of the month
    Makers,      \* concurrent callers of GeneratePeriod
    MaxInvoices  \* bound on invoices

ASSUME PeriodBounds == LastDay \in Nat \ {0} /\ MaxInvoices \in Nat

VARIABLES
    invoices,   \* rows: [period, live]
    maker,      \* per caller: [at, period, seen], seen the rows its check saw
    raced       \* an invoice was inserted after a check that missed another insert

perVars == <<invoices, maker, raced>>

Days == 1..LastDay
Month == [first |-> 1, last |-> LastDay]
Periods == {p \in [first : Days, last : Days] : p.first <= p.last}
DaysOf(p) == p.first..p.last
Live == {i \in DOMAIN invoices : invoices[i].live}
FreeMaker == [at |-> "idle", period |-> Month, seen |-> 0]
MakerGoes(m, step) == maker' = [maker EXCEPT ![m] = step]

PerInit ==
    /\ invoices = <<>>
    /\ maker = [m \in Makers |-> FreeMaker]
    /\ raced = FALSE

\* GenerateMonth's query: no deleted invoice of the account lies in the month.
MonthUntouched == \A i \in DOMAIN invoices : invoices[i].live

\* The worker lists the account and calls Generate for it.
ListMonth(m) ==
    /\ maker[m].at = "idle" /\ MonthUntouched
    /\ MakerGoes(m, [FreeMaker EXCEPT !.at = "called", !.period = Month])
    /\ UNCHANGED <<invoices, raced>>

\* An operator asks for an invoice.
AskInvoice(m, period) ==
    /\ maker[m].at = "idle"
    /\ MakerGoes(m, [FreeMaker EXCEPT !.at = "called", !.period = period])
    /\ UNCHANGED <<invoices, raced>>

\* Mutant: a period that contains an invoiced one is no overlap.
StartsInside(a, b) == a.first <= b.first /\ a.last >= b.first

\* period_start < $3 AND period_end > $2
Overlaps(a, b) == a.first <= b.last /\ a.last >= b.first

\* GeneratePeriod looks for a live invoice of the same or an overlapping period.
CheckOverlap(m) ==
    /\ maker[m].at = "called"
    /\ MakerGoes(m, IF \E i \in Live : Overlaps(invoices[i].period, maker[m].period)
               THEN FreeMaker
               ELSE [maker[m] EXCEPT !.at = "checked", !.seen = Len(invoices)])
    /\ UNCHANGED <<invoices, raced>>

\* invoices_account_period_live_key.
Duplicate(period) == \E i \in Live : invoices[i].period = period

\* The ledger is summed and the invoice inserted, or the index refuses it.
InsertInvoice(m) ==
    /\ maker[m].at = "checked"
    /\ IF Duplicate(maker[m].period) \/ Len(invoices) = MaxInvoices
       THEN UNCHANGED <<invoices, raced>>
       ELSE /\ invoices' = Append(invoices, [period |-> maker[m].period, live |-> TRUE])
            /\ raced' = (raced \/ Len(invoices) > maker[m].seen)
    /\ MakerGoes(m, FreeMaker)

\* Delete, of an unpaid invoice.
DeleteInvoice(i) ==
    /\ invoices[i].live
    /\ invoices' = [invoices EXCEPT ![i].live = FALSE]
    /\ UNCHANGED <<maker, raced>>

PerNext ==
    \/ \E m \in Makers : ListMonth(m) \/ CheckOverlap(m) \/ InsertInvoice(m)
    \/ \E m \in Makers, period \in Periods : AskInvoice(m, period)
    \/ \E i \in DOMAIN invoices : DeleteInvoice(i)

PerSpec == PerInit /\ [][PerNext]_perVars

-----------------------------------------------------------------------------
\* "Every call is invoiced once" (invoice.go:112).  Two live invoices never have
\* the same period, whatever the interleaving: the worker and operators may ask
\* for it at once, before and after deletions.  No day is in two live invoices,
\* as long as no check missed an invoice that was inserted before its own.
InvoicedOnce ==
    \A i, j \in Live : i # j =>
        /\ invoices[i].period # invoices[j].period
        /\ raced \/ DaysOf(invoices[i].period) \cap DaysOf(invoices[j].period) = {}
=============================================================================
