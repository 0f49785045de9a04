------------------------------ MODULE Prepaid ------------------------------
(***************************************************************************)
(* What prepaid billing promises a customer, without saying how: a call    *)
(* may hold money only while the account has that much free, every held    *)
(* call is settled at most once, and settling it is the only thing a call  *)
(* ever does to the balance.  There is no reserved column, no ledger and   *)
(* no CDR here: what is held is the sum over the calls that hold it.       *)
(*                                                                         *)
(* docs/BILLING.md sections 3 and 4.  Billing implements this module.      *)
(***************************************************************************)
EXTENDS Integers

CONSTANTS
    Calls, Customers, Owner, OpeningFunds, Money, Postings,
    Total(_, _)   \* Total(f, S): the sum of f over S

VARIABLES
    funds,   \* money of each customer
    limit,   \* allowed credit of each customer
    stage,   \* each call: "none", "pending" or "billed"
    hold     \* what each call holds

vars == <<funds, limit, stage, hold>>

Free(a) == funds[a] + limit[a] - Total(hold, {c \in Calls : Owner[c] = a})

Init ==
    /\ funds = OpeningFunds
    /\ limit = [a \in Customers |-> 0]
    /\ stage = [c \in Calls |-> "none"]
    /\ hold = [c \in Calls |-> 0]

\* A call that is turned down holds nothing and costs nothing.
Refuse(c) ==
    /\ stage[c] = "none"
    /\ stage' = [stage EXCEPT ![c] = "billed"]
    /\ UNCHANGED <<funds, limit, hold>>

Hold(c, amount) ==
    /\ stage[c] = "none"
    /\ Free(Owner[c]) > 0
    /\ Free(Owner[c]) >= amount
    /\ stage' = [stage EXCEPT ![c] = "pending"]
    /\ hold' = [hold EXCEPT ![c] = amount]
    /\ UNCHANGED <<funds, limit>>

Settle(c, price) ==
    /\ stage[c] = "pending"
    /\ stage' = [stage EXCEPT ![c] = "billed"]
    /\ hold' = [hold EXCEPT ![c] = 0]
    /\ funds' = [funds EXCEPT ![Owner[c]] = @ - price]
    /\ UNCHANGED limit

Fund(a, amount) ==
    /\ funds' = [funds EXCEPT ![a] = @ + amount]
    /\ UNCHANGED <<limit, stage, hold>>

SetLimit(a, amount) ==
    /\ limit' = [limit EXCEPT ![a] = amount]
    /\ UNCHANGED <<funds, stage, hold>>

Next ==
    \/ \E c \in Calls :
        \/ Refuse(c)
        \/ \E amount \in Money : Hold(c, amount)
        \/ \E price \in Money \cup {0} : Settle(c, price)
    \/ \E a \in Customers :
        \/ \E amount \in Postings \cup {-p : p \in Postings} : Fund(a, amount)
        \/ \E amount \in Postings : SetLimit(a, amount)

Spec == Init /\ [][Next]_vars

=============================================================================
