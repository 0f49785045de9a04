------------------------------ MODULE Billing ------------------------------
(***************************************************************************)
(* The money core of the SBC: the Postgres tables accounts, ledger_entries,*)
(* cdrs and active_calls, and every transaction that writes money to them. *)
(*                                                                         *)
(*   Setup's rejections           internal/callcontrol/pipeline.go:613-640 *)
(*   Pipeline.Reserve             internal/callcontrol/pipeline.go:279-326 *)
(*   Pipeline.ReleaseReservation  internal/callcontrol/pipeline.go:902-950 *)
(*   Store.AppendAttempt          internal/store/cdrs.go:75-82             *)
(*   Engine.Bill                  internal/billing/billing.go:70-315       *)
(*   operator postings, credit    internal/httpapi/admin/customers.go      *)
(*                                                                         *)
(* One action is one transaction: the row locks (LockCDR, LockActiveCall,  *)
(* UPDATE accounts) serialise transactions that touch the same rows and    *)
(* every write of money is an increment computed by the UPDATE itself.     *)
(* What is not inside a transaction is a step of its own: Reserve reads    *)
(* the account first and re-checks it in a later transaction.              *)
(*                                                                         *)
(* Billing triggers are unconstrained here: Bill and ReleaseReservation    *)
(* may run at any time, any number of times, with any outcome.  Which      *)
(* triggers really arrive is the subject of CallLifecycle.                 *)
(*                                                                         *)
(* Amounts are integers, in units of the sixth decimal place               *)
(* (NUMERIC(18,6), rating.Scale).                                          *)
(***************************************************************************)
EXTENDS Integers, FiniteSets, Sums

CONSTANTS
    Calls,       \* call_uuids; the switch never reuses one
    Customers,   \* customer accounts
    Carriers,    \* carrier accounts
    Owner,       \* Owner[c]: the customer that places call c
    FailFee,     \* FailFee[k]: what carrier k charges for a failed attempt
                 \* (connect fee when charge_failed_attempts, else 0)
    Opening,     \* Opening[a]: the opening balance, a top-up entry
    Money,       \* the amounts that occur as reservation, price and cost
    Postings,    \* the amounts an operator posts, or sets as credit
    MaxAttempts, \* bound on the attempt records of one call and carrier
    MaxPosts     \* bound on operator postings and credit changes

ASSUME CallsFinite == IsFiniteSet(Calls)
ASSUME AccountsDisjoint == Customers \cap Carriers = {}
ASSUME OwnerType == Owner \in [Calls -> Customers]
ASSUME FailFeeType == FailFee \in [Carriers -> Nat]
ASSUME OpeningType == Opening \in [Customers \cup Carriers -> Nat]
ASSUME MoneyType == Money \subseteq Nat
ASSUME PostingsType == Postings \subseteq Nat
ASSUME BoundsType == MaxAttempts \in Nat /\ MaxPosts \in Nat

VARIABLES
    balance,    \* accounts.balance
    credit,     \* accounts.allowed_credit
    reserved,   \* accounts.reserved
    ledger,     \* ledger[a][t]: SUM(amount) of the entries of account a, type t
    cdr,        \* cdrs: "none" (no row), "pending", "billed" (billed_at set)
    charged,    \* cdrs.charged_amount
    released,   \* cdrs.released_amount
    cost,       \* cdrs.cost, split by the carrier it is owed to
    attempts,   \* cdrs.attempts: how many records per carrier and outcome
    open,       \* the calls with an active_calls row
    held,       \* active_calls.reserved_amount of those rows
    entries,    \* entries[c][t]: number of ledger entries with call_uuid c
    setup,      \* where the Setup handler of the call stands
    quote,      \* the reservation and the available funds Reserve has read
    posts       \* operator postings so far

moneyVars == <<balance, credit, reserved, ledger>>
callVars == <<cdr, charged, released, cost, attempts, open, held, entries>>
vars == <<balance, credit, reserved, ledger, cdr, charged, released, cost,
          attempts, open, held, entries, setup, quote, posts>>

Accounts == Customers \cup Carriers

\* ledger_entries.type
BalanceTypes == {"charge", "cost", "topup", "adjustment", "refund"}
LedgerTypes == BalanceTypes \cup {"reserve", "release"}
OperatorTypes == {"topup", "adjustment", "refund"}

\* model.Account.Available()
Available(a) == balance[a] + credit[a] - reserved[a]

\* The condition of Step 4, and of the WHERE clause of store.Reserve.
Affordable(a, amount) == Available(a) > 0 /\ Available(a) >= amount

NoCarrier == "no carrier"
ASSUME NoCarrierNew == NoCarrier \notin Carriers

CallsOf(a) == {c \in Calls : Owner[c] = a}

-----------------------------------------------------------------------------
Init ==
    /\ balance = Opening
    /\ credit = [a \in Accounts |-> 0]
    /\ reserved = [a \in Accounts |-> 0]
    /\ ledger = [a \in Accounts |-> [t \in LedgerTypes |->
                                IF t = "topup" THEN Opening[a] ELSE 0]]
    /\ cdr = [c \in Calls |-> "none"]
    /\ charged = [c \in Calls |-> 0]
    /\ released = [c \in Calls |-> 0]
    /\ cost = [c \in Calls |-> [k \in Carriers |-> 0]]
    /\ attempts = [c \in Calls |-> [k \in Carriers |->
                        [outcome \in {"failed", "answered"} |-> 0]]]
    /\ open = {}
    /\ held = [c \in Calls |-> 0]
    /\ entries = [c \in Calls |-> [t \in LedgerTypes |-> 0]]
    /\ setup = [c \in Calls |-> "idle"]
    /\ quote = [c \in Calls |-> [reserve |-> 0, available |-> 0]]
    /\ posts = 0

-----------------------------------------------------------------------------
(***************************************************************************)
(* The Setup handler.                                                      *)
(***************************************************************************)

\* reject(): a final row, or none when the insert fails (the error is logged
\* and the caller is answered all the same).
InsertRejectedCDR(c) ==
    \/ cdr' = [cdr EXCEPT ![c] = IF @ = "none" THEN "billed" ELSE @]
    \/ UNCHANGED cdr

\* Steps 1 to 3 turn the call down: unknown address, suspended, limits,
\* policy, number, STIR, block list, no rate.
SetupReject(c) ==
    /\ setup[c] = "idle"
    /\ setup' = [setup EXCEPT ![c] = "rejected"]
    /\ InsertRejectedCDR(c)
    /\ UNCHANGED <<moneyVars, charged, released, cost, attempts, open, held,
                   entries, quote, posts>>

\* Setup returns an error: Redis or Postgres failed, the caller gave up and
\* the request context is cancelled, or the process died.
SetupError(c) ==
    /\ setup[c] \in {"idle", "quoted", "reserved"}
    /\ setup' = [setup EXCEPT ![c] = "failed"]
    /\ UNCHANGED <<moneyVars, callVars, quote, posts>>

\* Reserve reads the account outside the transaction; Step 4.
ReserveRead(c, amount) ==
    /\ setup[c] = "idle"
    /\ quote' = [quote EXCEPT ![c] =
                    [reserve |-> amount, available |-> Available(Owner[c])]]
    /\ IF Affordable(Owner[c], amount)
       THEN /\ setup' = [setup EXCEPT ![c] = "quoted"]
            /\ UNCHANGED cdr
       ELSE /\ setup' = [setup EXCEPT ![c] = "rejected"]
            /\ InsertRejectedCDR(c)
    /\ UNCHANGED <<moneyVars, charged, released, cost, attempts, open, held,
                   entries, posts>>

\* The WHERE clause of store.Reserve, evaluated under the row lock.
\* Mutant: reserving what was read, unchecked.
NoRecheck(c) == TRUE
StillAffordable(c) == Affordable(Owner[c], quote[c].reserve)

\* The reservation transaction commits: pending CDR, active_calls row,
\* reserved, ledger entry.
ReserveCommit(c) ==
    LET a == Owner[c]
        r == quote[c].reserve
    IN  /\ setup[c] = "quoted"
        /\ StillAffordable(c)
        /\ cdr' = [cdr EXCEPT ![c] = IF @ = "none" THEN "pending" ELSE @]
        /\ open' = open \cup {c}
        /\ held' = [held EXCEPT ![c] = IF c \in open THEN @ ELSE r]
        /\ reserved' = [reserved EXCEPT ![a] = @ + r]
        /\ ledger' = [ledger EXCEPT ![a]["reserve"] = @ - r]
        /\ entries' = [entries EXCEPT ![c]["reserve"] = @ + 1]
        /\ setup' = [setup EXCEPT ![c] = "reserved"]
        /\ UNCHANGED <<balance, credit, charged, released, cost, attempts,
                       quote, posts>>

\* Another call took the money since the read: the transaction rolls back
\* and the call is rejected with 402.
ReserveLost(c) ==
    /\ setup[c] = "quoted"
    /\ ~StillAffordable(c)
    /\ setup' = [setup EXCEPT ![c] = "rejected"]
    /\ InsertRejectedCDR(c)
    /\ UNCHANGED <<moneyVars, charged, released, cost, attempts, open, held,
                   entries, quote, posts>>

\* RouteWith found carriers: the answer is "dial".
RouteFound(c) ==
    /\ setup[c] = "reserved"
    /\ setup' = [setup EXCEPT ![c] = "dial"]
    /\ UNCHANGED <<moneyVars, callVars, quote, posts>>

-----------------------------------------------------------------------------
(***************************************************************************)
(* The settling transactions.                                              *)
(***************************************************************************)

\* LockCDR finds a row that is not billed: the guard of D-17.
\* Mutant: any row will do.
BilledIgnored(c) == cdr[c] # "none"
NotBilled(c) == cdr[c] = "pending"

\* The amount LockActiveCall finds: nothing without a row.
Row(c) == IF c \in open THEN held[c] ELSE 0

\* Mutant: the account's whole reserved column is cleared.
ReleaseAll(c) ==
    /\ reserved' = [reserved EXCEPT ![Owner[c]] = 0]
    /\ released' = [released EXCEPT ![c] = IF c \in open THEN held[c] ELSE @]
    /\ open' = open \ {c}
\* Mutant: the active_calls row stays.
ReleaseKeepsRow(c) ==
    /\ reserved' = [reserved EXCEPT ![Owner[c]] =
                        IF @ >= Row(c) THEN @ - Row(c) ELSE 0]
    /\ released' = [released EXCEPT ![c] = IF c \in open THEN held[c] ELSE @]
    /\ UNCHANGED open

\* store.Release of the call's reservation, GREATEST(reserved - amount, 0),
\* with DeleteActiveCall and the released_amount of the CDR.
Release(c) ==
    /\ reserved' = [reserved EXCEPT ![Owner[c]] =
                        IF @ >= Row(c) THEN @ - Row(c) ELSE 0]
    /\ released' = [released EXCEPT ![c] = IF c \in open THEN held[c] ELSE @]
    /\ open' = open \ {c}

\* ReleaseReservation's transaction on a CDR that is not billed.
ReleaseTx(c) ==
    /\ NotBilled(c)
    /\ cdr' = [cdr EXCEPT ![c] = "billed"]
    /\ Release(c)
    /\ ledger' = [ledger EXCEPT ![Owner[c]]["release"] = @ + Row(c)]
    /\ entries' = [entries EXCEPT ![c]["release"] =
                        IF Row(c) > 0 THEN @ + 1 ELSE @]
    /\ UNCHANGED <<balance, credit, charged, cost, attempts, held>>

\* rejectReserved: no route.  A failing release is logged and the call is
\* rejected all the same; a CDR billed meanwhile is left alone.
RouteNone(c) ==
    /\ setup[c] = "reserved"
    /\ setup' = [setup EXCEPT ![c] = "rejected"]
    /\ ReleaseTx(c) \/ UNCHANGED <<moneyVars, callVars>>
    /\ UNCHANGED <<quote, posts>>

\* POST /call/release, at any time.
CallRelease(c) ==
    /\ ReleaseTx(c)
    /\ UNCHANGED <<setup, quote, posts>>

\* AppendAttempt: one more attempt record, even on a billed CDR.
AppendAttempt(c, k, outcome) ==
    /\ cdr[c] # "none"
    /\ attempts[c][k][outcome] < MaxAttempts
    /\ attempts' = [attempts EXCEPT ![c][k][outcome] = @ + 1]
    /\ UNCHANGED <<moneyVars, cdr, charged, released, cost, open, held,
                   entries, setup, quote, posts>>

\* buyRateFor: the answering carrier has an attempt record.
HasBuyRate(c, k) == attempts[c][k]["failed"] + attempts[c][k]["answered"] > 0

\* What Bill posts to carrier k (every carrier has an account row): the price of the answered call at k's buy
\* rate when k carried it, and the fees of k's failed attempts.
CarrierCost(c, k, winner, buy) ==
    (IF k = winner /\ HasBuyRate(c, k) THEN buy ELSE 0)
        + FailFee[k] * attempts[c][k]["failed"]

\* cdrs.cost: the price at the buy rate plus the fees of every failed attempt
\* (D-62), kept here by the carrier it is owed to.
\* Mutant: the CDR leaves the fees out.
CostWithoutFees(c, k, winner, buy) ==
    IF k = winner /\ HasBuyRate(c, k) THEN buy ELSE 0
CdrCost(c, k, winner, buy) == CarrierCost(c, k, winner, buy)

\* Bill's transaction on a CDR that is not billed (it leaves the others
\* alone).  winner is the answering carrier if the hangup names one; price
\* and buy are what the sell and the buy rate make of the seconds, both 0
\* for a call that was not answered.
Bill(c, winner, price, buy) ==
    LET a == Owner[c]
        taken == IF c \in open THEN price ELSE 0
        paid(x) == IF x \in Carriers THEN CarrierCost(c, x, winner, buy) ELSE 0
        due(x) == IF x = a THEN taken ELSE 0
    IN  /\ NotBilled(c)
        /\ cdr' = [cdr EXCEPT ![c] = "billed"]
        /\ Release(c)
        /\ charged' = [charged EXCEPT ![c] = taken]
        /\ cost' = [cost EXCEPT ![c] = [k \in Carriers |->
                                               CdrCost(c, k, winner, buy)]]
        /\ balance' = [x \in Accounts |-> balance[x] - paid(x) - due(x)]
        /\ ledger' = [x \in Accounts |-> [ledger[x] EXCEPT
                !["cost"] = @ - paid(x),
                !["charge"] = @ - due(x),
                !["release"] = @ + (IF x = a THEN Row(c) ELSE 0)]]
        /\ entries' = [entries EXCEPT ![c] = [entries[c] EXCEPT
                !["release"] = IF Row(c) > 0 THEN @ + 1 ELSE @,
                !["charge"] = IF taken > 0 THEN @ + 1 ELSE @]]
        /\ UNCHANGED <<credit, attempts, held, setup, quote, posts>>

-----------------------------------------------------------------------------
(***************************************************************************)
(* The operator.                                                           *)
(***************************************************************************)

\* postMoney: a top-up or a refund adds, an adjustment has either sign.
PostMoney(a, type, amount) ==
    /\ posts < MaxPosts
    /\ posts' = posts + 1
    /\ amount # 0
    /\ amount > 0 \/ type = "adjustment"
    /\ balance' = [balance EXCEPT ![a] = @ + amount]
    /\ ledger' = [ledger EXCEPT ![a][type] = @ + amount]
    /\ UNCHANGED <<credit, reserved, callVars, setup, quote>>

\* Mutant: the credit is lowered by the amount, not set to it.
LowerAllowedCredit(a, amount) ==
    /\ posts < MaxPosts
    /\ posts' = posts + 1
    /\ credit' = [credit EXCEPT ![a] = @ - amount]
    /\ UNCHANGED <<balance, reserved, ledger, callVars, setup, quote>>

\* SetAllowedCredit.
SetAllowedCredit(a, amount) ==
    /\ posts < MaxPosts
    /\ posts' = posts + 1
    /\ credit' = [credit EXCEPT ![a] = amount]
    /\ UNCHANGED <<balance, reserved, ledger, callVars, setup, quote>>

-----------------------------------------------------------------------------
SetupStep(c) ==
    \/ SetupReject(c)
    \/ SetupError(c)
    \/ \E amount \in Money : ReserveRead(c, amount)
    \/ ReserveCommit(c)
    \/ ReserveLost(c)
    \/ RouteFound(c)
    \/ RouteNone(c)

CallStep(c) ==
    \/ CallRelease(c)
    \/ \E k \in Carriers, outcome \in {"failed", "answered"} :
            AppendAttempt(c, k, outcome)
    \/ \E winner \in Carriers \cup {NoCarrier}, price, buy \in Money :
            Bill(c, winner, price, buy)

OperatorStep(a) ==
    \/ \E type \in OperatorTypes, amount \in Postings \cup {-m : m \in Postings} :
            PostMoney(a, type, amount)
    \/ \E amount \in Postings : SetAllowedCredit(a, amount)

Next ==
    \/ \E c \in Calls : SetupStep(c) \/ CallStep(c)
    \/ \E a \in Accounts : OperatorStep(a)

Spec == Init /\ [][Next]_vars

-----------------------------------------------------------------------------
(***************************************************************************)
(* What the books promise.                                                 *)
(***************************************************************************)

SetupStates == {"idle", "quoted", "reserved", "dial", "rejected", "failed"}

\* Every variable keeps its type; in particular reserved stays >= 0, the
\* CHECK of the accounts table.
TypeOK ==
    /\ balance \in [Accounts -> Int]
    /\ credit \in [Accounts -> Nat]
    /\ reserved \in [Accounts -> Nat]
    /\ ledger \in [Accounts -> [LedgerTypes -> Int]]
    /\ cdr \in [Calls -> {"none", "pending", "billed"}]
    /\ charged \in [Calls -> Nat]
    /\ released \in [Calls -> Nat]
    /\ cost \in [Calls -> [Carriers -> Nat]]
    /\ attempts \in [Calls -> [Carriers -> [{"failed", "answered"} -> Nat]]]
    /\ open \subseteq Calls
    /\ held \in [Calls -> Nat]
    /\ entries \in [Calls -> [LedgerTypes -> Nat]]
    /\ setup \in [Calls -> SetupStates]
    /\ quote \in [Calls -> [reserve : Nat, available : Int]]
    /\ posts \in Nat

\* balance = sum of the balance entries (first check of ReconcileRow.OK).
BalanceIsLedger ==
    \A a \in Accounts :
        balance[a] = ledger[a]["charge"] + ledger[a]["cost"]
                        + ledger[a]["topup"] + ledger[a]["adjustment"]
                        + ledger[a]["refund"]

\* reserved = sum of the open reservations (second check of ReconcileRow.OK):
\* no interleaving of setups, hangups, releases and late triggers leaves
\* money blocked without a call or a call without its money.
ReservedIsOpen ==
    \A a \in Accounts :
        reserved[a] = Total([c \in Calls |-> Row(c)], CallsOf(a))

\* reserved = -(reserve + release entries) (third check of ReconcileRow.OK).
ReservedIsLedger ==
    \A a \in Accounts :
        reserved[a] = -(ledger[a]["reserve"] + ledger[a]["release"])

\* `make reconcile` never reports a mismatch.
ReconcileOK == BalanceIsLedger /\ ReservedIsOpen /\ ReservedIsLedger

\* The three billing triggers, the release endpoint and the rejection after
\* the reservation settle a call once between them: an open row is exactly a
\* pending CDR, and each call has at most one entry of each type.
SettledOnce ==
    \A c \in Calls :
        /\ c \in open <=> cdr[c] = "pending"
        /\ entries[c]["reserve"] <= 1
        /\ entries[c]["charge"] <= entries[c]["reserve"]
        /\ entries[c]["release"] <= entries[c]["reserve"]
        /\ c \in open => entries[c]["charge"] = 0 /\ entries[c]["release"] = 0

\* The ledger and the CDRs tell the same story: an account's charges are the
\* charged amounts of its calls, a carrier's costs the costs of the CDRs.
\* Invoices sum the ledger and list the CDRs, and reports sum the CDRs.
LedgerMatchesCDRs ==
    /\ \A a \in Customers :
            -ledger[a]["charge"] = Total(charged, CallsOf(a))
    /\ \A k \in Carriers :
            -ledger[k]["cost"] = Total([c \in Calls |-> cost[c][k]], Calls)

\* A billed CDR is final (D-17): no later trigger, attempt report or release
\* changes its money or moves the accounts for it.
BilledIsFinal ==
    [][\A c \in Calls : cdr[c] = "billed" =>
            /\ cdr'[c] = "billed"
            /\ charged'[c] = charged[c] /\ released'[c] = released[c]
            /\ cost'[c] = cost[c] /\ entries'[c] = entries[c]]_vars

\* Billing implements the prepaid promise: the reserved column stands for
\* the sum of the open reservations, the CDR for the stage of the call.
PP == INSTANCE Prepaid WITH
        funds <- [a \in Customers |-> balance[a]],
        limit <- [a \in Customers |-> credit[a]],
        stage <- cdr,
        hold <- [c \in Calls |-> Row(c)],
        OpeningFunds <- [a \in Customers |-> Opening[a]]

\* Every step of the tables is a step a prepaid account may take (Hold only
\* out of free money, Settle once, no other way to the balance), or none.
PrepaidSpec == PP!Spec

=============================================================================
