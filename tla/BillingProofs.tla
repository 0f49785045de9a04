--------------------------- MODULE BillingProofs ---------------------------
(***************************************************************************)
(* The books balance, for any number of calls, customers and carriers and  *)
(* any amounts.  Inv below is inductive; the properties of Billing and the *)
(* refinement of Prepaid follow from it.                                   *)
(***************************************************************************)
EXTENDS Billing, SumLemmas

\* A leaf that names no prover is tried with each of these in turn.
USE SMTT(30), Z3T(30), ZenonT(30)

Rows == [c \in Calls |-> Row(c)]
CostsOf(k) == [c \in Calls |-> cost[c][k]]

\* How far a call has come, as its CDR, its entries and its handler show it:
\* what the properties need besides themselves.
CallProgress ==
    \A c \in Calls :
        /\ setup[c] \in {"idle", "quoted"} => cdr[c] = "none"
        /\ setup[c] = "quoted" => quote[c].reserve \in Money
        /\ cdr[c] = "none" => entries[c] = [t \in LedgerTypes |-> 0]
        /\ c \in open => entries[c]["reserve"] = 1
        /\ cdr[c] # "billed" =>
                charged[c] = 0 /\ \A k \in Carriers : cost[c][k] = 0
        /\ held[c] \in Money \cup {0}

Inv ==
    /\ TypeOK
    /\ ReconcileOK
    /\ SettledOnce
    /\ LedgerMatchesCDRs
    /\ CallProgress

-----------------------------------------------------------------------------
\* Summing over the calls of one account: only the owner of c notices c.
LEMMA OwnedTotal ==
    ASSUME NEW f, NEW g, NEW c \in Calls, NEW a,
           \A x \in Calls : f[x] \in Nat,
           g[c] \in Nat, \A x \in Calls \ {c} : g[x] = f[x]
    PROVE  /\ Total(f, CallsOf(a)) \in Nat
           /\ Total(g, CallsOf(a))
                = Total(f, CallsOf(a)) + (IF Owner[c] = a THEN g[c] - f[c] ELSE 0)
           /\ Owner[c] = a => f[c] <= Total(f, CallsOf(a))
<1>1. IsFiniteSet(CallsOf(a)) /\ CallsOf(a) \subseteq Calls
    BY CallsFinite, FS_Subset DEF CallsOf
<1>2. Total(f, CallsOf(a)) \in Nat
    BY <1>1, TotalType
<1>3. CASE Owner[c] = a
    <2>1. c \in CallsOf(a)
        BY <1>3 DEF CallsOf
    <2>2. Total(g, CallsOf(a)) = Total(f, CallsOf(a)) - f[c] + g[c]
        BY <1>1, <2>1, TotalUpdate
    <2>3. f[c] <= Total(f, CallsOf(a))
        BY <1>1, <2>1, TotalBound
    <2> QED
        BY <1>2, <1>3, <2>2, <2>3
<1>4. CASE Owner[c] # a
    <2>1. c \notin CallsOf(a)
        BY <1>4 DEF CallsOf
    <2>2. Total(g, CallsOf(a)) = Total(f, CallsOf(a))
        <3>1. \A x \in CallsOf(a) : g[x] = f[x]
            BY <1>1, <2>1
        <3> QED
            BY <3>1, TotalSame
    <2> QED
        BY <1>2, <1>4, <2>2
<1> QED
    BY <1>3, <1>4

\* The same for the open reservations, across a step.
LEMMA RowsTotal ==
    ASSUME NEW c \in Calls, NEW b \in Accounts,
           \A x \in Calls : Rows[x] \in Nat,
           Rows'[c] \in Nat, \A x \in Calls \ {c} : Rows'[x] = Rows[x]
    PROVE  /\ Total(Rows', CallsOf(b)) = Total(Rows, CallsOf(b))
                + (IF Owner[c] = b THEN Rows'[c] - Rows[c] ELSE 0)
           /\ Owner[c] = b => Rows[c] <= Total(Rows, CallsOf(b))
BY ZenonT(60), OwnedTotal

\* The customer that owns a call is an account, and no carrier.
LEMMA OwnerFacts ==
    ASSUME NEW c \in Calls
    PROVE  /\ Owner[c] \in Customers /\ Owner[c] \in Accounts
           /\ Owner[c] \notin Carriers
BY OwnerType, AccountsDisjoint DEF Accounts

-----------------------------------------------------------------------------
\* The opening books balance.
LEMMA InitInv == Init => Inv
<1> SUFFICES ASSUME Init PROVE Inv
    OBVIOUS
<1>1. TypeOK
    <2>1. Opening \in [Accounts -> Nat]
        BY OpeningType DEF Accounts
    <2> QED
        BY <2>1 DEF Init, TypeOK, SetupStates, LedgerTypes, BalanceTypes
<1>2. ReconcileOK
    <2>1. Opening \in [Accounts -> Nat]
        BY OpeningType DEF Accounts
    <2>2. ASSUME NEW a \in Accounts
          PROVE  /\ balance[a] = Opening[a] /\ reserved[a] = 0
                 /\ ledger[a]["topup"] = Opening[a]
                 /\ \A t \in LedgerTypes \ {"topup"} : ledger[a][t] = 0
        BY DEF Init, LedgerTypes, BalanceTypes
    <2>3. BalanceIsLedger
        BY <2>1, <2>2 DEF BalanceIsLedger, LedgerTypes, BalanceTypes
    <2>4. ReservedIsLedger
        BY <2>2 DEF ReservedIsLedger, LedgerTypes
    <2>5. ASSUME NEW a \in Accounts
          PROVE  reserved[a] = Total(Rows, CallsOf(a))
        <3>1. \A x \in CallsOf(a) : Rows[x] = 0
            BY DEF Init, Row, Rows, CallsOf
        <3> QED
            BY <3>1, TotalZero DEF Init
    <2> QED
        BY <2>3, <2>4, <2>5 DEF ReconcileOK, ReservedIsOpen, Rows
<1>3. SettledOnce
    BY DEF Init, SettledOnce, LedgerTypes, BalanceTypes
<1>4. LedgerMatchesCDRs
    <2>1. ASSUME NEW a \in Customers
          PROVE  -ledger[a]["charge"] = Total(charged, CallsOf(a))
        <3>1. \A x \in CallsOf(a) : charged[x] = 0
            BY DEF Init, CallsOf
        <3> QED
            BY <3>1, TotalZero DEF Init, Accounts, LedgerTypes, BalanceTypes
    <2>2. ASSUME NEW k \in Carriers
          PROVE  -ledger[k]["cost"] = Total(CostsOf(k), Calls)
        <3>1. \A x \in Calls : CostsOf(k)[x] = 0
            BY DEF Init, CostsOf
        <3> QED
            BY <3>1, TotalZero DEF Init, Accounts, LedgerTypes, BalanceTypes
    <2> QED
        BY <2>1, <2>2 DEF LedgerMatchesCDRs, CostsOf
<1>5. CallProgress
    BY DEF Init, CallProgress
<1> QED
    BY <1>1, <1>2, <1>3, <1>4, <1>5 DEF Inv

-----------------------------------------------------------------------------
(***************************************************************************)
(* Steps that move no money: the setup handler's rejections, errors, read  *)
(* and answer, and the attempt reports.                                    *)
(***************************************************************************)
Quiet ==
    UNCHANGED <<balance, reserved, ledger, charged, cost, open, held, entries>>

\* Without money moving, the books stay as they are.
LEMMA QuietBooks ==
    ASSUME Inv, Quiet PROVE ReconcileOK' /\ LedgerMatchesCDRs'
<1>1. ReconcileOK'
    BY DEF Inv, Quiet, ReconcileOK, BalanceIsLedger, ReservedIsOpen,
           ReservedIsLedger, Row
<1>2. LedgerMatchesCDRs'
    BY DEF Inv, Quiet, LedgerMatchesCDRs
<1> QED
    BY <1>1, <1>2

\* The read and the rejections of Setup, its answer and its errors.
LEMMA SetupQuietInv ==
    ASSUME Inv, NEW c \in Calls,
           \/ SetupReject(c) \/ SetupError(c) \/ ReserveLost(c) \/ RouteFound(c)
           \/ \E amount \in Money : ReserveRead(c, amount)
    PROVE  Inv'
<1> USE DEF Inv, SetupReject, SetupError, ReserveRead, ReserveLost, RouteFound,
            InsertRejectedCDR, moneyVars, callVars
<1>1. Quiet
    BY DEF Quiet
<1>2. TypeOK'
    <2>1. Owner[c] \in Accounts
        BY OwnerFacts
    <2>2. Available(Owner[c]) \in Int
        BY <2>1 DEF TypeOK, Available
    <2>3. quote' \in [Calls -> [reserve : Nat, available : Int]]
        BY <2>2, MoneyType DEF TypeOK
    <2>4. setup' \in [Calls -> SetupStates]
        <3>1. \E s \in SetupStates : setup' = [setup EXCEPT ![c] = s]
            BY DEF SetupStates
        <3> QED
            BY <3>1 DEF TypeOK
    <2>5. cdr' \in [Calls -> {"none", "pending", "billed"}]
        BY DEF TypeOK
    <2> QED
        BY <1>1, <2>3, <2>4, <2>5 DEF TypeOK, Quiet
<1>3. \A d \in Calls : cdr'[d] = cdr[d] \/ (cdr[d] = "none" /\ cdr'[d] = "billed")
    BY DEF TypeOK
<1>4. SettledOnce'
    BY <1>1, <1>3 DEF SettledOnce, Quiet
<1>5. CallProgress'
    BY <1>1, <1>3 DEF CallProgress, Quiet, TypeOK
<1> QED
    BY <1>1, <1>2, <1>4, <1>5, QuietBooks

\* An attempt report.
LEMMA AppendAttemptInv ==
    ASSUME Inv, NEW c \in Calls, NEW k \in Carriers,
           NEW outcome \in {"failed", "answered"}, AppendAttempt(c, k, outcome)
    PROVE  Inv'
<1> USE DEF Inv, AppendAttempt, moneyVars
<1>1. Quiet
    BY DEF Quiet
<1>2. TypeOK'
    BY DEF TypeOK
<1>3. SettledOnce' /\ CallProgress'
    BY <1>1 DEF SettledOnce, CallProgress, Quiet
<1> QED
    BY <1>1, <1>2, <1>3, QuietBooks

-----------------------------------------------------------------------------
(***************************************************************************)
(* The reservation.                                                        *)
(***************************************************************************)
\* Pipeline.Reserve's transaction keeps the invariant: one hold more, on the
\* account, in the ledger and in active_calls.
LEMMA ReserveCommitInv ==
    ASSUME Inv, NEW c \in Calls, ReserveCommit(c)
    PROVE  Inv'
<1> DEFINE a == Owner[c]
           r == quote[c].reserve
<1>0. /\ a \in Customers /\ a \in Accounts /\ r \in Money /\ r \in Nat
      /\ cdr[c] = "none" /\ c \notin open
    BY OwnerFacts, MoneyType
    DEF Inv, ReserveCommit, StillAffordable, CallProgress, SettledOnce, TypeOK
<1>1. TypeOK'
    <2>0. "reserve" \in LedgerTypes
        BY DEF LedgerTypes
    <2>1. reserved' \in [Accounts -> Nat] /\ held' \in [Calls -> Nat]
        BY <1>0 DEF Inv, ReserveCommit, StillAffordable, TypeOK
    <2>2. ledger' \in [Accounts -> [LedgerTypes -> Int]]
        BY <1>0, <2>0 DEF Inv, ReserveCommit, StillAffordable, TypeOK
    <2>3. entries' \in [Calls -> [LedgerTypes -> Nat]]
        BY <2>0 DEF Inv, ReserveCommit, StillAffordable, TypeOK
    <2> QED
        BY <2>1, <2>2, <2>3 DEF Inv, ReserveCommit, StillAffordable, TypeOK, SetupStates
<1>2. BalanceIsLedger' /\ ReservedIsLedger'
    BY <1>0 DEF Inv, ReserveCommit, StillAffordable, TypeOK, ReconcileOK, BalanceIsLedger,
                ReservedIsLedger, LedgerTypes, BalanceTypes
<1>3. ReservedIsOpen'
    <2>1. /\ Rows'[c] = r /\ Rows[c] = 0
          /\ \A x \in Calls \ {c} : Rows'[x] = Rows[x]
          /\ \A x \in Calls : Rows[x] \in Nat
        BY <1>0 DEF Inv, ReserveCommit, StillAffordable, TypeOK, Rows, Row
    <2>2. ASSUME NEW b \in Accounts
          PROVE  reserved'[b] = Total(Rows', CallsOf(b))
        <3>0. Rows'[c] \in Nat
            BY <1>0, <2>1
        <3>1. Total(Rows', CallsOf(b)) = Total(Rows, CallsOf(b))
                + (IF Owner[c] = b THEN Rows'[c] - Rows[c] ELSE 0)
            BY <2>1, <3>0, RowsTotal
        <3>2. reserved[b] = Total(Rows, CallsOf(b)) /\ reserved[b] \in Nat
            BY DEF Inv, TypeOK, ReconcileOK, ReservedIsOpen, Rows
        <3>3. reserved'[b] = IF a = b THEN reserved[b] + r ELSE reserved[b]
            BY DEF Inv, TypeOK, ReserveCommit, StillAffordable
        <3> QED
            BY <1>0, <2>1, <3>1, <3>2, <3>3
    <2> QED
        BY <2>2 DEF ReservedIsOpen, Rows, CallsOf
<1>4. SettledOnce'
    BY <1>0 DEF Inv, ReserveCommit, StillAffordable, TypeOK, SettledOnce, CallProgress,
                LedgerTypes, BalanceTypes
<1>5. LedgerMatchesCDRs'
    <2>1. \A b \in Accounts : /\ ledger'[b]["charge"] = ledger[b]["charge"]
                              /\ ledger'[b]["cost"] = ledger[b]["cost"]
        BY <1>0 DEF Inv, ReserveCommit, StillAffordable, TypeOK, LedgerTypes, BalanceTypes
    <2> QED
        BY ZenonT(60), <2>1 DEF Inv, ReserveCommit, StillAffordable, LedgerMatchesCDRs, Accounts
<1>6. CallProgress'
    <2>1. "reserve" \in LedgerTypes
        BY DEF LedgerTypes
    <2>2. /\ entries'[c]["reserve"] = 1
          /\ \A d \in Calls \ {c} : entries'[d] = entries[d]
        BY <1>0, <2>1 DEF Inv, ReserveCommit, StillAffordable, TypeOK, CallProgress
    <2>3. /\ cdr'[c] = "pending" /\ setup'[c] = "reserved" /\ held'[c] = r
          /\ open' = open \cup {c}
          /\ \A d \in Calls \ {c} : /\ cdr'[d] = cdr[d] /\ setup'[d] = setup[d]
                                    /\ held'[d] = held[d]
          /\ UNCHANGED <<charged, cost, quote>>
        BY <1>0 DEF Inv, ReserveCommit, StillAffordable, TypeOK
    <2> QED
        BY <1>0, <2>2, <2>3 DEF Inv, CallProgress
<1> QED
    BY <1>1, <1>2, <1>3, <1>4, <1>5, <1>6 DEF Inv, ReconcileOK

-----------------------------------------------------------------------------
(***************************************************************************)
(* Settling a call.                                                        *)
(***************************************************************************)

\* Releasing a reservation takes exactly its amount off its account: the
\* GREATEST of store.Release never cuts anything off.
LEMMA ReleaseFacts ==
    ASSUME Inv, NEW c \in Calls, cdr[c] = "pending", Release(c), UNCHANGED held
    PROVE  /\ Row(c) = held[c] /\ c \in open
           /\ reserved' \in [Accounts -> Nat]
           /\ released' \in [Calls -> Nat]
           /\ open' \subseteq Calls
           /\ \A b \in Accounts : reserved'[b] =
                    reserved[b] - (IF b = Owner[c] THEN Row(c) ELSE 0)
           /\ ReservedIsOpen'
<1>1. c \in open /\ Row(c) = held[c] /\ held[c] \in Nat
    BY DEF Inv, TypeOK, SettledOnce, Row
<1>2. /\ Rows'[c] = 0 /\ Rows[c] = Row(c)
      /\ \A x \in Calls \ {c} : Rows'[x] = Rows[x]
      /\ \A x \in Calls : Rows[x] \in Nat
    BY DEF Inv, TypeOK, Release, Rows, Row
<1>3. Owner[c] \in Accounts
    BY OwnerFacts
<1>4. \A b \in Accounts : /\ reserved[b] \in Nat
                          /\ reserved[b] = Total(Rows, CallsOf(b))
    BY DEF Inv, TypeOK, ReconcileOK, ReservedIsOpen, Rows
<1>5. \A b \in Accounts :
        /\ Total(Rows', CallsOf(b)) = Total(Rows, CallsOf(b))
                + (IF Owner[c] = b THEN Rows'[c] - Rows[c] ELSE 0)
        /\ Owner[c] = b => Rows[c] <= Total(Rows, CallsOf(b))
    BY <1>2, RowsTotal
<1>6. reserved[Owner[c]] >= Row(c)
    BY <1>2, <1>3, <1>4, <1>5
<1>7. \A b \in Accounts : reserved'[b] =
            reserved[b] - (IF b = Owner[c] THEN Row(c) ELSE 0)
    BY <1>1, <1>4, <1>6 DEF Inv, TypeOK, Release
<1>8. reserved' \in [Accounts -> Nat]
    BY <1>1, <1>3, <1>6 DEF Inv, TypeOK, Release
<1>9. released' \in [Calls -> Nat] /\ open' \subseteq Calls
    BY <1>1 DEF Inv, TypeOK, Release
<1>10. \A b \in Accounts : reserved'[b] = Total(Rows', CallsOf(b))
    BY <1>1, <1>2, <1>4, <1>5, <1>7
<1>11. ReservedIsOpen'
    BY <1>10 DEF ReservedIsOpen, Rows, CallsOf
<1> QED
    BY <1>1, <1>7, <1>8, <1>9, <1>11

\* ReleaseReservation.
LEMMA ReleaseTxInv ==
    ASSUME Inv, NEW c \in Calls, ReleaseTx(c),
           setup' \in [Calls -> SetupStates],
           \A d \in Calls : setup'[d] \in {"idle", "quoted"} => setup'[d] = setup[d],
           UNCHANGED <<quote, posts>>
    PROVE  Inv'
<1>0. /\ Row(c) = held[c] /\ c \in open
      /\ reserved' \in [Accounts -> Nat] /\ released' \in [Calls -> Nat]
      /\ open' \subseteq Calls
      /\ \A b \in Accounts : reserved'[b] =
                reserved[b] - (IF b = Owner[c] THEN Row(c) ELSE 0)
      /\ ReservedIsOpen'
    BY ReleaseFacts DEF ReleaseTx, NotBilled
<1>1. Row(c) \in Nat /\ Owner[c] \in Accounts
    BY <1>0, OwnerFacts DEF Inv, TypeOK
<1>2. {"release", "charge", "cost", "reserve"} \subseteq LedgerTypes
    BY DEF LedgerTypes, BalanceTypes
<1>3. TypeOK'
    <2>1. ledger' \in [Accounts -> [LedgerTypes -> Int]]
        BY <1>1, <1>2 DEF Inv, TypeOK, ReleaseTx, NotBilled
    <2>2. entries' \in [Calls -> [LedgerTypes -> Nat]]
        BY <1>2 DEF Inv, TypeOK, ReleaseTx, NotBilled
    <2> QED
        BY <1>0, <2>1, <2>2 DEF Inv, TypeOK, ReleaseTx, NotBilled
<1>4. \A b \in Accounts :
        /\ ledger'[b]["release"] =
                ledger[b]["release"] + (IF b = Owner[c] THEN Row(c) ELSE 0)
        /\ \A t \in LedgerTypes \ {"release"} : ledger'[b][t] = ledger[b][t]
    BY <1>1, <1>2 DEF Inv, TypeOK, ReleaseTx, NotBilled
<1>5. BalanceIsLedger'
    BY <1>4 DEF Inv, TypeOK, ReleaseTx, NotBilled, ReconcileOK, BalanceIsLedger,
                LedgerTypes, BalanceTypes
<1>6. ReservedIsLedger'
    <2>1. \A b \in Accounts : /\ ledger[b]["reserve"] \in Int
                              /\ ledger[b]["release"] \in Int
                              /\ reserved[b] \in Nat
                              /\ ledger'[b]["reserve"] = ledger[b]["reserve"]
        BY <1>2, <1>4 DEF Inv, TypeOK
    <2> QED
        BY <1>0, <1>1, <1>4, <2>1 DEF Inv, ReconcileOK, ReservedIsLedger
<1>7. /\ entries'[c]["release"] <= entries[c]["release"] + 1
      /\ entries'[c]["charge"] = entries[c]["charge"]
      /\ entries'[c]["reserve"] = entries[c]["reserve"]
      /\ \A d \in Calls \ {c} : entries'[d] = entries[d]
    BY <1>2 DEF Inv, TypeOK, ReleaseTx, NotBilled
<1>8. /\ open' = open \ {c} /\ cdr'[c] = "billed"
      /\ \A d \in Calls \ {c} : cdr'[d] = cdr[d]
    BY DEF Inv, TypeOK, ReleaseTx, NotBilled, Release
<1>9. SettledOnce'
    <2>2. entries[c]["release"] = 0 /\ entries[c]["charge"] = 0
        BY <1>0 DEF Inv, SettledOnce
    <2>3. entries[c]["reserve"] = 1
        BY <1>0 DEF Inv, CallProgress
    <2>4. entries'[c]["release"] \in Nat
        BY <1>2, <1>3 DEF TypeOK
    <2> QED
        BY <1>7, <1>8, <2>2, <2>3, <2>4 DEF Inv, SettledOnce
<1>10. LedgerMatchesCDRs'
    <2>1. \A b \in Accounts : /\ ledger'[b]["charge"] = ledger[b]["charge"]
                              /\ ledger'[b]["cost"] = ledger[b]["cost"]
        BY <1>2, <1>4
    <2> QED
        BY ZenonT(60), <2>1 DEF Inv, ReleaseTx, NotBilled, LedgerMatchesCDRs, Accounts
<1>11. CallProgress'
    BY <1>7, <1>8 DEF Inv, TypeOK, ReleaseTx, NotBilled, CallProgress
<1> QED
    BY <1>0, <1>3, <1>5, <1>6, <1>9, <1>10, <1>11 DEF Inv, ReconcileOK

\* A fee times a number of attempts is an amount.
LEMMA ProductType ==
    ASSUME NEW x \in Nat, NEW y \in Nat
    PROVE  x * y \in Nat
<1>1. x * y \in Int
    OBVIOUS
<1>2. x * y >= 0
    OBVIOUS
<1> QED
    BY <1>1, <1>2

\* What Bill owes a carrier is an amount.
LEMMA CarrierCostType ==
    ASSUME TypeOK, NEW c \in Calls, NEW k \in Carriers, NEW winner,
           NEW buy \in Nat
    PROVE  CarrierCost(c, k, winner, buy) \in Nat
<1>1. FailFee[k] \in Nat /\ attempts[c][k]["failed"] \in Nat
    BY FailFeeType DEF TypeOK
<1>2. FailFee[k] * attempts[c][k]["failed"] \in Nat
    BY ZenonT(60), <1>1, ProductType
<1> QED
    BY <1>2 DEF CarrierCost

\* Engine.Bill.
LEMMA BillInv ==
    ASSUME Inv, NEW c \in Calls, NEW winner, NEW price \in Nat, NEW buy \in Nat,
           Bill(c, winner, price, buy)
    PROVE  Inv'
<1> DEFINE a == Owner[c]
           paid(x) == IF x \in Carriers THEN CarrierCost(c, x, winner, buy) ELSE 0
           due(x) == IF x = a THEN price ELSE 0
           back(x) == IF x = a THEN Row(c) ELSE 0
<1>0. /\ Row(c) = held[c] /\ c \in open
      /\ reserved' \in [Accounts -> Nat] /\ released' \in [Calls -> Nat]
      /\ open' \subseteq Calls
      /\ \A b \in Accounts : reserved'[b] = reserved[b] - back(b)
      /\ ReservedIsOpen'
    BY ReleaseFacts DEF Bill, NotBilled
<1>1. Row(c) \in Nat /\ a \in Accounts /\ a \in Customers /\ a \notin Carriers
    BY <1>0, OwnerFacts DEF Inv, TypeOK
<1>2. {"release", "charge", "cost", "reserve", "topup", "adjustment", "refund"}
        = LedgerTypes
    BY DEF LedgerTypes, BalanceTypes
<1>3. \A x : paid(x) \in Nat /\ due(x) \in Nat /\ back(x) \in Nat
    BY <1>1, CarrierCostType DEF Inv
<1> HIDE DEF paid, due, back
<1>4. /\ charged' = [charged EXCEPT ![c] = price]
      /\ cost' = [cost EXCEPT ![c] = [k \in Carriers |-> paid(k)]]
      /\ balance' = [x \in Accounts |-> balance[x] - paid(x) - due(x)]
      /\ ledger' = [x \in Accounts |-> [ledger[x] EXCEPT
                !["cost"] = @ - paid(x),
                !["charge"] = @ - due(x),
                !["release"] = @ + back(x)]]
      /\ entries' = [entries EXCEPT ![c] = [entries[c] EXCEPT
                !["release"] = IF Row(c) > 0 THEN @ + 1 ELSE @,
                !["charge"] = IF price > 0 THEN @ + 1 ELSE @]]
    <2>1. \A k \in Carriers : CdrCost(c, k, winner, buy) = paid(k)
        BY DEF CdrCost, paid
    <2>2. [k \in Carriers |-> CdrCost(c, k, winner, buy)]
            = [k \in Carriers |-> paid(k)]
        BY <2>1
    <2> QED
        BY ZenonT(60), <1>0, <2>2 DEF Bill, NotBilled, paid, due, back
<1>5. ASSUME NEW b \in Accounts
      PROVE  /\ ledger'[b] \in [LedgerTypes -> Int]
             /\ \A t \in LedgerTypes : ledger[b][t] \in Int
             /\ ledger'[b]["cost"] = ledger[b]["cost"] - paid(b)
             /\ ledger'[b]["charge"] = ledger[b]["charge"] - due(b)
             /\ ledger'[b]["release"] = ledger[b]["release"] + back(b)
             /\ \A t \in LedgerTypes \ {"cost", "charge", "release"} :
                    ledger'[b][t] = ledger[b][t]
    <2>1. ledger[b] \in [LedgerTypes -> Int]
        BY DEF Inv, TypeOK
    <2>2. ledger'[b] = [ledger[b] EXCEPT !["cost"] = @ - paid(b),
                !["charge"] = @ - due(b), !["release"] = @ + back(b)]
        BY <1>4
    <2> QED
        BY <1>2, <1>3, <2>1, <2>2
<1>6. /\ entries'[c] \in [LedgerTypes -> Nat]
      /\ entries'[c]["reserve"] = entries[c]["reserve"]
      /\ entries'[c]["release"] <= entries[c]["release"] + 1
      /\ entries'[c]["charge"] <= entries[c]["charge"] + 1
      /\ \A d \in Calls \ {c} : entries'[d] = entries[d]
    <2>1. entries[c] \in [LedgerTypes -> Nat]
        BY DEF Inv, TypeOK
    <2>2. entries'[c] = [entries[c] EXCEPT
                !["release"] = IF Row(c) > 0 THEN @ + 1 ELSE @,
                !["charge"] = IF price > 0 THEN @ + 1 ELSE @]
        <3>1. DEFINE e == [entries[c] EXCEPT
                !["release"] = IF Row(c) > 0 THEN @ + 1 ELSE @,
                !["charge"] = IF price > 0 THEN @ + 1 ELSE @]
        <3>2. entries' = [entries EXCEPT ![c] = e]
            BY <1>4
        <3> HIDE DEF e
        <3>3. entries'[c] = e
            BY <3>2 DEF Inv, TypeOK
        <3> QED
            BY <3>3 DEF e
    <2>3. \A d \in Calls \ {c} : entries'[d] = entries[d]
        BY <1>4 DEF Inv, TypeOK
    <2> QED
        BY <1>2, <2>1, <2>2, <2>3
<1>7. TypeOK'
    <2>1. ledger' \in [Accounts -> [LedgerTypes -> Int]]
        BY ZenonT(60), <1>4, <1>5
    <2>2. entries' \in [Calls -> [LedgerTypes -> Nat]]
        BY ZenonT(60), <1>4, <1>6 DEF Inv, TypeOK
    <2>3. charged' \in [Calls -> Nat] /\ cost' \in [Calls -> [Carriers -> Nat]]
        BY <1>3, <1>4 DEF Inv, TypeOK
    <2>4. balance' \in [Accounts -> Int]
        BY <1>3, <1>4 DEF Inv, TypeOK
    <2>5. cdr' \in [Calls -> {"none", "pending", "billed"}]
        BY DEF Inv, TypeOK, Bill, NotBilled
    <2> QED
        BY ZenonT(60), <1>0, <2>1, <2>2, <2>3, <2>4, <2>5 DEF Inv, TypeOK, Bill, NotBilled
<1>8. BalanceIsLedger'
    <2>1. \A b \in Accounts : balance'[b] = balance[b] - paid(b) - due(b)
        BY <1>4
    <2>2. \A b \in Accounts : balance[b] \in Int
        BY DEF Inv, TypeOK
    <2>3. BalanceIsLedger
        BY DEF Inv, ReconcileOK
    <2> QED
        BY <1>2, <1>3, <1>5, <2>1, <2>2, <2>3 DEF BalanceIsLedger
<1>9. ReservedIsLedger'
    <2>1. \A b \in Accounts : reserved[b] \in Nat
        BY DEF Inv, TypeOK
    <2>2. ReservedIsLedger
        BY DEF Inv, ReconcileOK
    <2> QED
        BY <1>0, <1>2, <1>3, <1>5, <2>1, <2>2 DEF ReservedIsLedger
<1>10. /\ open' = open \ {c} /\ cdr'[c] = "billed"
       /\ \A d \in Calls \ {c} : cdr'[d] = cdr[d]
    BY DEF Inv, TypeOK, Bill, NotBilled, Release
<1>11. SettledOnce'
    <2>1. entries[c]["release"] = 0 /\ entries[c]["charge"] = 0
        BY <1>0 DEF Inv, SettledOnce
    <2>2. entries[c]["reserve"] = 1
        BY <1>0 DEF Inv, CallProgress
    <2>3. entries'[c]["release"] \in Nat /\ entries'[c]["charge"] \in Nat
        BY <1>2, <1>6
    <2> QED
        BY <1>6, <1>10, <2>1, <2>2, <2>3 DEF Inv, SettledOnce
<1>12. LedgerMatchesCDRs'
    <2>1. charged[c] = 0 /\ \A k \in Carriers : cost[c][k] = 0
        BY DEF Inv, CallProgress, Bill, NotBilled
    <2>2. ASSUME NEW b \in Customers
          PROVE  -ledger'[b]["charge"] = Total(charged', CallsOf(b))
        <3>1. /\ \A x \in Calls : charged[x] \in Nat
              /\ charged'[c] = price
              /\ \A x \in Calls \ {c} : charged'[x] = charged[x]
            BY <1>4 DEF Inv, TypeOK
        <3>2. /\ Total(charged, CallsOf(b)) \in Nat
              /\ Total(charged', CallsOf(b)) = Total(charged, CallsOf(b))
                    + (IF Owner[c] = b THEN charged'[c] - charged[c] ELSE 0)
            BY ZenonT(60), <3>1, OwnedTotal
        <3>3. -ledger[b]["charge"] = Total(charged, CallsOf(b))
            BY DEF Inv, LedgerMatchesCDRs
        <3>4. /\ ledger'[b]["charge"] = ledger[b]["charge"] - due(b)
              /\ ledger[b]["charge"] \in Int
            BY <1>2, <1>5 DEF Accounts
        <3> QED
            BY <2>1, <3>1, <3>2, <3>3, <3>4 DEF due
    <2>3. ASSUME NEW k \in Carriers
          PROVE  -ledger'[k]["cost"] = Total(CostsOf(k)', Calls)
        <3>1. /\ \A x \in Calls : CostsOf(k)[x] \in Nat
              /\ CostsOf(k)'[c] = paid(k) /\ CostsOf(k)[c] = 0
              /\ \A x \in Calls \ {c} : CostsOf(k)'[x] = CostsOf(k)[x]
            BY <1>4, <2>1 DEF Inv, TypeOK, CostsOf
        <3>2. CostsOf(k)'[c] \in Nat
            BY <1>3, <3>1
        <3>3. Total(CostsOf(k)', Calls)
                = Total(CostsOf(k), Calls) - CostsOf(k)[c] + CostsOf(k)'[c]
            BY <3>1, <3>2, CallsFinite, TotalUpdate
        <3>4. Total(CostsOf(k), Calls) \in Nat
            BY <3>1, CallsFinite, TotalType
        <3>5. -ledger[k]["cost"] = Total(CostsOf(k), Calls)
            BY DEF Inv, LedgerMatchesCDRs, CostsOf
        <3>6. /\ ledger'[k]["cost"] = ledger[k]["cost"] - paid(k)
              /\ ledger[k]["cost"] \in Int
            BY <1>2, <1>5 DEF Accounts
        <3> QED
            BY <1>3, <3>1, <3>3, <3>4, <3>5, <3>6
    <2> QED
        BY <2>2, <2>3 DEF LedgerMatchesCDRs, CostsOf, CallsOf
<1>13. CallProgress'
    <2>1. \A d \in Calls \ {c} : charged'[d] = charged[d] /\ cost'[d] = cost[d]
        BY <1>4 DEF Inv, TypeOK
    <2> QED
        BY <1>6, <1>10, <2>1 DEF Inv, Bill, NotBilled, CallProgress
<1> QED
    BY <1>0, <1>7, <1>8, <1>9, <1>11, <1>12, <1>13 DEF Inv, ReconcileOK

-----------------------------------------------------------------------------
(***************************************************************************)
(* The operator.                                                           *)
(***************************************************************************)
\* postMoney keeps the invariant: balance and ledger grow by the same amount.
LEMMA PostMoneyInv ==
    ASSUME Inv, NEW a \in Accounts, NEW type \in OperatorTypes,
           NEW amount \in Int, PostMoney(a, type, amount)
    PROVE  Inv'
<1> USE DEF callVars
<1>1. /\ OperatorTypes = {"topup", "adjustment", "refund"}
      /\ LedgerTypes = {"charge", "cost", "reserve", "release"} \cup OperatorTypes
    BY DEF LedgerTypes, BalanceTypes, OperatorTypes
<1>2. TypeOK'
    <2>1. ledger' \in [Accounts -> [LedgerTypes -> Int]]
        BY <1>1 DEF Inv, TypeOK, PostMoney
    <2>2. balance' \in [Accounts -> Int] /\ posts' \in Nat
        BY DEF Inv, TypeOK, PostMoney
    <2> QED
        BY <2>1, <2>2 DEF Inv, TypeOK, PostMoney
<1>3. \A b \in Accounts :
        /\ balance[b] \in Int /\ \A t \in LedgerTypes : ledger[b][t] \in Int
        /\ balance'[b] = balance[b] + (IF b = a THEN amount ELSE 0)
        /\ \A t \in LedgerTypes : ledger'[b][t] =
                ledger[b][t] + (IF b = a /\ t = type THEN amount ELSE 0)
    BY <1>1 DEF Inv, TypeOK, PostMoney
<1>4. BalanceIsLedger'
    <2>1. BalanceIsLedger
        BY DEF Inv, ReconcileOK
    <2>2. type = "topup" \/ type = "adjustment" \/ type = "refund"
        BY <1>1
    <2> QED
        BY <1>1, <1>3, <2>1, <2>2 DEF BalanceIsLedger
<1>5. \A b \in Accounts : \A t \in {"charge", "cost", "reserve", "release"} :
        ledger'[b][t] = ledger[b][t]
    BY <1>1, <1>3
<1>6. ReservedIsLedger' /\ ReservedIsOpen'
    BY <1>5 DEF Inv, PostMoney, ReconcileOK, ReservedIsLedger, ReservedIsOpen, Row
<1>7. LedgerMatchesCDRs'
    BY <1>5 DEF Inv, PostMoney, LedgerMatchesCDRs, Accounts
<1>8. SettledOnce' /\ CallProgress'
    BY DEF Inv, PostMoney, SettledOnce, CallProgress
<1> QED
    BY <1>2, <1>4, <1>6, <1>7, <1>8 DEF Inv, ReconcileOK

\* SetAllowedCredit keeps the invariant: no check of the books reads credit.
LEMMA SetAllowedCreditInv ==
    ASSUME Inv, NEW a \in Accounts, NEW amount \in Nat,
           SetAllowedCredit(a, amount)
    PROVE  Inv'
<1> USE DEF Inv, SetAllowedCredit, callVars
<1>1. TypeOK'
    BY DEF TypeOK
<1>2. SettledOnce' /\ CallProgress'
    BY DEF SettledOnce, CallProgress
<1>3. Quiet
    BY DEF Quiet
<1> QED
    BY <1>1, <1>2, <1>3, QuietBooks

-----------------------------------------------------------------------------
\* No step of the system breaks the invariant.
LEMMA NextInv == Inv /\ [Next]_vars => Inv'
<1> SUFFICES ASSUME Inv, [Next]_vars PROVE Inv'
    OBVIOUS
<1>1. CASE UNCHANGED vars
    <2>1. Quiet
        BY <1>1 DEF vars, Quiet
    <2>2. TypeOK' /\ SettledOnce' /\ CallProgress'
        BY <1>1 DEF Inv, vars, TypeOK, SettledOnce, CallProgress
    <2> QED
        BY <2>1, <2>2, QuietBooks DEF Inv
<1>2. ASSUME NEW c \in Calls, SetupStep(c) PROVE Inv'
    <2>1. CASE RouteNone(c)
        <3>1. CASE ReleaseTx(c)
            <4>1. /\ setup' \in [Calls -> SetupStates]
                  /\ \A d \in Calls : setup'[d] \in {"idle", "quoted"} =>
                                            setup'[d] = setup[d]
                  /\ UNCHANGED <<quote, posts>>
                BY <2>1 DEF RouteNone, Inv, TypeOK, SetupStates
            <4> QED
                BY <3>1, <4>1, ReleaseTxInv
        <3>2. CASE UNCHANGED <<moneyVars, callVars>>
            <4>1. Quiet
                BY <3>2 DEF Quiet, moneyVars, callVars
            <4>2. TypeOK'
                BY <2>1, <3>2
                DEF Inv, TypeOK, RouteNone, SetupStates, moneyVars, callVars
            <4>3. SettledOnce' /\ CallProgress'
                BY <2>1, <3>2 DEF Inv, TypeOK, RouteNone, SettledOnce,
                                  CallProgress, moneyVars, callVars
            <4> QED
                BY <4>1, <4>2, <4>3, QuietBooks DEF Inv
        <3> QED
            BY <2>1, <3>1, <3>2 DEF RouteNone
    <2>2. CASE ReserveCommit(c)
        BY <2>2, ReserveCommitInv
    <2>3. CASE \/ SetupReject(c) \/ SetupError(c) \/ ReserveLost(c) \/ RouteFound(c)
               \/ \E amount \in Money : ReserveRead(c, amount)
        BY <2>3, SetupQuietInv
    <2> QED
        BY <1>2, <2>1, <2>2, <2>3 DEF SetupStep
<1>3. ASSUME NEW c \in Calls, CallStep(c) PROVE Inv'
    <2>1. CASE CallRelease(c)
        <3>1. /\ setup' \in [Calls -> SetupStates]
              /\ \A d \in Calls : setup'[d] \in {"idle", "quoted"} =>
                                        setup'[d] = setup[d]
              /\ UNCHANGED <<quote, posts>> /\ ReleaseTx(c)
            BY <2>1 DEF CallRelease, Inv, TypeOK
        <3> QED
            BY <3>1, ReleaseTxInv
    <2>2. CASE \E k \in Carriers, outcome \in {"failed", "answered"} :
                    AppendAttempt(c, k, outcome)
        BY <2>2, AppendAttemptInv
    <2>3. CASE \E winner \in Carriers \cup {NoCarrier}, price, buy \in Money :
                    Bill(c, winner, price, buy)
        BY <2>3, BillInv, MoneyType
    <2> QED
        BY <1>3, <2>1, <2>2, <2>3 DEF CallStep
<1>4. ASSUME NEW a \in Accounts, OperatorStep(a) PROVE Inv'
    <2>1. CASE \E type \in OperatorTypes,
                  amount \in Postings \cup {-m : m \in Postings} :
                    PostMoney(a, type, amount)
        <3>1. \A m \in Postings : m \in Int /\ -m \in Int
            BY PostingsType
        <3> QED
            BY <2>1, <3>1, PostMoneyInv
    <2>2. CASE \E amount \in Postings : SetAllowedCredit(a, amount)
        BY <2>2, PostingsType, SetAllowedCreditInv
    <2> QED
        BY <1>4, <2>1, <2>2 DEF OperatorStep
<1> QED
    BY <1>1, <1>2, <1>3, <1>4 DEF Next

-----------------------------------------------------------------------------
(***************************************************************************)
(* The theorems.                                                           *)
(***************************************************************************)

\* The invariant holds throughout.
THEOREM Invariance == Spec => []Inv
<1>1. Init => Inv
    BY InitInv
<1>2. Inv /\ [Next]_vars => Inv'
    BY NextInv
<1> QED
    BY <1>1, <1>2, PTL DEF Spec

\* All tables keep their types; reserved never violates its CHECK (>= 0).
THEOREM TypeCorrect == Spec => []TypeOK
<1>1. Inv => TypeOK
    BY DEF Inv
<1> QED
    BY <1>1, Invariance, PTL

\* `sbc-api reconcile` (store.Reconcile, ReconcileRow.OK) finds no mismatch
\* on any account, however setups, hangups, releases, late attempt reports
\* and operator postings interleave.
THEOREM BooksBalance == Spec => []ReconcileOK
<1>1. Inv => ReconcileOK
    BY DEF Inv
<1> QED
    BY <1>1, Invariance, PTL

\* Whatever triggers arrive, and however often, a call is reserved, released
\* and charged at most once (D-17).
THEOREM ChargedOnce == Spec => []SettledOnce
<1>1. Inv => SettledOnce
    BY DEF Inv
<1> QED
    BY <1>1, Invariance, PTL

\* The charges and costs in the ledger are those of the CDRs.
THEOREM LedgerAndCDRsAgree == Spec => []LedgerMatchesCDRs
<1>1. Inv => LedgerMatchesCDRs
    BY DEF Inv
<1> QED
    BY <1>1, Invariance, PTL

\* A billed CDR never changes its money again.
THEOREM BilledStaysFinal == Spec => BilledIsFinal
<1> DEFINE Step == \A c \in Calls : cdr[c] = "billed" =>
            /\ cdr'[c] = "billed"
            /\ charged'[c] = charged[c] /\ released'[c] = released[c]
            /\ cost'[c] = cost[c] /\ entries'[c] = entries[c]
<1>1. Inv /\ [Next]_vars => [Step]_vars
    <2> SUFFICES ASSUME Inv, Next PROVE Step
        OBVIOUS
    <2> USE DEF Inv, TypeOK
    <2>1. ASSUME NEW c \in Calls, SetupStep(c) PROVE Step
        <3>1. CASE ReserveCommit(c)
            BY <3>1 DEF ReserveCommit, StillAffordable, CallProgress
        <3>2. CASE RouteNone(c)
            BY <3>2 DEF RouteNone, ReleaseTx, NotBilled, Release, moneyVars, callVars
        <3>3. CASE \/ SetupReject(c) \/ SetupError(c) \/ ReserveLost(c)
                   \/ RouteFound(c)
                   \/ \E amount \in Money : ReserveRead(c, amount)
            BY ZenonT(60), <3>3 DEF SetupReject, SetupError, ReserveLost, RouteFound,
                        ReserveRead, InsertRejectedCDR, moneyVars, callVars
        <3> QED
            BY ZenonT(60), <2>1, <3>1, <3>2, <3>3 DEF SetupStep
    <2>2. ASSUME NEW c \in Calls, CallStep(c) PROVE Step
        <3>1. CASE CallRelease(c)
            BY <3>1 DEF CallRelease, ReleaseTx, NotBilled, Release
        <3>2. CASE \E k \in Carriers, outcome \in {"failed", "answered"} :
                        AppendAttempt(c, k, outcome)
            BY <3>2 DEF AppendAttempt, moneyVars
        <3>3. CASE \E winner \in Carriers \cup {NoCarrier}, price, buy \in Money :
                        Bill(c, winner, price, buy)
            BY <3>3 DEF Bill, NotBilled, Release
        <3> QED
            BY ZenonT(60), <2>2, <3>1, <3>2, <3>3 DEF CallStep
    <2>3. ASSUME NEW a \in Accounts, OperatorStep(a) PROVE Step
        BY <2>3 DEF OperatorStep, PostMoney, SetAllowedCredit, callVars
    <2> QED
        BY ZenonT(60), <2>1, <2>2, <2>3 DEF Next
<1> QED
    BY <1>1, Invariance, PTL DEF Spec, BilledIsFinal

-----------------------------------------------------------------------------
(***************************************************************************)
(* The tables implement the prepaid promise.                               *)
(***************************************************************************)

\* What is free in Prepaid is what Available computes from the reserved
\* column: this is where the books have to balance.
LEMMA FreeIsAvailable ==
    ASSUME Inv, NEW a \in Customers
    PROVE  PP!Free(a) = Available(a)
<1>1. reserved[a] = Total([c \in Calls |-> Row(c)], CallsOf(a))
    BY DEF Inv, ReconcileOK, ReservedIsOpen, Accounts
<1> QED
    BY <1>1 DEF PP!Free, Available, CallsOf

\* A step that changes neither the customers' money nor the stage of a call.
LEMMA StutterStep ==
    ASSUME UNCHANGED <<credit, cdr, open, held>>,
           \A a \in Customers : balance'[a] = balance[a]
    PROVE  UNCHANGED PP!vars
BY DEF PP!vars, Row

\* A rejection of a call that has no CDR yet is a Refuse, or nothing.
LEMMA RefuseStep ==
    ASSUME Inv, NEW c \in Calls, InsertRejectedCDR(c),
           UNCHANGED <<balance, credit, open, held>>
    PROVE  PP!Next \/ UNCHANGED PP!vars
<1>1. CASE UNCHANGED cdr \/ cdr[c] # "none"
    <2>1. UNCHANGED cdr
        BY <1>1 DEF Inv, TypeOK, InsertRejectedCDR
    <2> QED
        BY <2>1, StutterStep
<1>2. CASE ~(UNCHANGED cdr) /\ cdr[c] = "none"
    <2>1. PP!Refuse(c)
        BY ZenonT(60), <1>2 DEF InsertRejectedCDR, PP!Refuse, Row
    <2> QED
        BY <2>1 DEF PP!Next
<1> QED
    BY <1>1, <1>2

\* Releasing without a charge is a Settle at price zero.
LEMMA ReleaseStep ==
    ASSUME Inv, NEW c \in Calls, ReleaseTx(c)
    PROVE  PP!Next
<1>1. PP!Settle(c, 0)
    <2>1. [x \in Calls |-> Row(x)]' = [[x \in Calls |-> Row(x)] EXCEPT ![c] = 0]
        BY ZenonT(60) DEF ReleaseTx, NotBilled, Release, Row
    <2>2. [a \in Customers |-> balance'[a]]
            = [[a \in Customers |-> balance[a]] EXCEPT ![Owner[c]] = @ - 0]
        BY OwnerFacts DEF Inv, TypeOK, ReleaseTx, NotBilled, Accounts
    <2> QED
        BY <2>1, <2>2 DEF PP!Settle, ReleaseTx, NotBilled
<1> QED
    BY <1>1 DEF PP!Next

\* The reservation takes a Hold step, on money that is free.
LEMMA HoldStep ==
    ASSUME Inv, NEW c \in Calls, ReserveCommit(c)
    PROVE  PP!Next
<1> DEFINE r == quote[c].reserve
<1>1. r \in Money /\ cdr[c] = "none" /\ c \notin open
    BY DEF Inv, ReserveCommit, StillAffordable, CallProgress, SettledOnce
<1>2. PP!Free(Owner[c]) > 0 /\ PP!Free(Owner[c]) >= r
    BY FreeIsAvailable, OwnerFacts DEF ReserveCommit, StillAffordable, Affordable
<1>3. [x \in Calls |-> Row(x)]' = [[x \in Calls |-> Row(x)] EXCEPT ![c] = r]
    BY ZenonT(60), <1>1 DEF Inv, TypeOK, ReserveCommit, StillAffordable, Row
<1>4. PP!Hold(c, r)
    BY <1>1, <1>2, <1>3 DEF PP!Hold, ReserveCommit, StillAffordable
<1> QED
    BY <1>1, <1>4 DEF PP!Next

\* Bill takes a Settle step at the price it charges.
LEMMA SettleStep ==
    ASSUME Inv, NEW c \in Calls, NEW winner, NEW price \in Money,
           NEW buy \in Money, Bill(c, winner, price, buy)
    PROVE  PP!Next
<1>1. c \in open /\ Owner[c] \in Customers
    BY OwnerFacts DEF Inv, SettledOnce, Bill, NotBilled
<1>2. [x \in Calls |-> Row(x)]' = [[x \in Calls |-> Row(x)] EXCEPT ![c] = 0]
    BY ZenonT(60) DEF Bill, NotBilled, Release, Row
<1>3. ASSUME NEW a \in Customers
      PROVE  balance'[a] = balance[a] - (IF a = Owner[c] THEN price ELSE 0)
    <2>1. a \notin Carriers /\ a \in Accounts /\ balance[a] \in Int
        BY AccountsDisjoint DEF Accounts, Inv, TypeOK
    <2>2. balance'[a] = balance[a] - 0 - (IF a = Owner[c] THEN price ELSE 0)
        BY <1>1, <2>1 DEF Bill, NotBilled
    <2> QED
        BY <2>1, <2>2
<1>4. [a \in Customers |-> balance'[a]]
        = [[a \in Customers |-> balance[a]] EXCEPT ![Owner[c]] = @ - price]
    <2>1. \A a \in Customers : balance[a] \in Int
        BY DEF Inv, TypeOK, Accounts
    <2> QED
        BY <1>1, <1>3, <2>1
<1>5. PP!Settle(c, price)
    BY <1>2, <1>4 DEF PP!Settle, Bill, NotBilled
<1> QED
    BY ZenonT(60), <1>5 DEF PP!Next

\* Billing implements Prepaid: money is held only while it is free, each
\* call is settled at most once, and nothing else touches a balance except
\* the operator.
THEOREM Refinement == Spec => PrepaidSpec
<1>1. Init => PP!Init
    BY OpeningType DEF Init, PP!Init, Row, Accounts
<1>2. Inv /\ [Next]_vars => [PP!Next]_(PP!vars)
    <2> SUFFICES ASSUME Inv, [Next]_vars PROVE PP!Next \/ UNCHANGED PP!vars
        OBVIOUS
    <2>1. CASE UNCHANGED vars
        BY <2>1, StutterStep DEF vars
    <2>2. ASSUME NEW c \in Calls, SetupStep(c)
          PROVE  PP!Next \/ UNCHANGED PP!vars
        <3>1. CASE ReserveCommit(c)
            BY <3>1, HoldStep
        <3>2. CASE RouteNone(c)
            <4>1. CASE ReleaseTx(c)
                BY <4>1, ReleaseStep
            <4>2. CASE UNCHANGED <<moneyVars, callVars>>
                BY <4>2, StutterStep DEF moneyVars, callVars
            <4> QED
                BY <3>2, <4>1, <4>2 DEF RouteNone
        <3>3. CASE SetupReject(c) \/ ReserveLost(c)
            BY <3>3, RefuseStep DEF SetupReject, ReserveLost, moneyVars
        <3>4. CASE \E amount \in Money : ReserveRead(c, amount)
            <4>1. CASE UNCHANGED cdr
                BY <3>4, <4>1, StutterStep DEF ReserveRead, moneyVars
            <4>2. CASE InsertRejectedCDR(c)
                BY <3>4, <4>2, RefuseStep DEF ReserveRead, moneyVars
            <4> QED
                BY <3>4, <4>1, <4>2 DEF ReserveRead
        <3>5. CASE SetupError(c) \/ RouteFound(c)
            BY <3>5, StutterStep DEF SetupError, RouteFound, moneyVars, callVars
        <3> QED
            BY <2>2, <3>1, <3>2, <3>3, <3>4, <3>5 DEF SetupStep
    <2>3. ASSUME NEW c \in Calls, CallStep(c)
          PROVE  PP!Next \/ UNCHANGED PP!vars
        <3>1. CASE CallRelease(c)
            BY <3>1, ReleaseStep DEF CallRelease
        <3>2. CASE \E k \in Carriers, outcome \in {"failed", "answered"} :
                        AppendAttempt(c, k, outcome)
            BY <3>2, StutterStep DEF AppendAttempt, moneyVars
        <3>3. CASE \E winner \in Carriers \cup {NoCarrier}, price, buy \in Money :
                        Bill(c, winner, price, buy)
            BY <3>3, SettleStep
        <3> QED
            BY <2>3, <3>1, <3>2, <3>3 DEF CallStep
    <2>4. ASSUME NEW a \in Accounts, OperatorStep(a)
          PROVE  PP!Next \/ UNCHANGED PP!vars
        <3>1. ASSUME NEW type \in OperatorTypes,
                     NEW amount \in Postings \cup {-m : m \in Postings},
                     PostMoney(a, type, amount)
              PROVE  PP!Next \/ UNCHANGED PP!vars
            <4>1. CASE a \in Customers
                <5>1. PP!Fund(a, amount)
                    BY ZenonT(60), <3>1, <4>1
                    DEF Inv, TypeOK, Accounts, PostMoney, callVars, PP!Fund, Row
                <5> QED
                    BY <4>1, <5>1 DEF PP!Next
            <4>2. CASE a \notin Customers
                <5>1. \A b \in Customers : balance'[b] = balance[b]
                    BY <3>1, <4>2 DEF Inv, TypeOK, Accounts, PostMoney
                <5> QED
                    BY <3>1, <5>1, StutterStep DEF PostMoney, callVars
            <4> QED
                BY <4>1, <4>2
        <3>2. ASSUME NEW amount \in Postings, SetAllowedCredit(a, amount)
              PROVE  PP!Next \/ UNCHANGED PP!vars
            <4>1. CASE a \in Customers
                <5>1. PP!SetLimit(a, amount)
                    BY ZenonT(60), <3>2, <4>1
                    DEF Inv, TypeOK, Accounts, SetAllowedCredit, callVars,
                        PP!SetLimit, Row
                <5> QED
                    BY <4>1, <5>1 DEF PP!Next
            <4>2. CASE a \notin Customers
                <5>1. \A b \in Customers : credit'[b] = credit[b]
                    BY <3>2, <4>2 DEF Inv, TypeOK, Accounts, SetAllowedCredit
                <5> QED
                    BY <3>2, <5>1 DEF SetAllowedCredit, callVars, PP!vars, Row
            <4> QED
                BY <4>1, <4>2
        <3> QED
            BY <2>4, <3>1, <3>2 DEF OperatorStep
    <2> QED
        BY <2>1, <2>2, <2>3, <2>4 DEF Next
<1> QED
    BY <1>1, <1>2, Invariance, PTL DEF Spec, PP!Spec, PrepaidSpec

=============================================================================
