--------------------------- MODULE PaymentProofs ---------------------------
(***************************************************************************)
(* A payment is spent once and no invoice is paid more than it owes, for   *)
(* any invoices and amounts.  autoAllocate goes through the invoices one   *)
(* by one: what it plans up to invoice n is shown by induction on n, as a  *)
(* smallest counterexample, and PayInv is then inductive.                  *)
(***************************************************************************)
EXTENDS Payments, SumLemmas, WellFoundedInduction

\* A leaf that names no prover is tried with each of these in turn.
USE SMTT(30), Z3T(30), ZenonT(30)

\* A set of numbers has a smallest one.
LEMMA Smallest ==
    ASSUME NEW p, p \subseteq Nat, p # {}
    PROVE  \E n \in p : \A m \in p : n <= m
<1> DEFINE R == OpToRel(<, Nat)
<1>1. IsWellFoundedOn(R, Nat) BY NatLessThanWellFounded
<1>2. \A m, n \in Nat : <<m, n>> \in R <=> m < n BY DEF OpToRel
<1> HIDE DEF R
<1>3. PICK n \in p : \A m \in p : ~(<<m, n>> \in R) BY <1>1, WFMin, Zenon
<1>4. \A m \in p : m \in Nat /\ n \in Nat /\ ~(m < n) BY Zenon, <1>2, <1>3
<1> QED BY <1>4

\* One amount more in a total.
LEMMA TotalWith ==
    ASSUME NEW S, IsFiniteSet(S), NEW c, c \notin S, NEW f, \A x \in S \cup {c} : f[x] \in Nat
    PROVE  Total(f, S) \in Nat /\ Total(f, S \cup {c}) = Total(f, S) + f[c]
<1> DEFINE W == S \cup {c}
<1>1. IsFiniteSet(W) BY FS_AddElement
<1>2. W \ {c} = S /\ c \in W OBVIOUS
<1>3. \A x \in W : f[x] \in Nat OBVIOUS
<1> HIDE DEF W
<1>4. /\ Total(f, W \ {c}) \in Nat
      /\ Total(f, W) = Total(f, W \ {c}) + f[c]
      BY <1>1, <1>2, <1>3, TotalSplit
<1> QED BY Zenon, <1>2, <1>4 DEF W

\* The invoices before n.
Older(n) == {j \in Invoices : j < n}

LEMMA OlderInvoices ==
    /\ Older(1) = {} /\ Older(InvoiceCount + 1) = Invoices
    /\ \A n \in Invoices : /\ IsFiniteSet(Older(n)) /\ n \notin Older(n)
                           /\ Older(n + 1) = Older(n) \cup {n}
<1> USE PaymentConstants
<1>1. Older(1) = {} /\ Older(InvoiceCount + 1) = Invoices BY DEF Older, Invoices
<1>2. ASSUME NEW n \in Invoices
      PROVE  IsFiniteSet(Older(n)) /\ n \notin Older(n) /\ Older(n + 1) = Older(n) \cup {n}
    <2>1. IsFiniteSet(Invoices) BY FS_Interval DEF Invoices
    <2>2. Older(n) \subseteq Invoices BY DEF Older
    <2>3. IsFiniteSet(Older(n)) BY <2>1, <2>2, FS_Subset
    <2>4. n \notin Older(n) /\ Older(n + 1) = Older(n) \cup {n} BY DEF Older, Invoices
    <2> QED BY <2>3, <2>4
<1> QED BY <1>1, <1>2

\* The due ones among them.
LEMMA OlderDue ==
    ASSUME NEW D \in SUBSET Invoices
    PROVE  /\ {j \in D : j < 1} = {}
           /\ \A n \in Invoices :
                /\ n \in D => {j \in D : j < n + 1} = {j \in D : j < n} \cup {n}
                /\ n \notin D => {j \in D : j < n + 1} = {j \in D : j < n}
                /\ n \notin {j \in D : j < n}
<1>1. \A j \in Invoices : j \in Nat /\ j >= 1 BY PaymentConstants DEF Invoices
<1>2. \A j \in D : j \in Nat /\ j >= 1 BY <1>1
<1>3. {j \in D : j < 1} = {} BY <1>2
<1>4. ASSUME NEW n \in Invoices
      PROVE  /\ n \in D => {j \in D : j < n + 1} = {j \in D : j < n} \cup {n}
             /\ n \notin D => {j \in D : j < n + 1} = {j \in D : j < n}
             /\ n \notin {j \in D : j < n}
    <2>1. n \in Nat BY <1>1
    <2>2. \A j \in D : j < n + 1 <=> j < n \/ j = n BY <1>2, <2>1
    <2>3. ~(n < n) BY <2>1
    <2> QED BY <2>2, <2>3
<1> QED BY <1>3, <1>4

\* What remains is taken by the invoice until it or the payment is used up.
AtMost(x, r) == IF x <= r THEN x ELSE r

LEMMA TakeStep ==
    ASSUME NEW s \in Nat, NEW o \in Nat, NEW r \in Nat
    PROVE  /\ Take(o, r - s) \in Nat /\ Take(o, r - s) <= o
           /\ AtMost(s + o, r) = AtMost(s, r) + Take(o, r - s)
           /\ AtMost(s, r) \in Nat /\ AtMost(s, r) <= r
  BY DEF Take, AtMost

\* autoAllocate spends no more than the payment, and pays no invoice more than
\* it is due.
LEMMA SpreadFits ==
    ASSUME NEW D \in SUBSET Invoices, NEW due \in [D -> Int], NEW to \in [Invoices -> Nat],
           \A i \in Invoices \ D : to[i] = 0,
           NEW amount \in Nat, AllocationTotal(to) <= amount
    PROVE  LET sp == Spread(due, to, amount) IN
           /\ sp \in [Invoices -> Nat] /\ AllocationTotal(sp) <= amount
           /\ \A i \in Invoices \ D : sp[i] = 0
           /\ \A i \in D : to[i] <= due[i] => sp[i] <= due[i]
<1> DEFINE sp == Spread(due, to, amount)
           all == AllocationTotal(to)
           R == amount - all
           ow == Owed(due, to)
           paid(n) == Total(ow, {j \in D : j < n})
<1> USE PaymentConstants
<1>1. IsFiniteSet(Invoices) BY FS_Interval DEF Invoices
<1>2. all \in Nat BY <1>1, TotalType DEF AllocationTotal
<1>3. R \in Nat BY <1>2
<1>4. ow \in [D -> Nat] /\ (\A i \in D : to[i] <= due[i] => ow[i] = due[i] - to[i])
      BY DEF Owed
<1>5. \A n \in Nat : paid(n) \in Nat
    <2> TAKE n \in Nat
    <2> DEFINE S == {j \in D : j < n}
    <2>1. S \subseteq Invoices OBVIOUS
    <2>2. \A x \in S : ow[x] \in Nat BY <1>4
    <2> HIDE DEF S, ow
    <2>3. IsFiniteSet(S) BY <1>1, <2>1, FS_Subset
    <2> QED BY <2>2, <2>3, TotalType DEF S
<1>6. ASSUME NEW i \in D
      PROVE  /\ sp[i] = to[i] + Take(ow[i], R - paid(i))
             /\ Take(ow[i], R - paid(i)) \in Nat /\ Take(ow[i], R - paid(i)) <= ow[i]
    <2>0. i \in Invoices /\ i \in Nat /\ DOMAIN due = D BY DEF Invoices
    <2> DEFINE q == paid(i)
    <2>1. q \in Nat BY <1>5, <2>0
    <2>2. Remaining(due, to, amount, i) = amount - all - q BY <2>0 DEF Remaining
    <2>3. sp[i] = to[i] + Take(ow[i], Remaining(due, to, amount, i)) BY <2>0 DEF Spread
    <2> HIDE DEF q, all, sp, ow
    <2>4. amount - all - q = R - q BY <1>2, <2>1
    <2>5. ow[i] \in Nat BY <1>4
    <2>6. Take(ow[i], R - q) \in Nat /\ Take(ow[i], R - q) <= ow[i] BY Zenon, <1>3, <2>1, <2>5, TakeStep
    <2> QED BY <2>2, <2>3, <2>4, <2>6 DEF q
<1>7. ASSUME NEW i \in Invoices \ D PROVE sp[i] = 0 BY DEF Spread
<1>8. sp \in [Invoices -> Nat]
    <2>1. \A i \in Invoices : sp[i] \in Nat
        <3>1. ASSUME NEW i \in D PROVE sp[i] \in Nat
            <4>1. to[i] \in Nat OBVIOUS
            <4> HIDE DEF sp, ow, R, paid
            <4> QED BY <1>6, <4>1
        <3> HIDE DEF sp
        <3> QED BY <1>7, <3>1
    <2>2. sp = [i \in Invoices |-> sp[i]] BY DEF Spread
    <2> HIDE DEF sp
    <2> QED BY <2>1, <2>2
<1>9. ASSUME NEW i \in D, to[i] <= due[i] PROVE sp[i] <= due[i]
    <2>1. to[i] \in Nat /\ due[i] \in Int /\ ow[i] = due[i] - to[i] BY <1>4, <1>9
    <2> DEFINE t == Take(ow[i], R - paid(i))
    <2>2. sp[i] = to[i] + t /\ t \in Nat /\ t <= ow[i] BY <1>6
    <2> HIDE DEF sp, ow, t
    <2> QED BY <2>1, <2>2
\* Up to invoice n the plan holds the operator's allocations, and of the rest of
\* the payment what the invoices still owe.
<1> DEFINE P(n) == Total(sp, Older(n)) = Total(to, Older(n)) + AtMost(paid(n), R)
<1>10. P(1)
    <2>1. {j \in D : j < 1} = {} BY OlderDue
    <2>2. paid(1) = 0 BY <2>1, TotalZero
    <2>3. Total(sp, Older(1)) = 0 /\ Total(to, Older(1)) = 0 BY OlderInvoices, TotalZero
    <2> HIDE DEF sp, R, paid
    <2> QED BY <1>3, <2>2, <2>3 DEF AtMost
<1>11. ASSUME NEW n \in Invoices, P(n) PROVE P(n + 1)
    <2>0. n \in Nat BY DEF Invoices
    <2> DEFINE B == Older(n)
               s == paid(n)
    <2>1. IsFiniteSet(B) /\ n \notin B /\ Older(n + 1) = B \cup {n} BY OlderInvoices
    <2>2. B \subseteq Invoices BY DEF Older
    <2>3. s \in Nat BY <1>5, <2>0
    <2>4. Total(sp, B) \in Nat /\ Total(sp, Older(n + 1)) = Total(sp, B) + sp[n]
        <3>1. \A x \in B \cup {n} : sp[x] \in Nat
            <4> HIDE DEF sp, B
            <4> QED BY <1>8, <2>2
        <3> HIDE DEF sp, B
        <3> QED BY <2>1, <3>1, TotalWith
    <2>5. Total(to, B) \in Nat /\ Total(to, Older(n + 1)) = Total(to, B) + to[n]
        <3>1. \A x \in B \cup {n} : to[x] \in Nat
            <4> HIDE DEF B
            <4> QED BY <2>2
        <3> HIDE DEF B
        <3> QED BY Zenon, <2>1, <3>1, TotalWith
    <2>6. CASE n \in D
        <3> DEFINE A == {j \in D : j < n}
        <3>1. {j \in D : j < n + 1} = A \cup {n} BY <2>6, OlderDue
        <3>2. n \notin A /\ A \subseteq Invoices /\ A \subseteq D BY OlderDue
        <3>3. IsFiniteSet(A)
            <4> HIDE DEF A
            <4> QED BY <1>1, <3>2, FS_Subset
        <3>4. \A x \in A \cup {n} : ow[x] \in Nat
            <4> HIDE DEF A, ow
            <4> QED BY <1>4, <2>6, <3>2
        <3>5. Total(ow, A \cup {n}) = Total(ow, A) + ow[n]
            <4> HIDE DEF A, ow
            <4> QED BY <3>2, <3>3, <3>4, TotalWith
        <3>6. paid(n + 1) = s + ow[n] BY <2>0, <3>1, <3>5
        <3>7. sp[n] = to[n] + Take(ow[n], R - s) BY <1>6, <2>6
        <3>8. ow[n] \in Nat /\ to[n] \in Nat BY <3>4
        <3> DEFINE u == paid(n + 1)
                   w == Older(n + 1)
        <3>9. P(n) /\ u = s + ow[n] /\ Total(sp, w) = Total(sp, B) + sp[n] /\ Total(to, w) = Total(to, B) + to[n]
              BY <1>11, <2>4, <2>5, <3>6
        <3>10. Total(sp, B) = Total(to, B) + AtMost(s, R) BY <1>11
        <3> HIDE DEF u, w, s, B, sp, ow, R, A
        <3>11. AtMost(s + ow[n], R) = AtMost(s, R) + Take(ow[n], R - s)
               /\ AtMost(s, R) \in Nat /\ Take(ow[n], R - s) \in Nat
              BY Zenon, <1>3, <2>3, <3>8, TakeStep
        <3>12. Total(sp, w) = Total(to, w) + AtMost(u, R)
              BY <2>4, <2>5, <3>7, <3>8, <3>9, <3>10, <3>11
        <3> QED BY <3>12 DEF u, w
    <2>7. CASE n \notin D
        <3>1. {j \in D : j < n + 1} = {j \in D : j < n} BY <2>7, OlderDue
        <3>2. paid(n + 1) = s BY <2>0, <3>1
        <3>3. sp[n] = 0 /\ to[n] = 0 BY <1>7, <2>7
        <3>4. Total(sp, B) = Total(to, B) + AtMost(s, R) BY <1>11
        <3> DEFINE u == paid(n + 1)
                   w == Older(n + 1)
        <3>5. u = s /\ Total(sp, w) = Total(sp, B) + sp[n] /\ Total(to, w) = Total(to, B) + to[n]
              BY <2>4, <2>5, <3>2
        <3> HIDE DEF u, w, s, B, sp, ow, R
        <3>6. Total(sp, w) = Total(to, w) + AtMost(u, R) BY <2>4, <2>5, <3>3, <3>4, <3>5
        <3> QED BY <3>6 DEF u, w
    <2> QED BY <2>6, <2>7
<1>12. P(InvoiceCount + 1)
    <2> DEFINE T == {n \in 1..(InvoiceCount + 1) : ~P(n)}
    <2> SUFFICES ASSUME ~P(InvoiceCount + 1) PROVE FALSE OBVIOUS
    <2> HIDE DEF P
    <2>1. T \subseteq Nat /\ T # {} OBVIOUS
    <2>2. PICK n \in T : \A m \in T : n <= m
        <3> HIDE DEF T
        <3> QED BY Zenon, <2>1, Smallest
    <2>3. n # 1 /\ n \in 1..(InvoiceCount + 1) /\ ~P(n) BY <1>10, <2>2
    <2>4. n - 1 \in Invoices /\ n - 1 \notin T /\ (n - 1) + 1 = n BY <2>2, <2>3 DEF Invoices
    <2>5. P(n - 1) BY <2>4 DEF Invoices
    <2>6. P((n - 1) + 1) BY <1>11, <2>4, <2>5
    <2> QED BY <2>3, <2>4, <2>6
<1>13. AllocationTotal(sp) <= amount
    <2> DEFINE s == paid(InvoiceCount + 1)
    <2>1. s \in Nat BY <1>5
    <2>2. AllocationTotal(sp) = all + AtMost(s, R) BY <1>12, OlderInvoices DEF AllocationTotal
    <2> HIDE DEF s, sp, all
    <2>3. AtMost(s, R) \in Nat /\ AtMost(s, R) <= R
          BY <1>3, <2>1 DEF AtMost
    <2> QED BY <1>2, <2>2, <2>3
<1> HIDE DEF sp
<1> QED BY <1>7, <1>8, <1>9, <1>13 DEF sp

Dues == UNION {[D -> Int] : D \in SUBSET Invoices}
Payment == [at : {"idle", "reading", "locked", "done"}, amount : Nat, to : [Invoices -> Nat],
            auto : BOOLEAN, due : Dues, plan : [Invoices -> Nat]]
PaidIn(by, i) == Total([p \in Payers |-> by[p][i]], Payers)

PayTypes ==
    /\ live \subseteq Invoices
    /\ payment \in [Payers -> Payment]
    /\ deletion \in [at : {"idle", "reading", "locked"}, id : Nat, paid : Nat]
    /\ paidBy \in [Payers -> [Invoices -> Nat]]

\* What a payment's plan may be, and what it has paid before it commits.
PlanInv(p) ==
    /\ payment[p].at # "done" => paidBy[p] = Nil
    /\ AllocationTotal(paidBy[p]) <= payment[p].amount
    /\ payment[p].at = "locked" =>
        /\ AllocationTotal(payment[p].plan) <= payment[p].amount
        /\ \A i \in Invoices \ DOMAIN payment[p].due : payment[p].plan[i] = 0

\* A row has one lock.
LockInv ==
    /\ \A p, q \in Payers : p # q /\ payment[p].at = "locked" /\ payment[q].at = "locked" =>
            DOMAIN payment[p].due \cap DOMAIN payment[q].due = {}
    /\ \A p \in Payers : payment[p].at = "locked" /\ deletion.at = "locked" =>
            deletion.id \notin DOMAIN payment[p].due

\* With new snapshots a plan pays only what is owed, also when it is committed
\* after others, and what is about to be deleted is not paid.
FreshInv ==
    /\ \A i \in Invoices : PaidIn(paidBy, i) <= IF i \in live THEN Owes[i] ELSE 0
    /\ \A p \in Payers : payment[p].at = "locked" =>
        /\ DOMAIN payment[p].due \subseteq live
        /\ \A i \in DOMAIN payment[p].due : payment[p].plan[i] <= Owes[i] - PaidIn(paidBy, i)
    /\ deletion.at = "locked" => deletion.id \in live /\ PaidIn(paidBy, deletion.id) = 0

PayInv == PayTypes /\ (\A p \in Payers : PlanInv(p)) /\ LockInv /\ (late \/ FreshInv)

\* What was paid is a number, and one payment changes it by its own share.
LEMMA PaidType ==
    ASSUME NEW by \in [Payers -> [Invoices -> Nat]], NEW i \in Invoices
    PROVE  PaidIn(by, i) \in Nat
<1> DEFINE f == [p \in Payers |-> by[p][i]]
<1>1. \A p \in Payers : f[p] \in Nat OBVIOUS
<1> HIDE DEF f
<1> QED BY <1>1, PaymentConstants, TotalType DEF PaidIn, f

LEMMA PaidMore ==
    ASSUME NEW by \in [Payers -> [Invoices -> Nat]], NEW p \in Payers, by[p] = Nil,
           NEW plan \in [Invoices -> Nat], NEW i \in Invoices
    PROVE  PaidIn([by EXCEPT ![p] = plan], i) = PaidIn(by, i) + plan[i]
<1> DEFINE f == [q \in Payers |-> by[q][i]]
           g == [q \in Payers |-> [by EXCEPT ![p] = plan][q][i]]
<1>1. f[p] = 0 /\ g[p] = plan[i] BY DEF Nil
<1>2. \A q \in Payers : f[q] \in Nat OBVIOUS
<1>3. \A q \in Payers \ {p} : g[q] = f[q] OBVIOUS
<1>4. PaidIn(by, i) \in Nat /\ plan[i] \in Nat BY PaidType
<1> HIDE DEF f, g
<1>5. Total(g, Payers) = Total(f, Payers) - f[p] + g[p]
      BY <1>1, <1>2, <1>3, <1>4, PaymentConstants, TotalUpdate
<1> QED BY <1>1, <1>4, <1>5 DEF PaidIn, f, g

\* Nothing was paid.
LEMMA NilTotal == AllocationTotal(Nil) = 0 /\ Nil \in [Invoices -> Nat]
  BY TotalZero DEF AllocationTotal, Nil

\* A payment that is not asked for.
LEMMA NotAskedType == NotAsked \in Payment /\ NotAsked.at = "idle" /\ NotAsked.amount = 0
<1>1. Nil \in [Invoices -> Int] BY DEF Nil
<1>2. Nil \in Dues BY <1>1 DEF Dues
<1> QED BY <1>2, NilTotal DEF NotAsked, Payment

\* An accepted wish fits, whether or not the rest is spread.
LEMMA PlanFits ==
    ASSUME NEW D \in SUBSET Invoices, NEW due \in [D -> Int], NEW to \in [Invoices -> Nat],
           NEW amount \in Nat, NEW auto \in BOOLEAN, Accepted(due, to, amount),
           NEW plan, plan = IF auto THEN Spread(due, to, amount) ELSE to
    PROVE  /\ plan \in [Invoices -> Nat] /\ AllocationTotal(plan) <= amount
           /\ \A i \in Invoices \ D : plan[i] = 0
           /\ \A i \in D : due[i] >= 0 => plan[i] <= due[i]
<1> DEFINE sp == Spread(due, to, amount)
<1>1. DOMAIN due = D /\ AllocationTotal(to) <= amount
      /\ \A i \in Invoices : to[i] > 0 => i \in D /\ to[i] <= due[i]
      BY DEF Accepted
<1>2. \A i \in Invoices \ D : to[i] = 0 BY <1>1
<1>3. \A i \in D : due[i] >= 0 => to[i] <= due[i] BY <1>1
<1>4. /\ sp \in [Invoices -> Nat] /\ AllocationTotal(sp) <= amount
      /\ \A i \in Invoices \ D : sp[i] = 0
      /\ \A i \in D : to[i] <= due[i] => sp[i] <= due[i]
      BY <1>1, <1>2, SpreadFits
<1> HIDE DEF sp
<1> QED BY <1>1, <1>2, <1>3, <1>4 DEF sp

\* The locked rows.
LEMMA LockedRows ==
    /\ \A p \in Payers : payment[p].at = "locked" => DOMAIN payment[p].due \subseteq Locked
    /\ deletion.at = "locked" => deletion.id \in Locked
<1>1. ASSUME NEW p \in Payers, payment[p].at = "locked" PROVE DOMAIN payment[p].due \subseteq Locked
    <2>1. p \in {q \in Payers : payment[q].at = "locked"} BY <1>1
    <2> QED BY <2>1 DEF Locked
<1>2. ASSUME deletion.at = "locked" PROVE deletion.id \in Locked
    <2>1. (IF deletion.at = "locked" THEN {deletion.id} ELSE {}) = {deletion.id} BY <1>2
    <2> QED BY <2>1 DEF Locked
<1> QED BY <1>1, <1>2

\* A payment that is not locked gets another record that is not locked.
LEMMA PaymentMoves ==
    ASSUME PayInv, NEW p \in Payers, NEW l \in Payment, payment' = [payment EXCEPT ![p] = l],
           l.at # "locked", payment[p].at \in {"idle", "reading"},
           UNCHANGED <<live, deletion, paidBy>>, late => late'
    PROVE  PayInv'
<1>1. payment' \in [Payers -> Payment] BY DEF PayInv, PayTypes
<1>2. payment'[p] = l /\ \A q \in Payers : q # p => payment'[q] = payment[q] BY DEF PayInv, PayTypes
<1>3. PayTypes' BY <1>1 DEF PayInv, PayTypes
<1>4. ASSUME NEW q \in Payers PROVE PlanInv(q)'
    <2>1. CASE q = p
        <3>1. paidBy'[p] = Nil BY DEF PayInv, PlanInv
        <3>2. l.amount \in Nat BY DEF Payment
        <3> QED BY <1>2, <2>1, <3>1, <3>2, NilTotal DEF PlanInv
    <2>2. CASE q # p
        <3>1. PlanInv(q) BY DEF PayInv
        <3> QED BY <1>2, <2>2, <3>1 DEF PlanInv
    <2> QED BY <2>1, <2>2
<1>5. LockInv' BY <1>2 DEF PayInv, LockInv
<1>6. late' \/ FreshInv' BY <1>2 DEF PayInv, FreshInv
<1> QED BY <1>3, <1>4, <1>5, <1>6 DEF PayInv

LEMMA StartKeeps ==
    ASSUME PayInv, NEW p \in Payers, NEW amount \in Sums, NEW to \in Wishes, NEW auto \in BOOLEAN,
           StartPayment(p, amount, to, auto)
    PROVE  PayInv'
<1> DEFINE due == [i \in live |-> Owes[i] - Paid(i)]
           l == [at |-> "reading", amount |-> amount, to |-> to, auto |-> auto, plan |-> Nil, due |-> due]
<1>1. due \in Dues
    <2>1. \A i \in live : Owes[i] - Paid(i) \in Int
        <3> TAKE i \in live
        <3>1. i \in Invoices BY DEF PayInv, PayTypes
        <3>2. Paid(i) = PaidIn(paidBy, i) BY DEF Paid, PaidIn
        <3>3. PaidIn(paidBy, i) \in Nat BY <3>1, PaidType DEF PayInv, PayTypes
        <3>4. Owes[i] \in Nat BY <3>1, PaymentConstants
        <3> QED BY <3>2, <3>3, <3>4
    <2>2. due \in [live -> Int] BY <2>1
    <2> HIDE DEF due
    <2> QED BY <2>2 DEF Dues, PayInv, PayTypes
<1>2. amount \in Nat /\ to \in [Invoices -> Nat]
    <2>1. {0} \cup Sums \subseteq Nat BY PaymentConstants
    <2> QED BY <2>1 DEF Wishes
<1> HIDE DEF due
<1>3. l \in Payment /\ l.at = "reading" BY <1>1, <1>2, NilTotal DEF Payment
<1>4. payment' = [payment EXCEPT ![p] = l] /\ payment[p].at = "idle" /\ UNCHANGED <<live, deletion, paidBy, late>>
      BY DEF StartPayment, due
<1> HIDE DEF l
<1> QED BY Zenon, <1>3, <1>4, PaymentMoves

LEMMA PlanKeeps ==
    ASSUME PayInv, NEW p \in Payers, LockAndPlan(p)
    PROVE  PayInv'
<1> DEFINE q == payment[p]
           due == AfterWait(q.due)
           D == DOMAIN q.due \cap live
           plan == IF q.auto THEN Spread(due, q.to, q.amount) ELSE q.to
           l == [q EXCEPT !.at = "locked", !.due = due, !.plan = plan]
<1>1. q \in Payment /\ q.at = "reading" BY DEF PayInv, PayTypes, LockAndPlan
<1>2. /\ DOMAIN q.due \cap Locked = {} /\ UNCHANGED <<live, deletion, paidBy>>
      /\ late' = (late \/ \E i \in DOMAIN due : due[i] # Owes[i] - Paid(i))
      BY DEF LockAndPlan
<1>3. late => late' BY <1>2, Zenon
<1>4. CASE ~Accepted(due, q.to, q.amount)
    <2> DEFINE n == [NotAsked EXCEPT !.at = "done"]
    <2>1. n \in Payment /\ n.at = "done" BY NotAskedType DEF Payment
    <2>2. payment' = [payment EXCEPT ![p] = n] BY <1>4, Zenon DEF LockAndPlan
    <2> HIDE DEF n
    <2> QED BY Zenon, <1>1, <1>2, <1>3, <2>1, <2>2, PaymentMoves
<1>5. CASE Accepted(due, q.to, q.amount)
    <2>1. payment' = [payment EXCEPT ![p] = l] BY <1>5, Zenon DEF LockAndPlan
    <2>2. /\ D \in SUBSET Invoices /\ due \in [D -> Int] /\ q.to \in [Invoices -> Nat] /\ q.amount \in Nat
          /\ q.auto \in BOOLEAN /\ D \subseteq live
        <3>1. q.due \in Dues /\ q.to \in [Invoices -> Nat] /\ q.amount \in Nat /\ q.auto \in BOOLEAN
              BY <1>1 DEF Payment
        <3>2. PICK E \in SUBSET Invoices : q.due \in [E -> Int] BY <3>1 DEF Dues
        <3>3. DOMAIN q.due = E BY <3>2
        <3>4. due \in [D -> Int] BY <3>2, <3>3 DEF AfterWait
        <3> QED BY <3>1, <3>2, <3>3, <3>4
    <2>3. DOMAIN due = D BY DEF AfterWait
    <2> DEFINE to == q.to
               amount == q.amount
    <2>4. /\ plan \in [Invoices -> Nat] /\ AllocationTotal(plan) <= q.amount
          /\ \A i \in Invoices \ D : plan[i] = 0
          /\ \A i \in D : due[i] >= 0 => plan[i] <= due[i]
        <3> DEFINE au == q.auto
        <3>1. D \in SUBSET Invoices /\ due \in [D -> Int] /\ to \in [Invoices -> Nat] /\ amount \in Nat
              /\ au \in BOOLEAN /\ Accepted(due, to, amount)
              BY <1>5, <2>2
        <3>2. plan = IF au THEN Spread(due, to, amount) ELSE to OBVIOUS
        <3> HIDE DEF D, due, to, amount, au, plan
        <3>3. /\ plan \in [Invoices -> Nat] /\ AllocationTotal(plan) <= amount
              /\ \A i \in Invoices \ D : plan[i] = 0
              /\ \A i \in D : due[i] >= 0 => plan[i] <= due[i]
              BY <3>1, <3>2, PlanFits
        <3> QED BY <3>3 DEF amount
    <2>5. due \in Dues
        <3> HIDE DEF D, due
        <3> QED BY <2>2 DEF Dues
    <2> HIDE DEF plan, due, q
    <2>6. /\ l \in Payment /\ l.at = "locked" /\ l.due = due /\ l.plan = plan /\ l.amount = q.amount
          BY Zenon, <1>1, <2>4, <2>5 DEF Payment
    <2> HIDE DEF l
    <2>7. payment' \in [Payers -> Payment] /\ payment'[p] = l
          /\ \A o \in Payers : o # p => payment'[o] = payment[o]
          BY <2>1, <2>6 DEF PayInv, PayTypes
    <2>8. PayTypes' BY <1>2, <2>7 DEF PayInv, PayTypes
    <2>9. ASSUME NEW o \in Payers PROVE PlanInv(o)'
        <3>1. CASE o = p
            <4>1. paidBy'[p] = Nil BY <1>1, <1>2 DEF PayInv, PlanInv, q
            <4>2. q.amount \in Nat BY <1>1 DEF Payment
            <4> QED BY <2>3, <2>4, <2>6, <2>7, <3>1, <4>1, <4>2, NilTotal DEF PlanInv
        <3>2. CASE o # p
            <4>1. PlanInv(o) BY DEF PayInv
            <4> QED BY <1>2, <2>7, <3>2, <4>1 DEF PlanInv
        <3> QED BY <3>1, <3>2
    <2>10. LockInv'
        <3>1. D \cap Locked = {} BY <1>2
        <3>2. DOMAIN l.due = D BY <2>3, <2>6
        <3> HIDE DEF D
        <3>3. \A o \in Payers : o # p /\ payment'[o].at = "locked" => DOMAIN payment'[o].due \subseteq Locked
              BY <2>7, LockedRows
        <3>4. \A o \in Payers : o # p /\ payment'[o].at = "locked" => DOMAIN payment'[o].due \cap D = {}
              BY <3>1, <3>3
        <3>5. \A o, r \in Payers : o # r /\ payment'[o].at = "locked" /\ payment'[r].at = "locked" =>
                DOMAIN payment'[o].due \cap DOMAIN payment'[r].due = {}
            <4> TAKE o, r \in Payers
            <4>1. CASE o = p BY <2>7, <3>2, <3>4, <4>1
            <4>2. CASE r = p BY <2>7, <3>2, <3>4, <4>2
            <4>3. CASE o # p /\ r # p BY <2>7, <4>3 DEF PayInv, LockInv
            <4> QED BY <4>1, <4>2, <4>3
        <3>6. \A o \in Payers : payment'[o].at = "locked" /\ deletion'.at = "locked" =>
                deletion'.id \notin DOMAIN payment'[o].due
            <4> TAKE o \in Payers
            <4>1. CASE o = p BY <1>2, <2>7, <3>1, <3>2, <4>1, LockedRows
            <4>2. CASE o # p BY <1>2, <2>7, <4>2 DEF PayInv, LockInv
            <4> QED BY <4>1, <4>2
        <3> QED BY <3>5, <3>6 DEF LockInv
    <2>11. ASSUME ~late' PROVE FreshInv'
        <3>1. ~late /\ FreshInv BY <1>3, <2>11 DEF PayInv
        <3>2. \A i \in D : due[i] = Owes[i] - Paid(i) BY Zenon, <1>2, <2>3, <2>11
        <3>3. ASSUME NEW i \in D PROVE plan[i] <= Owes[i] - PaidIn(paidBy, i)
            <4>1. i \in Invoices /\ i \in live BY <2>2
            <4>2. PaidIn(paidBy, i) \in Nat BY <4>1, PaidType DEF PayInv, PayTypes
            <4>3. Owes[i] \in Nat BY <4>1, PaymentConstants
            <4>4. PaidIn(paidBy, i) <= Owes[i] BY <3>1, <4>1 DEF FreshInv
            <4>5. due[i] = Owes[i] - PaidIn(paidBy, i) BY <3>2 DEF Paid, PaidIn
            <4>6. due[i] >= 0 BY <4>2, <4>3, <4>4, <4>5
            <4> QED BY <2>4, <4>5, <4>6
        <3>4. DOMAIN l.due = D /\ D \subseteq live BY <2>3, <2>6
        <3> HIDE DEF D
        <3>5. ASSUME NEW o \in Payers, payment'[o].at = "locked"
              PROVE  /\ DOMAIN payment'[o].due \subseteq live
                     /\ \A i \in DOMAIN payment'[o].due : payment'[o].plan[i] <= Owes[i] - PaidIn(paidBy, i)
            <4>1. CASE o = p BY <2>6, <2>7, <3>3, <3>4, <4>1
            <4>2. CASE o # p BY <2>7, <3>1, <3>5, <4>2 DEF FreshInv
            <4> QED BY <4>1, <4>2
        <3> QED BY <1>2, <3>1, <3>5 DEF FreshInv
    <2> QED BY <2>8, <2>9, <2>10, <2>11 DEF PayInv
<1> QED BY <1>4, <1>5

LEMMA CommitKeeps ==
    ASSUME PayInv, NEW p \in Payers, CommitPayment(p)
    PROVE  PayInv'
<1> DEFINE q == payment[p]
           plan == q.plan
           l == [NotAsked EXCEPT !.at = "done", !.amount = q.amount]
<1>1. /\ q.at = "locked" /\ paidBy' = [paidBy EXCEPT ![p] = plan]
      /\ payment' = [payment EXCEPT ![p] = l] /\ UNCHANGED <<live, deletion, late>>
      BY DEF CommitPayment
<1>2. q \in Payment /\ paidBy \in [Payers -> [Invoices -> Nat]] BY DEF PayInv, PayTypes
<1>3. plan \in [Invoices -> Nat] /\ q.amount \in Nat BY <1>2 DEF Payment
<1>4. paidBy[p] = Nil BY <1>1 DEF PayInv, PlanInv
<1> HIDE DEF plan
<1>5. l \in Payment /\ l.at = "done" /\ l.amount = q.amount BY Zenon, <1>3, NotAskedType DEF Payment
<1> HIDE DEF l
<1>6. payment' \in [Payers -> Payment] /\ payment'[p] = l
      /\ \A o \in Payers : o # p => payment'[o] = payment[o]
      BY <1>1, <1>5 DEF PayInv, PayTypes
<1>7. paidBy' \in [Payers -> [Invoices -> Nat]] /\ paidBy'[p] = plan
      /\ \A o \in Payers : o # p => paidBy'[o] = paidBy[o]
      BY <1>1, <1>2, <1>3
<1>8. ASSUME NEW i \in Invoices
      PROVE  /\ PaidIn(paidBy', i) = PaidIn(paidBy, i) + plan[i]
             /\ PaidIn(paidBy, i) \in Nat /\ plan[i] \in Nat /\ Owes[i] \in Nat
    <2>1. PaidIn([paidBy EXCEPT ![p] = plan], i) = PaidIn(paidBy, i) + plan[i]
          BY Zenon, <1>2, <1>3, <1>4, PaidMore
    <2>2. PaidIn(paidBy, i) \in Nat BY Zenon, <1>2, PaidType
    <2>3. plan[i] \in Nat /\ Owes[i] \in Nat BY <1>3, PaymentConstants
    <2> QED BY Zenon, <1>1, <2>1, <2>2, <2>3
<1>9. PayTypes' BY <1>1, <1>6, <1>7 DEF PayInv, PayTypes
<1>10. ASSUME NEW o \in Payers PROVE PlanInv(o)'
    <2>1. CASE o = p BY <1>1, <1>5, <1>6, <1>7, <2>1 DEF PayInv, PlanInv, plan
    <2>2. CASE o # p
        <3>1. PlanInv(o) BY DEF PayInv
        <3> QED BY <1>6, <1>7, <2>2, <3>1 DEF PlanInv
    <2> QED BY <2>1, <2>2
<1>11. LockInv' BY <1>1, <1>5, <1>6 DEF PayInv, LockInv
<1>12. ASSUME ~late' PROVE FreshInv'
    <2> DEFINE D == DOMAIN q.due
    <2>1. FreshInv BY <1>1, <1>12 DEF PayInv
    <2>2. /\ D \subseteq live /\ \A i \in D : plan[i] <= Owes[i] - PaidIn(paidBy, i)
          BY <1>1, <2>1 DEF FreshInv, plan
    <2>3. \A i \in Invoices \ D : plan[i] = 0 BY <1>1 DEF PayInv, PlanInv, plan
    <2>4. \A o \in Payers : o # p /\ payment[o].at = "locked" => DOMAIN payment[o].due \cap D = {}
          BY <1>1 DEF PayInv, LockInv
    <2>5. deletion.at = "locked" => deletion.id \notin D BY <1>1 DEF PayInv, LockInv
    <2> HIDE DEF D
    <2>6. \A i \in Invoices : i \notin D => PaidIn(paidBy', i) = PaidIn(paidBy, i) BY <1>8, <2>3
    <2>7. live \subseteq Invoices BY DEF PayInv, PayTypes
    <2>8. ASSUME NEW i \in Invoices PROVE PaidIn(paidBy', i) <= IF i \in live THEN Owes[i] ELSE 0
        <3>1. CASE i \in D
            <4>1. i \in live /\ plan[i] <= Owes[i] - PaidIn(paidBy, i) BY <2>2, <3>1
            <4>2. PaidIn(paidBy, i) + plan[i] <= Owes[i] BY <1>8, <4>1
            <4> QED BY <1>8, <4>1, <4>2
        <3>2. CASE i \notin D BY <2>1, <2>6, <3>2 DEF FreshInv
        <3> QED BY <3>1, <3>2
    <2>9. ASSUME NEW o \in Payers, payment'[o].at = "locked"
          PROVE  /\ DOMAIN payment'[o].due \subseteq live
                 /\ \A i \in DOMAIN payment'[o].due : payment'[o].plan[i] <= Owes[i] - PaidIn(paidBy', i)
        <3>1. o # p /\ payment'[o] = payment[o] BY <1>5, <1>6, <2>9
        <3>2. DOMAIN payment[o].due \subseteq live
              /\ \A i \in DOMAIN payment[o].due : payment[o].plan[i] <= Owes[i] - PaidIn(paidBy, i)
              BY <2>1, <2>9, <3>1 DEF FreshInv
        <3>3. \A i \in DOMAIN payment[o].due : PaidIn(paidBy', i) = PaidIn(paidBy, i)
              BY <2>4, <2>6, <2>7, <2>9, <3>1, <3>2
        <3> QED BY <3>1, <3>2, <3>3
    <2>10. deletion'.at = "locked" => deletion'.id \in live' /\ PaidIn(paidBy', deletion'.id) = 0
          BY Zenon, <1>1, <2>1, <2>5, <2>6, <2>7 DEF FreshInv
    <2> QED BY Zenon, <1>1, <2>8, <2>9, <2>10 DEF FreshInv
<1> QED BY <1>1, <1>9, <1>10, <1>11, <1>12 DEF PayInv

\* Delete, up to its decision.
LEMMA DeleteKeeps ==
    ASSUME PayInv, (\E i \in Invoices : StartDelete(i)) \/ LockAndDecide \/ CommitDelete
    PROVE  PayInv'
<1>0. deletion \in [at : {"idle", "reading", "locked"}, id : Nat, paid : Nat] BY DEF PayInv, PayTypes
<1>1. CASE \E i \in Invoices : StartDelete(i)
    <2>1. PICK i \in Invoices : StartDelete(i) BY <1>1
    <2>2. Paid(i) \in Nat
        <3>1. PaidIn(paidBy, i) \in Nat BY PaidType DEF PayInv, PayTypes
        <3> QED BY <3>1 DEF Paid, PaidIn
    <2>3. i \in Nat BY DEF Invoices
    <2>4. deletion' \in [at : {"idle", "reading", "locked"}, id : Nat, paid : Nat] /\ deletion'.at = "reading"
          /\ UNCHANGED <<live, payment, paidBy, late>>
          BY <2>1, <2>2, <2>3 DEF StartDelete
    <2> QED BY <2>4 DEF PayInv, PayTypes, PlanInv, LockInv, FreshInv
<1>2. CASE LockAndDecide
    <2> DEFINE ok == Deletable(deletion.id, deletion.paid)
               st == IF ok THEN "locked" ELSE "idle"
               d == [deletion EXCEPT !.at = st]
    <2>0. st \in {"locked", "idle"} /\ (st = "locked" => ok) OBVIOUS
    <2> HIDE DEF ok, st
    <2>1. /\ deletion' = d /\ deletion.id \notin Locked /\ UNCHANGED <<live, payment, paidBy>>
          /\ late' = (late \/ deletion.paid # Paid(deletion.id))
          BY <1>2 DEF LockAndDecide, ok, st
    <2>2. d \in [at : {"idle", "reading", "locked"}, id : Nat, paid : Nat] /\ d.at = st
          /\ d.id = deletion.id
          BY <1>0, <2>0
    <2> HIDE DEF d
    <2>3. PayTypes' BY <2>1, <2>2 DEF PayInv, PayTypes
    <2>4. \A o \in Payers : PlanInv(o)' BY <2>1 DEF PayInv, PlanInv
    <2>5. LockInv' BY <2>1, <2>2, LockedRows DEF PayInv, LockInv
    <2>6. ASSUME ~late' PROVE FreshInv'
        <3>1. ~late /\ deletion.paid = Paid(deletion.id) BY <2>1, <2>6, Zenon
        <3>2. FreshInv BY <3>1 DEF PayInv
        <3>3. deletion'.at = "locked" => deletion'.id \in live /\ PaidIn(paidBy, deletion'.id) = 0
              BY <2>0, <2>1, <2>2, <3>1 DEF ok, Deletable, Paid, PaidIn
        <3> QED BY <2>1, <3>2, <3>3 DEF FreshInv
    <2> QED BY <2>3, <2>4, <2>5, <2>6 DEF PayInv
<1>3. CASE CommitDelete
    <2>1. /\ deletion.at = "locked" /\ live' = live \ {deletion.id} /\ UNCHANGED <<payment, paidBy, late>>
          /\ deletion' = [at |-> "idle", id |-> 0, paid |-> 0]
          BY <1>3 DEF CommitDelete
    <2>2. deletion' \in [at : {"idle", "reading", "locked"}, id : Nat, paid : Nat] /\ deletion'.at = "idle"
          BY <2>1
    <2>3. PayTypes' BY <2>1, <2>2 DEF PayInv, PayTypes
    <2>4. \A o \in Payers : PlanInv(o)' BY <2>1 DEF PayInv, PlanInv
    <2>5. LockInv' BY <2>1, <2>2 DEF PayInv, LockInv
    <2>6. ASSUME ~late' PROVE FreshInv'
        <3>1. FreshInv BY <2>1, <2>6 DEF PayInv
        <3>2. \A i \in Invoices : PaidIn(paidBy, i) <= IF i \in live' THEN Owes[i] ELSE 0
              BY <2>1, <3>1 DEF FreshInv
        <3>3. \A o \in Payers : payment[o].at = "locked" => DOMAIN payment[o].due \subseteq live'
              BY <2>1, <3>1 DEF FreshInv, PayInv, LockInv
        <3> QED BY <2>1, <2>2, <3>1, <3>2, <3>3 DEF FreshInv
    <2> QED BY <2>3, <2>4, <2>5, <2>6 DEF PayInv
<1> QED BY <1>1, <1>2, <1>3

\* A payment is spent once, no invoice is paid more than it owes, and a deleted
\* one not at all while snapshots are new, for any invoices, amounts and number
\* of payments (InsertPayment, Delete).
THEOREM PaymentsFit == PaySpec => []PaidWithin
<1>1. PayInit => PayInv
    <2> SUFFICES ASSUME PayInit PROVE PayInv OBVIOUS
    <2>1. /\ live = Invoices /\ payment = [p \in Payers |-> NotAsked] /\ paidBy = [p \in Payers |-> Nil]
          /\ deletion = [at |-> "idle", id |-> 0, paid |-> 0]
          BY DEF PayInit
    <2>2. PayTypes BY <2>1, NilTotal, NotAskedType DEF PayTypes
    <2>3. \A p \in Payers : PlanInv(p) BY <2>1, NilTotal, NotAskedType DEF PlanInv
    <2>4. LockInv BY <2>1, NotAskedType DEF LockInv
    <2>5. \A i \in Invoices : PaidIn(paidBy, i) = 0 /\ Owes[i] \in Nat
        <3> TAKE i \in Invoices
        <3> DEFINE f == [p \in Payers |-> paidBy[p][i]]
        <3>1. \A p \in Payers : f[p] = 0 BY <2>1 DEF Nil
        <3> HIDE DEF f
        <3> QED BY <3>1, TotalZero, PaymentConstants DEF PaidIn, f
    <2>6. FreshInv BY <2>1, <2>5, NotAskedType DEF FreshInv
    <2> QED BY <2>2, <2>3, <2>4, <2>6 DEF PayInv
<1>2. PayInv /\ [PayNext]_payVars => PayInv'
    <2> SUFFICES ASSUME PayInv, [PayNext]_payVars PROVE PayInv' OBVIOUS
    <2>1. CASE UNCHANGED payVars
        <3>1. UNCHANGED <<live, payment, deletion, paidBy, late>> BY <2>1 DEF payVars
        <3> QED BY <3>1 DEF PayInv, PayTypes, PlanInv, LockInv, FreshInv
    <2> QED BY <2>1, StartKeeps, PlanKeeps, CommitKeeps, DeleteKeeps, Zenon DEF PayNext
<1>3. PayInv => PaidWithin
    <2> SUFFICES ASSUME PayInv PROVE PaidWithin OBVIOUS
    <2>1. \A i \in Invoices : Paid(i) = PaidIn(paidBy, i) BY DEF Paid, PaidIn
    <2>2. late \/ \A i \in Invoices : Paid(i) <= IF i \in live THEN Owes[i] ELSE 0
          BY <2>1 DEF PayInv, FreshInv
    <2> QED BY <2>2 DEF PayInv, PlanInv, PaidWithin
<1> QED BY <1>1, <1>2, <1>3, PTL DEF PaySpec

=============================================================================
