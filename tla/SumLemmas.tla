----------------------------- MODULE SumLemmas -----------------------------
(***************************************************************************)
(* What Total does when one amount changes.  The proofs count coins with   *)
(* the cardinality theorems of the library.                                *)
(***************************************************************************)
EXTENDS Sums, FiniteSetTheorems, TLAPS

\* A leaf that names no prover is tried with each of these in turn.
USE SMTT(30), Z3T(30), ZenonT(30)

\* The coins of one amount number that amount.
LEMMA CoinsOfOne ==
    ASSUME NEW x, NEW n \in Nat
    PROVE  /\ IsFiniteSet({x} \X (1..n))
           /\ Cardinality({x} \X (1..n)) = n
<1>1. IsFiniteSet({x}) /\ Cardinality({x}) = 1
    BY FS_Singleton
<1>2. IsFiniteSet(1..n) /\ Cardinality(1..n) = n
    BY FS_Interval
<1>3. IsFiniteSet({x} \X (1..n))
    BY ZenonT(60), <1>1, <1>2, FS_Product
<1>4. Cardinality({x} \X (1..n)) = Cardinality({x}) * Cardinality(1..n)
    BY ZenonT(60), <1>1, <1>2, FS_Product
<1> QED
    BY <1>1, <1>2, <1>3, <1>4

\* A finite set of amounts has finitely many coins, so its total is a number.
LEMMA TotalType ==
    ASSUME NEW S, IsFiniteSet(S), NEW f, \A x \in S : f[x] \in Nat
    PROVE  IsFiniteSet(Coins(f, S)) /\ Total(f, S) \in Nat
<1> DEFINE part(x) == {x} \X (1..f[x])
           parts == {part(x) : x \in S}
<1>1. IsFiniteSet(parts)
    <2>1. DEFINE g == [x \in S |-> part(x)]
    <2>2. g \in Surjection(S, parts)
        BY ZenonT(60) DEF Surjection
    <2> QED
        BY <2>2, FS_Surjection
<1>2. ASSUME NEW x \in S PROVE IsFiniteSet(part(x))
    BY ZenonT(60), CoinsOfOne
<1>3. \A p \in parts : IsFiniteSet(p)
    BY <1>2
<1>4. IsFiniteSet(UNION parts)
    BY ZenonT(60), <1>1, <1>3, FS_UNION
<1> QED
    BY <1>4, FS_CardinalityType DEF Coins, Total

\* The total depends on the amounts in S only.
LEMMA TotalSame ==
    ASSUME NEW S, NEW f, NEW g, \A x \in S : f[x] = g[x]
    PROVE  Total(f, S) = Total(g, S)
<1>1. Coins(f, S) = Coins(g, S)
    BY DEF Coins
<1> QED
    BY <1>1 DEF Total

\* Amounts of zero add up to zero.
LEMMA TotalZero ==
    ASSUME NEW S, NEW f, \A x \in S : f[x] = 0
    PROVE  Total(f, S) = 0
<1>1. Coins(f, S) = {}
    BY DEF Coins
<1> QED
    BY <1>1, FS_EmptySet DEF Total

\* One amount set aside: the rest of the coins, and its own.
LEMMA TotalSplit ==
    ASSUME NEW S, IsFiniteSet(S), NEW f, \A x \in S : f[x] \in Nat, NEW c \in S
    PROVE  /\ Total(f, S \ {c}) \in Nat
           /\ Total(f, S) = Total(f, S \ {c}) + f[c]
<1> DEFINE rest == Coins(f, S \ {c})
           own == {c} \X (1..f[c])
<1>1. IsFiniteSet(S \ {c})
    BY ZenonT(60), FS_Difference
<1>2. IsFiniteSet(rest) /\ Cardinality(rest) \in Nat
    BY <1>1, TotalType DEF Total
<1>3. IsFiniteSet(own) /\ Cardinality(own) = f[c]
    BY ZenonT(60), CoinsOfOne
<1>4. Coins(f, S) = rest \cup own
    BY DEF Coins
<1>5. rest \cap own = {}
    BY DEF Coins
<1>6. Cardinality(rest \cap own) = 0
    BY ZenonT(60), <1>5, FS_EmptySet
<1>7. Cardinality(rest \cup own)
        = Cardinality(rest) + Cardinality(own) - Cardinality(rest \cap own)
    BY ZenonT(60), <1>2, <1>3, FS_Union
<1> QED
    BY <1>2, <1>3, <1>4, <1>6, <1>7 DEF Total

\* Changing the amount of c by so much changes the total by as much.
LEMMA TotalUpdate ==
    ASSUME NEW S, IsFiniteSet(S), NEW c \in S,
           NEW f, \A x \in S : f[x] \in Nat,
           NEW g, g[c] \in Nat, \A x \in S \ {c} : g[x] = f[x]
    PROVE  Total(g, S) = Total(f, S) - f[c] + g[c]
<1>1. Total(f, S \ {c}) \in Nat /\ Total(f, S) = Total(f, S \ {c}) + f[c]
    BY TotalSplit
<1>2. \A x \in S : g[x] \in Nat
    OBVIOUS
<1>3. Total(g, S) = Total(g, S \ {c}) + g[c]
    BY <1>2, TotalSplit
<1>4. Total(g, S \ {c}) = Total(f, S \ {c})
    BY TotalSame
<1> QED
    BY <1>1, <1>3, <1>4

\* A total is at least each of its amounts.
LEMMA TotalBound ==
    ASSUME NEW S, IsFiniteSet(S), NEW f, \A x \in S : f[x] \in Nat, NEW c \in S
    PROVE  f[c] <= Total(f, S)
<1>1. Total(f, S \ {c}) \in Nat /\ Total(f, S) = Total(f, S \ {c}) + f[c]
    BY TotalSplit
<1>2. f[c] \in Nat
    OBVIOUS
<1> QED
    BY <1>1, <1>2

=============================================================================
