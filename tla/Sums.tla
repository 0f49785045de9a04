------------------------------- MODULE Sums --------------------------------
(***************************************************************************)
(* Sums of amounts over a finite set, as SQL's SUM computes them.  The sum *)
(* is the number of unit coins in the amounts, which needs no recursion    *)
(* and so can be reasoned about without induction.                         *)
(***************************************************************************)
EXTENDS Integers, FiniteSets

\* One coin <<x, i>> for each unit i of each amount f[x].
Coins(f, S) == UNION {{x} \X (1..f[x]) : x \in S}

\* The sum of f over S, for amounts in Nat.
Total(f, S) == Cardinality(Coins(f, S))

=============================================================================
