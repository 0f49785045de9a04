---------------------------- MODULE MCLifecycle ----------------------------
(***************************************************************************)
(* Small instances of CallLifecycle: one customer with 3 units, one        *)
(* carrier, reservations and prices of 0 or 2, one increment worth 1.      *)
(***************************************************************************)
EXTENDS CallLifecycle, TLC

CONSTANTS c1, c2, n1, n2, alice, teleco

OneCall == {c1}
TwoCalls == {c1, c2}
MCOwner == [c \in Calls |-> alice]
MCNode == [c \in Calls |-> n1]
MCFailFee == (teleco :> 0)
MCOpening == (alice :> 3) @@ (teleco :> 0)
Symmetry == Permutations(Calls)

=============================================================================
