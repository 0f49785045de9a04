---------------------------- MODULE MCAdmission ----------------------------
(***************************************************************************)
(* Two calls, and one slot where they meet: at the carrier and in the node *)
(* group, or at the customer alone.                                        *)
(***************************************************************************)
EXTENDS Admission

CONSTANTS c1, c2

MCTwo == {c1, c2}
MCSpare == [s \in Scopes |-> IF s = "customer" THEN 2 ELSE 1]
MCCustomerOnly == [s \in Scopes |-> IF s = "customer" THEN 1 ELSE 0]

=============================================================================
