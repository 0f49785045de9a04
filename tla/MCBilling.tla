----------------------------- MODULE MCBilling -----------------------------
(***************************************************************************)
(* Two calls of one customer, one carrier that charges for failed          *)
(* attempts, amounts 0 and 2: enough for two setups to race for one        *)
(* account, for a late trigger, and for a reservation of zero.             *)
(***************************************************************************)
EXTENDS Billing, TLC

CONSTANTS c1, c2, alice, teleco

MCCalls == {c1, c2}
MCOwner == (c1 :> alice) @@ (c2 :> alice)
MCFailFee == (teleco :> 1)
MCOpening == (alice :> 3) @@ (teleco :> 0)
Symmetry == Permutations(MCCalls)

=============================================================================
