----------------------------- MODULE MCShopList -----------------------------
(***************************************************************************)
(* An instance of ShopList for TLC: handlers, items and payouts are model  *)
(* values that differ in nothing but their identity.                       *)
(***************************************************************************)
EXTENDS ShopList, TLC

\* A seller is allotted one unit, or one below zero.
AnyAmount == {-1, 1}

Symmetry == Permutations(Handlers) \cup Permutations(Items) \cup Permutations(Payouts)
=============================================================================
