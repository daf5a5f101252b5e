---------------------------- MODULE MCShopVisit -----------------------------
(***************************************************************************)
(* Instances of ShopVisit for TLC: handlers, shoppers and riders are model *)
(* values that differ in nothing but their identity.                       *)
(***************************************************************************)
EXTENDS ShopVisit, TLC

\* The states TLC tells apart: `paid` and `heard` only record what has been done. No
\* action and no property of the run reads them, so states that differ in nothing else
\* have the same future.
View == <<session, away, held, feeHeld, settled, run, stale>>

Symmetry ==
  Permutations(Handlers) \cup Permutations(Shoppers) \cup Permutations(Riders)
=============================================================================
