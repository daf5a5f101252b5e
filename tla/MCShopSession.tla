---------------------------- MODULE MCShopSession ---------------------------
(***************************************************************************)
(* Instances of ShopSession for TLC.  The unit is 100 naira: a call fee of *)
(* 30 that can come to 50, a rider fee of 40 that the estimate raises to   *)
(* 50; the customer can pay the deposit and one thing more.                *)
(***************************************************************************)
EXTENDS ShopSession
=============================================================================
