------------------------- MODULE MCWalletWithdrawals ------------------------
(***************************************************************************)
(* Instances of WalletWithdrawals for TLC: withdrawals and deliveries are  *)
(* model values; no symmetry, because one property is about liveness.      *)
(***************************************************************************)
EXTENDS WalletWithdrawals
=============================================================================
