-------------------------- MODULE MCWalletDeposits --------------------------
(***************************************************************************)
(* Instances of WalletDeposits for TLC: runs, charges, requests and orders *)
(* are model values; a card pays for the longer plan, so that a boost can  *)
(* shorten another.                                                        *)
(***************************************************************************)
EXTENDS WalletDeposits

MCPlanOf == [ref \in Charges \cup Requests \cup Orders |-> IF ref \in Charges THEN 2 ELSE 1]
=============================================================================
