---------------------------- MODULE MCEscrowRace ----------------------------
(***************************************************************************)
(* Instances of EscrowRace for TLC: transactions are model values that     *)
(* differ in nothing but their identity.                                   *)
(***************************************************************************)
EXTENDS EscrowRace, TLC

Symmetry == Permutations(Txs)
=============================================================================
