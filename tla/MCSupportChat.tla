--------------------------- MODULE MCSupportChat ----------------------------
(***************************************************************************)
(* An instance of SupportChat for TLC: handlers and admins are model       *)
(* values that differ in nothing but their identity.                       *)
(***************************************************************************)
EXTENDS SupportChat, TLC

Symmetry == Permutations(Handlers) \cup Permutations(Admins)
=============================================================================
