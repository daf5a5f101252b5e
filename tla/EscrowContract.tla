--------------------------- MODULE EscrowContract ---------------------------
(***************************************************************************)
(* What an escrow hold promises, whoever settles it and in how many steps: *)
(* every kobo put in leaves exactly once, to the payee, back to the payer  *)
(* or to the platform, and nothing moves while the hold is frozen except   *)
(* by the decision that ends the freeze.                                   *)
(***************************************************************************)
EXTENDS Integers

CONSTANT Amount        \* what was put into the hold

VARIABLES
  owed,        \* still with the platform, for one side or the other
  frozen,      \* a dispute is being looked into
  paid,        \* left towards the payee
  refunded,    \* left towards the payer
  kept,        \* left to the platform, which has refunded from its own funds
  added        \* put in later, for a higher price

contractVars == <<owed, frozen, paid, refunded, kept, added>>

Init ==
  /\ owed = Amount
  /\ frozen = FALSE
  /\ paid = 0 /\ refunded = 0 /\ kept = 0 /\ added = 0

\* All of it, or one part of a staged release.
Pay ==
  /\ ~frozen
  /\ \E a \in 1 .. owed : paid' = paid + a /\ owed' = owed - a
  /\ UNCHANGED <<frozen, refunded, kept, added>>

\* All of it, or the part that a lower price sets free.
Refund ==
  /\ ~frozen
  /\ \E a \in 1 .. owed : refunded' = refunded + a /\ owed' = owed - a
  /\ UNCHANGED <<frozen, paid, kept, added>>

\* The price goes up while something is held.
Add ==
  /\ ~frozen
  /\ owed > 0
  /\ added' > added
  /\ owed' = owed + (added' - added)
  /\ UNCHANGED <<frozen, paid, refunded, kept>>

Freeze ==
  /\ ~frozen
  /\ owed > 0
  /\ frozen' = TRUE
  /\ UNCHANGED <<owed, paid, refunded, kept, added>>

\* The payee wins the dispute.
Award ==
  /\ frozen
  /\ frozen' = FALSE
  /\ paid' = paid + owed
  /\ owed' = 0
  /\ UNCHANGED <<refunded, kept, added>>

\* The payer wins, and has been refunded from the platform's own funds.
Close ==
  /\ frozen
  /\ frozen' = FALSE
  /\ kept' = kept + owed
  /\ owed' = 0
  /\ UNCHANGED <<paid, refunded, added>>

Next == Pay \/ Refund \/ Add \/ Freeze \/ Award \/ Close

Spec == Init /\ [][Next]_contractVars
=============================================================================
