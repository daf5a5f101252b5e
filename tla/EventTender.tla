---------------------------- MODULE EventTender -----------------------------
(***************************************************************************)
(* What the event planning stage promises before a booking exists: bids    *)
(* are taken while the request is open, at most one of them is awarded,    *)
(* the award closes the request and makes the one contract there is, and   *)
(* with the request every other bid ends.                                  *)
(***************************************************************************)

CONSTANTS Bids, Contracts

VARIABLES
  open,       \* the customer still takes and compares bids
  standing,   \* the bids that can still win
  signed      \* the contracts made: which, and on which bid

tenderVars == <<open, standing, signed>>

Init ==
  /\ open = TRUE
  /\ standing = {}
  /\ signed = {}

Bid ==
  /\ open
  /\ \E b \in Bids \ standing : standing' = standing \cup {b}
  /\ UNCHANGED <<open, signed>>

Reject ==
  /\ open
  /\ \E b \in standing : standing' = standing \ {b}
  /\ UNCHANGED <<open, signed>>

Award ==
  /\ open
  /\ \E b \in standing, c \in Contracts : signed' = signed \cup {<<c, b>>}
  /\ open' = FALSE
  /\ standing' = {}

Withdraw ==
  /\ open
  /\ open' = FALSE
  /\ standing' = {}
  /\ UNCHANGED signed

Next == Bid \/ Reject \/ Award \/ Withdraw

Spec == Init /\ [][Next]_tenderVars
=============================================================================
