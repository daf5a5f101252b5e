------------------------------ MODULE MCBooking -----------------------------
(***************************************************************************)
(* Instances of Booking for TLC.  Amounts are chosen so that prices can go *)
(* up and down, releases can be partial and a top-up can be unaffordable;  *)
(* no symmetry, because one of the properties is about liveness.           *)
(***************************************************************************)
EXTENDS Booking
=============================================================================
