-------------------------- MODULE MCBookingPayment --------------------------
(***************************************************************************)
(* Instances of BookingPayment for TLC: runs and charges are model values; *)
(* no symmetry, because one of the properties is about liveness.           *)
(***************************************************************************)
EXTENDS BookingPayment
=============================================================================
