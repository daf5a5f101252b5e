-------------------------- MODULE MCEventRequests ---------------------------
(***************************************************************************)
(* Instances of EventRequests for TLC: handlers, planners, proposals and   *)
(* bookings are model values that differ in nothing but their identity.    *)
(***************************************************************************)
EXTENDS EventRequests, TLC

Symmetry ==
  Permutations(Handlers) \cup Permutations(Planners)
    \cup Permutations(Proposals) \cup Permutations(Bookings)
=============================================================================
