---------------------------- MODULE ShopJourney -----------------------------
(***************************************************************************)
(* What a Shop-For-Me session promises its three parties: it goes through  *)
(* its stages one after the other, one shopper and one rider take it and   *)
(* keep it, and what has been delivered can only be completed.             *)
(***************************************************************************)

CONSTANTS Shoppers, Riders, NoOne

VARIABLES stage, shopper, rider

journeyVars == <<stage, shopper, rider>>

\* The stages that follow each other with the parties the session has.
Onward == [MATCHED |-> "LIVE_CALL", LIVE_CALL |-> "PACKAGING",
           PACKAGING |-> "FINDING_RIDER", RIDER_ASSIGNED |-> "OUT_FOR_DELIVERY",
           OUT_FOR_DELIVERY |-> "DELIVERED", DELIVERED |-> "COMPLETED"]

Init == stage = "SEARCHING" /\ shopper = NoOne /\ rider = NoOne

Match ==
  /\ stage = "SEARCHING" /\ shopper = NoOne
  /\ stage' = "MATCHED"
  /\ shopper' \in Shoppers
  /\ UNCHANGED rider

Assign ==
  /\ stage = "FINDING_RIDER" /\ rider = NoOne
  /\ stage' = "RIDER_ASSIGNED"
  /\ rider' \in Riders
  /\ UNCHANGED shopper

Advance ==
  /\ stage \in DOMAIN Onward
  /\ stage' = Onward[stage]
  /\ UNCHANGED <<shopper, rider>>

Cancel ==
  /\ stage \notin {"DELIVERED", "COMPLETED", "CANCELLED"}
  /\ stage' = "CANCELLED"
  /\ UNCHANGED <<shopper, rider>>

Next == Match \/ Assign \/ Advance \/ Cancel

Spec == Init /\ [][Next]_journeyVars
=============================================================================
