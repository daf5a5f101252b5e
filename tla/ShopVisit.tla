----------------------------- MODULE ShopVisit ------------------------------
(***************************************************************************)
(* Who works on one Shop-For-Me session, and how it is handed from one to  *)
(* the other (shopSessions.controller.js): a handler per process, the read *)
(* that lets it in one step and each of its writes another.  Some writes   *)
(* repeat the condition on the status in the database (Swap), the others   *)
(* are made by id alone (Overwrite), whatever has happened since the read. *)
(*                                                                         *)
(* Besides them, a payment (orderFlow.service.js) and the decision of a    *)
(* dispute ticket (support.controller.js) write the status by id.          *)
(*                                                                         *)
(* Amounts, the shopping list and the length of the call are ShopSession's *)
(* matter; here a hold is only HELD, paid out or refunded, and a ticket    *)
(* that freezes holds or grants a refund, which leaves the status alone,   *)
(* is not modelled.  That a shopper or a rider may have another session    *)
(* open is not modelled: it can only keep matchSession and acceptDelivery  *)
(* from happening.  payCallTopUp wants a live call that has ended, which   *)
(* only a stale write can leave behind, and is not modelled.               *)
(***************************************************************************)
EXTENDS FiniteSets, Naturals

CONSTANTS
  Handlers,   \* slots for handlers in progress
  Shoppers,   \* ShopperProfile rows
  Riders,     \* RiderProfile rows
  NoOne,      \* no shopper, no rider
  Leavers,    \* bound: the parties that may return to their home screen
  MaxHolds,   \* bound: holds of one payee
  MaxStale    \* bound: stale writes after which no handler begins

ASSUME PartiesAssumption ==
  /\ NoOne \notin Shoppers \cup Riders
  /\ Shoppers \cap Riders = {}
  /\ {"customer", "system"} \cap (Shoppers \cup Riders) = {}
  /\ Leavers \subseteq {"customer", "shopper", "rider"}
  /\ IsFiniteSet(Handlers) /\ MaxHolds \in Nat

VARIABLES
  session,   \* the ShopSession row
  away,      \* the parties whose AwayAt is set
  held,      \* how many HELD escrow holds each payee has
  paid,      \* the payees a hold was released to
  feeHeld,   \* a SHOPPER hold was made, whatever has become of it
  settled,   \* how many times the session's money was settled
  heard,     \* history: the riders that joined the confirm call
  run,       \* the handlers in progress
  stale      \* history: the handlers that wrote what their read no longer allowed,
             \* or a status without having read one

vars == <<session, away, held, paid, feeHeld, settled, heard, run, stale>>

-----------------------------------------------------------------------------
(* The rows.                                                               *)

Roles == {"customer", "shopper", "rider"}
Workers == Shoppers \cup Riders
Actors == Workers \cup {"customer", "system"}

\* The schema's BUILDING_LIST is queried and never written.
Closed == {"DELIVERED", "COMPLETED", "CANCELLED"}
NotBought == {"SEARCHING", "MATCHED", "LIVE_CALL"}
PreRider == {"MATCHED", "LIVE_CALL", "PACKAGING", "FINDING_RIDER"}
PostRider == {"RIDER_ASSIGNED", "OUT_FOR_DELIVERY"}
SessionStatus == {"SEARCHING"} \cup PreRider \cup PostRider \cup Closed

\* joined and callDone are the confirmCall columns, arrived is riderArrivedCustomerAt
\* (riderArrivedShopperAt is only shown), pending is emergencyEndPendingBy.
SessionRow ==
  [status : SessionStatus, shopper : Shoppers \cup {NoOne}, rider : Riders \cup {NoOne},
   funded : BOOLEAN, pending : BOOLEAN, joined : SUBSET Roles, callDone : BOOLEAN,
   handover : BOOLEAN, arrived : BOOLEAN]

ShopperOps == {"matchSession", "startCall", "startPackaging", "findRider",
               "startConfirmCall", "confirmHandover", "requestEmergencyEnd"}
RiderOps == {"acceptDelivery", "markOutForDelivery", "riderArrivedCustomer",
             "markDelivered"}
CustomerOps == {"paySession", "confirmEmergencyEnd", "declineEmergencyEnd",
                "confirmSession", "payRiderFeeTopUp"}
PartyOps == {"joinConfirmCall", "completeConfirmCall", "leave", "return",
             "cancelSession"}
SystemOps == {"clearAllPending", "expireStaleSearching", "expireStaleLive",
              "expireAbandoned", "finalizeAutoReleased", "resolveTicket"}
Ops == ShopperOps \cup RiderOps \cup CustomerOps \cup PartyOps \cup SystemOps

\* The handlers that write by id alone the status that follows from the one they read.
Unguarded == {"matchSession", "startCall", "startPackaging", "findRider",
              "acceptDelivery", "expireStaleSearching", "expireStaleLive",
              "confirmEmergencyEnd", "payRiderFeeTopUp"}

\* A handler in progress; "status" is the one an unguarded handler read.
RunRow == [op : Ops \cup {"idle"}, by : Actors \cup {NoOne},
           step : {"none", "write", "vote", "dropAlone", "dropTogether", "ensure",
                   "hold", "release", "payout", "payees", "refund", "end"},
           status : SessionStatus \cup {"unread"}, payee : Workers \cup {NoOne}]
Idle == [op |-> "idle", by |-> NoOne, step |-> "none", status |-> "unread",
         payee |-> NoOne]

TypeOK ==
  /\ session \in SessionRow
  /\ away \subseteq Leavers
  /\ held \in [Workers -> 0 .. MaxHolds]
  /\ paid \subseteq Workers /\ feeHeld \in BOOLEAN
  /\ settled \in Nat
  /\ heard \subseteq Riders
  /\ run \in [Handlers -> RunRow]
  /\ stale \subseteq Unguarded \cup {"createHold", "resolveTicket"}

Init ==
  /\ session = [status |-> "SEARCHING", shopper |-> NoOne, rider |-> NoOne,
                funded |-> FALSE, pending |-> FALSE, joined |-> {},
                callDone |-> FALSE, handover |-> FALSE, arrived |-> FALSE]
  /\ away = {}
  /\ held = [w \in Workers |-> 0]
  /\ paid = {} /\ feeHeld = FALSE
  /\ settled = 0
  /\ heard = {}
  /\ run = [h \in Handlers |-> Idle]
  /\ stale = {}

-----------------------------------------------------------------------------
(* What the handlers ask of the row they read.                             *)

Kind(a) == IF a \in Shoppers THEN "shopper" ELSE IF a \in Riders THEN "rider" ELSE a

\* The role of an actor in the session; "none" is refused everywhere.
Role(a) ==
  IF a \in {"customer", session.shopper, session.rider} THEN Kind(a) ELSE "none"

\* relevantPresenceRoles: the shopper is not needed after the handover.
Relevant == {"customer"}
  \cup (IF session.shopper # NoOne /\ ~session.handover THEN {"shopper"} ELSE {})
  \cup (IF session.rider # NoOne THEN {"rider"} ELSE {})

\* assertAllPresent.
AllPresent == away \cap Relevant = {}

\* The status each of the stage handlers wants to find.
StageOf == [matchSession |-> "SEARCHING", startCall |-> "MATCHED",
            startPackaging |-> "LIVE_CALL", findRider |-> "PACKAGING",
            acceptDelivery |-> "FINDING_RIDER",
            startConfirmCall |-> "RIDER_ASSIGNED", markOutForDelivery |-> "RIDER_ASSIGNED",
            riderArrivedCustomer |-> "OUT_FOR_DELIVERY",
            markDelivered |-> "OUT_FOR_DELIVERY"]

\* matchSession and acceptDelivery: nobody has taken it yet.
MayTake(op, a) ==
  /\ session.status = StageOf[op]
  /\ \/ op = "matchSession" /\ a \in Shoppers /\ session.shopper = NoOne
     \/ op = "acceptDelivery" /\ a \in Riders /\ session.rider = NoOne

\* The handlers of the shopper or the rider that need everybody's presence.
MayAdvance(op, a) ==
  /\ session.status = StageOf[op]
  /\ AllPresent
  /\ Role(a) = IF op \in ShopperOps THEN "shopper" ELSE "rider"
  /\ op = "markOutForDelivery" => session.callDone
  /\ op = "markDelivered" => session.arrived

\* joinConfirmCall asks for a party only, completeConfirmCall for all who joined,
\* confirmHandover for the completed call; none of them looks at the status.
MayCall(op, a) ==
  \/ op = "joinConfirmCall" /\ Role(a) \in Roles \ session.joined
  \/ /\ op = "completeConfirmCall" /\ Role(a) # "none"
     /\ ~session.callDone /\ session.joined = Roles
  \/ op = "confirmHandover" /\ Role(a) = "shopper" /\ session.callDone /\ ~session.handover

\* requestEmergencyEnd looks at the status, the customer's answer does not.
MayEndCall(op, a) ==
  \/ /\ op = "requestEmergencyEnd" /\ Role(a) = "shopper"
     /\ session.status = "LIVE_CALL" /\ ~session.pending
  \/ /\ op \in {"confirmEmergencyEnd", "declineEmergencyEnd"} /\ a = "customer"
     /\ session.pending

\* cancelSession, paySession (any payment of the deposit, whenever it is confirmed),
\* payRiderFeeTopUp and confirmSession.
MaySettle(op, a) ==
  \/ op = "cancelSession" /\ a = "customer" /\ session.status \notin Closed
  \/ op = "cancelSession" /\ Role(a) = "shopper" /\ session.status = "MATCHED"
  \/ op = "paySession" /\ a = "customer" /\ ~session.funded
  \/ op = "payRiderFeeTopUp" /\ a = "customer" /\ session.status = "PACKAGING"
  \/ op = "confirmSession" /\ a = "customer" /\ session.status = "DELIVERED"

\* The queries of the sweeps and of the admin's clean-up; a ticket is decided whatever
\* the status of the session.
MaySweep(op) ==
  \/ op = "clearAllPending" /\ session.status \notin Closed
  \/ /\ op = "expireStaleSearching" /\ session.status = "SEARCHING"
     /\ session.shopper = NoOne
  \/ op = "expireStaleLive" /\ session.status \in PreRider \cup PostRider
  \/ /\ op = "expireAbandoned" /\ session.status \in {"MATCHED", "LIVE_CALL"}
     /\ session.shopper # NoOne
     /\ \E r \in {"customer", "shopper"} : away \cap {"customer", "shopper"} = {r}
  \/ /\ op = "finalizeAutoReleased" /\ session.status = "DELIVERED"
     /\ \A w \in Workers : held[w] = 0
  \/ op = "resolveTicket"

\* markAway: a party of a session that is still open.
MayMove(op, a) ==
  /\ session.status \notin Closed
  /\ \/ op = "leave" /\ Role(a) \in Leavers \ away
     \/ op = "return" /\ Role(a) \in away

May(op, a) ==
  \/ op \in {"matchSession", "acceptDelivery"} /\ MayTake(op, a)
  \/ op \in DOMAIN StageOf \ {"matchSession", "acceptDelivery"} /\ MayAdvance(op, a)
  \/ MayCall(op, a)
  \/ MayEndCall(op, a)
  \/ MaySettle(op, a)
  \/ a = "system" /\ MaySweep(op)
  \/ op \in {"leave", "return"} /\ MayMove(op, a)

-----------------------------------------------------------------------------
(* Steps of a handler.                                                     *)

\* Where markAway goes from the row it read: it only notes the party when the items
\* are bought, or a rider is meant, or a lone customer returns; it drops the session
\* when the customer leaves before anybody has taken it; else it notes and votes.
AwayBranch(op, a) ==
  CASE session.status \notin NotBought \/ Role(a) = "rider" -> "write"
    [] session.shopper = NoOne -> IF op = "leave" THEN "dropAlone" ELSE "write"
    [] OTHER -> "vote"

FirstStep(op, a) ==
  CASE op \in {"leave", "return"} -> AwayBranch(op, a)
    [] op \in {"expireStaleSearching", "expireStaleLive"} -> "refund"
    [] op = "confirmEmergencyEnd" -> "payout"
    [] op = "resolveTicket" -> "payees"
    [] OTHER -> "write"

Begin(h) ==
  /\ run[h] = Idle /\ Cardinality(stale) < MaxStale
  /\ \E op \in Ops, a \in Actors :
       /\ May(op, a)
       /\ run' = [run EXCEPT ![h] = [op |-> op, by |-> a, step |-> FirstStep(op, a),
                                     status |-> IF op \in Unguarded
                                                THEN session.status ELSE "unread",
                                     payee |-> NoOne]]
  /\ UNCHANGED <<session, away, held, paid, feeHeld, settled, heard, stale>>

Goes(h, step) ==
  run' = [run EXCEPT ![h] = IF step = "done" THEN Idle ELSE [@ EXCEPT !.step = step]]

At(h, op, step) == run[h].op = op /\ run[h].step = step

Money == <<held, paid, feeHeld, settled>>

\* What the handler read still lets it do what it does; an emergency end is an answer
\* to a request made in a live call.
Fresh(h) ==
  /\ session.status = run[h].status
  /\ May(run[h].op, run[h].by)
  /\ run[h].op = "confirmEmergencyEnd" => session.status = "LIVE_CALL"

\* update by id: the row is written whatever it has become.
Writes(h, row) ==
  /\ session' = row
  /\ stale' = IF run[h].op \in Unguarded /\ ~Fresh(h)
              THEN stale \cup {run[h].op} ELSE stale
  /\ UNCHANGED <<away, Money>>

Overwrite(h, op, row) ==
  /\ At(h, op, "write") /\ Writes(h, row) /\ Goes(h, "done")
  /\ UNCHANGED heard

\* updateMany with the status in its condition: a row that has left it stays as it
\* is, and the handler gives up.
Swap(h, from, to, step) ==
  /\ IF session.status \in from
     THEN session' = [session EXCEPT !.status = to] /\ Goes(h, step)
     ELSE UNCHANGED session /\ Goes(h, "done")
  /\ UNCHANGED <<away, Money, heard, stale>>

Open == SessionStatus \ Closed

-----------------------------------------------------------------------------
(* Taking the session, and the stages.                                     *)

MatchSession(h) ==
  LET row == [session EXCEPT !.status = "MATCHED", !.shopper = run[h].by] IN
  /\ At(h, "matchSession", "write") /\ Writes(h, row)
  /\ run' = [run EXCEPT ![h] = IF row.funded
               THEN [@ EXCEPT !.step = "ensure", !.payee = run[h].by] ELSE Idle]
  /\ UNCHANGED heard

\* Faulty variant: the hold is left to matchSession.
PayOnly(h) ==
  /\ At(h, "paySession", "write") /\ Writes(h, [session EXCEPT !.funded = TRUE])
  /\ Goes(h, "done")
  /\ UNCHANGED heard

\* confirmShopSessionPayment.
PaySession(h) ==
  /\ At(h, "paySession", "write") /\ Writes(h, [session EXCEPT !.funded = TRUE])
  /\ run' = [run EXCEPT ![h] = IF session.shopper # NoOne
               THEN [@ EXCEPT !.step = "ensure", !.payee = session.shopper] ELSE Idle]
  /\ UNCHANGED heard

StartCall(h) == Overwrite(h, "startCall", [session EXCEPT !.status = "LIVE_CALL"])

StartPackaging(h) ==
  Overwrite(h, "startPackaging", [session EXCEPT !.status = "PACKAGING"])

FindRider(h) == Overwrite(h, "findRider", [session EXCEPT !.status = "FINDING_RIDER"])

\* confirmRiderFeeTopUp, when the payment that was begun while the goods were packed is
\* reported, and again when it is reported again.
PayRiderFeeTopUp(h) ==
  /\ At(h, "payRiderFeeTopUp", "write")
  /\ Writes(h, [session EXCEPT !.status = "FINDING_RIDER"])
  /\ Goes(h, "done") \/ UNCHANGED run
  /\ UNCHANGED heard

AcceptDelivery(h) ==
  /\ At(h, "acceptDelivery", "write")
  /\ Writes(h, [session EXCEPT !.status = "RIDER_ASSIGNED", !.rider = run[h].by])
  /\ run' = [run EXCEPT ![h].step = "hold", ![h].payee = run[h].by]
  /\ UNCHANGED heard

RiderArrivedCustomer(h) ==
  Overwrite(h, "riderArrivedCustomer", [session EXCEPT !.arrived = TRUE])

MarkOutForDelivery(h) ==
  /\ At(h, "markOutForDelivery", "write")
  /\ Swap(h, {"RIDER_ASSIGNED"}, "OUT_FOR_DELIVERY", "done")

\* Faulty variant: the status is not repeated in the condition.
MarkDeliveredById(h) ==
  /\ At(h, "markDelivered", "write")
  /\ Swap(h, SessionStatus, "DELIVERED", "done")

MarkDelivered(h) ==
  /\ At(h, "markDelivered", "write")
  /\ Swap(h, {"OUT_FOR_DELIVERY"}, "DELIVERED", "done")

-----------------------------------------------------------------------------
(* The confirm call and the handover.                                      *)

StartConfirmCall(h) == Overwrite(h, "startConfirmCall", [session EXCEPT !.joined = {}])

JoinConfirmCall(h) ==
  /\ At(h, "joinConfirmCall", "write")
  /\ Writes(h, [session EXCEPT !.joined = @ \cup {Kind(run[h].by)}])
  /\ Goes(h, "done")
  /\ heard' = heard \cup ({run[h].by} \cap Riders)

CompleteConfirmCall(h) ==
  Overwrite(h, "completeConfirmCall", [session EXCEPT !.callDone = TRUE])

ConfirmHandover(h) ==
  Overwrite(h, "confirmHandover", [session EXCEPT !.handover = TRUE])

-----------------------------------------------------------------------------
(* The escrow holds.                                                       *)

\* ensureShopperFeeHold: a hold of any status will do.
Ensure(h) ==
  /\ run[h].step = "ensure"
  /\ Goes(h, IF feeHeld THEN "done" ELSE "hold")
  /\ UNCHANGED <<session, away, Money, heard, stale>>

\* createHold, for the fee of the shopper or the rider.  It is stale when the session
\* is over, another hold was made in the meantime, or its payee is no longer on it.
CreateHold(h) ==
  LET w == run[h].payee IN
  /\ run[h].step = "hold" /\ held[w] < MaxHolds
  /\ held' = [held EXCEPT ![w] = @ + 1]
  /\ stale' = IF /\ session.status \in Open /\ settled = 0
                 /\ w \in {session.shopper, session.rider}
                 /\ w \in Shoppers => ~feeHeld
              THEN stale ELSE stale \cup {"createHold"}
  /\ feeHeld' = (feeHeld \/ w \in Shoppers)
  /\ Goes(h, "done")
  /\ UNCHANGED <<session, away, paid, settled, heard>>

Holding == {w \in Workers : held[w] > 0}

\* confirmSession: releaseAllHoldsForContext and refundUnspentBudget;
\* finalizeAutoReleased, which asked for sessions without a hold: the latter.
ReleaseAll(h) ==
  /\ run[h].step = "release"
  /\ IF run[h].op = "confirmSession"
     THEN paid' = paid \cup Holding /\ held' = [w \in Workers |-> 0]
     ELSE UNCHANGED <<held, paid>>
  /\ settled' = settled + 1
  /\ Goes(h, "done")
  /\ UNCHANGED <<session, away, feeHeld, heard, stale>>

\* cancelViaAwayVote pays the shopper for the time spent, and so does the emergency
\* end when it is laid at the customer's door.
Payout(h) ==
  /\ run[h].step = "payout"
  /\ \/ \E w \in Holding \cap Shoppers :
          held' = [held EXCEPT ![w] = @ - 1] /\ paid' = paid \cup {w}
     \/ /\ Holding \cap Shoppers = {} \/ run[h].op = "confirmEmergencyEnd"
        /\ UNCHANGED <<held, paid>>
  /\ Goes(h, "refund")
  /\ UNCHANGED <<session, away, feeHeld, settled, heard, stale>>

\* refundRemainingDeposit.  The sweeps of stale sessions and the emergency end come
\* to it first and cancel the session afterwards.
Refund(h) ==
  /\ run[h].step = "refund"
  /\ held' = [w \in Workers |-> 0]
  /\ settled' = settled + 1
  /\ Goes(h, IF run[h].op \in {"expireStaleSearching", "expireStaleLive",
                               "confirmEmergencyEnd"} THEN "end" ELSE "done")
  /\ UNCHANGED <<session, away, paid, feeHeld, heard, stale>>

\* runAutoReleaseSweep, a day after the hold was made.
AutoRelease(w) ==
  /\ held[w] > 0
  /\ held' = [held EXCEPT ![w] = @ - 1]
  /\ paid' = paid \cup {w}
  /\ UNCHANGED <<session, away, feeHeld, settled, heard, run, stale>>

-----------------------------------------------------------------------------
(* Ending the session.                                                     *)

\* Faulty variant: the status is not repeated in the condition.
CancelSessionById(h) ==
  /\ run[h].op \in {"cancelSession", "clearAllPending"} /\ run[h].step = "write"
  /\ Swap(h, SessionStatus, "CANCELLED", "refund")

\* cancelSession and clearAllPendingSessions.
CancelSession(h) ==
  /\ run[h].op \in {"cancelSession", "clearAllPending"} /\ run[h].step = "write"
  /\ Swap(h, Open, "CANCELLED", "refund")

ConfirmSession(h) ==
  /\ At(h, "confirmSession", "write")
  /\ Swap(h, {"DELIVERED"}, "COMPLETED", "release")

\* finalizeAutoReleasedSessions: no hold is left, the budget is settled.
FinalizeAutoReleased(h) ==
  /\ At(h, "finalizeAutoReleased", "write")
  /\ Swap(h, {"DELIVERED"}, "COMPLETED", "release")

\* expireAbandonedPreItemsSessions.
ExpireAbandoned(h) ==
  /\ At(h, "expireAbandoned", "write")
  /\ Swap(h, Open, "CANCELLED", "payout")

\* expireStaleSearchingSessions, expireStaleLiveSessions and confirmEmergencyEnd,
\* after the refund.
EndRefunded(h) ==
  /\ run[h].step = "end"
  /\ Writes(h, [session EXCEPT !.status = "CANCELLED",
                  !.pending = IF run[h].op = "confirmEmergencyEnd" THEN FALSE ELSE @])
  /\ Goes(h, "done")
  /\ UNCHANGED heard

\* updateTicketStatus to RESOLVED without a refund: every hold is released, and then
\* the session is completed, whatever its status.
ResolveHolds(h) ==
  /\ run[h].step = "payees"
  /\ paid' = paid \cup Holding /\ held' = [w \in Workers |-> 0]
  /\ Goes(h, "write")
  /\ UNCHANGED <<session, away, feeHeld, settled, heard, stale>>

ResolveTicket(h) ==
  /\ At(h, "resolveTicket", "write")
  /\ session' = [session EXCEPT !.status = "COMPLETED"]
  /\ stale' = IF session.status \in {"DELIVERED", "COMPLETED"}
              THEN stale ELSE stale \cup {"resolveTicket"}
  /\ Goes(h, "done")
  /\ UNCHANGED <<away, Money, heard>>

RequestEmergencyEnd(h) ==
  Overwrite(h, "requestEmergencyEnd", [session EXCEPT !.pending = TRUE])

DeclineEmergencyEnd(h) ==
  Overwrite(h, "declineEmergencyEnd", [session EXCEPT !.pending = FALSE])

-----------------------------------------------------------------------------
(* Leaving and coming back (markAway).                                     *)

Moved(h) ==
  IF run[h].op = "leave" THEN away \cup {Kind(run[h].by)} ELSE away \ {Kind(run[h].by)}

\* Faulty variant: the vote is taken on the row as it was before the update.
NoteAwayAfterVote(h) ==
  /\ run[h].op \in {"leave", "return"} /\ run[h].step \in {"write", "vote"}
  /\ away' = Moved(h)
  /\ Goes(h, IF /\ run[h].step = "vote" /\ run[h].op = "leave"
                /\ {"customer", "shopper"} \subseteq away
             THEN "dropTogether" ELSE "done")
  /\ UNCHANGED <<session, Money, heard, stale>>

\* The party is noted; a party that leaves a session whose items are not bought yet
\* looks at the row it has just written, and if the other one is gone too, drops it.
NoteAway(h) ==
  /\ run[h].op \in {"leave", "return"} /\ run[h].step \in {"write", "vote"}
  /\ away' = Moved(h)
  /\ Goes(h, IF /\ run[h].step = "vote" /\ run[h].op = "leave"
                /\ {"customer", "shopper"} \subseteq away'
             THEN "dropTogether" ELSE "done")
  /\ UNCHANGED <<session, Money, heard, stale>>

DropTogether(h) ==
  /\ run[h].step = "dropTogether"
  /\ Swap(h, Open, "CANCELLED", "payout")

\* The customer leaves before anybody has taken the session.
DropAlone(h) ==
  /\ run[h].step = "dropAlone"
  /\ IF session.status \in Open
     THEN session' = [session EXCEPT !.status = "CANCELLED"] /\ Goes(h, "refund")
          /\ UNCHANGED away
     ELSE UNCHANGED session /\ Goes(h, "done") /\ away' = Moved(h)
  /\ UNCHANGED <<Money, heard, stale>>

-----------------------------------------------------------------------------
StageStep(h) ==
  \/ MatchSession(h) \/ PaySession(h) \/ StartCall(h) \/ StartPackaging(h)
  \/ FindRider(h) \/ PayRiderFeeTopUp(h) \/ AcceptDelivery(h)
  \/ RiderArrivedCustomer(h) \/ MarkOutForDelivery(h) \/ MarkDelivered(h)
  \/ StartConfirmCall(h) \/ JoinConfirmCall(h) \/ CompleteConfirmCall(h)
  \/ ConfirmHandover(h)

EndStep(h) ==
  \/ CancelSession(h) \/ ConfirmSession(h) \/ FinalizeAutoReleased(h)
  \/ ExpireAbandoned(h) \/ EndRefunded(h) \/ ResolveTicket(h) \/ RequestEmergencyEnd(h)
  \/ DeclineEmergencyEnd(h) \/ NoteAway(h) \/ DropTogether(h) \/ DropAlone(h)

MoneyStep(h) ==
  Ensure(h) \/ CreateHold(h) \/ ReleaseAll(h) \/ ResolveHolds(h) \/ Payout(h)
    \/ Refund(h)

Next ==
  \/ \E h \in Handlers : Begin(h) \/ StageStep(h) \/ EndStep(h) \/ MoneyStep(h)
  \/ \E w \in Workers : AutoRelease(w)

Spec == Init /\ [][Next]_vars

-----------------------------------------------------------------------------
(* Properties.                                                             *)

Journey == INSTANCE ShopJourney WITH
  stage <- session.status, shopper <- session.shopper, rider <- session.rider

Quiet == \A h \in Handlers : run[h] = Idle

\* Handlers may overlap as they like: every write is a step of the journey, among them
\* the writes of votes, cancellations, sweeps and completions that race with each other,
\* until one of the unguarded ones writes what its read no longer allows (a rider fee
\* that is paid late or reported twice is one), or a ticket is resolved that completes a
\* session which has not been delivered.
JourneyUnlessStale ==
  /\ Journey!Init
  /\ [][stale' \cap (Unguarded \cup {"resolveTicket"}) # {} \/ Journey!Next]_(
         Journey!journeyVars)

\* The money of a session is settled once, however its ends overlap: a cancellation, a
\* vote, the three sweeps, the admin, the completions, the resolution of a ticket.  Only
\* a sweep or an emergency end that refunds first and finds the session changed
\* afterwards, or a stage written over the end of the session, opens it a second time.
SettledOnce == Quiet /\ stale \cap Unguarded = {} => settled <= 1

\* Nobody is paid, or has money put aside, for a session that somebody else works on,
\* unless two have taken it on the same read.
HeldForTheParty ==
  stale \cap {"matchSession", "acceptDelivery"} = {} =>
    \A w \in Workers :
      held[w] > 0 \/ w \in paid => w \in {session.shopper, session.rider}

\* A cancelled session leaves no hold behind that the sweep of escrow would pay out a
\* day later, unless a hold was made for it after its money was settled.
EndedHoldsNothing ==
  Quiet /\ session.status = "CANCELLED" /\ "createHold" \notin stale => Holding = {}

\* The goods travel with a rider that the customer and the shopper have heard on the
\* confirm call, although the joins are cleared by every new call and the completed
\* call is not.  A rider that takes the session over from another inherits the call, and
\* a ticket completes a session without any rider.
GoodsFollowTheCall ==
  /\ stale \cap {"acceptDelivery", "resolveTicket"} = {}
  /\ session.status \in {"OUT_FOR_DELIVERY", "DELIVERED", "COMPLETED"}
  => session.rider \in heard

\* Two parties that leave at the same moment both see each other gone, or one does:
\* no session waits for ever for a shopper and a customer who have both left, unless
\* its stage was written over the end of it.
BothAwayEnds ==
  /\ Quiet /\ stale \cap {"matchSession", "startCall"} = {}
  /\ session.status \in {"MATCHED", "LIVE_CALL"}
  => ~({"customer", "shopper"} \subseteq away)

\* Payment and matching may come in either order, or overlap: whichever is second
\* makes the shopper's hold, and an open session that was paid for and taken has it.
FeeIsHeld ==
  Quiet /\ session.funded /\ session.shopper # NoOne /\ session.status \in Open =>
    feeHeld
=============================================================================
