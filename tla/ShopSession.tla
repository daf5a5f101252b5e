---------------------------- MODULE ShopSession ----------------------------
(***************************************************************************)
(* One Shop-For-Me session and all the money that passes through it: the   *)
(* handlers of shopSessions.controller.js, the payment confirmations of    *)
(* orderFlow.service.js, the sweeps of live.js and the ticket decisions of *)
(* support.controller.js that move its escrow holds.                       *)
(*                                                                         *)
(* A handler is one action.  The shopping list is kept as the total of the *)
(* approved items and whether one of them has a new price since it was     *)
(* added up; whether any item still waits for approval is left open, like  *)
(* the length of the call, kept as the fee it comes to, and the calls and  *)
(* codes of the handover: this module allows whatever they allow.          *)
(***************************************************************************)
EXTENDS EscrowOps, FiniteSets

CONSTANTS
  MinFee,        \* MIN_SESSION_FEE_KOBO
  CallFees,      \* the fees a call can come to (sessionFeeForDuration)
  RiderFees,     \* the predicted rider fees a session can be created with
  RiderEstimate, \* distanceFee.estimateRiderFeeKobo for the two addresses
  Budgets,       \* the items budgets a customer can set
  TopUps,        \* the items top-ups
  ItemTotals,    \* what the approved items can come to
  Slices,        \* the amounts of a payout to a seller
  Negatives,     \* what an allotment to a seller can be below zero
  Outcomes,      \* what can become of a payout: it was made in cash
                 \* (ESCROW_DIRECT), its transfer is under way, or went out and
                 \* the answer was lost
  Charges,       \* identities of card / bank-transfer payments
  Leavers,       \* the parties that may return to their home screen
  Disputes,      \* whether a party has filed a dispute ticket
  MaxPaid,       \* bound: what the customer can pay into the session
  MaxSent        \* bound: what the sellers can be sent

ASSUME SessionAmountsAssumption ==
  /\ MinFee \in Nat \ {0}
  /\ CallFees \subseteq {f \in Nat : f >= MinFee}
  /\ RiderFees \subseteq Nat \ {0}
  /\ RiderEstimate \in Nat
  /\ Budgets \subseteq Nat
  /\ TopUps \subseteq Nat \ {0}
  /\ ItemTotals \subseteq Nat
  /\ Slices \subseteq Nat \ {0} /\ Negatives \subseteq Nat \ {0}
  /\ Outcomes \subseteq {"cash", "transfer", "lost"}
  /\ MaxPaid \in Nat /\ MaxSent \in Nat
ASSUME LeaversAssumption ==
  Leavers \subseteq {"customer", "shopper", "rider"} /\ Disputes \in BOOLEAN

VARIABLES
  session, \* the ShopSession row
  hold,    \* its EscrowHold rows, at most one of each purpose
  away,    \* the parties whose AwayAt is set
  payout,  \* its SellerPayout rows, summed by status
  charge,  \* payments made outside the wallet, by identity
  ledger,  \* bookkeeping of where money came from and went
  mishap   \* history: which of the unbalanced money moves happened

vars == <<session, hold, away, payout, charge, ledger, mishap>>

-----------------------------------------------------------------------------
(* The rows. *)

Before == {"MATCHED", "LIVE_CALL"}
Bought == {"PACKAGING", "FINDING_RIDER", "RIDER_ASSIGNED", "OUT_FOR_DELIVERY"}
Ended == {"COMPLETED", "CANCELLED"}
SessionStatus == {"SEARCHING", "DELIVERED"} \cup Before \cup Bought \cup Ended

\* "fee" is the shopper's hold of ensureShopperFeeHold, "shortfall" the second one
\* of confirmShopSessionShortfall, "offset" the third one of refundUnspentBudget.
Slots == {"fee", "shortfall", "offset", "rider"}
RoleOf(s) == IF s = "rider" THEN "RIDER" ELSE "SHOPPER"

Purposes == {"SESSION", "RIDER_TOPUP", "SHORTFALL"}
Mishaps == {"unfunded match", "late money", "applied twice", "emergency end",
            "commission counted", "shortfall", "stale shortfall", "ticket",
            "repriced", "negative", "lost"}

\* deposit is depositKobo, fee and riderFee are sessionFeeKobo and riderFeeKobo,
\* items is itemsTotalKobo; repriced: an approved item has got a new price since.
SessionRow ==
  [status : SessionStatus, shopper : BOOLEAN, rider : BOOLEAN,
   deposit : Nat, fee : Nat, riderFee : Nat, feeCollected : Nat,
   riderCollected : Nat, items : Nat, repriced : BOOLEAN,
   emergency : {"NONE", "CUSTOMER", "SHOPPER"}]
HoldRow == [status : HoldStatus \cup {"NONE"}, amount : Nat]
ChargeRow == [status : {"NONE", "INITIATED", "APPLIED", "TWICE"},
              purpose : Purposes, amount : Nat]

TypeOK ==
  /\ session \in SessionRow
  /\ hold \in [Slots -> HoldRow]
  /\ away \subseteq Leavers
  /\ payout \in [processing : Nat, paid : Int]
  /\ charge \in [Charges -> ChargeRow]
  /\ ledger \in [paidIn : Nat, credited : Nat, closed : Nat, sellers : Nat]
  /\ mishap \subseteq Mishaps

-----------------------------------------------------------------------------
(* Escrow: what the holds h add up to, and what an escrow call makes of them. *)

Over(f) == f["fee"] + f["shortfall"] + f["offset"] + f["rider"]

Having(h, statuses) ==
  Over([s \in Slots |-> IF h[s].status \in statuses THEN h[s].amount ELSE 0])

\* The PLATFORM rows: creditPayeeWithCommission leaves one for each release.
PlatformRows(h) ==
  Over([s \in Slots |-> IF h[s].status = "RELEASED"
                        THEN Commission(RoleOf(s), h[s].amount) ELSE 0])

AllRows(h) == Having(h, HoldStatus) + PlatformRows(h)

\* Every hold of S that is in one of the statuses from goes to the status to.
Moved(h, S, from, to) ==
  [s \in Slots |-> IF s \in S /\ h[s].status \in from
                   THEN [h[s] EXCEPT !.status = to] ELSE h[s]]

ReleasedAll(h) == Moved(h, Slots, {"HELD"}, "RELEASED")
RefundedAll(h) == Moved(h, Slots, {"HELD"}, "REFUNDED")

Created(h, s, amount) == [h EXCEPT ![s] = [status |-> "HELD", amount |-> amount]]

ShopperHolds(h) == {s \in Slots \ {"rider"} : h[s].status # "NONE"}

\* ensureShopperFeeHold for the session row r.
WithFeeHold(h, r) ==
  IF r.shopper /\ r.deposit >= r.fee /\ ShopperHolds(h) = {}
  THEN Created(h, "fee", r.fee) ELSE h

SellersPaid == payout.processing + payout.paid

Positive(n) == IF n > 0 THEN n ELSE 0
Lesser(a, b) == IF a < b THEN a ELSE b

FeeShortfall(r) == Positive(r.fee - r.feeCollected)
RiderShortfall(r) == Positive(r.riderFee - r.riderCollected)
Shortfall(r) == FeeShortfall(r) + RiderShortfall(r)

\* The mishaps a step adds: each pair is a name and whether it happened.
Noting(condition, what) == IF condition THEN {what} ELSE {}

LateMoney == Noting(session.status \in Ended, "late money")

-----------------------------------------------------------------------------
(* Paying into the session. *)

Payable(amount) == ledger.paidIn + amount <= MaxPaid

PaidIn(amount) == [ledger EXCEPT !.paidIn = @ + amount]

\* confirmShopSessionPayment, whatever the status of the session.
ConfirmShopSessionPayment(amount) ==
  LET r == [session EXCEPT !.deposit = @ + amount]
  IN session' = r /\ hold' = WithFeeHold(hold, r)

\* confirmRiderFeeTopUp, whatever the status of the session.
ConfirmRiderFeeTopUp(amount) ==
  /\ session' = [session EXCEPT !.riderFee = @ + amount, !.deposit = @ + amount,
                                !.status = "FINDING_RIDER"]
  /\ UNCHANGED hold

\* Faulty variant: no second hold for the shopper.
ShortfallWithoutHold ==
  /\ session' = [session EXCEPT
                   !.deposit = @ + Shortfall(session),
                   !.feeCollected = @ + FeeShortfall(session),
                   !.riderCollected = @ + RiderShortfall(session)]
  /\ UNCHANGED hold

\* confirmShopSessionShortfall: what is due now, whatever was charged.
ConfirmShopSessionShortfall ==
  /\ session' = [session EXCEPT
                   !.deposit = @ + Shortfall(session),
                   !.feeCollected = @ + FeeShortfall(session),
                   !.riderCollected = @ + RiderShortfall(session)]
  /\ hold' = IF FeeShortfall(session) > 0 /\ session.shopper
             THEN Created(hold, "shortfall", FeeShortfall(session)) ELSE hold

\* The price of the deposit: both fees and the budget the customer sets.
DepositPrice(budget) == session.fee + session.riderFee + budget

RiderTopUpDue == session.status = "PACKAGING" /\ RiderEstimate > session.riderFee
RiderTopUp == RiderEstimate - session.riderFee

\* paySession with the wallet; it looks neither at the status nor at the deposit.
PaySession(budget) ==
  /\ Payable(DepositPrice(budget))
  /\ ConfirmShopSessionPayment(DepositPrice(budget))
  /\ ledger' = PaidIn(DepositPrice(budget))
  /\ mishap' = mishap \cup LateMoney
  /\ UNCHANGED <<away, payout, charge>>

\* topUpItems with the wallet (confirmItemsTopUp).
TopUpItems(amount) ==
  /\ Payable(amount)
  /\ session' = [session EXCEPT !.deposit = @ + amount]
  /\ ledger' = PaidIn(amount)
  /\ mishap' = mishap \cup LateMoney
  /\ UNCHANGED <<hold, away, payout, charge>>

PayRiderFeeTopUp ==
  /\ RiderTopUpDue
  /\ Payable(RiderTopUp)
  /\ ConfirmRiderFeeTopUp(RiderTopUp)
  /\ ledger' = PaidIn(RiderTopUp)
  /\ UNCHANGED <<away, payout, charge, mishap>>

PayShopSessionShortfall ==
  /\ Shortfall(session) > 0
  /\ Payable(Shortfall(session))
  /\ ConfirmShopSessionShortfall
  /\ ledger' = PaidIn(Shortfall(session))
  /\ mishap' = mishap \cup LateMoney
  /\ UNCHANGED <<away, payout, charge>>

\* The same four by card or bank transfer: only a reference is made.
Chargeable(purpose, amount) ==
  \/ purpose = "SESSION" /\ amount \in TopUps \cup {DepositPrice(b) : b \in Budgets}
  \/ purpose = "RIDER_TOPUP" /\ RiderTopUpDue /\ amount = RiderTopUp
  \/ purpose = "SHORTFALL" /\ Shortfall(session) > 0 /\ amount = Shortfall(session)

InitializeCharge(c, purpose, amount) ==
  /\ charge[c].status = "NONE"
  /\ Chargeable(purpose, amount)
  /\ Payable(amount)
  /\ charge' = [charge EXCEPT ![c] = [status |-> "INITIATED", purpose |-> purpose,
                                      amount |-> amount]]
  /\ UNCHANGED <<session, hold, away, payout, ledger, mishap>>

\* applyVerifiedPayment and confirmManualPaymentRequest route a payment by purpose.
Apply(c) ==
  \/ charge[c].purpose = "SESSION" /\ ConfirmShopSessionPayment(charge[c].amount)
  \/ charge[c].purpose = "RIDER_TOPUP" /\ ConfirmRiderFeeTopUp(charge[c].amount)
  \/ charge[c].purpose = "SHORTFALL" /\ ConfirmShopSessionShortfall

\* The customer has paid, at any time later, and the platform learns of it.
ChargeConfirmed(c) ==
  /\ charge[c].status = "INITIATED"
  /\ Payable(charge[c].amount)
  /\ Apply(c)
  /\ charge' = [charge EXCEPT ![c].status = "APPLIED"]
  /\ ledger' = PaidIn(charge[c].amount)
  /\ mishap' = mishap \cup LateMoney
                 \cup Noting(/\ charge[c].purpose = "SHORTFALL"
                             /\ charge[c].amount # Shortfall(session),
                             "stale shortfall")
  /\ UNCHANGED <<away, payout>>

\* verifyPayment and the webhook both report the same payment.
ChargeConfirmedAgain(c) ==
  /\ charge[c].status = "APPLIED"
  /\ Apply(c)
  /\ charge' = [charge EXCEPT ![c].status = "TWICE"]
  /\ mishap' = mishap \cup LateMoney \cup {"applied twice"}
  /\ UNCHANGED <<away, payout, ledger>>

-----------------------------------------------------------------------------
(* What the ends of a session pay back. *)

\* Faulty variant: does not see what the sellers have been paid.
RefundForgetsPayouts(h) ==
  LET kept == AllRows(h) IN
  /\ hold' = RefundedAll(h)
  /\ ledger' = [ledger EXCEPT !.credited = @ + Positive(session.deposit - kept)]
  /\ mishap' = mishap \cup Noting(PlatformRows(h) > 0, "commission counted")

\* Faulty variant: the remainder can be negative.
RefundUnclamped(h) ==
  /\ hold' = RefundedAll(h)
  /\ ledger' = [ledger EXCEPT !.credited =
                  @ + session.deposit - AllRows(h) - SellersPaid]
  /\ mishap' = mishap \cup Noting(PlatformRows(h) > 0, "commission counted")

\* Faulty variant: pays the deposit back and leaves the holds to the sweep.
RefundLeavesHolds(h) ==
  /\ hold' = h
  /\ ledger' = [ledger EXCEPT !.credited =
                  @ + Positive(session.deposit - AllRows(h) - SellersPaid)]
  /\ mishap' = mishap \cup Noting(PlatformRows(h) > 0, "commission counted")

\* Faulty variant: only what is held comes back, as cancelSession once did.
RefundHoldsOnly(h) ==
  /\ hold' = RefundedAll(h)
  /\ mishap' = mishap \cup Noting(PlatformRows(h) > 0, "commission counted")
  /\ UNCHANGED ledger

\* refundRemainingDeposit from the holds h: every HELD hold, and what of the
\* deposit neither a hold of any status nor a payout accounts for.
RefundRemainingDeposit(h) ==
  LET accounted == AllRows(h) + SellersPaid IN
  /\ hold' = RefundedAll(h)
  /\ ledger' = [ledger EXCEPT !.credited =
                  @ + Positive(session.deposit - accounted)]
  /\ mishap' = mishap \cup Noting(PlatformRows(h) > 0, "commission counted")

\* refundUnspentBudget from the holds h: the rest of the budget covers what is
\* still due for the fees, then goes back to the customer.
RefundUnspentBudget(h) ==
  LET unspent == Positive(session.deposit - session.fee - session.riderFee
                            - SellersPaid)
      offset == Lesser(unspent, Shortfall(session))
      forFee == Lesser(offset, FeeShortfall(session))
  IN
  /\ hold' = IF forFee > 0 /\ session.shopper
             THEN [h EXCEPT !["offset"] = [status |-> "RELEASED", amount |-> forFee]]
             ELSE h
  /\ session' = [session EXCEPT !.status = "COMPLETED",
                                !.feeCollected = @ + forFee,
                                !.riderCollected = @ + offset - forFee]
  /\ ledger' = [ledger EXCEPT !.credited = @ + unspent - offset]
  /\ mishap' = mishap \cup Noting(Shortfall(session) > 0, "shortfall")

-----------------------------------------------------------------------------
(* From the search to the purchase. *)

Party(p) ==
  CASE p = "customer" -> TRUE
    [] p = "shopper" -> session.shopper
    [] p = "rider" -> session.rider

\* assertAllPresent, while the shopper still has the goods.
AllPresent == away = {}

\* ... and once they are with the rider.
RidePresent == away \cap {"customer", "rider"} = {}

Goes(from, to) ==
  /\ session.status = from
  /\ session' = [session EXCEPT !.status = to]
  /\ UNCHANGED <<hold, away, payout, charge, ledger, mishap>>

\* matchSession does not ask whether the deposit was paid.
MatchSession ==
  /\ session.status = "SEARCHING"
  /\ ~session.shopper
  /\ LET r == [session EXCEPT !.status = "MATCHED", !.shopper = TRUE]
     IN session' = r /\ hold' = WithFeeHold(hold, r)
  /\ mishap' = mishap \cup
       Noting(session.deposit < session.fee + session.riderFee, "unfunded match")
  /\ UNCHANGED <<away, payout, charge, ledger>>

StartCall == AllPresent /\ Goes("MATCHED", "LIVE_CALL")

\* Faulty variant: what is set aside for the rider is not counted.
ApproveBeyondFees(sum) ==
  /\ session.shopper
  /\ sum <= session.deposit - session.fee
  /\ session' = [session EXCEPT !.items = sum, !.repriced = FALSE]
  /\ UNCHANGED <<hold, away, payout, charge, ledger, mishap>>

\* approveItem of an item the shopper has priced: the approved items come to sum
\* with it, at the prices of now.
ApproveItem(sum) ==
  /\ session.shopper
  /\ sum <= session.deposit - session.fee - session.riderFee
  /\ session' = [session EXCEPT !.items = sum, !.repriced = FALSE]
  /\ UNCHANGED <<hold, away, payout, charge, ledger, mishap>>

\* priceItem of an item that is approved already: it stays approved, and nothing is
\* added up.  (removeItem of one changes even less here: the sum of the next call.)
PriceItem ==
  /\ session.shopper
  /\ session.items > 0
  /\ session' = [session EXCEPT !.repriced = TRUE]
  /\ UNCHANGED <<hold, away, payout, charge, ledger, mishap>>

\* resetItemPricing: the items that stay approved are added up and the sum written
\* without a look at the budget; a new price can make it more than it was.
ResetItemPricing(sum) ==
  /\ session.shopper
  /\ sum <= session.items \/ session.repriced
  /\ session' = [session EXCEPT !.items = sum, !.repriced = FALSE]
  /\ mishap' = mishap \cup Noting(sum > session.items, "repriced")
  /\ UNCHANGED <<hold, away, payout, charge, ledger>>

\* startPackaging, at a moment when every item is approved: the call has come to
\* the fee f.
StartPackaging(f) ==
  /\ session.status = "LIVE_CALL"
  /\ AllPresent
  /\ session' = [session EXCEPT !.status = "PACKAGING", !.fee = f]
  /\ UNCHANGED <<hold, away, payout, charge, ledger, mishap>>

RequestEmergencyEnd(by) ==
  /\ session.status = "LIVE_CALL"
  /\ session.emergency = "NONE"
  /\ session' = [session EXCEPT !.emergency = by]
  /\ UNCHANGED <<hold, away, payout, charge, ledger, mishap>>

\* confirmEmergencyEnd with confirm false.
DeclineEmergencyEnd ==
  /\ session.emergency # "NONE"
  /\ session' = [session EXCEPT !.emergency = "NONE"]
  /\ UNCHANGED <<hold, away, payout, charge, ledger, mishap>>

\* The shopper's holds when the customer ends a call that came to the fee f: the
\* first is released, the second only if the first did not cover the charge.
ChargedFor(f) ==
  LET first == Moved(hold, {"fee"}, {"HELD"}, "RELEASED")
      covered == hold["fee"].status = "HELD"
                   /\ hold["fee"].amount >= Lesser(f, session.fee)
  IN IF covered THEN first ELSE Moved(first, {"shortfall"}, {"HELD"}, "RELEASED")

\* confirmEmergencyEnd with confirm true; the status is not looked at.
ConfirmEmergencyEnd(f) ==
  /\ session.emergency # "NONE"
  /\ hold' = RefundedAll(IF session.emergency = "CUSTOMER" THEN ChargedFor(f)
                                                           ELSE hold)
  /\ ledger' = [ledger EXCEPT !.credited =
                  @ + Positive(session.deposit - session.fee - session.riderFee)]
  /\ session' = [session EXCEPT !.status = "CANCELLED", !.emergency = "NONE"]
  /\ mishap' = mishap \cup {"emergency end"}
  /\ UNCHANGED <<away, payout, charge>>

-----------------------------------------------------------------------------
(* Delivery. *)

\* findRider; what was collected for the rider beyond the fee covers what is due
\* for the call, and the rest goes back.
FindRider ==
  LET surplus == Positive(session.riderCollected - session.riderFee)
      offset == Lesser(surplus, FeeShortfall(session))
      refund == surplus - offset
  IN
  /\ session.status = "PACKAGING"
  /\ AllPresent
  /\ session' = [session EXCEPT
                   !.status = "FINDING_RIDER",
                   !.riderCollected = IF surplus > 0
                                      THEN session.riderFee + refund ELSE @,
                   !.feeCollected = @ + offset,
                   !.deposit = @ - refund]
  /\ ledger' = [ledger EXCEPT !.credited = @ + refund]
  /\ UNCHANGED <<hold, away, payout, charge, mishap>>

\* acceptDelivery; the hold is made whether or not the deposit covers it.
AcceptDelivery ==
  /\ session.status = "FINDING_RIDER"
  /\ ~session.rider
  /\ session' = [session EXCEPT !.status = "RIDER_ASSIGNED", !.rider = TRUE]
  /\ hold' = Created(hold, "rider", session.riderFee)
  /\ UNCHANGED <<away, payout, charge, ledger, mishap>>

MarkOutForDelivery == RidePresent /\ Goes("RIDER_ASSIGNED", "OUT_FOR_DELIVERY")

MarkDelivered == RidePresent /\ Goes("OUT_FOR_DELIVERY", "DELIVERED")

\* confirmSession.
ConfirmSession ==
  /\ session.status = "DELIVERED"
  /\ RefundUnspentBudget(ReleasedAll(hold))
  /\ UNCHANGED <<away, payout, charge>>

\* finalizeAutoReleasedSessions: no hold is HELD any more.
FinalizeAutoReleased ==
  /\ session.status = "DELIVERED"
  /\ Having(hold, {"HELD"}) = 0
  /\ RefundUnspentBudget(hold)
  /\ UNCHANGED <<away, payout, charge>>

\* runAutoReleaseSweep finds a hold past its 24 hours, whatever became of the
\* session.
AutoRelease(s) ==
  /\ hold[s].status = "HELD"
  /\ hold' = Moved(hold, {s}, {"HELD"}, "RELEASED")
  /\ UNCHANGED <<session, away, payout, charge, ledger, mishap>>

-----------------------------------------------------------------------------
(* Cancelling. *)

Cancellable == session.status \notin {"DELIVERED", "COMPLETED", "CANCELLED"}

Cancelled(h) ==
  /\ session' = [session EXCEPT !.status = "CANCELLED"]
  /\ RefundRemainingDeposit(h)
  /\ UNCHANGED <<payout, charge>>

\* cancelSession by the customer, or by the shopper before the call;
\* clearAllPendingSessions does the same.
CancelSession == Cancellable /\ Cancelled(hold) /\ UNCHANGED away

\* cancelViaAwayVote: the shopper's first HELD hold is paid out.
ShopperPaid ==
  LET s == IF hold["fee"].status = "HELD" THEN "fee" ELSE "shortfall"
  IN Moved(hold, {s}, {"HELD"}, "RELEASED")

\* markAway with away true.
MarkAway(p) ==
  /\ Party(p)
  /\ Cancellable
  /\ away' = away \cup {p}
  /\ \/ /\ session.status \in Bought \/ p = "rider"
        /\ UNCHANGED <<session, hold, payout, charge, ledger, mishap>>
     \/ /\ session.status \notin Bought
        /\ p # "rider"
        /\ session.shopper
        /\ IF {"customer", "shopper"} \subseteq away'
           THEN Cancelled(ShopperPaid)
           ELSE UNCHANGED <<session, hold, payout, charge, ledger, mishap>>

\* markAway by a customer no shopper was found for.
LeaveSearch ==
  /\ session.status = "SEARCHING"
  /\ ~session.shopper
  /\ Cancelled(hold)
  /\ UNCHANGED away

\* markAway with away false.
Return(p) ==
  /\ p \in away
  /\ Cancellable
  /\ away' = away \ {p}
  /\ UNCHANGED <<session, hold, payout, charge, ledger, mishap>>

\* expireAbandonedPreItemsSessions: one of the two did not come back.
ExpireAbandoned ==
  /\ session.status \in Before
  /\ session.shopper
  /\ Cardinality(away \cap {"customer", "shopper"}) = 1
  /\ Cancelled(ShopperPaid)
  /\ UNCHANGED away

\* expireStaleSearchingSessions.
ExpireStaleSearching ==
  /\ session.status = "SEARCHING"
  /\ ~session.shopper
  /\ Cancelled(hold)
  /\ UNCHANGED away

\* Faulty variant: sessions with a rider are not swept, as was once the case.
ExpirePreRiderOnly ==
  /\ session.status \in Before \cup {"PACKAGING", "FINDING_RIDER"}
  /\ Cancelled(hold)
  /\ UNCHANGED away

\* expireStaleLiveSessions.
ExpireStaleLive ==
  /\ session.status \in Before \cup Bought
  /\ Cancelled(hold)
  /\ UNCHANGED away

-----------------------------------------------------------------------------
(* Paying the sellers. *)

\* confirmSellerPayouts to one seller, or to two, of which the second is allotted
\* -less: only the sum is compared with the total, and the status of the session is
\* not looked at.  A row below zero counts when it is paid in cash, a transfer of
\* less than nothing fails.  A transfer without an answer is FAILED all the same.
ConfirmSellerPayouts(amount, less, outcome) ==
  /\ session.shopper
  /\ SellersPaid + amount - less <= session.items
  /\ ledger.sellers + amount <= MaxSent
  /\ payout' = [processing |-> payout.processing + (IF outcome = "transfer" THEN amount ELSE 0),
                paid |-> payout.paid + (IF outcome = "cash" THEN amount - less ELSE 0)]
  /\ ledger' = [ledger EXCEPT !.sellers = @ + amount]
  /\ mishap' = mishap \cup LateMoney \cup Noting(less > 0, "negative")
                 \cup Noting(outcome = "lost", "lost")
  /\ UNCHANGED <<session, hold, away, charge>>

\* applyTransferWebhook for a transfer that arrived.
TransferSucceeded(amount) ==
  /\ payout.processing >= amount
  /\ payout' = [processing |-> payout.processing - amount,
                paid |-> payout.paid + amount]
  /\ UNCHANGED <<session, hold, away, charge, ledger, mishap>>

\* ... and for one that did not: the amount can be paid again.
TransferFailed(amount) ==
  /\ payout.processing >= amount
  /\ payout' = [payout EXCEPT !.processing = @ - amount]
  /\ ledger' = [ledger EXCEPT !.sellers = @ - amount]
  /\ mishap' = mishap \cup LateMoney
  /\ UNCHANGED <<session, hold, away, charge>>

-----------------------------------------------------------------------------
(* Disputes; the credit an admin grants out of the platform's own pocket is *)
(* no part of the session's money and is left out.                          *)

\* updateTicketStatus to IN_PROGRESS.
InvestigateTicket ==
  /\ Disputes
  /\ hold' = Moved(hold, Slots, {"HELD"}, "DISPUTED")
  /\ UNCHANGED <<session, away, payout, charge, ledger, mishap>>

\* updateTicketStatus to RESOLVED without a refund.
ResolveForPayees ==
  /\ Disputes
  /\ hold' = Moved(hold, Slots, LiveStatus, "RELEASED")
  /\ session' = [session EXCEPT !.status = "COMPLETED"]
  /\ mishap' = mishap \cup Noting(session.status # "COMPLETED", "ticket")
  /\ UNCHANGED <<away, payout, charge, ledger>>

\* updateTicketStatus to RESOLVED with a refund.
ResolveForFiler ==
  /\ Disputes
  /\ hold' = Moved(hold, Slots, {"DISPUTED"}, "REFUNDED")
  /\ ledger' = [ledger EXCEPT !.closed = @ + Having(hold, {"DISPUTED"})]
  /\ UNCHANGED <<session, away, payout, charge, mishap>>

-----------------------------------------------------------------------------
Init ==
  /\ \E riderFee \in RiderFees :
       session = [status |-> "SEARCHING", shopper |-> FALSE, rider |-> FALSE,
                  deposit |-> 0, fee |-> MinFee, riderFee |-> riderFee,
                  feeCollected |-> MinFee, riderCollected |-> riderFee,
                  items |-> 0, repriced |-> FALSE, emergency |-> "NONE"]
  /\ hold = [s \in Slots |-> [status |-> "NONE", amount |-> 0]]
  /\ away = {}
  /\ payout = [processing |-> 0, paid |-> 0]
  /\ charge = [c \in Charges |-> [status |-> "NONE", purpose |-> "SESSION",
                                  amount |-> 0]]
  /\ ledger = [paidIn |-> 0, credited |-> 0, closed |-> 0, sellers |-> 0]
  /\ mishap = {}

CustomerNext ==
  \/ \E budget \in Budgets : PaySession(budget)
  \/ \E amount \in TopUps : TopUpItems(amount)
  \/ PayRiderFeeTopUp
  \/ PayShopSessionShortfall
  \/ \E c \in Charges, purpose \in Purposes, amount \in 1 .. MaxPaid :
       InitializeCharge(c, purpose, amount)
  \/ \E sum \in ItemTotals : ApproveItem(sum) \/ ResetItemPricing(sum)
  \/ \E f \in CallFees : ConfirmEmergencyEnd(f)
  \/ DeclineEmergencyEnd
  \/ ConfirmSession
  \/ LeaveSearch

ShopperNext ==
  \/ MatchSession
  \/ StartCall
  \/ \E f \in CallFees : StartPackaging(f)
  \/ \E by \in {"CUSTOMER", "SHOPPER"} : RequestEmergencyEnd(by)
  \/ FindRider
  \/ PriceItem
  \/ \E amount \in Slices, less \in Negatives \cup {0}, outcome \in Outcomes :
       ConfirmSellerPayouts(amount, less, outcome)

RiderNext == AcceptDelivery \/ MarkOutForDelivery \/ MarkDelivered

AnyPartyNext ==
  \/ CancelSession
  \/ \E p \in Leavers : MarkAway(p) \/ Return(p)

SystemNext ==
  \/ \E c \in Charges : ChargeConfirmed(c) \/ ChargeConfirmedAgain(c)
  \/ \E amount \in Slices : TransferSucceeded(amount) \/ TransferFailed(amount)
  \/ \E s \in Slots : AutoRelease(s)
  \/ FinalizeAutoReleased
  \/ ExpireAbandoned
  \/ ExpireStaleSearching
  \/ ExpireStaleLive

AdminNext == InvestigateTicket \/ ResolveForPayees \/ ResolveForFiler

Next == CustomerNext \/ ShopperNext \/ RiderNext \/ AnyPartyNext \/ SystemNext
          \/ AdminNext

Spec == Init /\ [][Next]_vars

\* The sweeps of live.js run for as long as the server does, and time passes.
Fairness ==
  /\ \A s \in Slots : WF_vars(AutoRelease(s))
  /\ WF_vars(FinalizeAutoReleased)
  /\ WF_vars(ExpireStaleSearching)
  /\ WF_vars(ExpireStaleLive)

FairSpec == Spec /\ Fairness

-----------------------------------------------------------------------------
(* Properties. *)

ToCustomer == ledger.credited + Having(hold, {"REFUNDED"}) - ledger.closed
ToPayees == Having(hold, {"RELEASED"})
Owed == Having(hold, LiveStatus)

\* The list, or what the sellers are sent, has outgrown what was checked.
Unchecked == {"repriced", "negative", "lost"}

\* Nobody is paid with money the session does not have: what went back to the
\* customer, to the shopper, the rider and the sellers, and what is still held
\* for them, was paid in.  The exceptions are money that moved after the end, a
\* payment applied twice or in place of another amount, an emergency end, a
\* delivery accepted without the deposit for it, a total that a new price has
\* raised, an allotment below zero and a transfer whose answer was lost.
NeverOverpaid ==
  mishap \cap (Unchecked \cup {"late money", "applied twice", "stale shortfall",
                               "emergency end", "unfunded match"}) = {} =>
    ToCustomer + ToPayees + ledger.sellers + Owed <= ledger.paidIn

\* Nothing of the deposit stays behind: once the session has ended, all of it went
\* to somebody or is held (refundRemainingDeposit, refundUnspentBudget).  The
\* exceptions, besides those above, are a commission taken before a cancellation,
\* fees still due at completion and a ticket that completes the session.
NothingKept ==
  session.status \in Ended /\ mishap = {} =>
    ToCustomer + ToPayees + ledger.sellers + Owed + ledger.closed >= ledger.paidIn

\* A completed session pays the shopper the fee of the call and the rider the
\* rider fee, in one hold or several, at once or by the sweep.
PayeesGetTheirFees ==
  session.status = "COMPLETED" /\ mishap = {} /\ ledger.closed = 0 =>
    /\ hold["rider"].amount = session.riderFee
    /\ hold["fee"].amount + hold["shortfall"].amount + hold["offset"].amount
         = session.fee

\* Nothing is left HELD behind a session that ended, so that no sweep pays it out
\* a day later, unless money arrived after the end.
EndedLeavesNothingHeld ==
  session.status \in Ended /\ "late money" \notin mishap =>
    Having(hold, {"HELD"}) = 0

\* What is set aside for the fees and what the sellers were sent fit into the
\* deposit, in any order of calls, approvals, prices, resets, payouts and top-ups,
\* even with a payment applied twice: approveItem compares the list with the budget
\* and confirmSellerPayouts the payouts with the list.  Where a new price gets past
\* the first check, an allotment below zero or a lost answer past the second, or
\* nothing was checked (a match without the deposit, money after the end), it need
\* not fit.
AllocationsFitDeposit ==
  mishap \cap (Unchecked \cup {"unfunded match", "late money"}) = {} =>
    Having(hold, HoldStatus) + ledger.sellers <= session.deposit

\* No session stays open for ever, whoever leaves it at whatever stage (the
\* sweeps of live.js).
SessionEnds == (session.status \notin Ended) ~> (session.status \in Ended)
=============================================================================
