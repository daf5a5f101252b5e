------------------------------ MODULE Booking ------------------------------
(***************************************************************************)
(* One booking of a home cook or an event planner, from the request to the *)
(* settlement of its escrow hold: the handlers of bookings.controller.js,  *)
(* the payment confirmation of orderFlow.service.js, the two sweeps that   *)
(* touch a booking's money and the ticket decisions of support.controller. *)
(*                                                                         *)
(* A handler is one action, with every write it makes; where it can throw  *)
(* after a first write, the partial outcome is an action of its own.  The  *)
(* interleavings inside handlers are the subject of BookingPayment and     *)
(* EscrowRace.  A definition marked "faulty variant" models no code: it is *)
(* a plausible bug, used to show that a property would notice it.          *)
(***************************************************************************)
EXTENDS EscrowOps

CONSTANTS
  Kinds,       \* the kinds of booking considered
  Totals,      \* the prices a booking or an edit can have
  Slices,      \* the amounts of a staged release or a payment request
  Funds,       \* the customer's wallet balance to begin with
  Refunds,     \* the refunds an admin can decide
  Charges,     \* identities of card / bank-transfer payments
  Tickets,     \* identities of dispute tickets
  MaxAdjust    \* bound: the sum of admin refunds

ASSUME KindsAssumption ==
  Kinds \subseteq {"HOME_COOK", "CATERING", "EVENT_PLANNING"}
ASSUME AmountsAssumption ==
  /\ Totals \subseteq Nat \ {0}
  /\ Slices \subseteq Nat \ {0}
  /\ Refunds \subseteq Nat \ {0}
  /\ Funds \subseteq Nat
  /\ MaxAdjust \in Nat

VARIABLES
  kind,     \* type and package of the booking, fixed at creation
  viaProposal, \* an EventProposal references the booking
  booking,  \* the Booking row
  hold,     \* the VENDOR EscrowHold of the booking
  wallet,   \* Wallet.balanceKobo of the two parties
  charge,   \* payments made outside the wallet, by identity
  ticket,   \* dispute tickets with this booking as context
  event,    \* where now is relative to the event date
  ledger,   \* bookkeeping of where money came from and went
  mishap    \* history: which of the two unbacked money moves happened

vars == <<kind, viaProposal, booking, hold, wallet, charge, ticket, event,
          ledger, mishap>>

money == <<hold, wallet, ledger, mishap>>

-----------------------------------------------------------------------------
(* The rows. *)

BookingStatus ==
  {"REQUESTED", "PAID", "DECLINED", "CONFIRMED", "COMPLETED", "CANCELLED"}
Parties == {"customer", "vendor"}
TicketStatus == {"NONE", "OPEN", "IN_PROGRESS", "RESOLVED", "CLOSED"}
ChargeStatus == {"NONE", "INITIATED", "TAKEN", "APPLIED", "REFUSED"}
Mishaps == {"mispriced charge", "edit after settlement"}

NoEdit == 0
NoAsk == 0
Unpriced == -1

\* buildBookingEditData: a new total if the package or the items change, none if the
\* edit is of the date, the venue or the guests, or renames the items of an event.
EditData == Totals \cup {Unpriced}

\* amountReleasedKobo is "released", pendingEditSnapshot.totalKobo is "edit",
\* pendingPaymentRequestKobo is "ask".
BookingRow ==
  [status : BookingStatus, total : Totals, released : Nat,
   started : BOOLEAN, vendorDone : BOOLEAN, customerDone : BOOLEAN,
   edit : EditData \cup {NoEdit}, ask : Slices \cup {NoAsk},
   engaged : SUBSET Parties]
HoldRow == [status : HoldStatus \cup {"NONE"}, amount : Nat, timed : BOOLEAN]
Ledger == [funded : Nat, limbo : Int, commission : Nat, closed : Nat,
           adjCustomer : Nat, adjVendor : Nat]

TypeOK ==
  /\ kind \in Kinds
  /\ viaProposal \in BOOLEAN
  /\ booking \in BookingRow
  /\ hold \in HoldRow
  /\ wallet \in [Parties -> Nat]
  /\ charge \in [Charges -> [status : ChargeStatus, amount : Nat]]
  /\ ticket \in [Tickets -> [status : TicketStatus, filer : Parties]]
  /\ event \in {"AHEAD", "PAST", "OVERDUE"}
  /\ ledger \in Ledger
  /\ mishap \subseteq Mishaps

IsNegotiatedBooking == kind \in {"EVENT_PLANNING", "CATERING"}

-----------------------------------------------------------------------------
(* The escrow operations a handler is built from. *)

\* creditPayeeWithCommission for the vendor.
CreditPayee(amount) ==
  /\ wallet' = [wallet EXCEPT !["vendor"] = @ + Payout("VENDOR", amount)]
  /\ ledger' = [ledger EXCEPT !.commission = @ + Commission("VENDOR", amount)]

\* Faulty variant: pays the price of the booking instead of what the hold still has.
ReleaseFullPrice ==
  \/ /\ hold.status = "HELD"
     /\ Creditable(hold.amount)
     /\ CreditPayee(booking.total)
     /\ hold' = [hold EXCEPT !.status = "RELEASED"]
  \/ /\ hold.status # "HELD"
     /\ UNCHANGED <<hold, wallet, ledger>>

\* releaseAllHoldsForContext: nothing to do unless the hold is HELD.
ReleaseAll ==
  \/ /\ hold.status = "HELD"
     /\ Creditable(hold.amount)
     /\ CreditPayee(hold.amount)
     /\ hold' = [hold EXCEPT !.status = "RELEASED"]
  \/ /\ hold.status # "HELD"
     /\ UNCHANGED <<hold, wallet, ledger>>

\* The HELD hold is empty, so that crediting its payee throws.
ReleaseThrows == hold.status = "HELD" /\ ~Creditable(hold.amount)

\* Faulty variant: refunds a hold that has already been paid out.
RefundAllAnyStatus ==
  \/ /\ hold.status \in HoldStatus
     /\ Creditable(hold.amount)
     /\ wallet' = [wallet EXCEPT !["customer"] = @ + hold.amount]
     /\ hold' = [hold EXCEPT !.status = "REFUNDED"]
     /\ UNCHANGED ledger
  \/ /\ hold.status = "NONE"
     /\ UNCHANGED <<hold, wallet, ledger>>

\* refundAllHoldsForContext, from HELD holds only.
RefundAll ==
  \/ /\ hold.status = "HELD"
     /\ Creditable(hold.amount)
     /\ wallet' = [wallet EXCEPT !["customer"] = @ + hold.amount]
     /\ hold' = [hold EXCEPT !.status = "REFUNDED"]
     /\ UNCHANGED ledger
  \/ /\ hold.status # "HELD"
     /\ UNCHANGED <<hold, wallet, ledger>>

\* partialReleaseHold of a HELD hold.
PartialRelease(amount) ==
  /\ hold.status = "HELD"
  /\ amount <= hold.amount
  /\ CreditPayee(amount)
  /\ hold' = [hold EXCEPT !.amount = @ - amount,
                          !.status = IF amount = hold.amount THEN "RELEASED"
                                                             ELSE "HELD"]

-----------------------------------------------------------------------------
(* Payment. *)

\* createHold and the status change of confirmBookingPayment, for a booking
\* that awaits payment and whose customer was charged "charged".  The early
\* return for an existing hold cannot happen while handlers do not overlap
\* (RequestedHasNoHold); BookingPayment has the runs in which it does.
ConfirmBookingPayment(charged) ==
  /\ booking.status = "REQUESTED"
  /\ hold' = [status |-> "HELD", amount |-> booking.total,
              timed |-> ~IsNegotiatedBooking]
  /\ booking' = [booking EXCEPT
                   !.status = IF viaProposal THEN "CONFIRMED" ELSE "PAID"]
  /\ mishap' = IF charged = booking.total
               THEN mishap ELSE mishap \cup {"mispriced charge"}

\* payBooking with paymentMethod WALLET: debit, then confirm.
PayFromWallet ==
  /\ wallet["customer"] >= booking.total
  /\ ConfirmBookingPayment(booking.total)
  /\ wallet' = [wallet EXCEPT !["customer"] = @ - booking.total]
  /\ UNCHANGED <<kind, viaProposal, charge, ticket, event, ledger>>

\* payBooking with CARD, USSD or BANK_TRANSFER: only a reference is made, for
\* the price of this moment.
InitializeCharge(c) ==
  /\ booking.status = "REQUESTED"
  /\ charge[c].status = "NONE"
  /\ charge' = [charge EXCEPT ![c] = [status |-> "INITIATED",
                                      amount |-> booking.total]]
  /\ UNCHANGED <<kind, viaProposal, booking, ticket, event, money>>

\* The customer pays on Paystack's page or at the bank, at any later time.
CustomerPaysCharge(c) ==
  /\ charge[c].status = "INITIATED"
  /\ charge' = [charge EXCEPT ![c].status = "TAKEN"]
  /\ ledger' = [ledger EXCEPT !.funded = @ + charge[c].amount,
                              !.limbo = @ + charge[c].amount]
  /\ UNCHANGED <<kind, viaProposal, booking, hold, wallet, ticket, event, mishap>>

\* verifyPayment, the webhook or an admin confirms it, and confirmBookingPayment
\* takes it for a booking that still awaits payment.
ChargeConfirmed(c) ==
  /\ charge[c].status = "TAKEN"
  /\ ConfirmBookingPayment(charge[c].amount)
  /\ charge' = [charge EXCEPT ![c].status = "APPLIED"]
  /\ ledger' = [ledger EXCEPT !.limbo = @ - charge[c].amount]
  /\ UNCHANGED <<kind, viaProposal, wallet, ticket, event>>

\* ... and throws 409 for any other: the money stays where it was collected.
ChargeRefused(c) ==
  /\ charge[c].status = "TAKEN"
  /\ booking.status # "REQUESTED"
  /\ charge' = [charge EXCEPT ![c].status = "REFUSED"]
  /\ UNCHANGED <<kind, viaProposal, booking, ticket, event, money>>

-----------------------------------------------------------------------------
(* Editing. *)

Settled == {"RELEASED", "REFUNDED"}

\* Faulty variant: the difference is taken from what is held, not from the price.
ReconcileAgainstHold(newTotal) ==
  LET diff == newTotal - hold.amount
      noop == hold.status = "NONE" \/ diff = 0
  IN
  \/ noop /\ UNCHANGED money
  \/ /\ ~noop
     /\ wallet["customer"] >= diff
     /\ wallet' = [wallet EXCEPT !["customer"] = @ - diff]
     /\ hold' = [hold EXCEPT !.amount = newTotal]
     /\ mishap' = IF hold.status \in Settled
                  THEN mishap \cup {"edit after settlement"} ELSE mishap
     /\ UNCHANGED ledger

\* reconcileBookingEditFinancials, for a price that is allowed.
Reconcile(newTotal) ==
  LET diff == newTotal - booking.total
      noop == hold.status = "NONE" \/ diff = 0
  IN
  \/ noop /\ UNCHANGED money
  \/ /\ ~noop
     /\ newTotal >= booking.released
     /\ wallet["customer"] >= diff
     /\ wallet' = [wallet EXCEPT !["customer"] = @ - diff]
     /\ hold' = [hold EXCEPT !.amount = IF @ + diff >= 0 THEN @ + diff ELSE 0]
     /\ mishap' = IF hold.status \in Settled
                  THEN mishap \cup {"edit after settlement"} ELSE mishap
     /\ UNCHANGED ledger

\* The dry run made when an edit is only proposed.
Affordable(newTotal) ==
  \/ hold.status = "NONE"
  \/ /\ newTotal >= booking.released
     /\ wallet["customer"] >= newTotal - booking.total

\* The checks of updateBooking.
MayEdit ==
  /\ booking.status \in {"REQUESTED", "PAID", "CONFIRMED"}
  /\ ~booking.started
  /\ event = "AHEAD"
  /\ booking.edit = NoEdit

\* updateBooking before the vendor has committed: applied at once.
UpdateBookingNow(newTotal) ==
  /\ MayEdit
  /\ booking.status # "CONFIRMED"
  /\ Reconcile(newTotal)
  /\ booking' = [booking EXCEPT !.total = newTotal]
  /\ UNCHANGED <<kind, viaProposal, charge, ticket, event>>

\* updateBooking of a CONFIRMED booking: kept for the vendor to decide.
ProposeEdit(edit) ==
  /\ MayEdit
  /\ booking.status = "CONFIRMED"
  /\ edit = Unpriced \/ Affordable(edit)
  /\ booking' = [booking EXCEPT !.edit = edit]
  /\ UNCHANGED <<kind, viaProposal, charge, ticket, event, money>>

\* The price an edit leaves, at the time it is accepted.
PriceAfter(edit) == IF edit = Unpriced THEN booking.total ELSE edit

\* acceptEditedBooking looks at nothing but the snapshot.
AcceptEditedBooking ==
  /\ booking.edit # NoEdit
  /\ Reconcile(PriceAfter(booking.edit))
  /\ booking' = [booking EXCEPT !.total = PriceAfter(booking.edit), !.edit = NoEdit]
  /\ UNCHANGED <<kind, viaProposal, charge, ticket, event>>

DeclineEditedBooking ==
  /\ booking.edit # NoEdit
  /\ booking' = [booking EXCEPT !.edit = NoEdit]
  /\ UNCHANGED <<kind, viaProposal, charge, ticket, event, money>>

-----------------------------------------------------------------------------
(* The vendor's decision. *)

AcceptBooking ==
  /\ booking.status = "PAID"
  /\ booking' = [booking EXCEPT !.status = "CONFIRMED"]
  /\ UNCHANGED <<kind, viaProposal, charge, ticket, event, money>>

DeclineBooking ==
  /\ booking.status = "PAID"
  /\ RefundAll
  /\ booking' = [booking EXCEPT !.status = "DECLINED"]
  /\ UNCHANGED <<kind, viaProposal, charge, ticket, event, mishap>>

\* Either side, through cancelBooking.
CancelBooking ==
  /\ booking.status \notin {"COMPLETED", "CANCELLED"}
  /\ ~booking.started
  /\ IsNegotiatedBooking => booking.released = 0
  /\ \/ booking.status \in {"PAID", "CONFIRMED"} /\ RefundAll
     \/ booking.status \notin {"PAID", "CONFIRMED"}
        /\ UNCHANGED <<hold, wallet, ledger>>
  /\ booking' = [booking EXCEPT !.status = "CANCELLED", !.edit = NoEdit,
                                !.ask = NoAsk]
  /\ UNCHANGED <<kind, viaProposal, charge, ticket, event, mishap>>

-----------------------------------------------------------------------------
(* Negotiated bookings: conversation and staged payment. *)

\* engageBooking; a second tap changes nothing.
EngageBooking(p) ==
  /\ IsNegotiatedBooking
  /\ booking.status = "CONFIRMED"
  /\ booking.edit = NoEdit
  /\ booking.released = 0
  /\ booking' = [booking EXCEPT !.engaged = @ \cup {p}]
  /\ UNCHANGED <<kind, viaProposal, charge, ticket, event, money>>

EndBookingConversation ==
  /\ IsNegotiatedBooking
  /\ booking.engaged # {}
  /\ booking' = [booking EXCEPT !.engaged = {}]
  /\ UNCHANGED <<kind, viaProposal, charge, ticket, event, money>>

ReleaseBookingPayment(amount) ==
  /\ IsNegotiatedBooking
  /\ booking.status = "CONFIRMED"
  /\ PartialRelease(amount)
  /\ booking' = [booking EXCEPT !.released = @ + amount]
  /\ UNCHANGED <<kind, viaProposal, charge, ticket, event, mishap>>

\* The status of the booking is not looked at.
RequestAdditionalPayment(amount) ==
  /\ IsNegotiatedBooking
  /\ booking.released > 0
  /\ ~booking.started
  /\ booking.ask = NoAsk
  /\ hold.status = "HELD"
  /\ amount <= hold.amount
  /\ booking' = [booking EXCEPT !.ask = amount]
  /\ UNCHANGED <<kind, viaProposal, charge, ticket, event, money>>

ApproveAdditionalPayment ==
  /\ booking.ask # NoAsk
  /\ PartialRelease(booking.ask)
  /\ booking' = [booking EXCEPT !.released = @ + booking.ask, !.ask = NoAsk]
  /\ UNCHANGED <<kind, viaProposal, charge, ticket, event, mishap>>

DeclineAdditionalPayment ==
  /\ booking.ask # NoAsk
  /\ booking' = [booking EXCEPT !.ask = NoAsk]
  /\ UNCHANGED <<kind, viaProposal, charge, ticket, event, money>>

-----------------------------------------------------------------------------
(* The job and its completion. *)

\* Faulty variant: the same without the check for a pending edit.
MayStartDespiteEdit ==
  /\ booking.status = "CONFIRMED"
  /\ ~booking.started
  /\ IsNegotiatedBooking => booking.released > 0

\* The checks of startBookingJob.
MayStart ==
  /\ booking.status = "CONFIRMED"
  /\ ~booking.started
  /\ booking.edit = NoEdit
  /\ IsNegotiatedBooking => booking.released > 0

StartBookingJob ==
  /\ MayStart
  /\ booking' = [booking EXCEPT !.started = TRUE]
  /\ UNCHANGED <<kind, viaProposal, charge, ticket, event, money>>

CompleteBooking ==
  /\ booking.status = "CONFIRMED"
  /\ ~booking.vendorDone
  /\ booking.started
  /\ booking' = [booking EXCEPT !.vendorDone = TRUE]
  /\ UNCHANGED <<kind, viaProposal, charge, ticket, event, money>>

AwaitsCustomer ==
  /\ booking.status = "CONFIRMED"
  /\ booking.vendorDone
  /\ ~booking.customerDone

\* confirmBookingCompletion with Yes.
ConfirmCompletion ==
  /\ AwaitsCustomer
  /\ ReleaseAll
  /\ booking' = [booking EXCEPT !.customerDone = TRUE, !.status = "COMPLETED"]
  /\ UNCHANGED <<kind, viaProposal, charge, ticket, event, mishap>>

\* The answer is on record when the release throws.
ConfirmCompletionThrows ==
  /\ AwaitsCustomer
  /\ ReleaseThrows
  /\ booking' = [booking EXCEPT !.customerDone = TRUE]
  /\ UNCHANGED <<kind, viaProposal, charge, ticket, event, money>>

\* confirmBookingCompletion with No: a ticket, and the hold is frozen.
DisputeCompletion(t) ==
  /\ AwaitsCustomer
  /\ ticket[t].status = "NONE"
  /\ ticket' = [ticket EXCEPT ![t] = [status |-> "OPEN", filer |-> "customer"]]
  /\ hold' = IF hold.status = "HELD" THEN [hold EXCEPT !.status = "DISPUTED"]
                                     ELSE hold
  /\ UNCHANGED <<kind, viaProposal, booking, wallet, charge, event, ledger, mishap>>

\* autoCompleteOverdueEventPlannerBookings, through completeEventPlanningBooking.
OverdueForAutoComplete ==
  /\ kind = "EVENT_PLANNING"
  /\ booking.status = "CONFIRMED"
  /\ ~booking.vendorDone
  /\ event = "OVERDUE"
  /\ booking.started

AutoComplete ==
  /\ OverdueForAutoComplete
  /\ ReleaseAll
  /\ booking' = [booking EXCEPT !.vendorDone = TRUE, !.customerDone = TRUE,
                                !.status = "COMPLETED"]
  /\ UNCHANGED <<kind, viaProposal, charge, ticket, event, mishap>>

AutoCompleteThrows ==
  /\ OverdueForAutoComplete
  /\ ReleaseThrows
  /\ booking' = [booking EXCEPT !.vendorDone = TRUE, !.customerDone = TRUE]
  /\ UNCHANGED <<kind, viaProposal, charge, ticket, event, money>>

\* Faulty variant: the sweep skips holds of bookings the vendor has not decided on.
AutoReleaseDecided ==
  /\ hold.status = "HELD"
  /\ hold.timed
  /\ booking.status # "PAID"
  /\ ReleaseAll
  /\ UNCHANGED <<kind, viaProposal, booking, charge, ticket, event, mishap>>

\* The sweep finds the booking's hold past its autoReleaseAt.
AutoRelease ==
  /\ hold.status = "HELD"
  /\ hold.timed
  /\ ReleaseAll
  /\ UNCHANGED <<kind, viaProposal, booking, charge, ticket, event, mishap>>

\* Time: the event date passes, then another 24 hours.
EventPasses ==
  /\ event # "OVERDUE"
  /\ event' = IF event = "AHEAD" THEN "PAST" ELSE "OVERDUE"
  /\ UNCHANGED <<kind, viaProposal, booking, charge, ticket, money>>

-----------------------------------------------------------------------------
(* Tickets. *)

\* createTicket with isDispute, by a party of the booking.
CreateTicket(t, p) ==
  /\ ticket[t].status = "NONE"
  /\ ticket' = [ticket EXCEPT ![t] = [status |-> "OPEN", filer |-> p]]
  /\ UNCHANGED <<kind, viaProposal, booking, charge, event, money>>

\* The platform-funded credit to whoever filed the ticket, whatever the status
\* the ticket is given; 0 is no refund.
Refundable(refund) == ledger.adjCustomer + ledger.adjVendor + refund <= MaxAdjust

WalletAfterRefund(t, refund) == [wallet EXCEPT ![ticket[t].filer] = @ + refund]

LedgerAfterRefund(t, refund) ==
  IF ticket[t].filer = "customer"
  THEN [ledger EXCEPT !.adjCustomer = @ + refund]
  ELSE [ledger EXCEPT !.adjVendor = @ + refund]

\* updateTicketStatus to IN_PROGRESS freezes what is held.
InvestigateTicket(t, refund) ==
  /\ ticket[t].status # "NONE"
  /\ Refundable(refund)
  /\ ticket' = [ticket EXCEPT ![t].status = "IN_PROGRESS"]
  /\ hold' = IF hold.status = "HELD" THEN [hold EXCEPT !.status = "DISPUTED"]
                                     ELSE hold
  /\ wallet' = WalletAfterRefund(t, refund)
  /\ ledger' = LedgerAfterRefund(t, refund)
  /\ UNCHANGED <<kind, viaProposal, booking, charge, event, mishap>>

\* updateTicketStatus to OPEN or CLOSED.
ShelveTicket(t, s, refund) ==
  /\ ticket[t].status # "NONE"
  /\ Refundable(refund)
  /\ ticket' = [ticket EXCEPT ![t].status = s]
  /\ wallet' = WalletAfterRefund(t, refund)
  /\ ledger' = LedgerAfterRefund(t, refund)
  /\ UNCHANGED <<kind, viaProposal, booking, hold, charge, event, mishap>>

\* updateTicketStatus to RESOLVED without a refund: whatever is held or frozen
\* is paid to the vendor and the booking counts as completed.
ResolveForPayee(t) ==
  /\ ticket[t].status # "NONE"
  /\ \/ /\ hold.status \in LiveStatus
        /\ Creditable(hold.amount)
        /\ CreditPayee(hold.amount)
        /\ hold' = [hold EXCEPT !.status = "RELEASED"]
     \/ hold.status \notin LiveStatus /\ UNCHANGED <<hold, wallet, ledger>>
  /\ booking' = [booking EXCEPT !.status = "COMPLETED"]
  /\ ticket' = [ticket EXCEPT ![t].status = "RESOLVED"]
  /\ UNCHANGED <<kind, viaProposal, charge, event, mishap>>

\* updateTicketStatus to RESOLVED with a refund: a frozen hold is closed without
\* a second credit, a HELD one is left alone, the booking counts as cancelled.
ResolveForFiler(t, refund) ==
  /\ ticket[t].status # "NONE"
  /\ Refundable(refund)
  /\ wallet' = WalletAfterRefund(t, refund)
  /\ IF hold.status = "DISPUTED"
     THEN /\ hold' = [hold EXCEPT !.status = "REFUNDED"]
          /\ ledger' = [LedgerAfterRefund(t, refund) EXCEPT !.closed = @ + hold.amount]
     ELSE /\ hold' = hold
          /\ ledger' = LedgerAfterRefund(t, refund)
  /\ booking' = [booking EXCEPT !.status = "CANCELLED"]
  /\ ticket' = [ticket EXCEPT ![t].status = "RESOLVED"]
  /\ UNCHANGED <<kind, viaProposal, charge, event, mishap>>

-----------------------------------------------------------------------------
Init ==
  /\ kind \in Kinds
  /\ viaProposal \in (IF kind = "EVENT_PLANNING" THEN BOOLEAN ELSE {FALSE})
  /\ \E total \in Totals :
       booking = [status |-> "REQUESTED", total |-> total, released |-> 0,
                  started |-> FALSE, vendorDone |-> FALSE,
                  customerDone |-> FALSE, edit |-> NoEdit, ask |-> NoAsk,
                  engaged |-> {}]
  /\ hold = [status |-> "NONE", amount |-> 0, timed |-> FALSE]
  /\ \E funds \in Funds :
       /\ wallet = [p \in Parties |-> IF p = "customer" THEN funds ELSE 0]
       /\ ledger = [funded |-> funds, limbo |-> 0, commission |-> 0,
                    closed |-> 0, adjCustomer |-> 0, adjVendor |-> 0]
  /\ charge = [c \in Charges |-> [status |-> "NONE", amount |-> 0]]
  /\ ticket = [t \in Tickets |-> [status |-> "NONE", filer |-> "customer"]]
  /\ event = "AHEAD"
  /\ mishap = {}

CustomerNext ==
  \/ PayFromWallet
  \/ \E c \in Charges : InitializeCharge(c) \/ CustomerPaysCharge(c)
  \/ \E total \in Totals : UpdateBookingNow(total)
  \/ \E edit \in EditData : ProposeEdit(edit)
  \/ \E amount \in Slices : ReleaseBookingPayment(amount)
  \/ ApproveAdditionalPayment
  \/ DeclineAdditionalPayment
  \/ ConfirmCompletion
  \/ ConfirmCompletionThrows
  \/ \E t \in Tickets : DisputeCompletion(t)

VendorNext ==
  \/ AcceptBooking
  \/ DeclineBooking
  \/ AcceptEditedBooking
  \/ DeclineEditedBooking
  \/ StartBookingJob
  \/ CompleteBooking
  \/ \E amount \in Slices : RequestAdditionalPayment(amount)

EitherNext ==
  \/ CancelBooking
  \/ EndBookingConversation
  \/ \E p \in Parties : EngageBooking(p)
  \/ \E t \in Tickets, p \in Parties : CreateTicket(t, p)

SystemNext ==
  \/ \E c \in Charges : ChargeConfirmed(c) \/ ChargeRefused(c)
  \/ AutoComplete
  \/ AutoCompleteThrows
  \/ AutoRelease
  \/ EventPasses

AdminNext ==
  \E t \in Tickets :
    \/ \E refund \in Refunds \cup {0} :
         \/ InvestigateTicket(t, refund)
         \/ \E s \in {"OPEN", "CLOSED"} : ShelveTicket(t, s, refund)
    \/ ResolveForPayee(t)
    \/ \E refund \in Refunds : ResolveForFiler(t, refund)

Next == CustomerNext \/ VendorNext \/ EitherNext \/ SystemNext \/ AdminNext

Spec == Init /\ [][Next]_vars

\* The sweep of live.js runs every five minutes for as long as the server does.
FairSpec == Spec /\ WF_vars(AutoRelease)

-----------------------------------------------------------------------------
(* Properties. *)

\* The money the platform still owes to one of the parties of the hold.
LiveAmount == IF hold.status \in LiveStatus THEN hold.amount ELSE 0

\* What left the hold towards the vendor, before the commission.
PaidToVendor == wallet["vendor"] + ledger.commission - ledger.adjVendor

\* Every edit, staged release, top-up and refund keeps the hold in step with the
\* booking: what is recorded as held is the price less what was released, so the
\* vendor's eventual payout does not drift from what the booking costs
\* (reconcileBookingEditFinancials, partialReleaseHold, respondAdditionalPayment).
HoldTracksPrice ==
  hold.status # "NONE" => hold.amount = booking.total - booking.released

\* No handler makes or loses money: as long as neither of the two mishaps has
\* happened, all that the customer brought in and the platform granted is in a
\* wallet, in the hold, in a payment not yet applied, or with the platform.
MoneyAccounted ==
  mishap = {} =>
    ledger.funded + ledger.adjCustomer + ledger.adjVendor
      = wallet["customer"] + wallet["vendor"] + LiveAmount + ledger.limbo
        + ledger.commission + ledger.closed

\* The vendor never gets more than the price, and gets all of it exactly when the
\* hold is released: the parts paid in stages and the rest at completion, at a
\* dispute's end or by the sweep do not overlap.
VendorGetsThePrice ==
  /\ hold.status = "NONE" => PaidToVendor = 0
  /\ hold.status \in LiveStatus \cup {"REFUNDED"} => PaidToVendor = booking.released
  /\ hold.status = "RELEASED" /\ "edit after settlement" \notin mishap
       => PaidToVendor = booking.total

\* The vendor only ever sees, accepts and works on requests that were paid for.
FundedBeforeDecision ==
  booking.status \in {"PAID", "CONFIRMED"} => hold.status # "NONE"

\* A booking that awaits payment has no hold, and nothing was released for it.
RequestedHasNoHold ==
  /\ booking.status = "REQUESTED" => hold.status = "NONE"
  /\ hold.status = "NONE" => booking.released = 0

\* A started job has no edit left to decide on (the check in startBookingJob).
StartedHasNoEdit == booking.started => booking.edit = NoEdit

\* Nothing is left HELD behind a completed booking, whoever completed it.
CompletedLeavesNothingHeld ==
  booking.status = "COMPLETED" => hold.status # "HELD"

\* The price is frozen from the moment the vendor starts the job: no edit
\* proposed before can be accepted after.
StartedPriceFrozen ==
  [][booking.started => booking'.total = booking.total]_vars

\* A frozen hold only moves by an admin's decision on a ticket; no cancellation,
\* completion or sweep takes it along (the comment at releaseHold).
DisputedMovesOnlyByAdmin ==
  [][hold.status = "DISPUTED" /\ hold'.status # "DISPUTED"
       => \E t \in Tickets : ticket'[t].status = "RESOLVED"]_vars

\* A plain home cook hold does not stay HELD for ever, whatever the parties do
\* (runAutoReleaseSweep).
TimedHoldLeavesHeld ==
  (hold.status = "HELD" /\ hold.timed) ~> (hold.status # "HELD")
=============================================================================
