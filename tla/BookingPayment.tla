--------------------------- MODULE BookingPayment ---------------------------
(***************************************************************************)
(* The payment of one booking and the decisions that follow it, await by   *)
(* await: payBooking from the wallet, the confirmation of a card payment   *)
(* by verifyPayment and by the webhook, acceptBooking, declineBooking and  *)
(* cancelBooking.  Every handler reads the booking, decides, and writes in *)
(* later steps; the server runs any number of them at once, and may die    *)
(* between any two steps.  The price is the unit of money.                 *)
(***************************************************************************)
EXTENDS Integers

CONSTANTS
  Runs,         \* bound: handlers running at a time
  Charges,      \* identities of card payments
  Funds,        \* the customer's wallet to begin with, in prices
  MaxCrashes    \* bound: deaths of the server

ASSUME PaymentAssumption == Funds \in Nat /\ MaxCrashes \in Nat

VARIABLES
  status,       \* Booking.status
  held, refunded,  \* how many VENDOR holds of the booking are HELD, REFUNDED
  wallet,       \* the customer's Wallet.balanceKobo
  charge,       \* Paystack's record of the card payments
  event,        \* charges that have a PaymentWebhookEvent row
  run,          \* the handlers in progress
  debits,       \* history: wallet debits for this booking
  bought,       \* history: holds created by a run that had debited the wallet
  applied,      \* history: webhook deliveries of a charge that were not duplicates
  overlap,      \* history: a handler began while another was in progress
  crashes

rows == <<status, held, refunded, wallet, event>>
history == <<debits, bought, applied, overlap, crashes>>
vars == <<rows, charge, run, history>>

Kinds == {"pay", "verify", "webhook", "accept", "decline", "cancel"}

NoCharge == "no charge"

Steps == {"idle", "start", "balance", "debit", "record", "status", "existing",
          "create", "paid", "refund", "close", "confirm"}

TypeOK ==
  /\ status \in {"REQUESTED", "PAID", "CONFIRMED", "DECLINED", "CANCELLED"}
  /\ held \in Nat /\ refunded \in Nat
  /\ wallet \in Int
  /\ charge \in [Charges -> {"none", "started", "collected"}]
  /\ event \subseteq Charges
  /\ run \in [Runs -> [kind : Kinds, charge : Charges \cup {NoCharge}, at : Steps]]
  /\ debits \in Nat /\ bought \in Nat
  /\ applied \in [Charges -> Nat]
  /\ overlap \in BOOLEAN
  /\ crashes \in 0 .. MaxCrashes

Idle == [kind |-> "pay", charge |-> NoCharge, at |-> "idle"]

Init ==
  /\ status = "REQUESTED"
  /\ held = 0 /\ refunded = 0
  /\ wallet = Funds
  /\ charge = [c \in Charges |-> "none"]
  /\ event = {}
  /\ run = [r \in Runs |-> Idle]
  /\ debits = 0 /\ bought = 0
  /\ applied = [c \in Charges |-> 0]
  /\ overlap = FALSE
  /\ crashes = 0

-----------------------------------------------------------------------------
(* Requests. *)

Begin(r, kind, c) ==
  /\ run[r] = Idle
  /\ run' = [run EXCEPT ![r] = [kind |-> kind, charge |-> c, at |-> "start"]]
  /\ overlap' = (overlap \/ \E other \in Runs : run[other] # Idle)
  /\ UNCHANGED <<rows, charge, debits, bought, applied, crashes>>

\* Paystack delivers, and redelivers, the event of a charge it has collected.
Deliver(r, c) == charge[c] = "collected" /\ Begin(r, "webhook", c)

Arrive(r) ==
  \/ \E kind \in {"pay", "accept", "decline", "cancel"} : Begin(r, kind, NoCharge)
  \/ \E c \in Charges : Begin(r, "verify", c) \/ Deliver(r, c)

\* payBooking for a card payment: a reference, and nothing written.
InitializeCharge(c) ==
  /\ status = "REQUESTED"
  /\ charge[c] = "none"
  /\ charge' = [charge EXCEPT ![c] = "started"]
  /\ UNCHANGED <<rows, run, history>>

CustomerPaysCharge(c) ==
  /\ charge[c] = "started"
  /\ charge' = [charge EXCEPT ![c] = "collected"]
  /\ UNCHANGED <<rows, run, history>>

-----------------------------------------------------------------------------
(* Steps of the handlers. *)

Goto(r, step) == run' = [run EXCEPT ![r].at = step]
End(r) == run' = [run EXCEPT ![r] = Idle]

\* From the step "at" on to "next" if the answer is favourable, else to the end.
Decide(r, at, ok, next) ==
  /\ run[r].at = at
  /\ IF ok THEN Goto(r, next) ELSE End(r)
  /\ UNCHANGED <<rows, charge, history>>

\* Faulty variant: pays whatever the status.
StartPayUnchecked(r) == run[r].kind = "pay" /\ Decide(r, "start", TRUE, "balance")

StartPay(r) ==
  run[r].kind = "pay" /\ Decide(r, "start", status = "REQUESTED", "balance")

CheckBalance(r) == Decide(r, "balance", wallet >= 1, "debit")

Debit(r) ==
  /\ run[r].at = "debit"
  /\ wallet' = wallet - 1
  /\ debits' = debits + 1
  /\ Goto(r, "status")
  /\ UNCHANGED <<status, held, refunded, event, charge, bought, applied, overlap,
                 crashes>>

StartVerify(r) ==
  /\ run[r].kind = "verify"
  /\ Decide(r, "start", charge[run[r].charge] = "collected", "status")

StartWebhook(r) ==
  /\ run[r].kind = "webhook"
  /\ Decide(r, "start", run[r].charge \notin event, "record")

\* Faulty variant: answers Paystack once the event is on record.
RecordEventOnly(r) ==
  /\ run[r].at = "record"
  /\ event' = event \cup {run[r].charge}
  /\ End(r)
  /\ UNCHANGED <<status, held, refunded, wallet, charge, debits, bought, applied,
                 overlap, crashes>>

\* Creating the event row; the unique index makes the second of two creates throw.
RecordEvent(r) ==
  /\ run[r].at = "record"
  /\ IF run[r].charge \in event
     THEN End(r) /\ UNCHANGED <<event, applied>>
     ELSE /\ event' = event \cup {run[r].charge}
          /\ applied' = [applied EXCEPT ![run[r].charge] = @ + 1]
          /\ Goto(r, "status")
  /\ UNCHANGED <<status, held, refunded, wallet, charge, debits, bought, overlap,
                 crashes>>

\* confirmBookingPayment: 409 unless the booking awaits payment ...
CheckStatus(r) == Decide(r, "status", status = "REQUESTED", "existing")

\* Faulty variant: does not look for an earlier hold.
LookForHoldBlindly(r) == Decide(r, "existing", TRUE, "create")

\* ... nothing more to do if a hold of any status exists ...
LookForHold(r) == Decide(r, "existing", held + refunded = 0, "create")

\* ... else the hold, and then the status.
CreateHold(r) ==
  /\ run[r].at = "create"
  /\ held' = held + 1
  /\ bought' = IF run[r].kind = "pay" THEN bought + 1 ELSE bought
  /\ Goto(r, "paid")
  /\ UNCHANGED <<status, refunded, wallet, event, charge, debits, applied, overlap,
                 crashes>>

MarkPaid(r) ==
  /\ run[r].at = "paid"
  /\ status' = "PAID"
  /\ End(r)
  /\ UNCHANGED <<held, refunded, wallet, event, charge, history>>

StartAccept(r) ==
  run[r].kind = "accept" /\ Decide(r, "start", status = "PAID", "confirm")

MarkConfirmed(r) ==
  /\ run[r].at = "confirm"
  /\ status' = "CONFIRMED"
  /\ End(r)
  /\ UNCHANGED <<held, refunded, wallet, event, charge, history>>

StartDecline(r) ==
  run[r].kind = "decline" /\ Decide(r, "start", status = "PAID", "refund")

\* cancelBooking refunds only what its first read says was paid.
StartCancel(r) ==
  /\ run[r].kind = "cancel"
  /\ Decide(r, "start", status # "CANCELLED",
            IF status \in {"PAID", "CONFIRMED"} THEN "refund" ELSE "close")

\* refundAllHoldsForContext.
RefundHolds(r) ==
  /\ run[r].at = "refund"
  /\ held' = 0
  /\ refunded' = refunded + held
  /\ wallet' = wallet + held
  /\ Goto(r, "close")
  /\ UNCHANGED <<status, event, charge, history>>

MarkClosed(r) ==
  /\ run[r].at = "close"
  /\ status' = IF run[r].kind = "decline" THEN "DECLINED" ELSE "CANCELLED"
  /\ End(r)
  /\ UNCHANGED <<held, refunded, wallet, event, charge, history>>

\* The server dies: what was committed stays, the handlers are gone.
Crash ==
  /\ crashes < MaxCrashes
  /\ \E r \in Runs : run[r] # Idle
  /\ run' = [r \in Runs |-> Idle]
  /\ crashes' = crashes + 1
  /\ UNCHANGED <<rows, charge, debits, bought, applied, overlap>>

Step(r) ==
  \/ StartPay(r) \/ CheckBalance(r) \/ Debit(r)
  \/ StartVerify(r) \/ StartWebhook(r) \/ RecordEvent(r)
  \/ CheckStatus(r) \/ LookForHold(r) \/ CreateHold(r) \/ MarkPaid(r)
  \/ StartAccept(r) \/ MarkConfirmed(r)
  \/ StartDecline(r) \/ StartCancel(r) \/ RefundHolds(r) \/ MarkClosed(r)

Next ==
  \/ \E r \in Runs : Arrive(r) \/ Step(r)
  \/ \E c \in Charges : InitializeCharge(c) \/ CustomerPaysCharge(c)
  \/ Crash

Spec == Init /\ [][Next]_vars

\* A handler that runs is not suspended for ever.  Paystack redelivers; strong
\* fairness, because a free slot in Runs is the model's limit, not the server's.
FairSpec ==
  /\ Spec
  /\ \A r \in Runs : WF_vars(Step(r))
  /\ \A c \in Charges : SF_vars(\E r \in Runs : Deliver(r, c))

-----------------------------------------------------------------------------
(* Properties. *)

Quiet == \A r \in Runs : run[r] = Idle

\* A booking never counts as paid before its hold exists, whatever overlaps and
\* wherever the server dies: confirmBookingPayment creates the hold first.
PaidAfterHold == status \in {"PAID", "CONFIRMED"} => held + refunded >= 1

\* A payment tried again after a crash does not hold the money twice: the hold
\* that confirmBookingPayment finds stands for the first attempt.
OneHoldUnlessOverlap == ~overlap => held + refunded <= 1

\* With no overlap and no crash, a wallet payment is either refused before the
\* debit or ends in a hold.
DebitBuysHold == Quiet /\ ~overlap /\ crashes = 0 => debits = bought

\* However often and however concurrently Paystack delivers an event, it is
\* applied by one delivery at most (the unique eventRef).
WebhookAppliedOnce == \A c \in Charges : applied[c] <= 1

\* A card payment that was collected is applied in the end, or the booking has
\* moved on without it, as long as the server does not die.
CollectedIsApplied ==
  \A c \in Charges : (charge[c] = "collected") ~> (status # "REQUESTED" \/ crashes > 0)
=============================================================================
