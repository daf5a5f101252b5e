--------------------------- MODULE WalletDeposits ---------------------------
(***************************************************************************)
(* Money put into one wallet, and feature boosts bought for its vendor,    *)
(* await by await: card payments confirmed by verifyPayment and by the     *)
(* webhook (payments.controller.js), bank transfers an admin confirms or   *)
(* rejects (manualPayments.service.js), boosts paid from the wallet, and   *)
(* the adjustments of an admin (admin.controller.js).  The server runs any *)
(* number of handlers at once and may die between any two steps.  Every    *)
(* payment is of one unit of money, so that the balance counts payments.   *)
(***************************************************************************)
EXTENDS Integers, FiniteSets, FiniteSetsExt, Functions, Sequences

CONSTANTS
  Runs,        \* bound: handlers running at a time
  Charges,     \* identities of card payments
  Requests,    \* identities of ManualPaymentRequest rows
  Orders,      \* identities of requests that move the wallet's money at once
  PlanOf,      \* for how long the boost of a payment is: FEATURE_BOOST_DURATIONS_MS
  Dates,       \* dates an admin enters
  MaxCredits,  \* bound: credits of one payment, to keep verifications finite
  MaxEdits,    \* bound: edits of a boost by an admin
  MaxCrashes   \* bound: deaths of the server

ASSUME DepositAssumption ==
  /\ IsFiniteSet(Runs)
  /\ Charges \cap Requests = {}
  /\ Orders \cap (Charges \cup Requests) = {}
  /\ Dates \subseteq Nat \ {0}
  /\ MaxCredits \in Nat /\ MaxEdits \in Nat /\ MaxCrashes \in Nat

ASSUME PlanAssumption == PlanOf \in [Charges \cup Requests \cup Orders -> Nat \ {0}]

References == Charges \cup Requests \cup Orders

\* metadata.purpose.
Purposes == {"WALLET_DEPOSIT", "FEATURE_BOOST_PAYMENT"}

VARIABLES
  charge,     \* Paystack's record of the card payments
  request,    \* ManualPaymentRequest.status
  event,      \* charges that have a PaymentWebhookEvent row
  balance,    \* Wallet.balanceKobo
  log,        \* the Transaction rows that carry a reference, credits minus debits
  purpose,    \* what the payment of a reference is for
  given,      \* how many FeatureBoost rows a payment has led to
  boosts,     \* FeatureBoost.endAt, in the order of their creation
  featured,   \* VendorProfile.featuredUntil, 0 when null
  run,        \* the handlers in progress
  byWebhook,  \* history: credits of a charge made by webhook deliveries
  shaken,     \* history: transfers and orders whose handlers overlapped or were cut short
  unlogged,   \* history: credits minus debits cut short before their row
  torn,       \* history: a boost's two rows were cut apart, or edited by two at once
  edits,
  crashes

money == <<balance, log>>
boost == <<given, boosts, featured>>
rows == <<request, event, money, boost>>
history == <<byWebhook, shaken, unlogged, torn, edits, crashes>>
vars == <<charge, purpose, rows, run, history>>

Kinds == {"verify", "webhook", "confirm", "reject", "wallet", "grant", "deduct",
          "extend", "edit"}
NoReference == "no reference"

ASSUME NoReferenceAssumption == NoReference \notin References

Steps == {"idle", "start", "record", "credit", "row", "debit", "debited",
          "feature", "boost", "end", "vendor", "confirmed", "rejected"}
\* A handler: "until" is the date it writes, "nth" the boost an admin edits.
Idle == [kind |-> "verify", ref |-> NoReference, at |-> "idle", until |-> 0, nth |-> 0]

Ends == Range(PlanOf) \cup Dates

TypeOK ==
  /\ charge \in [Charges -> {"none", "started", "collected"}]
  /\ request \in [Requests -> {"NONE", "PENDING", "CONFIRMED", "REJECTED"}]
  /\ event \subseteq Charges
  /\ balance \in Int
  /\ log \in [References -> Int]
  /\ purpose \in [References -> Purposes \cup {"none"}]
  /\ given \in [References -> Nat]
  /\ boosts \in Seq(Ends)
  /\ featured \in Ends \cup {0}
  /\ run \in [Runs -> [kind : Kinds, ref : References \cup {NoReference}, at : Steps,
                       until : Ends \cup {0}, nth : 0 .. Len(boosts)]]
  /\ byWebhook \in [Charges -> Nat]
  /\ shaken \subseteq Requests \cup Orders
  /\ unlogged \in Int
  /\ torn \in BOOLEAN
  /\ edits \in 0 .. MaxEdits
  /\ crashes \in 0 .. MaxCrashes

Init ==
  /\ charge = [c \in Charges |-> "none"]
  /\ request = [m \in Requests |-> "NONE"]
  /\ event = {}
  /\ balance = 0
  /\ log = [ref \in References |-> 0]
  /\ purpose = [ref \in References |-> "none"]
  /\ given = [ref \in References |-> 0]
  /\ boosts = <<>>
  /\ featured = 0
  /\ run = [r \in Runs |-> Idle]
  /\ byWebhook = [c \in Charges |-> 0]
  /\ shaken = {}
  /\ unlogged = 0
  /\ torn = FALSE
  /\ edits = 0
  /\ crashes = 0

-----------------------------------------------------------------------------
(* Requests. *)

\* Runs in progress for a payment.
Working(ref) == {r \in Runs : run[r].ref = ref}
At(step) == {r \in Runs : run[r].at = step}

\* A reference at Paystack ...
InitializeCharge(c, for) ==
  /\ charge[c] = "none"
  /\ charge' = [charge EXCEPT ![c] = "started"]
  /\ purpose' = [purpose EXCEPT ![c] = for]
  /\ UNCHANGED <<rows, run, history>>

CustomerPaysCharge(c) ==
  /\ charge[c] = "started"
  /\ charge' = [charge EXCEPT ![c] = "collected"]
  /\ UNCHANGED <<purpose, rows, run, history>>

\* ... or a request for an admin.
CreateRequest(m, for) ==
  /\ request[m] = "NONE"
  /\ request' = [request EXCEPT ![m] = "PENDING"]
  /\ purpose' = [purpose EXCEPT ![m] = for]
  /\ UNCHANGED <<charge, event, money, boost, run, history>>

InitializeWalletDeposit ==
  \/ \E c \in Charges : InitializeCharge(c, "WALLET_DEPOSIT")
  \/ \E m \in Requests : CreateRequest(m, "WALLET_DEPOSIT")

InitializeFeatureBoostPayment ==
  \/ \E c \in Charges : InitializeCharge(c, "FEATURE_BOOST_PAYMENT")
  \/ \E m \in Requests : CreateRequest(m, "FEATURE_BOOST_PAYMENT")

\* A handler starts on a payment somebody knows the reference of.
Begin(r, kind, ref) ==
  /\ run[r] = Idle
  /\ purpose[ref] # "none"
  /\ log[ref] + given[ref] + Cardinality(Working(ref)) < MaxCredits
  /\ run' = [run EXCEPT ![r] = [Idle EXCEPT !.kind = kind, !.ref = ref, !.at = "start"]]
  /\ shaken' = IF Working(ref) # {} THEN shaken \cup ({ref} \ Charges) ELSE shaken
  /\ UNCHANGED <<charge, purpose, rows, byWebhook, unlogged, torn, edits, crashes>>

\* Paystack delivers, and redelivers, the event of a charge it has collected.
Deliver(r, c) == charge[c] = "collected" /\ Begin(r, "webhook", c)

\* A request that moves the wallet's money in its own handler, once.
Order(r, o, kind, for, step) ==
  /\ run[r] = Idle
  /\ purpose[o] = "none"
  /\ purpose' = [purpose EXCEPT ![o] = for]
  /\ run' = [run EXCEPT ![r] = [Idle EXCEPT !.kind = kind, !.ref = o, !.at = step]]
  /\ UNCHANGED <<charge, rows, history>>

\* initializeFeatureBoostPayment from the wallet.
BuyBoost(r, o) == Order(r, o, "wallet", "FEATURE_BOOST_PAYMENT", "start")

\* adjustUserWallet: an admin credits or debits the wallet.
AdjustWallet(r, o) ==
  \/ Order(r, o, "grant", "WALLET_DEPOSIT", "credit")
  \/ Order(r, o, "deduct", "WALLET_DEPOSIT", "start")

\* extendSubscription reads the boost with its vendor, whose date follows the
\* edit unless it is later than the boost's.
StartExtend(r, n, date) ==
  /\ run[r] = Idle
  /\ edits < MaxEdits
  /\ edits' = edits + 1
  /\ torn' = (torn \/ \E other \in Runs : run[other].nth = n)
  /\ run' = [run EXCEPT ![r] =
       [Idle EXCEPT !.kind = IF featured <= boosts[n] THEN "extend" ELSE "edit",
                    !.at = "end", !.until = date, !.nth = n]]
  /\ UNCHANGED <<charge, purpose, rows, byWebhook, shaken, unlogged, crashes>>

Arrive(r) ==
  \/ \E c \in Charges : Begin(r, "verify", c) \/ Deliver(r, c)
  \/ \E m \in Requests : Begin(r, "confirm", m) \/ Begin(r, "reject", m)
  \/ \E o \in Orders : BuyBoost(r, o) \/ AdjustWallet(r, o)
  \/ \E n \in DOMAIN boosts, date \in Dates : StartExtend(r, n, date)

-----------------------------------------------------------------------------
(* Steps of the handlers. *)

Goto(r, step) == run' = [run EXCEPT ![r].at = step]
End(r) == run' = [run EXCEPT ![r] = Idle]

\* The answer to the first question a handler asks decides whether it goes on.
Decide(r, ok, next) ==
  /\ run[r].at = "start"
  /\ IF ok THEN Goto(r, next) ELSE End(r)
  /\ UNCHANGED <<charge, purpose, rows, history>>

\* applyVerifiedPayment: the purpose in the metadata says what has been paid for.
Apply(r) == IF purpose[run[r].ref] = "WALLET_DEPOSIT" THEN "credit" ELSE "feature"

\* verifyTransaction tells that the charge was collected.
StartVerify(r) ==
  /\ run[r].kind = "verify"
  /\ Decide(r, charge[run[r].ref] = "collected", Apply(r))

StartWebhook(r) ==
  /\ run[r].kind = "webhook"
  /\ Decide(r, run[r].ref \notin event, "record")

\* Faulty variant: confirms what has been decided already.
StartConfirmAny(r) ==
  /\ run[r].kind = "confirm"
  /\ Decide(r, request[run[r].ref] # "NONE", Apply(r))

StartConfirm(r) ==
  /\ run[r].kind = "confirm"
  /\ Decide(r, request[run[r].ref] = "PENDING", Apply(r))

StartReject(r) ==
  /\ run[r].kind = "reject"
  /\ Decide(r, request[run[r].ref] = "PENDING", "rejected")

\* Faulty variant: the event reference is not unique.
RecordEventAgain(r) ==
  /\ run[r].at = "record"
  /\ event' = event \cup {run[r].ref}
  /\ Goto(r, Apply(r))
  /\ UNCHANGED <<charge, purpose, request, money, boost, history>>

\* Creating the event row; the unique index makes the second of two creates throw.
RecordEvent(r) ==
  /\ run[r].at = "record"
  /\ IF run[r].ref \in event
     THEN End(r) /\ UNCHANGED event
     ELSE event' = event \cup {run[r].ref} /\ Goto(r, Apply(r))
  /\ UNCHANGED <<charge, purpose, request, money, boost, history>>

\* What a handler does once the payment is applied.
Applied(r) == IF run[r].kind = "confirm" THEN Goto(r, "confirmed") ELSE End(r)

CountWebhook(r) ==
  byWebhook' = IF run[r].kind = "webhook"
               THEN [byWebhook EXCEPT ![run[r].ref] = @ + 1] ELSE byWebhook

\* creditWallet: the increment of the balance ...
Credit(r) ==
  /\ run[r].at = "credit"
  /\ balance' = balance + 1
  /\ CountWebhook(r)
  /\ Goto(r, "row")
  /\ UNCHANGED <<charge, purpose, request, event, log, boost, shaken, unlogged, torn,
                 edits, crashes>>

\* Faulty variant: a confirmed transfer gets no Transaction row.
LogCreditOfCharge(r) ==
  /\ run[r].at = "row"
  /\ Applied(r)
  /\ log' = IF run[r].kind = "confirm" THEN log ELSE [log EXCEPT ![run[r].ref] = @ + 1]
  /\ UNCHANGED <<charge, purpose, request, event, balance, boost, history>>

\* ... and its Transaction row.
LogCredit(r) ==
  /\ run[r].at = "row"
  /\ log' = [log EXCEPT ![run[r].ref] = @ + 1]
  /\ Applied(r)
  /\ UNCHANGED <<charge, purpose, request, event, balance, boost, history>>

\* debitWallet: the check of a balance that may be stale when it is used ...
StartDebit(r) ==
  /\ run[r].kind \in {"wallet", "deduct"}
  /\ Decide(r, balance >= 1, "debit")

\* ... the decrement ...
Debit(r) ==
  /\ run[r].at = "debit"
  /\ balance' = balance - 1
  /\ Goto(r, "debited")
  /\ UNCHANGED <<charge, purpose, request, event, log, boost, history>>

\* Faulty variant: the handler ends with the debit.
LogDebitOnly(r) ==
  /\ run[r].at = "debited"
  /\ log' = [log EXCEPT ![run[r].ref] = @ - 1]
  /\ End(r)
  /\ UNCHANGED <<charge, purpose, request, event, balance, boost, history>>

\* ... and its Transaction row; a boost follows when one has been paid for.
LogDebit(r) ==
  /\ run[r].at = "debited"
  /\ log' = [log EXCEPT ![run[r].ref] = @ - 1]
  /\ IF run[r].kind = "wallet" THEN Goto(r, "feature") ELSE End(r)
  /\ UNCHANGED <<charge, purpose, request, event, balance, boost, history>>

\* confirmFeatureBoostPayment: the vendor is featured from now on for the plan's
\* time, whatever time was left; all payments are made within a plan's unit ...
FeatureVendor(r) ==
  /\ run[r].at = "feature"
  /\ featured' = PlanOf[run[r].ref]
  /\ CountWebhook(r)
  /\ run' = [run EXCEPT ![r].at = "boost", ![r].until = PlanOf[run[r].ref]]
  /\ UNCHANGED <<charge, purpose, request, event, money, given, boosts, shaken, unlogged,
                 torn, edits, crashes>>

\* ... and the FeatureBoost row says so.
CreateBoost(r) ==
  /\ run[r].at = "boost"
  /\ boosts' = Append(boosts, run[r].until)
  /\ given' = [given EXCEPT ![run[r].ref] = @ + 1]
  /\ Applied(r)
  /\ UNCHANGED <<charge, purpose, request, event, money, featured, history>>

\* Faulty variant: the vendor's date is left alone.
EndBoostOnly(r) ==
  /\ run[r].at = "end"
  /\ boosts' = [boosts EXCEPT ![run[r].nth] = run[r].until]
  /\ End(r)
  /\ UNCHANGED <<charge, purpose, request, event, money, given, featured, history>>

\* extendSubscription: the boost's date ...
EndBoost(r) ==
  /\ run[r].at = "end"
  /\ boosts' = [boosts EXCEPT ![run[r].nth] = run[r].until]
  /\ IF run[r].kind = "extend" THEN Goto(r, "vendor") ELSE End(r)
  /\ UNCHANGED <<charge, purpose, request, event, money, given, featured, history>>

\* ... and the vendor's.
EndFeature(r) ==
  /\ run[r].at = "vendor"
  /\ featured' = run[r].until
  /\ End(r)
  /\ UNCHANGED <<charge, purpose, request, event, money, given, boosts, history>>

MarkConfirmed(r) ==
  /\ run[r].at = "confirmed"
  /\ request' = [request EXCEPT ![run[r].ref] = "CONFIRMED"]
  /\ End(r)
  /\ UNCHANGED <<charge, purpose, event, money, boost, history>>

MarkRejected(r) ==
  /\ run[r].at = "rejected"
  /\ request' = [request EXCEPT ![run[r].ref] = "REJECTED"]
  /\ End(r)
  /\ UNCHANGED <<charge, purpose, event, money, boost, history>>

\* The server dies: what was committed stays, the handlers are gone.
Crash ==
  /\ crashes < MaxCrashes
  /\ \E r \in Runs : run[r] # Idle
  /\ crashes' = crashes + 1
  /\ shaken' = shaken \cup {ref \in Requests \cup Orders : Working(ref) # {}}
  /\ unlogged' = unlogged + Cardinality(At("row")) - Cardinality(At("debited"))
  /\ torn' = (torn \/ At("boost") \cup At("vendor") # {})
  /\ run' = [r \in Runs |-> Idle]
  /\ UNCHANGED <<charge, purpose, rows, byWebhook, edits>>

Step(r) ==
  \/ StartVerify(r) \/ StartWebhook(r) \/ StartConfirm(r) \/ StartReject(r)
  \/ StartDebit(r) \/ RecordEvent(r)
  \/ Credit(r) \/ LogCredit(r) \/ Debit(r) \/ LogDebit(r)
  \/ FeatureVendor(r) \/ CreateBoost(r) \/ EndBoost(r) \/ EndFeature(r)
  \/ MarkConfirmed(r) \/ MarkRejected(r)

Next ==
  \/ InitializeWalletDeposit
  \/ InitializeFeatureBoostPayment
  \/ \E c \in Charges : CustomerPaysCharge(c)
  \/ \E r \in Runs : Arrive(r) \/ Step(r)
  \/ Crash

Spec == Init /\ [][Next]_vars

-----------------------------------------------------------------------------
(* Properties. *)

\* What the Transaction rows add up to.
Posted == {ref \in References : log[ref] # 0}
Logged == MapThenSumSet(LAMBDA ref : log[ref], Posted)

\* How often a payment was applied.
AppliedTimes(ref) == log[ref] + given[ref]

\* The ledger never runs ahead of the balance, and what it lacks is exactly the
\* credits and debits whose Transaction row is still to come, or was cut off by a
\* crash (creditWallet and debitWallet write the balance first, outside a
\* transaction).
LogTrailsBalance ==
  balance = Logged + unlogged + Cardinality(At("row")) - Cardinality(At("debited"))

\* However often and however concurrently Paystack delivers an event, and
\* wherever the server dies, the webhook applies it once at most (the unique
\* eventRef, and the row that is written before the money moves).
WebhookCreditsOnce == \A c \in Charges : byWebhook[c] <= 1

\* A bank transfer is applied exactly once if an admin confirmed it and not at
\* all if one rejected it, as long as nobody decided at the same time and no
\* decision was cut short by a crash.
RequestSettledOnce ==
  \A m \in Requests \ shaken :
    /\ AppliedTimes(m) <= 1
    /\ request[m] = "CONFIRMED" => AppliedTimes(m) = 1
    /\ request[m] = "REJECTED" => AppliedTimes(m) = 0

\* Nobody gets a boost from the wallet without its debit, and nobody is debited
\* without it, unless the handler is still at work or was cut short by a crash
\* (the debit and the boost are not one transaction).
DebitBuysBoost ==
  \A o \in Orders \ shaken :
    (purpose[o] = "FEATURE_BOOST_PAYMENT" /\ Working(o) = {}) => log[o] + given[o] = 0

\* The comment at extendSubscription: the vendor's date and its boosts' stay in
\* lockstep.  However payments and an admin's edit interleave, a vendor is
\* featured until the end of one of its boosts, unless a handler is between the
\* two rows it writes or died there, or two admins edited one boost at a time.
FeaturedUntilSomeBoost ==
  (~torn /\ At("boost") \cup At("vendor") = {}) => featured \in Range(boosts) \cup {0}

\* The comment at verifyPayment: a Paystack reference can only fund one wallet
\* credit.
OneReferenceOneCredit == \A c \in Charges : log[c] <= 1
=============================================================================
