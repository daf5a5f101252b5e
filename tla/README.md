# Handa backend: a verification project

TLA+ models of the parts of the Handa backend that move money and decide who
gets it, TLC runs that check them on small instances, and TLAPS proofs for every
value of the constants. Paths below are relative to the repository; line numbers
are in `PROJECT.json`, whose `map` gives the source of every definition.

Contents: 1 the system, 2 the models, 3 the runs, 4 the proofs, 5 where the code
and its comments disagree, 6 what is not modelled, 7 the plan.

## 1. The system

One Node process: Express handlers, a Socket.IO server (`src/realtime/live.js`),
Postgres through Prisma, Paystack for cards and transfers. Requests run in no
order of their own: every `await` is a point where another handler, the socket or
a timer can run. Prisma's transactions run at Postgres' default isolation, READ
COMMITTED. `live.js` starts ten sweeps, each with a timer of its own (`setInterval`, every
five minutes), so that two of them can overlap as handlers do. The process can be restarted
at any point; only the database survives.

| component | state | operations | what makes it hard | what makes it correct |
|---|---|---|---|---|
| **Escrow service** `services/escrow.service.js` | `EscrowHold` rows (HELD, RELEASED, REFUNDED, DISPUTED; amount; autoReleaseAt) | release, partial release, refund, dispute, resolve, sweep | read, check and update by id are three statements; no row lock | every kobo leaves a hold once; nothing moves while DISPUTED |
| **Wallet service** `services/wallet.service.js` | `Wallet.balanceKobo`, `Transaction` rows | credit, debit | check-then-decrement; two statements without a transaction | balances equal their ledger; no overdraft |
| **Bookings** `controllers/bookings.controller.js` | `Booking` (status, price, released, pending edit, pending top-up, two completion flags), its hold, its tickets | pay, edit, accept, decline, cancel, engage, end conversation, staged release, top-up, start, complete, answer, dispute | long mixes of legal calls; edits against escrow; sweeps against decisions | hold = price - released; the vendor gets the price once; the price freezes at start |
| **Order flow** `services/orderFlow.service.js` | none of its own | `confirmBookingPayment` and its siblings for sessions, `applyTransferWebhook` | called by verify, webhook, wallet and admin, for the same payment | idempotence |
| **Payments** `controllers/payments.controller.js` | `PaymentWebhookEvent` | verify, webhook | events repeat, arrive concurrently, and are recorded before they are applied | a payment is applied once |
| **Manual bank transfers** `services/manualPayments.service.js` | `ManualPaymentRequest` | create, confirm, reject | two admins; cut off half way | confirmed = credited once, rejected = never |
| **Withdrawals** `controllers/wallet.controller.js` | `Withdrawal` | request, transfer events | a lost answer looks like a refusal; events before the code they are found by | money leaves or comes back, never both |
| **Support tickets** `controllers/support.controller.js` | `SupportTicket` | file, investigate, resolve | decisions from any state of the booking | a frozen hold moves only by a decision |
| **Booking reminders** `services/bookingReminders.service.js` | flags on `Booking` | reminders, auto-completion of event bookings | racing the customer's answer | completes and pays once |
| **Shop-For-Me** `controllers/shopSessions.controller.js` | `ShopSession`, items, deposit, three kinds of hold, seller payouts, away votes | search, match, call, approve, pay, package, find rider, deliver, hand over, confirm, cancel, emergency end | the largest machine of the repository; shopper, rider and customer race; refunds of "what is left" | a deposit is spent or refunded once |
| **Event requests** `controllers/eventRequests.controller.js` | `EventRequest`, `EventProposal` | propose, accept, decline, cancel | every handler reads first and writes by id; acceptances race | one booking per request; the losers are told |
| **Support chat** `controllers/chat.controller.js`, the chat handlers of `admin.controller.js` | `ChatThread`, `ChatMessage` | open, post, AI reply, take over, close | the AI answers late; no unique key on a context | one open thread per context; closed and taken-over threads stay so |
| **Live socket** `realtime/live.js` | rooms and maps in memory | presence, location, call signalling, sweeps | a claim without a check | one admin per call |
| **Feature boosts** `controllers/payments.controller.js`, `orderFlow.service.js`, `admin.controller.js` | `FeatureBoost` rows, `VendorProfile.featuredUntil` | pay by card, transfer or wallet; edit | two rows in two statements, from two directions | the vendor's date is the end of one of its boosts |
| **Commission periods** `services/commission.service.js` | `CommissionPeriod` | mark overdue, pay | nothing in the repository makes one due | |
| Accounts, KYC, admin panel, catalogue, ratings, favourites, search, notifications, gateways, front end | one row per request | create, read, update | little | little |

How they interact: bookings, tickets, the sweeps and the order flow call the
escrow service; it, deposits, withdrawals and manual transfers call the wallet
service; verify, webhook and the manual transfers call the order flow, which
calls escrow. Nothing else connects them than these calls and the rows.

## 2. The models

    EscrowOps            statuses of a hold, commission arithmetic
      |- Booking         one booking, a handler per action      -> BookingProofs
      |- ShopSession     one Shop-For-Me session, a handler per action
                                                                 -> SessionAndChatProofs
      '- EscrowRace      transactions on one hold, step by step  -> EscrowRaceProofs
           '. refines .. EscrowContract
    BookingPayment       one booking's payment, await by await   -> BookingPaymentProofs
    WalletDeposits       one wallet's deposits and its vendor's boosts
                                                                 -> WalletAndListProofs
    WalletWithdrawals    one wallet's withdrawals                -> WalletWithdrawalsProofs
    ShopVisit            who works on a session, await by await  -> ShopVisitProofs
      '. refines ....... ShopJourney
    ShopList             its items and seller payouts, await by await
                                                                 -> WalletAndListProofs
    EventRequests        one event request, await by await       -> EventRequestsProofs
      '. refines ....... EventTender
    SupportChat          the chat of one context, await by await -> SessionAndChatProofs

The last two proof modules hold two components each, which share nothing but their
lemmas; `ShopList` and `SupportChat` name their specifications `ListSpec` and
`ChatSpec`.

Two grains are used on purpose. `Booking` and `ShopSession` take every handler as
one action and have all of them: they ask whether *sequences* of calls keep the money
right. The others take one statement per action and ask what *interleavings*,
failures and crashes do to the handlers that race for the same rows. Three of those
are shown to implement an abstract specification, which has no handlers at all,
until the first write that rests on a read that is no longer true.

**Conventions.** Names are the source's. A definition commented "faulty variant"
models no code: it is a plausible bug put beside the definition it would replace,
and shows that a property would notice it. Variables commented "history" or
"bookkeeping" model no row; guards never read them except to apply a named bound.

**Booking.** `booking`, `hold`, `ticket` are rows; `wallet` is the balance of the
two parties; `charge` stands for card payments and bank transfers, by identity,
from their initialization to their confirmation; `event` is where the clock is
relative to the event date. `kind` combines the booking's type and package, and
`viaProposal` says that an event request led to it. `ledger` counts what came
in from outside, commissions, closed disputes, admin adjustments, and `limbo`:
money collected whose booking is not yet marked. An action per handler:

| actor | actions |
|---|---|
| customer | `PayFromWallet`, `InitializeCharge`/`CustomerPaysCharge`, `UpdateBookingNow`, `ProposeEdit`, `ReleaseBookingPayment`, `ApproveAdditionalPayment`, `DeclineAdditionalPayment`, `ConfirmCompletion`, `DisputeCompletion` |
| vendor | `AcceptBooking`, `DeclineBooking`, `AcceptEditedBooking`, `DeclineEditedBooking`, `StartBookingJob`, `CompleteBooking`, `RequestAdditionalPayment` |
| either | `CancelBooking`, `EngageBooking`, `EndBookingConversation`, `CreateTicket` |
| system | `ChargeConfirmed`/`ChargeRefused`, `AutoRelease`, `AutoComplete`, `EventPasses` |
| admin | `InvestigateTicket`, `ShelveTicket`, `ResolveForPayee`, `ResolveForFiler` |

Where a handler throws after its first write, that outcome is an action of its
own (`ConfirmCompletionThrows`, `AutoCompleteThrows`). Two moves of money that
nothing backs are recorded in `mishap`, at the moment they happen: a charge taken
for another price than it was made for, and an edit of a booking whose hold is
already settled. `MoneyAccounted` and `VendorGetsThePrice` are about behaviours
without the mishap concerned; the code does reach both (section 5).

**EscrowRace.** `tx` holds transactions; each reads the hold (`Check`), increments
a wallet (`Credit`, taking the row's `lock`), and updates the hold and commits
(`Commit`), or is rolled back anywhere. What it writes is computed from `seen`,
the row it read. The two directions in which `reconcileBookingEditFinancials` moves
a hold when the price is edited, `raise` and `lower`, are operations beside those of
the service. `MaxOpen` bounds the transactions open at a time. `stale` records
that a commit rested on a read that was no longer true, `unbacked` that an edit met
a hold that was not HELD or took all of it.

**EscrowContract.** What a hold promises, without transactions: `owed`, `paid`,
`refunded`, `kept`, `added`, and a freeze that only a decision ends. The refinement
mapping is `owed` = the amount while HELD or DISPUTED, `frozen` = DISPUTED.

**ShopSession.** `session` is the row, `hold` the escrow holds by what they are
for: `fee` (`ensureShopperFeeHold`), `shortfall` (`confirmShopSessionShortfall`),
`offset` (`refundUnspentBudget`) and `rider` (`acceptDelivery`); the PLATFORM rows
a release leaves are computed from the released ones. `payout` sums the payouts to
sellers, `away` is who has left, `charge` a payment outside the wallet, confirmed at
any later time, once or twice. `ledger` counts what the customer paid in, what was
credited back without a hold, what a ticket closed and what the sellers were sent. The list
of items is kept as the total of the approved ones (`ShopList` has the items), with
`repriced` for an approved item that has got a new price since: the next reset may then
write a larger total, and no budget is compared with it. A payout is an amount sent to one
seller and an allotment below zero that made room for it, or none; it is cash, a transfer
under way, or a transfer that went out and whose answer was lost (FAILED in the database).
`MaxSent` bounds what the sellers are sent. An action per handler:

| actor | actions |
|---|---|
| customer | `PaySession`, `TopUpItems`, `PayRiderFeeTopUp`, `PayShopSessionShortfall`, `InitializeCharge`, `ApproveItem`, `ResetItemPricing`, `ConfirmEmergencyEnd`, `DeclineEmergencyEnd`, `ConfirmSession`, `LeaveSearch` |
| shopper | `MatchSession`, `StartCall`, `PriceItem`, `StartPackaging`, `RequestEmergencyEnd`, `FindRider`, `ConfirmSellerPayouts` |
| rider | `AcceptDelivery`, `MarkOutForDelivery`, `MarkDelivered` |
| any party | `CancelSession`, `MarkAway`, `Return` |
| system | `ChargeConfirmed`, `ChargeConfirmedAgain`, `TransferSucceeded`, `TransferFailed`, `AutoRelease`, `FinalizeAutoReleased`, `ExpireAbandoned`, `ExpireStaleSearching`, `ExpireStaleLive` |
| admin | `InvestigateTicket`, `ResolveForPayees`, `ResolveForFiler`, and `CancelSession` (`clearAllPendingSessions`) |

Guards on the goods (the confirm call, arrivals, the handover) are `ShopVisit`'s; this
module allows what they allow and more, and no property about money leans on them.
`mishap` records the unbalanced moves of money the code does make (section 5).

**ShopVisit.** The same session seen by the handlers that race for it. `Begin` is the
read that lets a handler in (`May` gathers the guards of all of them, by who asks for
what), and each write is a step of its own: `Overwrite` by id alone, `Swap` where the
code repeats the status in the condition of its `updateMany`. `run` holds what each
handler has still to do; `held`, `paid` and `settled` are the escrow side, without
amounts; `joined`, `callDone`, `handover` and `arrived` the columns of the confirm call
and the goods; `away` the votes. `stale` names the handlers that wrote what their read
no longer allowed. Two writers of the status come from elsewhere: `PayRiderFeeTopUp`, a
payment begun while the goods were packed, writes FINDING_RIDER by id whenever it is
reported, and again when it is reported again; `ResolveHolds` and `ResolveTicket`, a ticket
resolved without a refund, release every hold and then complete the session from any status
(`stale` notes it unless the session was delivered). `AutoRelease` takes any hold at any
time: a day may pass at any stage. The sweeps that end a session (`expireStaleSearching`,
`expireStaleLive`) and `confirmEmergencyEnd` refund first and cancel afterwards, the
others the other way round: both orders are kept.

**ShopJourney.** What the three parties of a session are promised: its stages one after
the other, one shopper and one rider who take it and keep it, an end that is final, and
no cancellation of what was delivered. The mapping is the identity on status and
parties.

**ShopList.** Items and seller payouts as rows, `total` as the column that handlers
write after adding up what they read (`aggregate`, then `total`). `approveItem` reads
the item, the session and the approved sum before it marks the item; a payout reads the
paid sum (`cap`) before it creates its row, and one request allots any amounts, negative ones
included, to one seller or two. A payout in cash is PAID at once; a transfer is taken on,
refused (FAILED), or goes out unanswered, which the database also calls FAILED and the model
LOST: its events find no payout, since its code was never saved. `Fail` cuts
a handler off at any step. `off` records that the total need no longer be that of the
list, `mishap` what a rule may have been broken by, `agreed` the prices the customer was
shown, `most` the largest total of those so far.

**EventRequests, EventTender.** The request, its proposals and the bookings made of
them; a submission, acceptance, decline or cancellation is a read or two and a write,
and a Prisma transaction is one step. `PayBooking` is the order flow's lookup of the
proposal, by the column that acceptances overwrite. The tender knows open, standing bids
and signed contracts: `open` = OPEN, `standing` = the PENDING proposals, `signed` = the
bookings with their proposals.

**SupportChat.** The threads of one context, which is one of four kinds. An opening
looks for a thread and creates one in separate steps; a message is a row, then the AI
path of `maybeSendAiReply` (look, its user, the answer, the second look, the write); an
admin joins, writes and, having read that nobody had the thread, stamps it; the end of a
booking closes the one thread it finds. `crossed` says that two openings both created,
`failed` that the end's clean-up was cut off, `left` which threads that end found;
`sealed` and `human` are the threads that are closed, or an admin's, with nothing under
way that had passed its check.

**BookingPayment, WalletDeposits.** `run` is the set of handlers in progress, each
with its next step; `Begin` is the arrival of a request, `Crash` ends all of them.
Money is counted in payments. The webhook's event row is `event`; its unique index
is what `RecordEvent` tests. In `WalletDeposits` the purpose of a payment is a deposit
or a feature boost; a boost is the vendor's date (`feature`) and its row (`boost`), an
order from the wallet a debit, its `Transaction` row and the boost, and an admin's edit
moves `FeatureBoost.endAt` and, where it was the vendor's date, that too. `shaken` names
payments whose handlers overlapped or were cut short, `torn` says that a boost's two
rows were cut apart or edited by two admins at a time.

**WalletWithdrawals.** `request` is where the handler of a withdrawal is,
`transfer` Paystack's view of it, `delivery` the webhook deliveries in progress;
Paystack may repeat and reorder the events of a transfer, which carry one
reference.

## 3. The runs

| run | module, cfg | shows |
|---|---|---|
| `booking` | MCBooking | the money invariants of every handler sequence; the price freezes at start; a timed hold leaves HELD |
| `escrow_race` | MCEscrowRace | three transactions at a time: they implement `EscrowContract`, and money is counted right, up to the first commit that rested on a stale read or an unbacked edit |
| `payment` | MCBookingPayment | one hold unless handlers overlap; a debit buys a hold; a collected payment is applied |
| `deposits` | MCWalletDeposits | the ledger trails the balance by what is in flight or was cut off; the webhook credits once; a bank transfer is settled once; a debit buys a boost; the vendor is featured until the end of one of its boosts |
| `withdrawals` | MCWalletWithdrawals | not both paid and restored once tracked, no overdraft without overlap; a late failure is restored |
| `session` | MCShopSession | a session paid from the wallet, with disputes and departures: nothing is paid twice, nothing stays behind, payees get their fees |
| `session_charges` | MCShopSession, MCShopSessionCharges.cfg | a session with a payment confirmed late or twice, with items priced again and reset, and payouts with amounts below zero: nothing stays HELD behind an end, holds and payouts fit the deposit, nobody is overpaid, every session ends |
| `visit` | MCShopVisit | handlers of one session interleaved: the journey is kept until a stale write by id or a ticket that completes what was not delivered, the money is settled once, two that leave together end it, the shopper's fee is held whichever of payment and match comes first |
| `list` | MCShopList | items, approvals and payouts interleaved: the total is that of the approved items, they fit the deposit at the prices shown, and the sellers never get more than was agreed, transfers without an answer counted in |
| `event_requests` | MCEventRequests | handlers of one request interleaved: it is a tender until a stale write, and only a stale acceptance makes a second booking |
| `chat` | MCSupportChat | openings, messages, AI replies, takeovers and closings interleaved, for each kind of thread: one open thread, closed and taken-over threads stay so, the end of a booking closes its chat |
| `deposits_twice` | MCWalletDeposits, MCWalletDepositsTwice.cfg | a violation, section 5 |

**Bounds, and why they are enough.** `booking`: two prices and one slice that does
not divide them, so that edits go both ways, a release can leave a rest and the
wallet (10) can and cannot afford the next step; one charge and one ticket, since
no handler looks at two; all three kinds. `MaxAdjust` caps admin refunds, which
the code does not. `escrow_race`: three transactions, enough for a stale read of a
stale read; parts 1 and 2 of 3, so that parts can exhaust the hold or not.
`payment`: two handlers at a time (`Runs`) in unlimited succession, because every race
here is between a read and a write of two handlers; one crash (`MaxCrashes`).
`deposits`: two handlers, one payment of each kind; the card pays for the longer of two
plans and `Dates` lies on both sides of it, so that a boost or an edit can shorten
another; `MaxCredits` caps the credits of one payment, which the code does not
(section 5), `MaxEdits` an admin's edits. `withdrawals`: two requests on a wallet that
can afford one, two deliveries at a time in unlimited succession, one crash.
`session`: a call that stays at the first tier or not, a rider estimate above the
fee of the start, a budget and approved totals that use it or not, and `MaxPaid`,
which lets the customer pay the deposit and one thing more (a top-up, a shortfall,
not a second deposit); one payout amount, since the cap is on a sum.
`session_charges`: one charge of any purpose; departures and disputes are in `session`, and
so are transfers and lost answers, which need one slice only. Here payouts are cash: totals
of one or two slices, so that a reset after a new price can go past the deposit; a negative
allotment (`Negatives`) as large as a slice; and room (`MaxSent`) for the second slice, the one
too many. `visit`: two handlers at a time in unlimited succession, two shoppers and two
riders, so that both can be taken over; `MaxHolds` allows a second hold of one payee;
after the first stale write (`MaxStale`) no handler begins, those in progress finish.
`list`: two items at a price of 1, at which both fit only after the top-up, and one of 3,
which never fits and gets into the total by a new price alone; a call dearer than its
estimate and a top-up; two payouts, one unit to pay or to take back
per allotment (`Allotments`); `MaxMishaps` and `MaxDeposit` stop what has gone wrong from
going on. `event_requests`: three handlers, enough for two acceptances and a
cancellation; three proposals of two planners, two bookings. `chat`: two threads, two
admins, two handlers; a third message is only begun while fewer than two are there
(`MaxMessages`).

**Deadlock.** Checked where something can always happen (`payment`, and
`EscrowRace`, whose end is the explicit step `Done`). Everything else does end: bookings,
sessions, withdrawals and requests because all is settled and nobody has a move left, and
deposits, lists and chats when their bounded payments, rows or messages are used up; those
cfgs say `CHECK_DEADLOCK FALSE`.

**Symmetry** is used where a run has safety properties only, over identities that
differ in nothing else. `visit` also has a **view**: it does not tell states apart by
`paid` and `heard`, two histories that no action and no property of that run reads (the
theorems that need them are proved, not checked).

**Fairness, and why the code justifies it.** `Booking`: weak fairness of
`AutoRelease`, the sweep that `setInterval` repeats while the server lives, and of
nothing else: no user or admin is assumed to act. `ShopSession`: the same sweep,
`finalizeAutoReleasedSessions`, `expireStaleSearchingSessions` and
`expireStaleLiveSessions`, which `live.js` repeats in the same way; that their cutoffs
pass is time passing. `BookingPayment` and `WalletWithdrawals`: a handler that
has begun goes on (weak fairness of its steps), while the server lives; and
Paystack delivers the events of what it has done. That is strong fairness only
because the model has a limited number of slots for handlers, the server has not.
Their liveness properties excuse crashes (`crashes > 0`): after one, the event row
is there and the payment is not, and nothing in the code looks again. The other
modules assume no fairness.

## 4. The proofs

All statements hold for every value of the constants allowed by the assumptions
named in the modules: amounts are naturals, prices and slices positive, identities
distinct where the database keeps them apart, sets of handlers or transactions finite
where they are counted. The first tier's fee, `MinFee`, is positive and no tier is below it;
`Fee <= Deposit` of the list is what `paySession` charges: both fees and a budget
(`shopSessions.controller.js`:544). Bounds (`MaxCredits`, `MaxHolds`, ...) are arbitrary. The
theorems are listed in `PROJECT.json`; most state a property that a run checks.

**BookingProofs**: `TypeCorrect`, `HoldFollowsPrice`, `MoneyConserved`,
`VendorPaidOnce`, `FundedFirst`, `NothingLeftHeld`, and the action properties
`PriceFrozen`, `FrozenUntilDecided`. They share one inductive invariant `IInv`: the
type invariant, the checked invariants, and two facts none of them states.
`RequestedHasNoHold` (awaiting payment means no hold, and no hold means nothing
released) is needed because a payment *overwrites* the hold of the model: without
it the step would lose money. `StartedHasNoEdit` (no pending edit survives the
start) is what makes `PriceFrozen` inductive: `AcceptEditedBooking` does not look
at the start. The proof has one lemma per escrow operation (full release, refund,
partial release, payment, reconciliation, freeze), each showing that it preserves
the money part of `IInv`, and one step per action that cites them.

**EscrowRaceProofs**: `RaceTypeCorrect` and `StaleReadsOnly` for any number of
transactions, from the invariant `Sound`: what a transaction checked is true of
the row it *saw*, so a commit that is not stale does what the check allowed.
`KeepsContract` is the refinement of `EscrowContract` up to the first stale commit or
unbacked edit, for any `MaxOpen`; `SerialImplementsContract` assumes `MaxOpen = 1`, adds
`Serial` (at most one transaction is open and what it read is what is there) and gets
the whole contract.

**BookingPaymentProofs**: `HeldBeforePaid`, `HeldTwiceByOverlap`, `DebitMeansHold`,
`AppliedByWebhookOnce`. `Alone` says that while nothing overlaps the one handler there is
finds what it read; `Paying` follows the debit of a wallet payment to its hold, which is
where a booking may be REQUESTED and held at once.

**WalletAndListProofs, deposits**: `EventAppliedOnce`, `TransferSettledOnce`,
`DebitMeansBoost`, `FeaturedByBoost`, `LogTrailsBalanceHolds`. `Counted`: a delivery that
has recorded its event and not yet applied it is the only one of its charge. `Ordered` and
`Decided` tie the ledger of an order or a transfer to the one handler that works on it.
`Lockstep`: the vendor's date is the end of a boost that nobody is about to move, or a
handler is on its way to make one. `Balanced` adds to these that the payments with a
`Transaction` row are finitely many; each step changes the balance, one row or one
handler, and the handlers between the two writes are counted.

**WalletAndListProofs, sums.** The log and the list are added up with the folds of the
community modules. The module proves what such a sum is: a set of numbers that has 0
and, with a number, the next one, has all of them (the least number outside of it, from
the well-foundedness of `<`), so a set that has {} and, with a set, the set with one
element more, has every finite one (`ByElements`). A fold over a finite set is the value
of a table over its subsets, the table is the only one with its defining equation, and so
a sum grows by the value of an element that joins it (`SumWith`), shrinks by that of one
that leaves (`SumWithout`), follows one value that changes (`SumChanges`) and is bounded
by another that is larger throughout (`SumAtMost`).

**WalletAndListProofs, the list**: `TotalIsApprovedHolds`, `ApprovedFitDepositHolds`,
`ApprovedAsShownHolds`, `SellersGetWhatWasAgreedHolds`, for any number of items, handlers
and payouts. `ListInv` is inductive. `TotalFollows`: the total is right, or in doubt, or
somebody is about to write it. `ShownPrices`, `AgreedPrices`, `NeverReset`: an approval
under way has shown the price of its item, or of one that was sent back meanwhile.
`BudgetFits`: an approval that has found room still has it, since every other approval
names a mishap and every other call only makes room. `TotalAgreed`, `PayoutsFit`: nothing
a handler has read as a total, wrote as one, paid or is about to pay exceeds the most the
customer agreed to. `Received` counts the transfers that went out unanswered; a request at
work has room for what it still has to pay (`Due`), and as long as nothing went wrong no
amount is below zero, so that to pass over a seller or to be refused only makes room. Lemmas
for whole groups of steps keep the proof short: those that move only a handler
(`WorkOnlyInv`), those that touch no item (`AmountsInv`), those that take an item off the
approved (`ItemLeavesInv`), those that leave the payouts alone (`PayingKept`).

**SessionAndChatProofs, sessions**: `TypeCorrect` and the five invariants of `session` and
`session_charges`, from one `IInv`. It is about three moments. Before a match nothing but
deposit and list can change (`UnmatchedIsBlank`), and a call is priced when it ends
(`CallIsUnpriced`). While the session is open, `FeesCovered` says where the collected fee
is (the fee hold, the shortfall, the offset) and that it fits into the deposit with the
rider fee and the list, or with what the sellers have. Once it has ended, `Balanced`
and `Settled` compare what went out with what was paid in: a refund is computed from the
deposit and the holds, so neither is inductive without `FeesCovered`. Each way to end a
session has a lemma of its own. `CollectedWithinFees` (no more is collected for a fee than
the fee) shows that the refund of a surplus in `findRider` is never reached, as its comment
expects (975-981). `SellersSent` ties what the sellers were sent to the rows that count as
paid: they agree until an allotment below zero or a lost answer. `AllocationsFitDeposit` does
not excuse a payment applied twice, so it holds then as well. All amounts and the number of payments are arbitrary.

**SessionAndChatProofs, chats**: `OneOpenThreadHolds`, `EndedBookingClosesChatHolds`,
`SealedIsSilentHolds`, `TakenOverForGoodHolds`. `ChatInv`: while no two openings have
crossed, whoever is about to create a thread would create the only open one (`Alone`); the
thread the end of a booking found is closed, or its handler is on its way (`Closing`); no
handler is at work on a sealed thread, and on one an admin has, none is past a check that
would let it write for the AI or stamp (`SealedAtRest`, `HumanAtRest`). `Rested` is the
step: it leaves both kinds as they are, which gives the action properties.

**WalletWithdrawalsProofs**: `CreditedBackOnce`, `NotPaidTwice`, `FailedIsRestored`,
`OverdrawnByOverlap`. A request that has not ended was neither restored nor given a code
(`Underway`), so its catch block is the first to credit it back; of the deliveries for one
transfer one at most gets to apply (`AppliedAlone`), before any credit of the webhook
(`RestoredByEvent`).

**EventRequestsProofs**: `OneBooking`, `BookingMatches`, `NobodyWaits`,
`ConfirmedByPayment`, and the refinement `RequestsAreATender`. `Read` is what a handler
about to write has read, `OpenMeansUndecided` that an OPEN request has no booking and no
winner, `Linked` that a booking is found by its proposal unless a second acceptance of
that proposal took the column over.

**ShopVisitProofs**: the refinement `FollowsTheJourney`, and `MoneySettledOnce`,
`FeeSecured`, `NobodyLeftWaiting`, `MoneyForTheParty`, `GoodsAfterTheCall`,
`CancelledIsEmpty`. `IInv` has one part per question: handlers are on the path of their
operation (`Fits`), holds are for those on the session (`Parties`), a call that is done or
about to be was joined by the rider (`Called`), a cancelled session has a handler on its
way to the refund while a hold is left (`Emptied`), a fee that is due is held or about to
be (`FeeDue`), two that are away are being dropped (`Voted`). `MoneySettledOnce` needs a
count: until a stale write, settlements made and on the way are at most as many as the end of
the session and the ends still to be written (`Settling`; fewer when a ticket has ended the
session, which settles nothing); each step moves one handler, and `OneMoves` says what that
does to the cardinalities. `Called` no longer speaks once the session was taken over or a
ticket completed it (`Bypassed`).

**Proved and not run.** The type invariants of the modules above except that of
`ShopSession`, and
`FundedBeforeDecision`, `CompletedLeavesNothingHeld`, `DisputedMovesOnlyByAdmin`,
`PaidAfterHold`, `WebhookAppliedOnce`, `RestoredOnce`, `FailedMeansRestored`,
`BookingMatchesProposal`, `NobodyWaitsForClosedRequest`, `AcceptedIsConfirmedByPayment`,
`HeldForTheParty`, `GoodsFollowTheCall`, `EndedHoldsNothing`: the theorem covers every
instance, so no run is spent on them.

**Only model-checked.** Liveness (`TimedHoldLeavesHeld`, `CollectedIsApplied`,
`LateFailureIsRestored`, `SessionEnds`): TLAPS has no support for ENABLED here. All
invariants and action properties of the passing runs are proved.

## 5. Where the code and its comments disagree

One run shows the code doing what a comment rules out: `deposits_twice`, the verification
of a wallet deposit has no guard at all (the comment is quoted in `PROJECT.json`).

The models reach more, on which no run is spent; comments are quoted by their place.

- *Escrow.* A release that read the hold before `disputeHold` committed pays out a
  DISPUTED hold. The stale commits of `escrow_race` include it.
- *Bookings.* An edit down to exactly what was released leaves a HELD hold of 0, on which
  the customer's Yes throws after it was recorded, for good (`ConfirmCompletionThrows`).
  A home cook hold is released 24 hours after payment whatever the booking's status, so
  that a late decline refunds nothing and tells the customer it did.
- *Sessions, money.* A session the shopper ends in an emergency keeps the rider fee,
  which has no hold yet. The commission row of a released fee is subtracted from the
  customer's refund, on top of the fee it is a part of.
- *Sessions, tickets.* A ticket resolved without a refund completes the session from any
  status, also one that was cancelled or that nobody has taken yet, and no budget is settled
  (`support.controller.js`:310). Only a booking's chat is closed then (342): the thread of a
  session that a ticket completes stays open. `SupportChat` starts the clean-up at ends that
  call it and says nothing of this one.
- *Sessions, late top-ups.* A rider top-up that is confirmed after a rider has come, or after
  a cancellation, sets the session back to FINDING_RIDER by id (`orderFlow.service.js`:161).
- *Payouts.* The amounts of a request are added up unvalidated
  (`shopSessions.controller.js`:2006): one below zero makes room for the others, past the
  total "the customer approved for items". A transfer whose answer was lost is marked FAILED
  (2059-2062), and the seller can be paid again.
- *Sessions, stages.* `startPackaging` ignores a pending emergency end
  (`shopSessions.controller.js`:850-853: the session stays LIVE_CALL until the answer). The
  comment at 1187-1189 takes the handover for confirmed when `markOutForDelivery` runs,
  which asks for the completed call only. By the comment at 1731-1736 no departure after
  the purchase can ever "cancel or block anything": `findRider` asks for everybody's presence, and a vote
  decided during the call can still cancel what has been packed since. A stage written by
  id over the end of a session opens it again. `pauseCall` and `resumeCall` compute the
  paused time from a row they read, so that two resumes count one pause twice.
- *Shopping list.* `priceItem` reprices an approved item, and the next sum lets the
  sellers have it: a reset of another item writes it without a look at the budget (459-467),
  and what is paid out can exceed the deposit. A reset during an approval leaves an approved item without a price.
- *Chat.* The lookup at the end of a booking does not ask for an open thread: with an
  older closed one it may leave the open one. `openSupportThreadForUser` hands back a
  closed thread, though it "mirrors chat.controller.js's openSupportThread
  [...] exactly" (`admin.controller.js`:1249-1250). The AI's
  second look does not see that the thread was closed.
- *Boosts.* Every repeated verification of a boost grants it again. A monthly boost bought
  during a yearly one shortens `featuredUntil`; an edit of an older boost that ends later
  can un-feature a vendor with a newer one (`admin.controller.js`:983-987 promises
  lockstep); two admins editing one boost can leave the date on neither end.
- *Commission.* The comments at `payments.controller.js`:169-176 and
  `orderFlow.service.js`:243-251 describe amounts that fall due; nothing raises
  `amountDueKobo` any more.

The passing properties name the condition under which they hold, and each
condition is there because the code fails without it:

| condition | without it |
|---|---|
| `mishap = {}` in `MoneyAccounted` | a charge is taken for the price after an edit; an edit of a settled booking refunds money the vendor has |
| `stale` of `EscrowRace` | two staged releases that read one amount: the second decrement overwrites the first; a price edit writes an amount from before a release |
| `unbacked` of `EscrowRace` | an edit of the price refunds from, or adds to, a hold that is already settled or frozen |
| `~overlap` in `OneHoldUnlessOverlap` | verify and webhook both find no hold and create two |
| `~overlap` in `DebitBuysHold` | a wallet debit followed by the 409 of `confirmBookingPayment` |
| `unlogged` in `LogTrailsBalance` | a crash between a balance and its `Transaction` row |
| `shaken` in `RequestSettledOnce`, `DebitBuysBoost` | two admins deciding at once, a crash between credit and status, or between debit and boost |
| `torn` in `FeaturedUntilSomeBoost` | a crash between a boost's two rows, or two admins editing one boost |
| `~overlap` in `NeverOverdrawnAlone` | two debits that read one balance |
| `code` in `TrackedIsNotPaidTwice` | Paystack's answer is lost: the balance is restored and the transfer goes through |
| "after its code was saved" in `LateFailureIsRestored` | `transfer.failed` before that is recorded, applied to nothing, and dropped when repeated |
| "before any of its events" in `LateFailureIsRestored` | a reversal after a success is dropped as a duplicate of it |
| `stale` of `ShopVisit` | two shoppers or riders on one read; a stage over a cancellation; a rider top-up confirmed late or twice; a ticket that completes a session which was not delivered; a sweep that refunds and then cancels what has moved on; a hold made after the money was settled |
| `stale` of `EventRequests` | two acceptances make two bookings; a submission waits on a closed request; a decline or cancellation hits the winner |
| `off`, `mishap` of `ShopList` | an approved item priced again or removed; two approvals that each fit; two payouts under one cap; an allotment below zero; a payout repeated after a lost answer; a call dearer than its estimate |
| `crossed`, `failed`, `left` of `SupportChat` | two openings on one read; a clean-up cut off; an older thread found instead |

and for sessions, by the name of the mishap:

| mishap | what the code does |
|---|---|
| `late money` | a payment or payout after the end is accepted: a deposit is never refunded, a rider top-up sets an ended session back to FINDING_RIDER, a payout comes on top of the refunded budget |
| `applied twice` | verify and webhook both increment the deposit (`confirmShopSessionPayment`), or raise the rider fee twice |
| `stale shortfall` | the shortfall is recomputed at confirmation: what was charged meanwhile is not what is credited |
| `unfunded match` | `matchSession` does not ask for the deposit: holds without money, or a fee hold at the later, higher fee beside the shortfall's |
| `emergency end` | the rider fee stays behind; without a look at the status, a second refund or one on top of payouts |
| `commission counted` | any cancellation after a release subtracts the commission twice |
| `shortfall` | `refundUnspentBudget` takes the shortfall off a budget that was computed from the full fees already; `confirmRiderFeeTopUp` leaves `riderFeeCollectedKobo` alone, so that a paid top-up is due again |
| `ticket` | a ticket that completes a session releases its holds and forgets the unspent budget |
| `repriced` | a reset writes a total that a new price has raised, with no look at the budget |
| `negative` | an allotment below zero makes room for others, and in cash lowers what counts as paid |
| `lost` | a transfer whose answer was lost is FAILED: it may arrive, be paid again, and be refunded as unspent |

## 6. What is not modelled, and why

`DEV_BYPASS_PAYMENTS` (a demo switch that lets every payment through) is off in
the models. Addresses, names, message texts, notifications, read marks and display data
are not in the models. A commit is known to the process that made it; the database is
not partitioned from it. Signup creates the wallet, so that no handler races for
its creation.

Of sessions: `pauseCall` and `resumeCall` (the length of the call is an input of
`ShopSession`), `declineSession`, `riderArrivedShopper` and `sendSOS`, which write rows
that no other handler decides on; `payCallTopUp`, which asks for a live call that has
ended: `callEndedAt` is written together with the status that ends the call, so its guard
holds only after a stale write has set the status back; BUILDING_LIST, a status no code assigns;
and the rule that a shopper or rider works on one session at a time, which in a model of
one session only keeps a claim from happening. Of chats: a direct thread opened without a
`contextId`, which is a new one every time. Of escrow: a sweep over the holds of several
contexts, one of which throws (a hazard without a property). Commission periods, because
no code makes one due.

The live socket relays between sockets and persists nothing that a later decision reads;
the sweeps it schedules are modelled where they act. Accounts, KYC, catalogue, ratings,
search and the rest of the admin panel create, read and update one row per request; the
gateways are thin wrappers, and Paystack's behaviour is modelled as external where it
matters.

## 7. The plan

1. **Proofs**: the weaker conditions the proofs suggest, such as which mishaps
   `NothingKept` needs to excuse at which end of a session.
2. **Escrow, further**: the sweep over several holds, one of which cannot be released.
3. **Composition**: a request's booking (`EventRequests`) followed into `Booking` through
   `viaProposal`, and the holds of `ShopVisit` as instances of `EscrowRace`.
