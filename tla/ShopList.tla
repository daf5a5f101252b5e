------------------------------ MODULE ShopList ------------------------------
(***************************************************************************)
(* The shopping list of one Shop-For-Me session, item by item, and the     *)
(* payouts to the sellers that its approved total allows                   *)
(* (shopSessions.controller.js): a handler per process, a database call or *)
(* a transfer per step, and any handler may be cut off.  ShopSession knows *)
(* the list as one total; here the total is what handlers write that have  *)
(* added it up before.  The stages of the session matter to startPackaging *)
(* only, no other handler of the list looks at them.                       *)
(***************************************************************************)
EXTENDS FiniteSetsExt, Integers

CONSTANTS
  Handlers,    \* slots for requests in progress
  Items,       \* identities of ShopSessionItem rows, each created once
  Payouts,     \* identities of SellerPayout rows, each created once
  Nothing,     \* no item, no payout
  Prices,      \* bound: the prices the shopper finds
  Deposit,     \* what the customer has paid in before the call
  Fee,         \* the fees of the shopper and the rider as estimated then
  CallFees,    \* bound: the same fees when the length of the call is known
  Allotments,  \* bound: what a request allots to a seller, which nothing checks
  TopUps,      \* bound: what the customer adds to the deposit at a time
  MaxDeposit,  \* bound: the deposit after top-ups
  MaxMishaps   \* bound: mishaps after which nothing begins

ASSUME AmountsAssumption ==
  /\ Prices \subseteq Nat \ {0} /\ TopUps \subseteq Nat \ {0}
  /\ Allotments \subseteq Int \ {0}
  /\ CallFees \subseteq Nat /\ Fee \in Nat
  /\ Deposit \in Nat /\ MaxDeposit \in Nat /\ Deposit <= MaxDeposit
  /\ Fee <= Deposit  \* paySession charges the fees and a budget of 0 or more
  /\ Nothing \notin Items \cup Payouts

VARIABLES
  item,      \* the ShopSessionItem rows; a price of 0 is none
  deposit,   \* depositKobo
  fee,       \* sessionFeeKobo and riderFeeKobo
  total,     \* itemsTotalKobo
  packing,   \* the call has been ended by startPackaging
  payout,    \* the SellerPayout rows
  work,       \* the handlers in progress
  off,       \* history: the total need not be that of the list
  mishap,    \* history: what a rule of the list may have been broken by
  agreed,    \* history: the price of each approved item its customer was shown
  most       \* history: the largest total of agreed prices so far

list == <<item, deposit, fee, total, packing>>
listHistory == <<off, mishap, agreed>>
listVars == <<list, payout, work, listHistory, most>>

-----------------------------------------------------------------------------
Sum(f, S) == MapThenSumSet(LAMBDA i : f[i], S)

Listed == {i \in Items : item[i].row = "listed"}
Approved == {i \in Listed : item[i].approved}
ApprovedSum == Sum([i \in Items |-> item[i].price], Approved)

\* LOST is FAILED in the database: a transfer that went out, unanswered.
Live == {p \in Payouts : payout[p].status \in {"PENDING", "PROCESSING", "PAID"}}
Unanswered == {p \in Payouts : payout[p].status = "LOST"}
Paid(S) == Sum([p \in Payouts |-> payout[p].amount], S)
PaidSum == Paid(Live)

ItemRow == [row : {"absent", "listed", "deleted"}, price : Prices \cup {0}, approved : BOOLEAN]
PayoutRow == [status : {"ABSENT", "PENDING", "PROCESSING", "PAID", "FAILED", "LOST"},
              amount : Int, direct : BOOLEAN]
\* A handler in progress: what it works on and what it has read.
WorkRow == [step : {"none", "check", "mark", "aggregate", "total", "pack", "cap",
                   "create", "transfer"},
           item : Items \cup {Nothing}, price : Prices \cup {0}, read : Int,
           pay : Allotments \cup {0}, rest : Allotments \cup {0},
           payout : Payouts \cup {Nothing}]
NoWork == [step |-> "none", item |-> Nothing, price |-> 0, read |-> 0,
         pay |-> 0, rest |-> 0, payout |-> Nothing]

ListTypeOK ==
  /\ item \in [Items -> ItemRow]
  /\ deposit \in 0 .. MaxDeposit /\ fee \in CallFees \cup {Fee} /\ total \in Nat /\ packing \in BOOLEAN
  /\ payout \in [Payouts -> PayoutRow]
  /\ work \in [Handlers -> WorkRow]
  /\ off \in BOOLEAN
  /\ mishap \subseteq {"repriced", "reset", "approvals", "payouts", "fee", "negative", "lost"}
  /\ agreed \in [Items -> Prices \cup {0}] /\ most \in Nat

ListInit ==
  /\ item = [i \in Items |-> [row |-> "absent", price |-> 0, approved |-> FALSE]]
  /\ deposit = Deposit /\ fee = Fee /\ total = 0 /\ packing = FALSE
  /\ payout = [p \in Payouts |-> [status |-> "ABSENT", amount |-> 0, direct |-> FALSE]]
  /\ work = [h \in Handlers |-> NoWork]
  /\ off = FALSE /\ mishap = {} /\ agreed = [i \in Items |-> 0] /\ most = 0

-----------------------------------------------------------------------------
(* The list.  A handler that reads a row and does one write with nothing   *)
(* in between that matters is one step.                                    *)

Goes(h, step) ==
  work' = [work EXCEPT ![h] = IF step = "done" THEN NoWork ELSE [@ EXCEPT !.step = step]]

\* The bound: after so many mishaps what is under way goes on, and no more is asked for.
InBounds == Cardinality(mishap) < MaxMishaps

MayBegin(h) == work[h] = NoWork /\ InBounds

\* Handlers about to approve item i, with the price as they read it.
Approving(i) == {h \in Handlers : work[h].item = i /\ work[h].step \in {"check", "mark"}}

\* addItem, addItemMidCall: whatever the stage.
AddItem(i) ==
  /\ item[i].row = "absent" /\ InBounds
  /\ item' = [item EXCEPT ![i].row = "listed"]
  /\ UNCHANGED <<deposit, fee, total, packing, payout, work, listHistory>>

\* priceItem: also of an approved item, which stays approved.
PriceItem(i, p) ==
  /\ i \in Listed /\ p # item[i].price /\ InBounds
  /\ item' = [item EXCEPT ![i].price = p]
  /\ off' = (off \/ item[i].approved)
  /\ mishap' = mishap \cup
       (IF item[i].approved \/ Approving(i) # {} THEN {"repriced"} ELSE {})
  /\ UNCHANGED <<deposit, fee, total, packing, payout, work, agreed>>

\* removeItem: the row is gone, the total stays.
RemoveItem(i) ==
  /\ i \in Listed /\ InBounds
  /\ item' = [item EXCEPT ![i] = [row |-> "deleted", price |-> 0, approved |-> FALSE]]
  /\ off' = (off \/ item[i].approved)
  /\ agreed' = [agreed EXCEPT ![i] = 0]
  /\ UNCHANGED <<deposit, fee, total, packing, payout, work, mishap>>

\* approveItem: the item and the session's amounts.  One that could not be paid for
\* even alone is refused in any case, and leaves no trace.
StartApprove(h, i) ==
  /\ MayBegin(h) /\ i \in Listed /\ item[i].price # 0
  /\ item[i].price <= deposit - fee
  /\ work' = [work EXCEPT ![h] = [NoWork EXCEPT !.step = "check", !.item = i,
                                  !.price = item[i].price, !.read = deposit - fee]]
  /\ UNCHANGED <<list, payout, listHistory>>

\* Faulty variant: the item itself is checked, not the list with it.
CheckItemAlone(h) ==
  /\ work[h].step = "check"
  /\ Goes(h, IF work[h].price <= work[h].read THEN "mark" ELSE "done")
  /\ UNCHANGED <<list, payout, listHistory>>

\* The approved items and this one must fit into the budget.
CheckBudget(h) ==
  /\ work[h].step = "check"
  /\ Goes(h, IF ApprovedSum + work[h].price <= work[h].read THEN "mark" ELSE "done")
  /\ UNCHANGED <<list, payout, listHistory>>

\* The update throws when the item has been removed.
Mark(h) ==
  LET i == work[h].item IN
  /\ work[h].step = "mark"
  /\ IF i \in Listed
     THEN /\ item' = [item EXCEPT ![i].approved = TRUE]
          /\ agreed' = [agreed EXCEPT ![i] = work[h].price]
          /\ mishap' = mishap
               \cup (IF \E g \in Handlers \ {h} : work[g].step = "mark"
                     THEN {"approvals"} ELSE {})
               \cup (IF item[i].price = 0 THEN {"reset"} ELSE {})
          /\ work' = [work EXCEPT ![h] = [NoWork EXCEPT !.step = "aggregate"]]
     ELSE UNCHANGED <<item, agreed, mishap>> /\ Goes(h, "done")
  /\ UNCHANGED <<deposit, fee, total, packing, payout, off>>

\* Faulty variant: the total is left to the next approval.
ResetItemOnly(h, i) ==
  /\ MayBegin(h) /\ i \in Listed
  /\ item' = [item EXCEPT ![i].price = 0, ![i].approved = FALSE]
  /\ agreed' = [agreed EXCEPT ![i] = 0]
  /\ UNCHANGED <<deposit, fee, total, packing, payout, work, off, mishap>>

\* Faulty variant: an approved item stays approved.
ResetPriceOnly(h, i) ==
  /\ MayBegin(h) /\ i \in Listed
  /\ item' = [item EXCEPT ![i].price = 0]
  /\ agreed' = [agreed EXCEPT ![i] = 0]
  /\ work' = [work EXCEPT ![h] = [NoWork EXCEPT !.step = "aggregate"]]
  /\ UNCHANGED <<deposit, fee, total, packing, payout, off, mishap>>

\* resetItemPricing.
ResetItemPricing(h, i) ==
  /\ MayBegin(h) /\ i \in Listed
  /\ item' = [item EXCEPT ![i].price = 0, ![i].approved = FALSE]
  /\ agreed' = [agreed EXCEPT ![i] = 0]
  /\ work' = [work EXCEPT ![h] = [NoWork EXCEPT !.step = "aggregate"]]
  /\ UNCHANGED <<deposit, fee, total, packing, payout, off, mishap>>

Aggregate(h) ==
  /\ work[h].step = "aggregate"
  /\ work' = [work EXCEPT ![h].step = "total", ![h].read = ApprovedSum]
  /\ UNCHANGED <<list, payout, listHistory>>

\* A total that was added up before the list changed again is written all the same.
WriteTotal(h) ==
  /\ work[h].step = "total"
  /\ total' = work[h].read
  /\ off' = (work[h].read # ApprovedSum)
  /\ Goes(h, "done")
  /\ UNCHANGED <<item, deposit, fee, packing, payout, mishap, agreed>>

\* topUpItems and confirmItemsTopUp: an increment of the deposit.
TopUpItems(amount) ==
  /\ deposit + amount <= MaxDeposit /\ InBounds
  /\ deposit' = deposit + amount
  /\ UNCHANGED <<item, fee, total, packing, payout, work, listHistory>>

\* startPackaging: every item is approved.
CountUnapproved(h) ==
  /\ MayBegin(h) /\ ~packing /\ Listed = Approved
  /\ work' = [work EXCEPT ![h] = [NoWork EXCEPT !.step = "pack"]]
  /\ UNCHANGED <<list, payout, listHistory>>

\* The fee of the call is known now.
StartPackaging(h, f) ==
  /\ work[h].step = "pack"
  /\ packing' = TRUE /\ fee' = f
  /\ mishap' = mishap \cup (IF f > fee THEN {"fee"} ELSE {})
  /\ Goes(h, "done")
  /\ UNCHANGED <<item, deposit, total, payout, off, agreed>>

-----------------------------------------------------------------------------
(* Paying the sellers (confirmSellerPayouts).                              *)

\* One request allots any amounts to one seller or two (a rest of 0 is none); the
\* approved total is read with the session.
StartPayouts(h, pay, rest) ==
  /\ MayBegin(h)
  /\ work' = [work EXCEPT ![h] = [NoWork EXCEPT !.step = "cap", !.pay = pay,
                                  !.rest = rest, !.read = total]]
  /\ UNCHANGED <<list, payout, listHistory>>

\* The request is checked against the total with what counts as paid before; one with
\* an amount below zero gets past, and so does one that pays again what is FAILED only
\* because the answer was lost.
Capped(h, paid) ==
  LET fits == paid + work[h].pay + work[h].rest <= work[h].read IN
  /\ work[h].step = "cap"
  /\ work' = [work EXCEPT ![h] =
       IF fits THEN [@ EXCEPT !.step = "create", !.read = 0] ELSE NoWork]
  /\ mishap' = mishap
       \cup (IF fits /\ (work[h].pay < 0 \/ work[h].rest < 0) THEN {"negative"} ELSE {})
       \cup (IF fits /\ Unanswered # {} THEN {"lost"} ELSE {})
  /\ UNCHANGED <<list, payout, off, agreed>>

\* Faulty variant: only payouts that have arrived are counted.
CheckCapOfPaid(h) == Capped(h, Paid({p \in Payouts : payout[p].status = "PAID"}))

CheckCap(h) == Capped(h, PaidSum)

\* The turn of the next seller.
NextSeller(w) ==
  IF w.rest = 0 THEN NoWork
  ELSE [NoWork EXCEPT !.step = "create", !.pay = w.rest]

\* A seller the shopper has not registered is passed over.
UnknownSeller(h) ==
  /\ work[h].step = "create"
  /\ work' = [work EXCEPT ![h] = NextSeller(work[h])]
  /\ UNCHANGED <<list, payout, listHistory>>

\* The next payout; one the shopper has made in cash (ESCROW_DIRECT) is PAID at once.
CreatePayout(h, p, direct) ==
  /\ work[h].step = "create" /\ payout[p].status = "ABSENT"
  /\ payout' = [payout EXCEPT ![p] =
       [status |-> IF direct THEN "PAID" ELSE "PENDING", amount |-> work[h].pay,
        direct |-> direct]]
  /\ mishap' = mishap \cup
       (IF \E g \in Handlers \ {h} : work[g].step \in {"create", "transfer"}
        THEN {"payouts"} ELSE {})
  /\ work' = [work EXCEPT ![h] =
       IF direct THEN NextSeller(work[h])
       ELSE [NoWork EXCEPT !.step = "transfer", !.payout = p, !.rest = work[h].rest]]
  /\ UNCHANGED <<list, off, agreed>>

\* The transfer is taken on, or refused, as one of less than nothing always is, or it
\* is taken on and the answer is lost.
Transfer(h, status) ==
  /\ work[h].step = "transfer"
  /\ payout[work[h].payout].amount < 0 => status = "FAILED"
  /\ payout' = [payout EXCEPT ![work[h].payout].status = status]
  /\ work' = [work EXCEPT ![h] = NextSeller(work[h])]
  /\ UNCHANGED <<list, listHistory>>

\* applyTransferWebhook: success, failure, or a reversal after success.  The code of a
\* transfer without an answer was never saved, its events find no payout.
TransferEvent(p, status) ==
  /\ ~payout[p].direct
  /\ \/ payout[p].status = "PROCESSING"
     \/ payout[p].status = "PAID" /\ status = "FAILED"
  /\ payout' = [payout EXCEPT ![p].status = status]
  /\ UNCHANGED <<list, work, listHistory>>

\* A database error, the process dying.
Fail(h) ==
  /\ work[h] # NoWork
  /\ Goes(h, "done")
  /\ off' = (off \/ work[h].step \in {"aggregate", "total"})
  /\ UNCHANGED <<list, payout, mishap, agreed>>

-----------------------------------------------------------------------------
\* The largest total of the prices that the customer had been shown and approved.
NotesAgreement ==
  LET now == Sum(agreed', {i \in Items : item'[i].row = "listed" /\ item'[i].approved})
  IN most' = IF now > most THEN now ELSE most

ListStep ==
  \/ \E i \in Items : AddItem(i) \/ RemoveItem(i) \/ \E p \in Prices : PriceItem(i, p)
  \/ \E h \in Handlers, i \in Items : StartApprove(h, i) \/ ResetItemPricing(h, i)
  \/ \E h \in Handlers : CheckBudget(h) \/ Mark(h) \/ Aggregate(h) \/ WriteTotal(h)

SessionStep ==
  \/ \E amount \in TopUps : TopUpItems(amount)
  \/ \E h \in Handlers : CountUnapproved(h) \/ \E f \in CallFees : StartPackaging(h, f)

PayoutStep ==
  \/ \E h \in Handlers, pay \in Allotments, rest \in Allotments \cup {0} :
       StartPayouts(h, pay, rest)
  \/ \E h \in Handlers : CheckCap(h) \/ UnknownSeller(h)
  \/ \E h \in Handlers, p \in Payouts, direct \in BOOLEAN : CreatePayout(h, p, direct)
  \/ \E h \in Handlers, status \in {"PROCESSING", "FAILED", "LOST"} : Transfer(h, status)
  \/ \E p \in Payouts, status \in {"PAID", "FAILED"} : TransferEvent(p, status)

ListNext ==
  /\ ListStep \/ SessionStep \/ PayoutStep \/ \E h \in Handlers : Fail(h)
  /\ NotesAgreement

ListSpec == ListInit /\ [][ListNext]_listVars

-----------------------------------------------------------------------------
(* Properties.                                                             *)

Quiet == \A h \in Handlers : work[h] = NoWork

\* The total the payouts go by is that of the approved items whenever nobody is at
\* work on the list, unless an approved item was priced again or removed since, a
\* handler was cut off before it wrote the total, or wrote one from an older list.
TotalIsApproved == Quiet /\ ~off => total = ApprovedSum

\* What the customer has approved fits into the deposit beside the fees, whatever was
\* added, sent back, approved twice or topped up, unless two approvals overlapped, an
\* approved item was priced again, or the call has cost more than its estimate.
ApprovedFitDeposit ==
  mishap \cap {"repriced", "approvals", "fee"} = {} => ApprovedSum <= deposit - fee

\* An approved item has the price it was approved at, unless the shopper priced it
\* again, or the customer sent it back while its approval was under way.
ApprovedAsShown ==
  mishap \cap {"repriced", "reset"} = {} =>
    \A i \in Approved : item[i].price # 0 /\ item[i].price = agreed[i]

\* What the sellers may have got: what counts as paid, and the transfers that went out
\* unanswered.
Received == Paid(Live \cup Unanswered)

\* The sellers never get more than the customer once agreed to, at the prices shown,
\* although the total is summed up, written, read and compared in separate steps and a
\* transfer may go out unanswered, unless two payouts overlapped, an approved item was
\* priced again, a request had an amount below zero, or one was let through while a
\* payout was down as FAILED whose transfer may have arrived.
SellersGetWhatWasAgreed ==
  mishap \cap {"repriced", "payouts", "negative", "lost"} = {} => Received <= most
=============================================================================
