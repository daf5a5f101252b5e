--------------------------- MODULE BookingProofs ---------------------------
(***************************************************************************)
(* The invariants of Booking, for every set of prices, payments and        *)
(* tickets.  IInv is the inductive invariant: HoldTracksPrice needs        *)
(* RequestedHasNoHold, because a payment creates the hold afresh;          *)
(* VendorGetsThePrice needs HoldTracksPrice, because a settlement pays the *)
(* amount of the hold and the claim is about the price of the booking;     *)
(* StartedPriceFrozen needs StartedHasNoEdit.                              *)
(***************************************************************************)
EXTENDS Booking, TLAPS

IInv ==
  /\ TypeOK
  /\ HoldTracksPrice
  /\ MoneyAccounted
  /\ VendorGetsThePrice
  /\ FundedBeforeDecision
  /\ RequestedHasNoHold
  /\ StartedHasNoEdit
  /\ CompletedLeavesNothingHeld

\* The commission is a part of the amount, rounding included.
LEMMA CommissionIsPart ==
  ASSUME NEW a \in Nat
  PROVE  /\ Commission("VENDOR", a) \in Nat
         /\ Commission("VENDOR", a) <= a
  BY DEF Commission, Rate


LEMMA PriceIsNat == \A t \in Totals : t \in Nat /\ t > 0
  BY AmountsAssumption

\* The amounts that the accounting adds up are integers.
LEMMA Numbers ==
  TypeOK => /\ booking.total \in Nat /\ booking.released \in Nat
            /\ hold.amount \in Nat
            /\ wallet["customer"] \in Nat /\ wallet["vendor"] \in Nat
            /\ ledger.funded \in Nat /\ ledger.limbo \in Int
            /\ ledger.commission \in Nat /\ ledger.closed \in Nat
            /\ ledger.adjCustomer \in Nat /\ ledger.adjVendor \in Nat
<1> SUFFICES ASSUME TypeOK
    PROVE  /\ booking.total \in Nat /\ booking.released \in Nat
           /\ hold.amount \in Nat
           /\ wallet["customer"] \in Nat /\ wallet["vendor"] \in Nat
           /\ ledger \in Ledger
  BY DEF Ledger
<1>1. booking.total \in Totals /\ booking.released \in Nat
  BY DEF TypeOK, BookingRow
<1>2. hold.amount \in Nat
  BY DEF TypeOK, HoldRow
<1>3. wallet["customer"] \in Nat /\ wallet["vendor"] \in Nat
  BY DEF TypeOK, Parties
<1> QED BY <1>1, <1>2, <1>3, PriceIsNat DEF TypeOK

LEMMA NumbersNext ==
  TypeOK' => /\ booking'.total \in Nat /\ booking'.released \in Nat
             /\ hold'.amount \in Nat
             /\ wallet'["customer"] \in Nat /\ wallet'["vendor"] \in Nat
             /\ ledger'.funded \in Nat /\ ledger'.limbo \in Int
             /\ ledger'.commission \in Nat /\ ledger'.closed \in Nat
             /\ ledger'.adjCustomer \in Nat /\ ledger'.adjVendor \in Nat
<1> SUFFICES ASSUME TypeOK'
    PROVE  /\ booking'.total \in Nat /\ booking'.released \in Nat
           /\ hold'.amount \in Nat
           /\ wallet'["customer"] \in Nat /\ wallet'["vendor"] \in Nat
           /\ ledger' \in Ledger
  BY DEF Ledger
<1>1. booking'.total \in Totals /\ booking'.released \in Nat
  BY DEF TypeOK, BookingRow
<1>2. hold'.amount \in Nat
  BY DEF TypeOK, HoldRow
<1>3. wallet'["customer"] \in Nat /\ wallet'["vendor"] \in Nat
  BY DEF TypeOK, Parties
<1> QED BY <1>1, <1>2, <1>3, PriceIsNat DEF TypeOK

-----------------------------------------------------------------------------
(* What the handlers have in common. *)

\* The rows that take no part in the accounting.
RestTyped ==
  /\ kind \in Kinds
  /\ viaProposal \in BOOLEAN
  /\ charge \in [Charges -> [status : ChargeStatus, amount : Nat]]
  /\ ticket \in [Tickets -> [status : TicketStatus, filer : Parties]]
  /\ event \in {"AHEAD", "PAST", "OVERDUE"}

\* The booking keeps its price and what was released of it.
SamePrice ==
  /\ booking' \in BookingRow
  /\ booking'.total = booking.total
  /\ booking'.released = booking.released
  /\ booking'.started => booking'.edit = NoEdit

\* A step that moves no money and neither pays for, completes nor refunds.
LEMMA QuietStep ==
  ASSUME IInv, UNCHANGED money, SamePrice, RestTyped',
         \/ booking'.status = booking.status
         \/ booking'.status = "CONFIRMED" /\ hold.status # "NONE"
  PROVE  IInv'
<1>1. TypeOK'
  BY DEF IInv, TypeOK, money, SamePrice, RestTyped
<1>2. HoldTracksPrice' /\ MoneyAccounted' /\ VendorGetsThePrice'
  BY DEF IInv, money, SamePrice, HoldTracksPrice, MoneyAccounted,
         VendorGetsThePrice, LiveAmount, PaidToVendor
<1>3. FundedBeforeDecision' /\ RequestedHasNoHold' /\ StartedHasNoEdit'
         /\ CompletedLeavesNothingHeld'
  BY DEF IInv, money, SamePrice, FundedBeforeDecision, RequestedHasNoHold,
         StartedHasNoEdit, CompletedLeavesNothingHeld
<1> QED BY <1>1, <1>2, <1>3 DEF IInv

\* Crediting the vendor keeps wallets and ledger typed and moves the amount.
LEMMA CreditStep ==
  ASSUME NEW a \in Nat, TypeOK, CreditPayee(a)
  PROVE  /\ wallet' \in [Parties -> Nat]
         /\ ledger' \in Ledger
         /\ wallet'["customer"] = wallet["customer"]
         /\ wallet'["vendor"] + ledger'.commission
              = wallet["vendor"] + ledger.commission + a
         /\ ledger'.funded = ledger.funded
         /\ ledger'.limbo = ledger.limbo
         /\ ledger'.closed = ledger.closed
         /\ ledger'.adjCustomer = ledger.adjCustomer
         /\ ledger'.adjVendor = ledger.adjVendor
<1>1. PICK c \in Nat : c = Commission("VENDOR", a) /\ c <= a
  BY CommissionIsPart
<1>2. wallet' = [wallet EXCEPT !["vendor"] = @ + (a - c)]
  BY <1>1 DEF CreditPayee, Payout
<1>3. ledger' = [ledger EXCEPT !.commission = @ + c]
  BY <1>1 DEF CreditPayee
<1>4. a - c \in Nat
  BY <1>1
<1> QED BY <1>1, <1>2, <1>3, <1>4 DEF TypeOK, Ledger, Parties

\* Paying out all that is held, at completion or by the sweep.
LEMMA ReleaseAllStep ==
  ASSUME IInv, ReleaseAll, SamePrice, RestTyped', mishap' = mishap,
         booking'.status \in {booking.status, "COMPLETED"}
  PROVE  IInv'
<1>1. CASE hold.status # "HELD"
  <2>1. UNCHANGED money
    BY <1>1 DEF ReleaseAll, money
  <2>2. TypeOK'
    BY <2>1 DEF IInv, TypeOK, money, SamePrice, RestTyped
  <2>3. HoldTracksPrice' /\ MoneyAccounted' /\ VendorGetsThePrice'
    BY <2>1 DEF IInv, money, SamePrice, HoldTracksPrice, MoneyAccounted,
                VendorGetsThePrice, LiveAmount, PaidToVendor
  <2>4. FundedBeforeDecision' /\ RequestedHasNoHold' /\ StartedHasNoEdit'
          /\ CompletedLeavesNothingHeld'
    BY <1>1, <2>1 DEF IInv, money, SamePrice, FundedBeforeDecision,
         RequestedHasNoHold, StartedHasNoEdit, CompletedLeavesNothingHeld
  <2> QED BY <2>2, <2>3, <2>4 DEF IInv
<1>2. CASE hold.status = "HELD"
  <2> DEFINE a == hold.amount
  <2>1. a \in Nat /\ CreditPayee(a)
    BY <1>2 DEF ReleaseAll, IInv, TypeOK, HoldRow
  <2>2. /\ hold' \in HoldRow /\ hold'.status = "RELEASED"
        /\ hold'.amount = hold.amount
    BY <1>2 DEF ReleaseAll, IInv, TypeOK, HoldRow, HoldStatus
  <2> HIDE DEF a
  <2>3. TypeOK'
    BY <2>1, <2>2, CreditStep DEF IInv, TypeOK, SamePrice, RestTyped
  <2>4. HoldTracksPrice'
    BY <1>2, <2>2 DEF IInv, SamePrice, HoldTracksPrice
  <2>5. MoneyAccounted'
    BY <1>2, <2>1, <2>2, <2>3, CreditStep
    DEF IInv, TypeOK, MoneyAccounted, LiveAmount, LiveStatus, Ledger, Parties, a
  <2>6. VendorGetsThePrice'
    <3>0. /\ wallet'["vendor"] + ledger'.commission
               = wallet["vendor"] + ledger.commission + hold.amount
          /\ ledger'.adjVendor = ledger.adjVendor
      BY <2>1, CreditStep DEF IInv, a
    <3>1. wallet'["vendor"] + ledger'.commission - ledger'.adjVendor
            = PaidToVendor + hold.amount
      BY <2>3, <3>0, Numbers, NumbersNext DEF IInv, PaidToVendor
    <3>2. PaidToVendor = booking.released /\ hold.amount = booking.total - booking.released
      BY <1>2 DEF IInv, VendorGetsThePrice, HoldTracksPrice, LiveStatus
    <3>3. PaidToVendor' = booking.total
      BY <3>1, <3>2, Numbers DEF IInv, PaidToVendor
    <3> QED BY <2>2, <3>3 DEF VendorGetsThePrice, SamePrice, LiveStatus
  <2>7. FundedBeforeDecision' /\ RequestedHasNoHold' /\ StartedHasNoEdit'
          /\ CompletedLeavesNothingHeld'
    BY <1>2, <2>2 DEF IInv, SamePrice, FundedBeforeDecision,
         RequestedHasNoHold, StartedHasNoEdit, CompletedLeavesNothingHeld
  <2> QED BY <2>3, <2>4, <2>5, <2>6, <2>7 DEF IInv
<1> QED BY <1>1, <1>2

\* Refunding all that is held, at a cancellation or when the vendor declines.
LEMMA RefundAllStep ==
  ASSUME IInv, RefundAll, SamePrice, RestTyped', mishap' = mishap,
         booking'.status \in {"DECLINED", "CANCELLED"}
  PROVE  IInv'
<1>1. CASE hold.status # "HELD"
  <2>1. UNCHANGED money
    BY <1>1 DEF RefundAll, money
  <2>2. TypeOK'
    BY <2>1 DEF IInv, TypeOK, money, SamePrice, RestTyped
  <2>3. HoldTracksPrice' /\ MoneyAccounted' /\ VendorGetsThePrice'
    BY <2>1 DEF IInv, money, SamePrice, HoldTracksPrice, MoneyAccounted,
                VendorGetsThePrice, LiveAmount, PaidToVendor
  <2>4. FundedBeforeDecision' /\ RequestedHasNoHold' /\ StartedHasNoEdit'
          /\ CompletedLeavesNothingHeld'
    BY <1>1, <2>1 DEF IInv, money, SamePrice, FundedBeforeDecision,
         RequestedHasNoHold, StartedHasNoEdit, CompletedLeavesNothingHeld
  <2> QED BY <2>2, <2>3, <2>4 DEF IInv
<1>2. CASE hold.status = "HELD"
  <2>1. /\ hold' \in HoldRow /\ hold'.status = "REFUNDED"
        /\ hold'.amount = hold.amount
    BY <1>2 DEF RefundAll, IInv, TypeOK, HoldRow, HoldStatus
  <2>2. /\ wallet' \in [Parties -> Nat]
        /\ wallet'["customer"] = wallet["customer"] + hold.amount
        /\ wallet'["vendor"] = wallet["vendor"]
        /\ ledger' = ledger
    BY <1>2 DEF RefundAll, IInv, TypeOK, HoldRow, Parties
  <2>3. TypeOK'
    BY <2>1, <2>2 DEF IInv, TypeOK, SamePrice, RestTyped
  <2>4. HoldTracksPrice'
    BY <1>2, <2>1 DEF IInv, SamePrice, HoldTracksPrice
  <2>5. MoneyAccounted'
    BY <1>2, <2>1, <2>2
    DEF IInv, TypeOK, MoneyAccounted, LiveAmount, LiveStatus, Ledger, Parties,
        HoldRow
  <2>6. VendorGetsThePrice'
    BY <1>2, <2>1, <2>2
    DEF IInv, VendorGetsThePrice, PaidToVendor, SamePrice, LiveStatus
  <2>7. FundedBeforeDecision' /\ RequestedHasNoHold' /\ StartedHasNoEdit'
          /\ CompletedLeavesNothingHeld'
    BY <1>2, <2>1 DEF IInv, SamePrice, FundedBeforeDecision,
         RequestedHasNoHold, StartedHasNoEdit, CompletedLeavesNothingHeld
  <2> QED BY <2>3, <2>4, <2>5, <2>6, <2>7 DEF IInv
<1> QED BY <1>1, <1>2

\* A staged release: what leaves the hold is added to what was released.
LEMMA PartialReleaseStep ==
  ASSUME IInv, NEW a \in Nat, a > 0, PartialRelease(a), RestTyped',
         mishap' = mishap,
         booking' \in BookingRow, booking'.status = booking.status,
         booking'.total = booking.total,
         booking'.released = booking.released + a,
         booking'.started => booking'.edit = NoEdit
  PROVE  IInv'
<1>1. /\ hold.status = "HELD"
      /\ hold' \in HoldRow
      /\ hold'.amount = hold.amount - a
      /\ hold'.status = IF hold'.amount = 0 THEN "RELEASED" ELSE "HELD"
  <2>1. /\ hold.status = "HELD" /\ a <= hold.amount
        /\ hold' = [hold EXCEPT !.amount = @ - a,
                                !.status = IF a = hold.amount THEN "RELEASED"
                                                              ELSE "HELD"]
    BY DEF PartialRelease
  <2>2. hold.amount \in Nat
    BY Numbers DEF IInv
  <2>3. hold.amount - a \in Nat /\ (a = hold.amount <=> hold.amount - a = 0)
    BY <2>1, <2>2
  <2> QED BY <2>1, <2>3 DEF IInv, TypeOK, HoldRow, HoldStatus
<1>2. CreditPayee(a)
  BY DEF PartialRelease
<1>3. TypeOK'
  BY <1>1, <1>2, CreditStep DEF IInv, TypeOK, RestTyped
<1>4. HoldTracksPrice'
  BY <1>1, Numbers DEF IInv, HoldTracksPrice
<1>5. MoneyAccounted'
  <2>1. LiveAmount = hold.amount /\ LiveAmount' = hold.amount - a
    BY <1>1, Numbers DEF IInv, LiveAmount, LiveStatus
  <2> QED BY <1>2, <1>3, <2>1, CreditStep, Numbers, NumbersNext DEF IInv, MoneyAccounted
<1>6. VendorGetsThePrice'
  <2>1. PaidToVendor = booking.released
    BY <1>1 DEF IInv, VendorGetsThePrice, LiveStatus
  <2>2. wallet'["vendor"] + ledger'.commission - ledger'.adjVendor
          = PaidToVendor + a
    BY <1>2, <1>3, CreditStep, Numbers, NumbersNext DEF IInv, PaidToVendor
  <2>3. hold'.status = "RELEASED" => booking'.released = booking'.total
    BY <1>1, Numbers DEF IInv, HoldTracksPrice
  <2> QED BY <1>1, <2>1, <2>2, <2>3 DEF VendorGetsThePrice, PaidToVendor, LiveStatus
<1>7. FundedBeforeDecision' /\ RequestedHasNoHold' /\ StartedHasNoEdit'
        /\ CompletedLeavesNothingHeld'
  BY <1>1 DEF IInv, FundedBeforeDecision, RequestedHasNoHold, StartedHasNoEdit,
       CompletedLeavesNothingHeld
<1> QED BY <1>3, <1>4, <1>5, <1>6, <1>7 DEF IInv

\* An edit takes the difference from the wallet, or gives it back.
LEMMA ReconcileStep ==
  ASSUME IInv, NEW t \in Totals, Reconcile(t), RestTyped',
         booking' \in BookingRow, booking'.status = booking.status,
         booking'.total = t, booking'.released = booking.released,
         booking'.started => booking'.edit = NoEdit
  PROVE  IInv'
<1>t. t \in Nat /\ booking.total \in Nat /\ booking.released \in Nat
  BY PriceIsNat, Numbers DEF IInv
<1>0. PICK diff \in Int : diff = t - booking.total
  BY <1>t
<1>1. CASE (hold.status = "NONE" \/ diff = 0) /\ UNCHANGED money
  <2>1. hold.status = "NONE" \/ booking'.total = booking.total
    BY <1>t, <1>0, <1>1
  <2>2. TypeOK'
    BY <1>1 DEF IInv, TypeOK, money, RestTyped
  <2>3. HoldTracksPrice' /\ MoneyAccounted' /\ VendorGetsThePrice'
    BY <1>1, <2>1 DEF IInv, money, HoldTracksPrice, MoneyAccounted,
         VendorGetsThePrice, LiveAmount, PaidToVendor, LiveStatus
  <2>4. FundedBeforeDecision' /\ RequestedHasNoHold' /\ StartedHasNoEdit'
          /\ CompletedLeavesNothingHeld'
    BY <1>1 DEF IInv, money, FundedBeforeDecision, RequestedHasNoHold,
         StartedHasNoEdit, CompletedLeavesNothingHeld
  <2> QED BY <2>2, <2>3, <2>4 DEF IInv
<1>2. CASE ~(hold.status = "NONE" \/ diff = 0)
  <2>1. /\ t >= booking.released
        /\ wallet["customer"] >= diff
        /\ wallet' = [wallet EXCEPT !["customer"] = @ - diff]
        /\ hold' = [hold EXCEPT !.amount = IF @ + diff >= 0 THEN @ + diff ELSE 0]
        /\ mishap' = IF hold.status \in Settled
                     THEN mishap \cup {"edit after settlement"} ELSE mishap
        /\ ledger' = ledger
    BY <1>0, <1>2 DEF Reconcile
  <2>2. /\ hold.amount \in Nat
        /\ hold.amount = booking.total - booking.released
    BY <1>2 DEF IInv, TypeOK, HoldRow, HoldTracksPrice
  <2>3. /\ hold' \in HoldRow /\ hold'.status = hold.status
        /\ hold'.amount = t - booking.released
    <3>0. t >= booking.released
      BY <2>1
    <3>1. /\ hold.amount + diff = t - booking.released
          /\ t - booking.released \in Nat
      BY <1>t, <1>0, <2>2, <3>0
    <3>a. (IF hold.amount + diff >= 0 THEN hold.amount + diff ELSE 0)
            = t - booking.released
      BY <3>1
    <3>2. hold' = [hold EXCEPT !.amount = t - booking.released]
      BY <2>1, <3>a
    <3> QED BY <3>1, <3>2 DEF IInv, TypeOK, HoldRow
  <2>4. /\ wallet' \in [Parties -> Nat]
        /\ wallet'["customer"] = wallet["customer"] - diff
        /\ wallet'["vendor"] = wallet["vendor"]
    <3>0. wallet["customer"] >= diff /\ wallet["customer"] \in Nat
      BY <2>1, Numbers DEF IInv
    <3>1. wallet["customer"] - diff \in Nat
      BY <3>0
    <3> QED BY <2>1, <3>1 DEF IInv, TypeOK, Parties
  <2>5. TypeOK'
    BY <2>1, <2>3, <2>4 DEF IInv, TypeOK, RestTyped, Mishaps
  <2>6. HoldTracksPrice'
    BY <2>3 DEF HoldTracksPrice
  <2>7. MoneyAccounted'
    <3>1. CASE hold.status \in LiveStatus
      <4>0. hold'.status \in LiveStatus
        BY <2>3, <3>1
      <4>a. hold'.amount = hold.amount + diff
        BY <1>t, <1>0, <2>2, <2>3
      <4>1. LiveAmount = hold.amount /\ LiveAmount' = hold.amount + diff
        BY <3>1, <4>0, <4>a DEF LiveAmount
      <4>2. mishap' = mishap
        BY <2>1, <3>1 DEF LiveStatus, Settled
      <4>3. ledger' = ledger
        BY <2>1
      <4> QED BY <2>2, <2>4, <4>1, <4>2, <4>3, Numbers DEF IInv, MoneyAccounted
    <3>2. CASE hold.status \notin LiveStatus
      <4>1. mishap' # {}
        BY <1>2, <2>1, <3>2
        DEF IInv, TypeOK, HoldRow, HoldStatus, LiveStatus, Settled
      <4> QED BY <4>1 DEF MoneyAccounted
    <3> QED BY <3>1, <3>2
  <2>8. VendorGetsThePrice'
    BY <1>2, <2>1, <2>3, <2>4
    DEF IInv, VendorGetsThePrice, PaidToVendor, LiveStatus, Settled
  <2>9. FundedBeforeDecision' /\ RequestedHasNoHold' /\ StartedHasNoEdit'
          /\ CompletedLeavesNothingHeld'
    BY <2>3 DEF IInv, FundedBeforeDecision, RequestedHasNoHold, StartedHasNoEdit,
         CompletedLeavesNothingHeld
  <2> QED BY <2>5, <2>6, <2>7, <2>8, <2>9 DEF IInv
<1> QED BY <1>0, <1>1, <1>2 DEF Reconcile

-----------------------------------------------------------------------------
(* The initial states and the steps. *)

LEMMA InitIInv == Init => IInv
<1> SUFFICES ASSUME Init PROVE IInv
  OBVIOUS
<1>1. PICK total \in Totals :
        booking = [status |-> "REQUESTED", total |-> total, released |-> 0,
                   started |-> FALSE, vendorDone |-> FALSE,
                   customerDone |-> FALSE, edit |-> NoEdit, ask |-> NoAsk,
                   engaged |-> {}]
  BY DEF Init
<1>2. hold = [status |-> "NONE", amount |-> 0, timed |-> FALSE]
  BY DEF Init
<1>3. PICK funds \in Funds :
        /\ wallet = [p \in Parties |-> IF p = "customer" THEN funds ELSE 0]
        /\ ledger = [funded |-> funds, limbo |-> 0, commission |-> 0,
                     closed |-> 0, adjCustomer |-> 0, adjVendor |-> 0]
  BY DEF Init
<1>4. funds \in Nat
  BY AmountsAssumption
<1>5. booking \in BookingRow
  BY <1>1 DEF BookingRow, BookingStatus
<1>6. hold \in HoldRow
  BY <1>2 DEF HoldRow, HoldStatus
<1>7. wallet \in [Parties -> Nat] /\ ledger \in Ledger
  BY <1>3, <1>4 DEF Ledger, Parties
<1>8. RestTyped /\ mishap = {}
  BY DEF Init, RestTyped, ChargeStatus, TicketStatus, Parties
<1>9. TypeOK
  BY <1>5, <1>6, <1>7, <1>8 DEF TypeOK, RestTyped, Mishaps
<1>10. MoneyAccounted /\ VendorGetsThePrice
  BY <1>2, <1>3, <1>4
  DEF MoneyAccounted, VendorGetsThePrice, PaidToVendor, LiveAmount, LiveStatus,
      Parties
<1> QED
  BY <1>1, <1>2, <1>9, <1>10
  DEF IInv, HoldTracksPrice, FundedBeforeDecision, RequestedHasNoHold,
      StartedHasNoEdit, CompletedLeavesNothingHeld

\* A payment, in what it does to booking and hold.
LEMMA ConfirmStep ==
  ASSUME IInv, NEW charged, ConfirmBookingPayment(charged), TypeOK
  PROVE  /\ booking' \in BookingRow
         /\ booking'.status \in {"CONFIRMED", "PAID"}
         /\ booking'.total = booking.total
         /\ booking'.released = 0 /\ booking.released = 0
         /\ booking'.started = booking.started
         /\ booking'.edit = booking.edit
         /\ hold.status = "NONE"
         /\ hold' \in HoldRow
         /\ hold'.status = "HELD" /\ hold'.amount = booking.total
         /\ mishap' \subseteq Mishaps
         /\ mishap' = {} => mishap = {} /\ charged = booking.total
         /\ mishap \subseteq mishap'
<1>1. booking.status = "REQUESTED" /\ hold.status = "NONE" /\ booking.released = 0
  BY DEF ConfirmBookingPayment, IInv, RequestedHasNoHold
<1>2. booking.total \in Nat
  BY Numbers
<1>3. booking' \in BookingRow /\ booking'.status \in {"CONFIRMED", "PAID"}
      /\ booking'.total = booking.total /\ booking'.released = booking.released
      /\ booking'.started = booking.started /\ booking'.edit = booking.edit
  BY DEF ConfirmBookingPayment, TypeOK, BookingRow, BookingStatus
<1>4. hold' = [status |-> "HELD", amount |-> booking.total,
               timed |-> ~IsNegotiatedBooking]
  BY DEF ConfirmBookingPayment
<1>5. hold' \in HoldRow /\ hold'.status = "HELD" /\ hold'.amount = booking.total
  BY <1>2, <1>4 DEF HoldRow, HoldStatus, IsNegotiatedBooking
<1>6. /\ mishap' \subseteq Mishaps
      /\ mishap' = {} => mishap = {} /\ charged = booking.total
      /\ mishap \subseteq mishap'
  BY DEF ConfirmBookingPayment, TypeOK, Mishaps
<1> QED BY <1>1, <1>3, <1>5, <1>6

LEMMA PayFromWalletStep ==
  ASSUME IInv, PayFromWallet
  PROVE  IInv'
<1>1. TypeOK /\ ConfirmBookingPayment(booking.total)
  BY DEF IInv, PayFromWallet
<1>2. booking.total \in Nat
  BY <1>1, Numbers
<1>3. wallet["customer"] >= booking.total /\ wallet["customer"] \in Nat
  BY <1>1, Numbers DEF PayFromWallet
<1>4. wallet["customer"] - booking.total \in Nat
  BY <1>2, <1>3
<1>5. /\ wallet' \in [Parties -> Nat]
      /\ wallet'["customer"] = wallet["customer"] - booking.total
      /\ wallet'["vendor"] = wallet["vendor"]
      /\ ledger' = ledger
  BY <1>1, <1>4 DEF PayFromWallet, TypeOK, Parties
<1>6. TypeOK'
  BY <1>1, <1>5, ConfirmStep DEF PayFromWallet, TypeOK
<1>7. HoldTracksPrice'
  BY <1>1, <1>2, ConfirmStep DEF HoldTracksPrice
<1>8. MoneyAccounted'
  <2> SUFFICES ASSUME mishap' = {} PROVE MoneyAccounted'
    BY DEF MoneyAccounted
  <2>1. mishap = {} /\ LiveAmount = 0 /\ LiveAmount' = booking.total
    BY <1>1, ConfirmStep DEF LiveAmount, LiveStatus
  <2> QED BY <1>1, <1>2, <1>5, <2>1, Numbers DEF IInv, MoneyAccounted
<1>9. VendorGetsThePrice'
  <2>1. PaidToVendor' = PaidToVendor /\ PaidToVendor = 0
    BY <1>1, <1>5, ConfirmStep DEF IInv, VendorGetsThePrice, PaidToVendor
  <2> QED BY <1>1, <2>1, ConfirmStep DEF VendorGetsThePrice, LiveStatus
<1>10. FundedBeforeDecision' /\ RequestedHasNoHold' /\ StartedHasNoEdit'
         /\ CompletedLeavesNothingHeld'
  BY <1>1, ConfirmStep
  DEF IInv, FundedBeforeDecision, RequestedHasNoHold, StartedHasNoEdit,
      CompletedLeavesNothingHeld
<1> QED BY <1>6, <1>7, <1>8, <1>9, <1>10 DEF IInv

LEMMA ChargeConfirmedStep ==
  ASSUME IInv, NEW c \in Charges, ChargeConfirmed(c)
  PROVE  IInv'
<1>1. TypeOK /\ ConfirmBookingPayment(charge[c].amount)
  BY DEF IInv, ChargeConfirmed
<1>2. booking.total \in Nat
  BY <1>1, Numbers
<1>3. charge[c].amount \in Nat
  BY <1>1 DEF TypeOK
<1>4. /\ ledger' \in Ledger
      /\ ledger'.limbo = ledger.limbo - charge[c].amount
      /\ ledger'.funded = ledger.funded
      /\ ledger'.commission = ledger.commission
      /\ ledger'.closed = ledger.closed
      /\ ledger'.adjCustomer = ledger.adjCustomer
      /\ ledger'.adjVendor = ledger.adjVendor
      /\ wallet' = wallet
  BY <1>1, <1>3 DEF ChargeConfirmed, TypeOK, Ledger
<1>5. charge' \in [Charges -> [status : ChargeStatus, amount : Nat]]
  BY <1>1 DEF ChargeConfirmed, TypeOK, ChargeStatus
<1>6. TypeOK'
  BY <1>1, <1>4, <1>5, ConfirmStep DEF ChargeConfirmed, TypeOK
<1>7. HoldTracksPrice'
  BY <1>1, <1>2, ConfirmStep DEF HoldTracksPrice
<1>8. MoneyAccounted'
  <2> SUFFICES ASSUME mishap' = {} PROVE MoneyAccounted'
    BY DEF MoneyAccounted
  <2>1. mishap = {} /\ LiveAmount = 0 /\ LiveAmount' = booking.total
        /\ charge[c].amount = booking.total
    BY <1>1, ConfirmStep DEF LiveAmount, LiveStatus
  <2> QED BY <1>1, <1>2, <1>4, <2>1, Numbers DEF IInv, MoneyAccounted
<1>9. VendorGetsThePrice'
  <2>1. PaidToVendor' = PaidToVendor /\ PaidToVendor = 0
    BY <1>1, <1>4, ConfirmStep DEF IInv, VendorGetsThePrice, PaidToVendor
  <2> QED BY <1>1, <2>1, ConfirmStep DEF VendorGetsThePrice, LiveStatus
<1>10. FundedBeforeDecision' /\ RequestedHasNoHold' /\ StartedHasNoEdit'
         /\ CompletedLeavesNothingHeld'
  BY <1>1, ConfirmStep
  DEF IInv, FundedBeforeDecision, RequestedHasNoHold, StartedHasNoEdit,
      CompletedLeavesNothingHeld
<1> QED BY <1>6, <1>7, <1>8, <1>9, <1>10 DEF IInv

\* Money reaches the platform, for a payment not applied yet.
LEMMA CustomerPaysChargeStep ==
  ASSUME IInv, NEW c \in Charges, CustomerPaysCharge(c)
  PROVE  IInv'
<1>1. TypeOK /\ charge[c].amount \in Nat
  BY DEF IInv, TypeOK
<1>2. /\ ledger' \in Ledger
      /\ ledger'.limbo = ledger.limbo + charge[c].amount
      /\ ledger'.funded = ledger.funded + charge[c].amount
      /\ ledger'.commission = ledger.commission
      /\ ledger'.closed = ledger.closed
      /\ ledger'.adjCustomer = ledger.adjCustomer
      /\ ledger'.adjVendor = ledger.adjVendor
  <2>1. PICK a \in Nat : a = charge[c].amount
    BY <1>1
  <2>2. ledger' = [ledger EXCEPT !.funded = @ + a, !.limbo = @ + a]
    BY <2>1 DEF CustomerPaysCharge
  <2>3. ledger \in Ledger
    BY <1>1 DEF TypeOK
  <2>4. ledger.funded + a \in Nat /\ ledger.limbo + a \in Int
    BY <1>1, <2>1, Numbers
  <2>5. ledger' \in Ledger
    BY <2>2, <2>3, <2>4 DEF Ledger
  <2>6. ledger'.limbo = ledger.limbo + a /\ ledger'.funded = ledger.funded + a
    BY <2>2, <2>3 DEF Ledger
  <2>7. UNCHANGED <<ledger.commission, ledger.closed, ledger.adjCustomer,
                    ledger.adjVendor>>
    BY <2>2, <2>3 DEF Ledger
  <2> QED BY <2>1, <2>5, <2>6, <2>7
<1>3. UNCHANGED <<booking, hold, wallet, mishap>>
  BY DEF CustomerPaysCharge
<1>4. charge' \in [Charges -> [status : ChargeStatus, amount : Nat]]
  BY <1>1 DEF CustomerPaysCharge, TypeOK, ChargeStatus
<1>5. TypeOK'
  BY <1>1, <1>2, <1>4 DEF CustomerPaysCharge, TypeOK
<1>6. MoneyAccounted'
  <2>1. LiveAmount' = LiveAmount /\ LiveAmount \in Nat
    BY <1>1, <1>3, Numbers DEF LiveAmount
  <2>2. PICK a \in Nat : a = charge[c].amount
    BY <1>1
  <2>3. ledger'.limbo = ledger.limbo + a /\ ledger'.funded = ledger.funded + a
    BY <1>2, <2>2
  <2>4. ledger'.commission = ledger.commission /\ ledger'.closed = ledger.closed
        /\ ledger'.adjCustomer = ledger.adjCustomer
        /\ ledger'.adjVendor = ledger.adjVendor
    BY <1>2
  <2> QED BY <1>1, <1>3, <2>1, <2>3, <2>4, Numbers DEF IInv, MoneyAccounted
<1>7. VendorGetsThePrice'
  BY <1>2, <1>3 DEF IInv, VendorGetsThePrice, PaidToVendor
<1>8. HoldTracksPrice' /\ FundedBeforeDecision' /\ RequestedHasNoHold'
        /\ StartedHasNoEdit' /\ CompletedLeavesNothingHeld'
  BY <1>3
  DEF IInv, HoldTracksPrice, FundedBeforeDecision, RequestedHasNoHold,
      StartedHasNoEdit, CompletedLeavesNothingHeld
<1> QED BY <1>5, <1>6, <1>7, <1>8 DEF IInv


\* The refund of a ticket: credited to its filer, accounted to the same side.
LEMMA AdjustStep ==
  ASSUME TypeOK, NEW t \in Tickets, NEW refund \in Nat,
         wallet' = WalletAfterRefund(t, refund)
  PROVE  /\ wallet' \in [Parties -> Nat]
         /\ LedgerAfterRefund(t, refund) \in Ledger
         /\ LET L == LedgerAfterRefund(t, refund)
            IN  /\ L.adjCustomer - wallet'["customer"]
                     = ledger.adjCustomer - wallet["customer"]
                /\ L.adjVendor - wallet'["vendor"]
                     = ledger.adjVendor - wallet["vendor"]
                /\ L.funded = ledger.funded
                /\ L.limbo = ledger.limbo
                /\ L.commission = ledger.commission
                /\ L.closed = ledger.closed
<1>1. wallet \in [Parties -> Nat] /\ ledger \in Ledger
  BY DEF TypeOK
<1>2. ticket[t].filer = "customer" \/ ticket[t].filer = "vendor"
  BY DEF TypeOK, Parties
<1>3. CASE ticket[t].filer = "customer"
  <2>1. wallet' = [wallet EXCEPT !["customer"] = @ + refund]
    BY <1>3 DEF WalletAfterRefund
  <2>2. LedgerAfterRefund(t, refund) = [ledger EXCEPT !.adjCustomer = @ + refund]
    BY <1>3 DEF LedgerAfterRefund
  <2> QED BY <1>1, <2>1, <2>2 DEF Ledger, Parties
<1>4. CASE ticket[t].filer = "vendor"
  <2>1. wallet' = [wallet EXCEPT !["vendor"] = @ + refund]
    BY <1>4 DEF WalletAfterRefund
  <2>2. LedgerAfterRefund(t, refund) = [ledger EXCEPT !.adjVendor = @ + refund]
    BY <1>4 DEF LedgerAfterRefund
  <2> QED BY <1>1, <2>1, <2>2 DEF Ledger, Parties
<1> QED BY <1>2, <1>3, <1>4

\* A ticket is filed or decided and the hold keeps its money: at most it freezes.
LEMMA FreezeStep ==
  ASSUME IInv, RestTyped', booking' = booking, mishap' = mishap,
         hold' = hold \/ (hold.status = "HELD"
                            /\ hold' = [hold EXCEPT !.status = "DISPUTED"]),
         wallet' \in [Parties -> Nat], ledger' \in Ledger,
         ledger'.adjCustomer - wallet'["customer"]
           = ledger.adjCustomer - wallet["customer"],
         ledger'.adjVendor - wallet'["vendor"]
           = ledger.adjVendor - wallet["vendor"],
         ledger'.funded = ledger.funded, ledger'.limbo = ledger.limbo,
         ledger'.commission = ledger.commission, ledger'.closed = ledger.closed
  PROVE  IInv'
<1>1. /\ hold' \in HoldRow
      /\ hold'.amount = hold.amount
      /\ hold'.status = hold.status
           \/ (hold.status = "HELD" /\ hold'.status = "DISPUTED")
  BY DEF IInv, TypeOK, HoldRow, HoldStatus
<1>2. TypeOK'
  BY <1>1 DEF IInv, TypeOK, RestTyped
<1>3. LiveAmount' = LiveAmount /\ LiveAmount \in Nat
  BY <1>1, Numbers DEF IInv, LiveAmount, LiveStatus
<1>4. MoneyAccounted'
  <2> SUFFICES ASSUME mishap = {} PROVE MoneyAccounted'
    BY DEF MoneyAccounted
  <2>1. ledger.funded + ledger.adjCustomer + ledger.adjVendor
          = wallet["customer"] + wallet["vendor"] + LiveAmount + ledger.limbo
            + ledger.commission + ledger.closed
    BY DEF IInv, MoneyAccounted
  <2> QED BY <1>2, <1>3, <2>1, Numbers, NumbersNext DEF IInv, MoneyAccounted
<1>5. VendorGetsThePrice'
  <2>1. PaidToVendor' = PaidToVendor
    BY <1>2, Numbers, NumbersNext DEF IInv, PaidToVendor
  <2> QED BY <1>1, <2>1 DEF IInv, VendorGetsThePrice, LiveStatus
<1>6. HoldTracksPrice' /\ FundedBeforeDecision' /\ RequestedHasNoHold'
        /\ StartedHasNoEdit' /\ CompletedLeavesNothingHeld'
  BY <1>1
  DEF IInv, HoldTracksPrice, FundedBeforeDecision, RequestedHasNoHold,
      StartedHasNoEdit, CompletedLeavesNothingHeld
<1> QED BY <1>2, <1>4, <1>5, <1>6 DEF IInv

LEMMA DisputeCompletionStep ==
  ASSUME IInv, NEW t \in Tickets, DisputeCompletion(t)
  PROVE  IInv'
<1>1. ticket' \in [Tickets -> [status : TicketStatus, filer : Parties]]
  BY DEF IInv, TypeOK, DisputeCompletion, TicketStatus, Parties
<1>2. RestTyped'
  BY <1>1 DEF IInv, TypeOK, DisputeCompletion, RestTyped
<1>3. UNCHANGED <<booking, mishap, wallet, ledger>>
  BY DEF DisputeCompletion
<1>4. hold' = hold \/ (hold.status = "HELD"
                          /\ hold' = [hold EXCEPT !.status = "DISPUTED"])
  BY DEF DisputeCompletion
<1>5. wallet' \in [Parties -> Nat] /\ ledger' \in Ledger
  BY <1>3 DEF IInv, TypeOK
<1> QED BY <1>2, <1>3, <1>4, <1>5, FreezeStep

LEMMA InvestigateTicketStep ==
  ASSUME IInv, NEW t \in Tickets, NEW refund \in Refunds \cup {0},
         InvestigateTicket(t, refund)
  PROVE  IInv'
<1>1. refund \in Nat
  BY AmountsAssumption
<1>2. ticket' \in [Tickets -> [status : TicketStatus, filer : Parties]]
  BY DEF IInv, TypeOK, InvestigateTicket, TicketStatus
<1>3. RestTyped'
  BY <1>2 DEF IInv, TypeOK, InvestigateTicket, RestTyped
<1>4. /\ UNCHANGED <<booking, mishap>>
      /\ wallet' = WalletAfterRefund(t, refund)
      /\ ledger' = LedgerAfterRefund(t, refund)
      /\ hold' = hold \/ (hold.status = "HELD"
                            /\ hold' = [hold EXCEPT !.status = "DISPUTED"])
  BY DEF InvestigateTicket
<1>5. TypeOK
  BY DEF IInv
<1> QED BY <1>1, <1>3, <1>4, <1>5, AdjustStep, FreezeStep

LEMMA ShelveTicketStep ==
  ASSUME IInv, NEW t \in Tickets, NEW s \in {"OPEN", "CLOSED"},
         NEW refund \in Refunds \cup {0}, ShelveTicket(t, s, refund)
  PROVE  IInv'
<1>1. refund \in Nat
  BY AmountsAssumption
<1>2. ticket' \in [Tickets -> [status : TicketStatus, filer : Parties]]
  BY DEF IInv, TypeOK, ShelveTicket, TicketStatus
<1>3. RestTyped'
  BY <1>2 DEF IInv, TypeOK, ShelveTicket, RestTyped
<1>4. /\ UNCHANGED <<booking, mishap, hold>>
      /\ wallet' = WalletAfterRefund(t, refund)
      /\ ledger' = LedgerAfterRefund(t, refund)
  BY DEF ShelveTicket
<1>5. TypeOK
  BY DEF IInv
<1> QED BY <1>1, <1>3, <1>4, <1>5, AdjustStep, FreezeStep

\* A ticket resolved in favour of the vendor.
LEMMA ResolveForPayeeStep ==
  ASSUME IInv, NEW t \in Tickets, ResolveForPayee(t)
  PROVE  IInv'
<1>1. ticket' \in [Tickets -> [status : TicketStatus, filer : Parties]]
  BY DEF IInv, TypeOK, ResolveForPayee, TicketStatus
<1>2. RestTyped' /\ mishap' = mishap
  BY <1>1 DEF IInv, TypeOK, ResolveForPayee, RestTyped
<1>3. /\ booking' \in BookingRow /\ booking'.status = "COMPLETED"
      /\ booking'.total = booking.total /\ booking'.released = booking.released
      /\ booking'.started = booking.started /\ booking'.edit = booking.edit
  BY DEF IInv, TypeOK, ResolveForPayee, BookingRow, BookingStatus
<1>4. CASE hold.status \notin LiveStatus
  <2>1. UNCHANGED <<hold, wallet, ledger>>
    BY <1>4 DEF ResolveForPayee
  <2>2. TypeOK'
    BY <1>2, <1>3, <2>1 DEF IInv, TypeOK, RestTyped
  <2>3. HoldTracksPrice' /\ MoneyAccounted' /\ VendorGetsThePrice'
    BY <1>2, <1>3, <2>1 DEF IInv, HoldTracksPrice, MoneyAccounted,
         VendorGetsThePrice, LiveAmount, PaidToVendor
  <2>4. FundedBeforeDecision' /\ RequestedHasNoHold' /\ StartedHasNoEdit'
          /\ CompletedLeavesNothingHeld'
    BY <1>3, <1>4, <2>1 DEF IInv, FundedBeforeDecision, RequestedHasNoHold,
         StartedHasNoEdit, CompletedLeavesNothingHeld, LiveStatus
  <2> QED BY <2>2, <2>3, <2>4 DEF IInv
<1>5. CASE hold.status \in LiveStatus
  <2>1. CreditPayee(hold.amount) /\ hold' = [hold EXCEPT !.status = "RELEASED"]
    BY <1>5 DEF ResolveForPayee
  <2>2. /\ hold' \in HoldRow /\ hold'.status = "RELEASED"
        /\ hold'.amount = hold.amount
    BY <2>1 DEF IInv, TypeOK, HoldRow, HoldStatus
  <2>3. hold.amount \in Nat /\ TypeOK
    BY Numbers DEF IInv
  <2>4. TypeOK'
    BY <1>2, <1>3, <2>1, <2>2, <2>3, CreditStep DEF IInv, TypeOK, RestTyped
  <2>5. /\ wallet'["vendor"] + ledger'.commission
             = wallet["vendor"] + ledger.commission + hold.amount
        /\ ledger'.adjVendor = ledger.adjVendor
        /\ ledger'.adjCustomer = ledger.adjCustomer
        /\ wallet'["customer"] = wallet["customer"]
        /\ ledger'.funded = ledger.funded /\ ledger'.limbo = ledger.limbo
        /\ ledger'.closed = ledger.closed
    BY <2>1, <2>3, CreditStep
  <2>6. HoldTracksPrice'
    BY <1>3, <1>5, <2>2 DEF IInv, HoldTracksPrice, LiveStatus
  <2>7. MoneyAccounted'
    <3>1. LiveAmount = hold.amount /\ LiveAmount' = 0
      BY <1>5, <2>2 DEF LiveAmount, LiveStatus
    <3> QED BY <1>2, <2>3, <2>4, <2>5, <3>1, Numbers, NumbersNext
            DEF IInv, MoneyAccounted
  <2>8. VendorGetsThePrice'
    <3>1. wallet'["vendor"] + ledger'.commission - ledger'.adjVendor
            = PaidToVendor + hold.amount
      BY <2>3, <2>4, <2>5, Numbers, NumbersNext DEF PaidToVendor
    <3>2. PaidToVendor = booking.released
            /\ hold.amount = booking.total - booking.released
      BY <1>5 DEF IInv, VendorGetsThePrice, HoldTracksPrice, LiveStatus
    <3>3. PaidToVendor' = booking.total
      BY <3>1, <3>2, Numbers DEF IInv, PaidToVendor
    <3> QED BY <1>3, <2>2, <3>3 DEF VendorGetsThePrice, LiveStatus
  <2>9. FundedBeforeDecision' /\ RequestedHasNoHold' /\ StartedHasNoEdit'
          /\ CompletedLeavesNothingHeld'
    BY <1>3, <1>5, <2>2 DEF IInv, FundedBeforeDecision, RequestedHasNoHold,
         StartedHasNoEdit, CompletedLeavesNothingHeld
  <2> QED BY <2>4, <2>6, <2>7, <2>8, <2>9 DEF IInv
<1> QED BY <1>4, <1>5

\* A ticket resolved with a refund: a frozen hold is closed, its money stays
\* with the platform and is accounted for there.
LEMMA ResolveForFilerStep ==
  ASSUME IInv, NEW t \in Tickets, NEW refund \in Refunds,
         ResolveForFiler(t, refund)
  PROVE  IInv'
<1>1. ticket' \in [Tickets -> [status : TicketStatus, filer : Parties]]
  BY DEF IInv, TypeOK, ResolveForFiler, TicketStatus
<1>2. RestTyped' /\ mishap' = mishap
  BY <1>1 DEF IInv, TypeOK, ResolveForFiler, RestTyped
<1>3. /\ booking' \in BookingRow /\ booking'.status = "CANCELLED"
      /\ booking'.total = booking.total /\ booking'.released = booking.released
      /\ booking'.started = booking.started /\ booking'.edit = booking.edit
  BY DEF IInv, TypeOK, ResolveForFiler, BookingRow, BookingStatus
<1>4. TypeOK /\ refund \in Nat /\ wallet' = WalletAfterRefund(t, refund)
  BY AmountsAssumption DEF IInv, ResolveForFiler
<1>5. PICK L : L = LedgerAfterRefund(t, refund)
  OBVIOUS
<1>6. /\ wallet' \in [Parties -> Nat] /\ L \in Ledger
      /\ L.adjCustomer - wallet'["customer"] = ledger.adjCustomer - wallet["customer"]
      /\ L.adjVendor - wallet'["vendor"] = ledger.adjVendor - wallet["vendor"]
      /\ L.funded = ledger.funded /\ L.limbo = ledger.limbo
      /\ L.commission = ledger.commission /\ L.closed = ledger.closed
  BY <1>4, <1>5, AdjustStep
<1>7. /\ ledger' \in Ledger
      /\ ledger'.adjCustomer = L.adjCustomer /\ ledger'.adjVendor = L.adjVendor
      /\ ledger'.funded = L.funded /\ ledger'.limbo = L.limbo
      /\ ledger'.commission = L.commission
      /\ ledger'.closed = L.closed + (IF hold.status = "DISPUTED"
                                      THEN hold.amount ELSE 0)
  <2>1. hold.amount \in Nat
    BY <1>4, Numbers
  <2>2. CASE hold.status = "DISPUTED"
    BY <1>5, <1>6, <2>1, <2>2 DEF ResolveForFiler, Ledger
  <2>3. CASE hold.status # "DISPUTED"
    BY <1>5, <1>6, <2>3 DEF ResolveForFiler, Ledger
  <2> QED BY <2>2, <2>3
<1>8. /\ hold' \in HoldRow /\ hold'.amount = hold.amount
      /\ hold'.status = IF hold.status = "DISPUTED" THEN "REFUNDED" ELSE hold.status
  BY DEF IInv, TypeOK, ResolveForFiler, HoldRow, HoldStatus
<1>9. TypeOK'
  BY <1>2, <1>3, <1>6, <1>7, <1>8 DEF IInv, TypeOK, RestTyped
<1>10. HoldTracksPrice'
  BY <1>3, <1>8 DEF IInv, HoldTracksPrice
<1>11. MoneyAccounted'
  <2> SUFFICES ASSUME mishap = {} PROVE MoneyAccounted'
    BY <1>2 DEF MoneyAccounted
  <2>1. LiveAmount = LiveAmount' + (IF hold.status = "DISPUTED"
                                    THEN hold.amount ELSE 0)
        /\ LiveAmount \in Nat /\ LiveAmount' \in Nat
    BY <1>4, <1>8, Numbers DEF LiveAmount, LiveStatus
  <2>2. ledger.funded + ledger.adjCustomer + ledger.adjVendor
          = wallet["customer"] + wallet["vendor"] + LiveAmount + ledger.limbo
            + ledger.commission + ledger.closed
    BY DEF IInv, MoneyAccounted
  <2>3. ledger'.closed - ledger.closed = LiveAmount - LiveAmount'
    BY <1>4, <1>6, <1>7, <2>1, Numbers
  <2>4. /\ ledger'.adjCustomer - wallet'["customer"]
             = ledger.adjCustomer - wallet["customer"]
        /\ ledger'.adjVendor - wallet'["vendor"]
             = ledger.adjVendor - wallet["vendor"]
        /\ ledger'.funded = ledger.funded /\ ledger'.limbo = ledger.limbo
        /\ ledger'.commission = ledger.commission
    BY <1>6, <1>7
  <2>5. ledger'.funded + ledger'.adjCustomer + ledger'.adjVendor
          = wallet'["customer"] + wallet'["vendor"] + LiveAmount' + ledger'.limbo
            + ledger'.commission + ledger'.closed
    <3>1. TypeOK /\ LiveAmount \in Nat /\ LiveAmount' \in Nat
      BY <1>4, <2>1
    <3>2. /\ ledger'.funded = ledger.funded /\ ledger'.limbo = ledger.limbo
          /\ ledger'.commission = ledger.commission
      BY <2>4
    <3>3. ledger'.adjCustomer
            = ledger.adjCustomer + wallet'["customer"] - wallet["customer"]
      BY <1>9, <2>4, <3>1, Numbers, NumbersNext
    <3>4. ledger'.adjVendor
            = ledger.adjVendor + wallet'["vendor"] - wallet["vendor"]
      BY <1>9, <2>4, <3>1, Numbers, NumbersNext
    <3>5. ledger'.closed = ledger.closed + LiveAmount - LiveAmount'
      BY <1>9, <2>3, <3>1, Numbers, NumbersNext
    <3> QED BY <1>9, <2>2, <3>1, <3>2, <3>3, <3>4, <3>5, Numbers, NumbersNext
  <2> QED BY <2>5 DEF MoneyAccounted
<1>12. VendorGetsThePrice'
  <2>1. PaidToVendor' = PaidToVendor
    BY <1>4, <1>6, <1>7, <1>9, Numbers, NumbersNext DEF PaidToVendor
  <2> QED BY <1>2, <1>3, <1>8, <2>1 DEF IInv, VendorGetsThePrice, LiveStatus
<1>13. FundedBeforeDecision' /\ RequestedHasNoHold' /\ StartedHasNoEdit'
         /\ CompletedLeavesNothingHeld'
  BY <1>3, <1>8
  DEF IInv, FundedBeforeDecision, RequestedHasNoHold, StartedHasNoEdit,
      CompletedLeavesNothingHeld
<1> QED BY <1>9, <1>10, <1>11, <1>12, <1>13 DEF IInv


-----------------------------------------------------------------------------
(* The actions that move no money, grouped by what they write. *)

\* Steps that write only the Booking row, and neither its price nor its releases.
LEMMA RowStep ==
  ASSUME IInv,
         \/ \E edit \in EditData : ProposeEdit(edit)
         \/ DeclineEditedBooking \/ AcceptBooking
         \/ \E p \in Parties : EngageBooking(p)
         \/ EndBookingConversation
         \/ \E amount \in Slices : RequestAdditionalPayment(amount)
         \/ DeclineAdditionalPayment
         \/ StartBookingJob \/ CompleteBooking
         \/ ConfirmCompletionThrows \/ AutoCompleteThrows
  PROVE  IInv'
<1>1. booking \in BookingRow /\ RestTyped
  BY DEF IInv, TypeOK, RestTyped
<1>2. booking.started => booking.edit = NoEdit
  BY DEF IInv, StartedHasNoEdit
<1>3. CASE \E edit \in EditData : ProposeEdit(edit)
  <2>1. SamePrice
    BY <1>1, <1>2, <1>3 DEF ProposeEdit, MayEdit, SamePrice, BookingRow
  <2>2. UNCHANGED money /\ RestTyped'
    BY <1>1, <1>3 DEF ProposeEdit, RestTyped
  <2>3. booking'.status = booking.status
    BY <1>1, <1>3 DEF ProposeEdit, BookingRow
  <2> QED BY <2>1, <2>2, <2>3, QuietStep
<1>4. CASE DeclineEditedBooking
  <2>1. SamePrice
    BY <1>1, <1>2, <1>4 DEF DeclineEditedBooking, SamePrice, BookingRow
  <2>2. UNCHANGED money /\ RestTyped'
    BY <1>1, <1>4 DEF DeclineEditedBooking, RestTyped
  <2>3. booking'.status = booking.status
    BY <1>1, <1>4 DEF DeclineEditedBooking, BookingRow
  <2> QED BY <2>1, <2>2, <2>3, QuietStep
<1>5. CASE AcceptBooking
  <2>1. SamePrice
    BY <1>1, <1>2, <1>5 DEF AcceptBooking, BookingStatus, SamePrice, BookingRow
  <2>2. UNCHANGED money /\ RestTyped'
    BY <1>1, <1>5 DEF AcceptBooking, RestTyped
  <2>3. booking'.status = "CONFIRMED" /\ hold.status # "NONE"
    BY <1>1, <1>5 DEF AcceptBooking, BookingStatus, FundedBeforeDecision, IInv, BookingRow
  <2> QED BY <2>1, <2>2, <2>3, QuietStep
<1>6. CASE \E p \in Parties : EngageBooking(p)
  <2>1. SamePrice
    BY <1>1, <1>2, <1>6 DEF EngageBooking, Parties, SamePrice, BookingRow
  <2>2. UNCHANGED money /\ RestTyped'
    BY <1>1, <1>6 DEF EngageBooking, RestTyped
  <2>3. booking'.status = booking.status
    BY <1>1, <1>6 DEF EngageBooking, BookingRow
  <2> QED BY <2>1, <2>2, <2>3, QuietStep
<1>7. CASE EndBookingConversation
  <2>1. SamePrice
    BY <1>1, <1>2, <1>7 DEF EndBookingConversation, SamePrice, BookingRow
  <2>2. UNCHANGED money /\ RestTyped'
    BY <1>1, <1>7 DEF EndBookingConversation, RestTyped
  <2>3. booking'.status = booking.status
    BY <1>1, <1>7 DEF EndBookingConversation, BookingRow
  <2> QED BY <2>1, <2>2, <2>3, QuietStep
<1>8. CASE \E amount \in Slices : RequestAdditionalPayment(amount)
  <2>1. SamePrice
    BY <1>1, <1>2, <1>8 DEF RequestAdditionalPayment, SamePrice, BookingRow
  <2>2. UNCHANGED money /\ RestTyped'
    BY <1>1, <1>8 DEF RequestAdditionalPayment, RestTyped
  <2>3. booking'.status = booking.status
    BY <1>1, <1>8 DEF RequestAdditionalPayment, BookingRow
  <2> QED BY <2>1, <2>2, <2>3, QuietStep
<1>9. CASE DeclineAdditionalPayment
  <2>1. SamePrice
    BY <1>1, <1>2, <1>9 DEF DeclineAdditionalPayment, SamePrice, BookingRow
  <2>2. UNCHANGED money /\ RestTyped'
    BY <1>1, <1>9 DEF DeclineAdditionalPayment, RestTyped
  <2>3. booking'.status = booking.status
    BY <1>1, <1>9 DEF DeclineAdditionalPayment, BookingRow
  <2> QED BY <2>1, <2>2, <2>3, QuietStep
<1>10. CASE StartBookingJob
  <2>1. SamePrice
    BY <1>1, <1>2, <1>10 DEF StartBookingJob, MayStart, SamePrice, BookingRow
  <2>2. UNCHANGED money /\ RestTyped'
    BY <1>1, <1>10 DEF StartBookingJob, RestTyped
  <2>3. booking'.status = booking.status
    BY <1>1, <1>10 DEF StartBookingJob, BookingRow
  <2> QED BY <2>1, <2>2, <2>3, QuietStep
<1>11. CASE CompleteBooking
  <2>1. SamePrice
    BY <1>1, <1>2, <1>11 DEF CompleteBooking, SamePrice, BookingRow
  <2>2. UNCHANGED money /\ RestTyped'
    BY <1>1, <1>11 DEF CompleteBooking, RestTyped
  <2>3. booking'.status = booking.status
    BY <1>1, <1>11 DEF CompleteBooking, BookingRow
  <2> QED BY <2>1, <2>2, <2>3, QuietStep
<1>12. CASE ConfirmCompletionThrows
  <2>1. SamePrice
    BY <1>1, <1>2, <1>12 DEF ConfirmCompletionThrows, AwaitsCustomer, SamePrice, BookingRow
  <2>2. UNCHANGED money /\ RestTyped'
    BY <1>1, <1>12 DEF ConfirmCompletionThrows, RestTyped
  <2>3. booking'.status = booking.status
    BY <1>1, <1>12 DEF ConfirmCompletionThrows, BookingRow
  <2> QED BY <2>1, <2>2, <2>3, QuietStep
<1>13. CASE AutoCompleteThrows
  <2>1. SamePrice
    BY <1>1, <1>2, <1>13 DEF AutoCompleteThrows, OverdueForAutoComplete, SamePrice, BookingRow
  <2>2. UNCHANGED money /\ RestTyped'
    BY <1>1, <1>13 DEF AutoCompleteThrows, RestTyped
  <2>3. booking'.status = booking.status
    BY <1>1, <1>13 DEF AutoCompleteThrows, BookingRow
  <2> QED BY <2>1, <2>2, <2>3, QuietStep
<1> QED BY <1>3, <1>4, <1>5, <1>6, <1>7, <1>8, <1>9, <1>10, <1>11, <1>12, <1>13

\* Steps that leave the Booking row and the money alone.
LEMMA OutsideStep ==
  ASSUME IInv,
         \/ \E c \in Charges : InitializeCharge(c) \/ ChargeRefused(c)
         \/ EventPasses
         \/ \E t \in Tickets, p \in Parties : CreateTicket(t, p)
         \/ UNCHANGED vars
  PROVE  IInv'
<1>1. TypeOK /\ RestTyped /\ booking.total \in Nat
  BY Numbers DEF IInv, TypeOK, RestTyped
<1>2. SamePrice /\ booking'.status = booking.status /\ UNCHANGED money
  BY <1>1 DEF IInv, TypeOK, StartedHasNoEdit, SamePrice, InitializeCharge,
       ChargeRefused, EventPasses, CreateTicket, vars, money
<1>3. RestTyped'
  <2>1. ASSUME NEW c \in Charges, InitializeCharge(c) PROVE RestTyped'
    BY <1>1, <2>1 DEF RestTyped, InitializeCharge, ChargeStatus
  <2>2. ASSUME NEW c \in Charges, ChargeRefused(c) PROVE RestTyped'
    BY <1>1, <2>2 DEF RestTyped, ChargeRefused, ChargeStatus
  <2>3. CASE EventPasses
    BY <1>1, <2>3 DEF RestTyped, EventPasses
  <2>4. ASSUME NEW t \in Tickets, NEW p \in Parties, CreateTicket(t, p)
        PROVE RestTyped'
    BY <1>1, <2>4 DEF RestTyped, CreateTicket, TicketStatus
  <2>5. CASE UNCHANGED vars
    BY <1>1, <2>5 DEF RestTyped, vars
  <2> QED BY <2>1, <2>2, <2>3, <2>4, <2>5
<1> QED BY <1>2, <1>3, QuietStep

-----------------------------------------------------------------------------
(* The actions that pay out, refund or change the price. *)

LEMMA ReleasingStep ==
  ASSUME IInv, ConfirmCompletion \/ AutoComplete \/ AutoRelease
  PROVE  IInv'
<1>1. booking \in BookingRow /\ RestTyped /\ (booking.started => booking.edit = NoEdit)
  BY DEF IInv, TypeOK, RestTyped, StartedHasNoEdit
<1>2. ReleaseAll /\ mishap' = mishap /\ RestTyped'
  BY <1>1 DEF ConfirmCompletion, AutoComplete, AutoRelease, RestTyped
<1>3. SamePrice /\ booking'.status \in {booking.status, "COMPLETED"}
  <2>1. CASE ConfirmCompletion
    BY <1>1, <2>1 DEF ConfirmCompletion, SamePrice, BookingRow, BookingStatus
  <2>2. CASE AutoComplete
    BY <1>1, <2>2 DEF AutoComplete, SamePrice, BookingRow, BookingStatus
  <2>3. CASE AutoRelease
    BY <1>1, <2>3 DEF AutoRelease, SamePrice
  <2> QED BY <2>1, <2>2, <2>3
<1> QED BY <1>2, <1>3, ReleaseAllStep

LEMMA RefundingStep ==
  ASSUME IInv, DeclineBooking \/ CancelBooking
  PROVE  IInv'
<1>1. booking \in BookingRow /\ RestTyped /\ (booking.started => booking.edit = NoEdit)
  BY DEF IInv, TypeOK, RestTyped, StartedHasNoEdit
<1>2. mishap' = mishap /\ RestTyped'
  BY <1>1 DEF DeclineBooking, CancelBooking, RestTyped
<1>3. SamePrice /\ booking'.status \in {"DECLINED", "CANCELLED"}
  <2>1. CASE DeclineBooking
    BY <1>1, <2>1 DEF DeclineBooking, SamePrice, BookingRow, BookingStatus
  <2>2. CASE CancelBooking
    BY <1>1, <2>2 DEF CancelBooking, SamePrice, BookingRow, BookingStatus
  <2> QED BY <2>1, <2>2
<1>4. CASE RefundAll
  BY <1>2, <1>3, <1>4, RefundAllStep
<1>5. CASE UNCHANGED <<hold, wallet, ledger>>
  <2>1. UNCHANGED money
    BY <1>2, <1>5 DEF money
  <2>2. TypeOK'
    BY <1>2, <1>3, <2>1 DEF IInv, TypeOK, money, SamePrice, RestTyped
  <2>3. HoldTracksPrice' /\ MoneyAccounted' /\ VendorGetsThePrice'
    BY <1>3, <2>1 DEF IInv, money, SamePrice, HoldTracksPrice, MoneyAccounted,
                VendorGetsThePrice, LiveAmount, PaidToVendor
  <2>4. FundedBeforeDecision' /\ RequestedHasNoHold' /\ StartedHasNoEdit'
          /\ CompletedLeavesNothingHeld'
    BY <1>3, <2>1 DEF IInv, money, SamePrice, FundedBeforeDecision,
         RequestedHasNoHold, StartedHasNoEdit, CompletedLeavesNothingHeld
  <2> QED BY <2>2, <2>3, <2>4 DEF IInv
<1> QED BY <1>4, <1>5 DEF DeclineBooking, CancelBooking

LEMMA StagedStep ==
  ASSUME IInv,
         \/ \E amount \in Slices : ReleaseBookingPayment(amount)
         \/ ApproveAdditionalPayment
  PROVE  IInv'
<1>1. booking \in BookingRow /\ RestTyped /\ (booking.started => booking.edit = NoEdit)
  BY DEF IInv, TypeOK, RestTyped, StartedHasNoEdit
<1>2. mishap' = mishap /\ RestTyped'
  BY <1>1 DEF ReleaseBookingPayment, ApproveAdditionalPayment, RestTyped
<1>3. ASSUME NEW a \in Slices, ReleaseBookingPayment(a)
      PROVE  IInv'
  <2>1. a \in Nat /\ a > 0
    BY AmountsAssumption
  <2>2. PartialRelease(a) /\ booking' = [booking EXCEPT !.released = @ + a]
    BY <1>3 DEF ReleaseBookingPayment
  <2>3. /\ booking' \in BookingRow /\ booking'.status = booking.status
        /\ booking'.total = booking.total
        /\ booking'.released = booking.released + a
        /\ booking'.started = booking.started /\ booking'.edit = booking.edit
    BY <1>1, <2>1, <2>2 DEF BookingRow
  <2> QED BY <1>1, <1>2, <2>1, <2>2, <2>3, PartialReleaseStep
<1>4. CASE ApproveAdditionalPayment
  <2>1. PICK a \in Slices : a = booking.ask
    BY <1>1, <1>4 DEF ApproveAdditionalPayment, BookingRow
  <2>2. a \in Nat /\ a > 0
    BY AmountsAssumption
  <2>3. /\ PartialRelease(a)
        /\ booking' = [booking EXCEPT !.released = @ + a, !.ask = NoAsk]
    BY <1>4, <2>1 DEF ApproveAdditionalPayment
  <2>4. /\ booking' \in BookingRow /\ booking'.status = booking.status
        /\ booking'.total = booking.total
        /\ booking'.released = booking.released + a
        /\ booking'.started = booking.started /\ booking'.edit = booking.edit
    <3>1. PICK r \in Nat : r = booking.released + a
      BY <1>1, <2>2 DEF BookingRow
    <3>2. booking' = [booking EXCEPT !.released = r, !.ask = NoAsk]
      BY <2>3, <3>1
    <3> QED BY <1>1, <3>1, <3>2 DEF BookingRow
  <2> QED BY <1>1, <1>2, <2>2, <2>3, <2>4, PartialReleaseStep
<1> QED BY <1>3, <1>4

LEMMA EditingStep ==
  ASSUME IInv,
         AcceptEditedBooking \/ \E total \in Totals : UpdateBookingNow(total)
  PROVE  IInv'
<1>1. booking \in BookingRow /\ RestTyped /\ (booking.started => booking.edit = NoEdit)
  BY DEF IInv, TypeOK, RestTyped, StartedHasNoEdit
<1>2. RestTyped'
  BY <1>1 DEF AcceptEditedBooking, UpdateBookingNow, RestTyped
<1>3. ASSUME NEW t \in Totals, UpdateBookingNow(t)
      PROVE  IInv'
  <2>1. Reconcile(t) /\ booking' = [booking EXCEPT !.total = t]
    BY <1>3 DEF UpdateBookingNow
  <2>2. /\ booking' \in BookingRow /\ booking'.status = booking.status
        /\ booking'.total = t /\ booking'.released = booking.released
        /\ booking'.started = booking.started /\ booking'.edit = booking.edit
    BY <1>1, <2>1 DEF BookingRow
  <2> QED BY <1>1, <1>2, <2>1, <2>2, ReconcileStep
<1>4. CASE AcceptEditedBooking
  <2>1. PICK t \in Totals : t = PriceAfter(booking.edit)
    BY <1>1, <1>4 DEF AcceptEditedBooking, BookingRow, PriceAfter, EditData
  <2>2. Reconcile(t) /\ booking' = [booking EXCEPT !.total = t, !.edit = NoEdit]
    BY <1>4, <2>1 DEF AcceptEditedBooking
  <2>3. /\ booking' \in BookingRow /\ booking'.status = booking.status
        /\ booking'.total = t /\ booking'.released = booking.released
        /\ booking'.edit = NoEdit
    BY <1>1, <2>2 DEF BookingRow
  <2> QED BY <1>2, <2>2, <2>3, ReconcileStep
<1> QED BY <1>3, <1>4

-----------------------------------------------------------------------------
(* The invariants of the specification. *)

LEMMA NextIInv == IInv /\ [Next]_vars => IInv'
<1> SUFFICES ASSUME IInv, [Next]_vars PROVE IInv'
  OBVIOUS
<1>1. CASE CustomerNext
  <2>1. CASE PayFromWallet
    BY <2>1, PayFromWalletStep
  <2>2. ASSUME NEW c \in Charges, InitializeCharge(c) \/ CustomerPaysCharge(c)
        PROVE  IInv'
    BY <2>2, OutsideStep, CustomerPaysChargeStep
  <2>3. ASSUME \/ \E total \in Totals : UpdateBookingNow(total)
               \/ \E edit \in EditData : ProposeEdit(edit)
        PROVE  IInv'
    BY <2>3, EditingStep, RowStep
  <2>4. CASE \/ \E amount \in Slices : ReleaseBookingPayment(amount)
             \/ ApproveAdditionalPayment
    BY <2>4, StagedStep
  <2>5. CASE DeclineAdditionalPayment \/ ConfirmCompletionThrows
    BY <2>5, RowStep
  <2>6. CASE ConfirmCompletion
    BY <2>6, ReleasingStep
  <2>7. ASSUME NEW t \in Tickets, DisputeCompletion(t)
        PROVE  IInv'
    BY <2>7, DisputeCompletionStep
  <2> QED BY <1>1, <2>1, <2>2, <2>3, <2>4, <2>5, <2>6, <2>7 DEF CustomerNext
<1>2. CASE VendorNext
  BY <1>2, RowStep, RefundingStep, EditingStep DEF VendorNext
<1>3. CASE EitherNext
  BY <1>3, RowStep, RefundingStep, OutsideStep DEF EitherNext
<1>4. CASE SystemNext
  BY <1>4, ChargeConfirmedStep, OutsideStep, ReleasingStep, RowStep DEF SystemNext
<1>5. CASE AdminNext
  BY <1>5, InvestigateTicketStep, ShelveTicketStep, ResolveForPayeeStep,
     ResolveForFilerStep DEF AdminNext
<1>6. CASE UNCHANGED vars
  BY <1>6, OutsideStep
<1> QED BY <1>1, <1>2, <1>3, <1>4, <1>5, <1>6 DEF Next

LEMMA Inductive == Spec => []IInv
  BY InitIInv, NextIInv, PTL DEF Spec

\* Every row keeps its type, whatever the prices, payments and tickets.
THEOREM TypeCorrect == Spec => []TypeOK
<1>1. IInv => TypeOK
  BY DEF IInv
<1> QED BY <1>1, Inductive, PTL

\* Edits, staged releases, top-ups and refunds keep the hold at the price less
\* what was released.
THEOREM HoldFollowsPrice == Spec => []HoldTracksPrice
<1>1. IInv => HoldTracksPrice
  BY DEF IInv
<1> QED BY <1>1, Inductive, PTL

\* No handler makes or loses money, the two mishaps apart.
THEOREM MoneyConserved == Spec => []MoneyAccounted
<1>1. IInv => MoneyAccounted
  BY DEF IInv
<1> QED BY <1>1, Inductive, PTL

\* The vendor gets the price of the booking, once.
THEOREM VendorPaidOnce == Spec => []VendorGetsThePrice
<1>1. IInv => VendorGetsThePrice
  BY DEF IInv
<1> QED BY <1>1, Inductive, PTL

\* The vendor only works on requests that were paid for.
THEOREM FundedFirst == Spec => []FundedBeforeDecision
<1>1. IInv => FundedBeforeDecision
  BY DEF IInv
<1> QED BY <1>1, Inductive, PTL

\* A completed booking leaves no money HELD.
THEOREM NothingLeftHeld == Spec => []CompletedLeavesNothingHeld
<1>1. IInv => CompletedLeavesNothingHeld
  BY DEF IInv
<1> QED BY <1>1, Inductive, PTL

\* No edit proposed before the job starts can be accepted after it has.
THEOREM PriceFrozen == Spec => StartedPriceFrozen
<1>1. IInv /\ [Next]_vars => (booking.started => booking'.total = booking.total)
  <2> SUFFICES ASSUME IInv, [Next]_vars, booking.started
               PROVE  booking'.total = booking.total
    OBVIOUS
  <2>1. booking \in BookingRow /\ booking.edit = NoEdit
    BY DEF IInv, TypeOK, StartedHasNoEdit
  <2>2. CASE CustomerNext
    BY <2>1, <2>2
    DEF CustomerNext, PayFromWallet, ConfirmBookingPayment, InitializeCharge,
        CustomerPaysCharge, UpdateBookingNow, MayEdit, ProposeEdit,
        ReleaseBookingPayment, ApproveAdditionalPayment,
        DeclineAdditionalPayment, ConfirmCompletion, ConfirmCompletionThrows,
        DisputeCompletion, BookingRow
  <2>3. CASE VendorNext
    BY <2>1, <2>3
    DEF VendorNext, AcceptBooking, DeclineBooking, AcceptEditedBooking,
        DeclineEditedBooking, StartBookingJob, CompleteBooking,
        RequestAdditionalPayment, BookingRow
  <2>4. CASE EitherNext
    BY <2>1, <2>4
    DEF EitherNext, CancelBooking, EndBookingConversation, EngageBooking,
        CreateTicket, BookingRow
  <2>5. CASE SystemNext
    BY <2>1, <2>5
    DEF SystemNext, ChargeConfirmed, ConfirmBookingPayment, ChargeRefused,
        AutoComplete, AutoCompleteThrows, AutoRelease, EventPasses, BookingRow
  <2>6. CASE AdminNext
    BY <2>1, <2>6
    DEF AdminNext, InvestigateTicket, ShelveTicket, ResolveForPayee,
        ResolveForFiler, BookingRow
  <2>7. CASE UNCHANGED vars
    BY <2>7 DEF vars
  <2> QED BY <2>2, <2>3, <2>4, <2>5, <2>6, <2>7 DEF Next
<1> QED BY <1>1, Inductive, PTL DEF Spec, StartedPriceFrozen

\* A frozen hold leaves DISPUTED only with an admin's decision.
THEOREM FrozenUntilDecided == Spec => DisputedMovesOnlyByAdmin
<1> DEFINE Decided == \E t \in Tickets : ticket'[t].status = "RESOLVED"
<1>1. IInv /\ [Next]_vars
        => (hold.status = "DISPUTED" /\ hold'.status # "DISPUTED" => Decided)
  <2> SUFFICES ASSUME IInv, [Next]_vars, hold.status = "DISPUTED",
                      hold'.status # "DISPUTED"
               PROVE  Decided
    OBVIOUS
  <2>1. /\ hold \in HoldRow /\ booking.status # "REQUESTED"
        /\ ticket \in [Tickets -> [status : TicketStatus, filer : Parties]]
    BY DEF IInv, TypeOK, RequestedHasNoHold
  <2>2. ASSUME NEW t \in Tickets,
               ResolveForPayee(t) \/ \E refund \in Refunds : ResolveForFiler(t, refund)
        PROVE  Decided
    BY <2>1, <2>2 DEF ResolveForPayee, ResolveForFiler, TicketStatus
  <2>3. CASE CustomerNext
    BY <2>1, <2>3
    DEF CustomerNext, PayFromWallet, ConfirmBookingPayment, InitializeCharge,
        CustomerPaysCharge, UpdateBookingNow, Reconcile, ProposeEdit, money,
        ReleaseBookingPayment, ApproveAdditionalPayment, PartialRelease,
        DeclineAdditionalPayment, ConfirmCompletion, ReleaseAll,
        ConfirmCompletionThrows, ReleaseThrows, DisputeCompletion, HoldRow
  <2>4. CASE VendorNext
    BY <2>1, <2>4
    DEF VendorNext, AcceptBooking, DeclineBooking, RefundAll,
        AcceptEditedBooking, Reconcile, DeclineEditedBooking, StartBookingJob,
        CompleteBooking, RequestAdditionalPayment, money, HoldRow
  <2>5. CASE EitherNext
    BY <2>1, <2>5
    DEF EitherNext, CancelBooking, RefundAll, EndBookingConversation,
        EngageBooking, CreateTicket, money, HoldRow
  <2>6. CASE SystemNext
    BY <2>1, <2>6
    DEF SystemNext, ChargeConfirmed, ConfirmBookingPayment, ChargeRefused,
        AutoComplete, AutoCompleteThrows, ReleaseAll, ReleaseThrows,
        AutoRelease, EventPasses, money, HoldRow
  <2>7. CASE AdminNext
    <3>1. ASSUME NEW t \in Tickets, NEW refund \in Refunds \cup {0},
                 \/ InvestigateTicket(t, refund)
                 \/ \E s \in {"OPEN", "CLOSED"} : ShelveTicket(t, s, refund)
          PROVE  FALSE
      BY <2>1, <3>1 DEF InvestigateTicket, ShelveTicket
    <3> QED BY <2>2, <2>7, <3>1 DEF AdminNext
  <2>8. CASE UNCHANGED vars
    BY <2>8 DEF vars
  <2> QED BY <2>3, <2>4, <2>5, <2>6, <2>7, <2>8 DEF Next
<1> QED BY <1>1, Inductive, PTL DEF Spec, DisputedMovesOnlyByAdmin

=============================================================================
