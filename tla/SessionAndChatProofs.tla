----------------------- MODULE SessionAndChatProofs -----------------------
(***************************************************************************)
(* A session and its chat, whose end closes it.  First the money of one    *)
(* session, for every fee, estimate, budget, top-up, total and payout, and *)
(* any number of payments outside the wallet.  IInv is its inductive       *)
(* invariant.  The money parts look at the amounts of the holds only,      *)
(* which no release, refund, freeze or decision changes: FeesCovered sets  *)
(* the fees collected and the holds made of them against the deposit,      *)
(* Balanced sets what was paid in against all that went out.  Then the     *)
(* threads of one context, for any number of handlers, admins, threads and *)
(* messages.  ChatInv is their inductive invariant, Rested what one step   *)
(* leaves as it is.                                                        *)
(***************************************************************************)
EXTENDS ShopSession, SupportChat, FiniteSetTheorems, SequenceTheorems, TLAPS


-----------------------------------------------------------------------------
(* The inductive invariant. *)

Amounts(h) == Over([s \in Slots |-> h[s].amount])

NoneIsEmpty == \A s \in Slots : hold[s].status = "NONE" => hold[s].amount = 0

\* No more is collected for a fee than the fee: findRider never finds a surplus.
CollectedWithinFees ==
  /\ MinFee <= session.feeCollected /\ session.feeCollected <= session.fee
  /\ session.riderCollected <= session.riderFee

\* Until somebody is matched nothing but the deposit and the list can change.
UnmatchedIsBlank ==
  ~session.shopper =>
    /\ ~session.rider /\ session.status \in {"SEARCHING"} \cup Ended
    /\ session.fee = MinFee /\ session.riderCollected = session.riderFee
    /\ \A s \in Slots : hold[s].status = "NONE"
    /\ SellersPaid = 0
    /\ \A c \in Charges : charge[c].status # "NONE" => charge[c].purpose = "SESSION"
    /\ session.items = 0

Riding == {"RIDER_ASSIGNED", "OUT_FOR_DELIVERY", "DELIVERED"}

RiderIsHeldFor ==
  /\ ~session.rider => hold["rider"].status = "NONE"
  /\ session.status \in Riding => session.rider

\* The call is priced when it ends.
CallIsUnpriced ==
  session.status \in {"SEARCHING"} \cup Before => session.fee = MinFee

\* The mishaps that spoil the cover of the fees, and those that spoil the balance.
Funded(m) == m \cap (Unchecked \cup {"unfunded match", "late money"}) = {}
Accountable(m) == m \cap (Unchecked \cup {"late money", "applied twice", "stale shortfall",
                                          "emergency end", "unfunded match"}) = {}
Timely(m) == "late money" \notin m

\* What was collected for the call is in the shopper's holds; it fits into the
\* deposit with the rider fee and the list, or with what the sellers have.
FeesCovered ==
  Funded(mishap) /\ session.shopper =>
    /\ hold["fee"].amount = MinFee
    /\ session.feeCollected = MinFee + hold["shortfall"].amount + hold["offset"].amount
    /\ hold["shortfall"].amount > 0 => session.feeCollected = session.fee
    /\ hold["rider"].amount <= session.riderFee
    /\ session.status \in Riding => hold["rider"].amount = session.riderFee
    /\ session.feeCollected + session.riderFee + SellersPaid <= session.deposit
    /\ session.status \notin Ended =>
         /\ hold["offset"].amount = 0
         /\ session.feeCollected + session.riderFee + session.items <= session.deposit

Balanced ==
  Accountable(mishap) =>
    IF session.status \in Ended
    THEN ledger.credited + Amounts(hold) + SellersPaid <= ledger.paidIn
    ELSE ledger.credited = 0 /\ session.deposit = ledger.paidIn

Settled ==
  session.status \in Ended /\ mishap = {} =>
    /\ ledger.credited + Amounts(hold) + SellersPaid = ledger.paidIn
    /\ session.status = "COMPLETED" =>
         /\ hold["rider"].amount = session.riderFee
         /\ hold["fee"].amount + hold["shortfall"].amount + hold["offset"].amount
              = session.fee

\* What the sellers were sent is what their rows say, unless a row is below zero or
\* an answer was lost.
SellersSent ==
  /\ payout.processing <= ledger.sellers
  /\ ledger.sellers > 0 => session.shopper
  /\ mishap \cap {"negative", "lost"} = {} => ledger.sellers = SellersPaid

NothingHeld ==
  session.status \in Ended /\ Timely(mishap) =>
    \A s \in Slots : hold[s].status = "HELD" => hold[s].amount = 0

IInv ==
  /\ TypeOK /\ NoneIsEmpty /\ CollectedWithinFees /\ UnmatchedIsBlank
  /\ RiderIsHeldFor /\ CallIsUnpriced
  /\ FeesCovered /\ Balanced /\ Settled /\ NothingHeld /\ SellersSent

-----------------------------------------------------------------------------
(* Sums over the four holds. *)

LEMMA AmountsAdd ==
  ASSUME NEW h
  PROVE  Amounts(h) = h["fee"].amount + h["shortfall"].amount + h["offset"].amount
                        + h["rider"].amount
  BY DEF Amounts, Over, Slots

LEMMA AmountsNat ==
  ASSUME NEW h \in [Slots -> HoldRow]
  PROVE  Amounts(h) \in Nat
<1>1. \A s \in Slots : h[s].amount \in Nat
  BY DEF HoldRow
<1> QED BY <1>1, AmountsAdd DEF Slots

LEMMA HavingNat ==
  ASSUME NEW h \in [Slots -> HoldRow], NEW S
  PROVE  Having(h, S) \in Nat
<1> DEFINE f == [s \in Slots |-> IF h[s].status \in S THEN h[s].amount ELSE 0]
<1>1. \A s \in Slots : f[s] \in Nat
  BY DEF HoldRow
<1> QED BY <1>1 DEF Having, Over, Slots

LEMMA PlatformRowsNat ==
  ASSUME NEW h \in [Slots -> HoldRow]
  PROVE  PlatformRows(h) \in Nat
<1> DEFINE f == [s \in Slots |-> IF h[s].status = "RELEASED"
                                 THEN Commission(RoleOf(s), h[s].amount) ELSE 0]
<1>1. ASSUME NEW s \in Slots PROVE f[s] \in Nat
  <2>1. h[s].amount \in Nat
    BY DEF HoldRow
  <2>2. Rate[RoleOf(s)] \in {15, 20}
    BY DEF Rate, RoleOf
  <2>3. Commission(RoleOf(s), h[s].amount) \in Nat
    BY <2>1, <2>2 DEF Commission
  <2> QED BY <2>3
<1> QED BY <1>1 DEF PlatformRows, Over, Slots

\* Every hold is in one of the statuses, so that the parts add up to the whole.
LEMMA HavingSplits ==
  ASSUME NEW h \in [Slots -> HoldRow],
         \A s \in Slots : h[s].status = "NONE" => h[s].amount = 0
  PROVE  /\ Having(h, HoldStatus) = Amounts(h)
         /\ Having(h, {"REFUNDED"}) + Having(h, {"RELEASED"}) + Having(h, LiveStatus)
              = Amounts(h)
<1> DEFINE In(S) == [s \in Slots |-> IF h[s].status \in S THEN h[s].amount ELSE 0]
           All == In(HoldStatus)
           Back == In({"REFUNDED"})
           Out == In({"RELEASED"})
           Due == In(LiveStatus)
<1>1. ASSUME NEW s \in Slots
      PROVE  /\ All[s] = h[s].amount /\ Back[s] + Out[s] + Due[s] = h[s].amount
             /\ h[s].amount \in Nat /\ Back[s] \in Nat /\ Out[s] \in Nat /\ Due[s] \in Nat
  BY DEF HoldRow, HoldStatus, LiveStatus
<1>2. Having(h, HoldStatus) = Over(All) /\ Having(h, {"REFUNDED"}) = Over(Back)
      /\ Having(h, {"RELEASED"}) = Over(Out) /\ Having(h, LiveStatus) = Over(Due)
  BY DEF Having
<1>3. Over(All) = Amounts(h)
  <2>1. All = [s \in Slots |-> h[s].amount]
    BY <1>1
  <2> QED BY <2>1 DEF Amounts
<1>4. Over(Back) + Over(Out) + Over(Due) = Amounts(h)
  <2> HIDE DEF Back, Out, Due
  <2> QED BY <1>1, AmountsAdd DEF Over, Slots
<1> QED BY <1>2, <1>3, <1>4

\* The same holds with the same amounts, whatever became of their statuses.
SameAmounts(h, g) ==
  \A s \in Slots : /\ g[s].amount = h[s].amount
                   /\ g[s].status = "NONE" <=> h[s].status = "NONE"

LEMMA MovedKeepsAmounts ==
  ASSUME NEW h \in [Slots -> HoldRow], NEW S, NEW from, NEW to \in HoldStatus,
         "NONE" \notin from
  PROVE  /\ Moved(h, S, from, to) \in [Slots -> HoldRow]
         /\ SameAmounts(h, Moved(h, S, from, to))
  BY DEF Moved, HoldRow, HoldStatus, SameAmounts

LEMMA SameTotal ==
  ASSUME NEW h, NEW g, SameAmounts(h, g)
  PROVE  Amounts(g) = Amounts(h)
  BY AmountsAdd DEF SameAmounts, Slots

LEMMA FewerMishaps ==
  ASSUME NEW m, NEW n, m \subseteq n
  PROVE  /\ Funded(n) => Funded(m)
         /\ Accountable(n) => Accountable(m)
         /\ Timely(n) => Timely(m)
         /\ n = {} => m = {}
  BY DEF Funded, Accountable, Timely

LEMMA StricterMishaps ==
  ASSUME NEW m
  PROVE  /\ Accountable(m) => Funded(m)
         /\ Funded(m) => Timely(m)
         /\ m = {} => Accountable(m)
  BY DEF Funded, Accountable, Timely

LEMMA InitInv == Init => IInv
<1> SUFFICES ASSUME Init PROVE IInv
  OBVIOUS
<1>1. PICK riderFee \in RiderFees :
        session = [status |-> "SEARCHING", shopper |-> FALSE, rider |-> FALSE,
                   deposit |-> 0, fee |-> MinFee, riderFee |-> riderFee,
                   feeCollected |-> MinFee, riderCollected |-> riderFee,
                   items |-> 0, repriced |-> FALSE, emergency |-> "NONE"]
  BY DEF Init
<1>2. riderFee \in Nat /\ MinFee \in Nat
  BY SessionAmountsAssumption
<1>3. session \in SessionRow
  BY <1>1, <1>2 DEF SessionRow, SessionStatus
<1>4. TypeOK
  BY <1>3 DEF Init, TypeOK, HoldRow, HoldStatus, ChargeRow, Purposes
<1>5. NoneIsEmpty /\ CollectedWithinFees /\ UnmatchedIsBlank /\ RiderIsHeldFor
  BY <1>1, <1>2 DEF Init, NoneIsEmpty, CollectedWithinFees, UnmatchedIsBlank, Slots,
                    SellersPaid, RiderIsHeldFor, Riding
<1>6. CallIsUnpriced /\ FeesCovered /\ Balanced /\ Settled /\ NothingHeld /\ SellersSent
  BY <1>1, <1>2 DEF Init, CallIsUnpriced, FeesCovered, Balanced, Settled, NothingHeld,
                    SellersSent, SellersPaid, Ended
<1> QED BY <1>4, <1>5, <1>6 DEF IInv

-----------------------------------------------------------------------------
(* Steps that move no money into or out of the session. *)

Numbers(r) == <<r.shopper, r.rider, r.deposit, r.fee, r.riderFee, r.feeCollected,
                r.riderCollected, r.items>>

\* The moves of the status that only say how far the session is.
Onward == {<<"MATCHED", "LIVE_CALL">>, <<"PACKAGING", "FINDING_RIDER">>,
           <<"RIDER_ASSIGNED", "OUT_FOR_DELIVERY">>, <<"OUT_FOR_DELIVERY", "DELIVERED">>}

ChargesKnown ==
  ~session.shopper =>
    \A c \in Charges : charge[c].status # "NONE" => charge[c].purpose = "SESSION"

LEMMA SentKept ==
  ASSUME IInv, UNCHANGED payout, ledger'.sellers = ledger.sellers,
         session.shopper => session'.shopper, mishap \subseteq mishap'
  PROVE  SellersSent'
<1>1. SellersPaid' = SellersPaid
  BY DEF SellersPaid
<1> QED BY <1>1 DEF IInv, SellersSent

LEMMA SameMoney ==
  ASSUME IInv, TypeOK', SameAmounts(hold, hold'),
         \A s \in Slots : hold'[s].status = "HELD" => hold[s].status = "HELD",
         Numbers(session') = Numbers(session), ChargesKnown',
         session'.status = session.status \/ <<session.status, session'.status>> \in Onward,
         SellersPaid' = SellersPaid, ledger'.paidIn = ledger.paidIn,
         ledger'.credited = ledger.credited, mishap \subseteq mishap', SellersSent'
  PROVE  IInv'
<1>1. /\ session'.shopper = session.shopper /\ session'.rider = session.rider
      /\ session'.deposit = session.deposit /\ session'.fee = session.fee
      /\ session'.riderFee = session.riderFee
      /\ session'.feeCollected = session.feeCollected
      /\ session'.riderCollected = session.riderCollected
      /\ session'.items = session.items
  BY DEF Numbers
<1>2. /\ \A s \in Slots : hold'[s].amount = hold[s].amount
      /\ \A s \in Slots : hold'[s].status = "NONE" <=> hold[s].status = "NONE"
      /\ Amounts(hold') = Amounts(hold)
  BY SameTotal DEF SameAmounts
<1>3. /\ session'.status \in Ended <=> session.status \in Ended
      /\ session'.status \in Riding => session.status \in Riding
      /\ session'.status \in {"SEARCHING"} \cup Before => session.status \in {"SEARCHING"} \cup Before
      /\ session.status \in Ended \cup {"SEARCHING"} => session'.status = session.status
  BY DEF Onward, Ended, Riding, Before
<1>4. NoneIsEmpty' /\ CollectedWithinFees'
  BY <1>1, <1>2 DEF IInv, NoneIsEmpty, CollectedWithinFees
<1>5. UnmatchedIsBlank'
  BY <1>1, <1>2, <1>3 DEF IInv, UnmatchedIsBlank, ChargesKnown
<1>6. RiderIsHeldFor' /\ CallIsUnpriced'
  BY <1>1, <1>2, <1>3 DEF IInv, RiderIsHeldFor, CallIsUnpriced, Slots
<1>7. FeesCovered'
  BY <1>1, <1>2, <1>3, FewerMishaps DEF IInv, FeesCovered, Slots
<1>8. Balanced'
  BY <1>1, <1>2, <1>3, FewerMishaps DEF IInv, Balanced
<1>9. Settled'
  BY <1>1, <1>2, <1>3, FewerMishaps DEF IInv, Settled, Slots
<1>10. NothingHeld'
  BY <1>2, <1>3, FewerMishaps DEF IInv, NothingHeld
<1> QED BY <1>4, <1>5, <1>6, <1>7, <1>8, <1>9, <1>10 DEF IInv

\* A step that writes no other field of the session than status and emergency.
LEMMA OnlyStatus ==
  ASSUME TypeOK, NEW s, NEW e,
         session' = [session EXCEPT !.status = s, !.emergency = e]
  PROVE  /\ Numbers(session') = Numbers(session)
         /\ session'.status = s /\ session'.emergency = e
  BY DEF TypeOK, SessionRow, Numbers

LEMMA SameHolds == SameAmounts(hold, hold)
  BY DEF SameAmounts

LEMMA GoesInv ==
  ASSUME IInv, NEW from, NEW to, Goes(from, to), <<from, to>> \in Onward
  PROVE  IInv'
<1>1. to \in SessionStatus
  BY DEF Onward, SessionStatus, Before, Bought, Ended
<1>2. TypeOK'
  BY <1>1 DEF Goes, IInv, TypeOK, SessionRow
<1>3. Numbers(session') = Numbers(session) /\ session'.status = to
  BY DEF Goes, IInv, TypeOK, SessionRow, Numbers
<1>4. session'.shopper = session.shopper
  BY <1>3 DEF Numbers
<1>5. ChargesKnown'
  BY <1>4 DEF IInv, UnmatchedIsBlank, ChargesKnown, Goes
<1>6. SellersPaid' = SellersPaid
  BY DEF Goes, SellersPaid
<1> QED BY <1>2, <1>3, <1>5, <1>6, SentKept, SameMoney, SameHolds DEF Goes

LEMMA EmergencyInv ==
  ASSUME IInv, (\E by \in {"CUSTOMER", "SHOPPER"} : RequestEmergencyEnd(by))
                 \/ DeclineEmergencyEnd
  PROVE  IInv'
<1>1. PICK e \in {"NONE", "CUSTOMER", "SHOPPER"} : session' = [session EXCEPT !.emergency = e]
  BY DEF RequestEmergencyEnd, DeclineEmergencyEnd
<1>2. UNCHANGED <<hold, away, payout, charge, ledger, mishap>>
  BY DEF RequestEmergencyEnd, DeclineEmergencyEnd
<1>3. TypeOK'
  BY <1>1, <1>2 DEF IInv, TypeOK, SessionRow
<1>4. Numbers(session') = Numbers(session) /\ session'.status = session.status
  BY <1>1 DEF IInv, TypeOK, SessionRow, Numbers
<1>5. session'.shopper = session.shopper
  BY <1>4 DEF Numbers
<1>6. ChargesKnown'
  BY <1>2, <1>5 DEF IInv, UnmatchedIsBlank, ChargesKnown
<1>7. SellersPaid' = SellersPaid
  BY <1>2 DEF SellersPaid
<1>8. SellersSent'
  BY <1>2, <1>5, SentKept
<1> QED BY <1>2, <1>3, <1>4, <1>6, <1>7, <1>8, SameMoney, SameHolds

\* A step that leaves the session, the charges and the payouts alone.
LEMMA HoldsOnlyInv ==
  ASSUME IInv, UNCHANGED <<session, payout, charge, mishap>>, away' \subseteq Leavers,
         hold' \in [Slots -> HoldRow], SameAmounts(hold, hold'),
         \A s \in Slots : hold'[s].status = "HELD" => hold[s].status = "HELD",
         ledger' \in [paidIn : Nat, credited : Nat, closed : Nat, sellers : Nat],
         ledger'.paidIn = ledger.paidIn, ledger'.credited = ledger.credited,
         ledger'.sellers = ledger.sellers
  PROVE  IInv'
<1>1. TypeOK'
  BY DEF IInv, TypeOK
<1>2. ChargesKnown'
  BY DEF IInv, UnmatchedIsBlank, ChargesKnown
<1>3. SellersPaid' = SellersPaid
  BY DEF SellersPaid
<1> QED BY <1>1, <1>2, <1>3, SentKept, SameMoney

LEMMA AutoReleaseInv ==
  ASSUME IInv, NEW s \in Slots, AutoRelease(s)
  PROVE  IInv'
<1>1. hold' = Moved(hold, {s}, {"HELD"}, "RELEASED") /\ hold \in [Slots -> HoldRow]
  BY DEF AutoRelease, IInv, TypeOK
<1>2. hold' \in [Slots -> HoldRow] /\ SameAmounts(hold, hold')
  BY <1>1, MovedKeepsAmounts DEF HoldStatus
<1>3. \A t \in Slots : hold'[t].status = "HELD" => hold[t].status = "HELD"
  BY <1>1 DEF Moved, HoldRow
<1> QED BY <1>2, <1>3, HoldsOnlyInv DEF AutoRelease, IInv, TypeOK

LEMMA InvestigateInv ==
  ASSUME IInv, InvestigateTicket
  PROVE  IInv'
<1>1. hold' = Moved(hold, Slots, {"HELD"}, "DISPUTED") /\ hold \in [Slots -> HoldRow]
  BY DEF InvestigateTicket, IInv, TypeOK
<1>2. hold' \in [Slots -> HoldRow] /\ SameAmounts(hold, hold')
  BY <1>1, MovedKeepsAmounts DEF HoldStatus
<1>3. \A t \in Slots : hold'[t].status = "HELD" => hold[t].status = "HELD"
  BY <1>1 DEF Moved, HoldRow
<1> QED BY <1>2, <1>3, HoldsOnlyInv DEF InvestigateTicket, IInv, TypeOK

LEMMA ResolveForFilerInv ==
  ASSUME IInv, ResolveForFiler
  PROVE  IInv'
<1>1. hold' = Moved(hold, Slots, {"DISPUTED"}, "REFUNDED") /\ hold \in [Slots -> HoldRow]
  BY DEF ResolveForFiler, IInv, TypeOK
<1>2. hold' \in [Slots -> HoldRow] /\ SameAmounts(hold, hold')
  BY <1>1, MovedKeepsAmounts DEF HoldStatus
<1>3. \A t \in Slots : hold'[t].status = "HELD" => hold[t].status = "HELD"
  BY <1>1 DEF Moved, HoldRow
<1>4. Having(hold, {"DISPUTED"}) \in Nat
  BY <1>1, HavingNat
<1>5. /\ ledger' \in [paidIn : Nat, credited : Nat, closed : Nat, sellers : Nat]
      /\ ledger'.paidIn = ledger.paidIn /\ ledger'.credited = ledger.credited
      /\ ledger'.sellers = ledger.sellers
  BY <1>4 DEF ResolveForFiler, IInv, TypeOK
<1> QED BY <1>2, <1>3, <1>5, HoldsOnlyInv DEF ResolveForFiler, IInv, TypeOK

LEMMA ReturnInv ==
  ASSUME IInv, NEW p \in Leavers, Return(p)
  PROVE  IInv'
<1>1. away' \subseteq Leavers
  BY DEF Return, IInv, TypeOK
<1> QED BY <1>1, HoldsOnlyInv, SameHolds DEF Return, IInv, TypeOK

LEMMA TransferSucceededInv ==
  ASSUME IInv, NEW amount \in Slices, TransferSucceeded(amount)
  PROVE  IInv'
<1>1. amount \in Nat /\ payout.processing \in Nat /\ payout.paid \in Int
  BY SessionAmountsAssumption DEF IInv, TypeOK
<1>2. /\ payout'.processing = payout.processing - amount
      /\ payout'.paid = payout.paid + amount
      /\ payout' \in [processing : Nat, paid : Int]
  BY <1>1 DEF TransferSucceeded
<1>3. SellersPaid' = SellersPaid
  BY <1>1, <1>2 DEF SellersPaid
<1>4. TypeOK'
  BY <1>2 DEF TransferSucceeded, IInv, TypeOK
<1>5. ChargesKnown'
  BY DEF TransferSucceeded, IInv, UnmatchedIsBlank, ChargesKnown
<1>6. SellersSent'
  <2>1. ledger' = ledger /\ session' = session /\ mishap' = mishap
    BY DEF TransferSucceeded
  <2>2. /\ payout.processing <= ledger.sellers
        /\ ledger.sellers > 0 => session.shopper
        /\ mishap \cap {"negative", "lost"} = {} => ledger.sellers = SellersPaid
    BY DEF IInv, SellersSent
  <2>3. ledger.sellers \in Nat
    BY DEF IInv, TypeOK
  <2>4. payout'.processing <= ledger'.sellers
    BY <1>1, <1>2, <2>1, <2>2, <2>3
  <2> QED BY <1>3, <2>1, <2>2, <2>4 DEF SellersSent
<1> QED BY <1>3, <1>4, <1>5, <1>6, SameMoney, SameHolds DEF TransferSucceeded

\* A reference for another purpose than the deposit is made for a session that has
\* its shopper: there is nothing else to pay before.
LEMMA InitializeChargeInv ==
  ASSUME IInv, NEW c \in Charges, NEW purpose \in Purposes, NEW amount \in 1 .. MaxPaid,
         InitializeCharge(c, purpose, amount)
  PROVE  IInv'
<1>1. TypeOK'
  BY DEF InitializeCharge, IInv, TypeOK, ChargeRow, Purposes
<1>2. ~session.shopper => purpose = "SESSION"
  <2>1. SUFFICES ASSUME ~session.shopper, purpose # "SESSION" PROVE FALSE
    OBVIOUS
  <2>2. session.status \in {"SEARCHING"} \cup Ended /\ Shortfall(session) = 0
    <3>1. /\ session.fee \in Nat /\ session.feeCollected \in Nat
          /\ session.riderFee \in Nat /\ session.riderCollected \in Nat
      BY DEF IInv, TypeOK, SessionRow
    <3>2. session.fee = session.feeCollected /\ session.riderFee = session.riderCollected
      BY <2>1, <3>1, SessionAmountsAssumption
         DEF IInv, UnmatchedIsBlank, CollectedWithinFees
    <3> QED BY <2>1, <3>1, <3>2 DEF IInv, UnmatchedIsBlank, Shortfall, FeeShortfall,
                                    RiderShortfall, Positive
  <2> QED BY <2>1, <2>2 DEF InitializeCharge, Chargeable, RiderTopUpDue, Ended
<1>3. ChargesKnown'
  BY <1>2 DEF InitializeCharge, IInv, TypeOK, UnmatchedIsBlank, ChargesKnown
<1>4. SellersPaid' = SellersPaid
  BY DEF InitializeCharge, SellersPaid
<1> QED BY <1>1, <1>3, <1>4, SentKept, SameMoney, SameHolds DEF InitializeCharge

-----------------------------------------------------------------------------
(* The ends of a session. *)

\* The numbers of the session and of the ledger are naturals.
LEMMA AllNat ==
  ASSUME TypeOK
  PROVE  /\ session.deposit \in Nat /\ session.fee \in Nat /\ session.riderFee \in Nat
         /\ session.feeCollected \in Nat /\ session.riderCollected \in Nat
         /\ session.items \in Nat /\ SellersPaid \in Int
         /\ ledger.paidIn \in Nat /\ ledger.credited \in Nat /\ ledger.closed \in Nat
         /\ ledger.sellers \in Nat
         /\ \A s \in Slots : hold[s].amount \in Nat
         /\ MinFee \in Nat \ {0}
<1>1. /\ session.deposit \in Nat /\ session.fee \in Nat /\ session.riderFee \in Nat
      /\ session.feeCollected \in Nat /\ session.riderCollected \in Nat
      /\ session.items \in Nat
  BY DEF TypeOK, SessionRow
<1>2. SellersPaid \in Int
  BY DEF TypeOK, SellersPaid
<1>3. \A s \in Slots : hold[s].amount \in Nat
  BY DEF TypeOK, HoldRow
<1> QED BY <1>1, <1>2, <1>3, SessionAmountsAssumption DEF TypeOK

LEMMA PositiveNat ==
  ASSUME NEW n \in Int
  PROVE  Positive(n) \in Nat /\ Positive(n) >= n
  BY DEF Positive

\* Until the end, what is set aside and what the sellers have fit into the deposit.
LEMMA SetAsideFits ==
  ASSUME IInv, Funded(mishap)
  PROVE  Amounts(hold) + SellersPaid <= session.deposit
<1>1. CASE session.shopper
  <2>1. hold["fee"].amount + hold["shortfall"].amount + hold["offset"].amount
          = session.feeCollected
    BY <1>1, AllNat DEF IInv, FeesCovered, Slots
  <2> QED BY <1>1, <2>1, AllNat, AmountsAdd DEF IInv, FeesCovered, Slots
<1>2. CASE ~session.shopper
  <2>1. SellersPaid = 0 /\ \A s \in Slots : hold[s].amount = 0
    BY <1>2 DEF IInv, UnmatchedIsBlank, NoneIsEmpty
  <2>2. Amounts(hold) = 0
    BY <2>1, AmountsAdd DEF Slots
  <2> QED BY <2>1, <2>2, AllNat DEF IInv
<1> QED BY <1>1, <1>2

\* A session that goes to an end: what it and its holds come to is left alone, and
\* nothing is HELD any more.
LEMMA EndsInv ==
  ASSUME IInv, TypeOK', SameAmounts(hold, hold'), Numbers(session') = Numbers(session),
         session'.status \in Ended, UNCHANGED <<payout, charge>>,
         ledger'.sellers = ledger.sellers,
         \A s \in Slots : hold'[s].status # "HELD",
         mishap \subseteq mishap', Balanced', Settled'
  PROVE  IInv'
<1>1. /\ session'.shopper = session.shopper /\ session'.rider = session.rider
      /\ session'.deposit = session.deposit /\ session'.fee = session.fee
      /\ session'.riderFee = session.riderFee
      /\ session'.feeCollected = session.feeCollected
      /\ session'.riderCollected = session.riderCollected
      /\ session'.items = session.items
  BY DEF Numbers
<1>2. /\ \A s \in Slots : hold'[s].amount = hold[s].amount
      /\ \A s \in Slots : hold'[s].status = "NONE" <=> hold[s].status = "NONE"
  BY DEF SameAmounts
<1>3. session'.status \notin Riding \cup {"SEARCHING"} \cup Before
  BY DEF Ended, Riding, Before
<1>4. SellersPaid' = SellersPaid
  BY DEF SellersPaid
<1>5. NoneIsEmpty' /\ CollectedWithinFees'
  BY <1>1, <1>2 DEF IInv, NoneIsEmpty, CollectedWithinFees
<1>6. UnmatchedIsBlank'
  BY <1>1, <1>2, <1>4 DEF IInv, UnmatchedIsBlank
<1>7. RiderIsHeldFor' /\ CallIsUnpriced'
  BY <1>1, <1>2, <1>3 DEF IInv, RiderIsHeldFor, CallIsUnpriced, Slots
<1>8. FeesCovered'
  BY <1>1, <1>2, <1>3, <1>4, FewerMishaps DEF IInv, FeesCovered, Slots
<1>9. NothingHeld'
  BY DEF NothingHeld
<1>10. SellersSent'
  BY <1>1, SentKept
<1> QED BY <1>5, <1>6, <1>7, <1>8, <1>9, <1>10 DEF IInv

\* refundRemainingDeposit pays back what neither a hold nor a payout accounts for;
\* only a commission can make it less, and that is noted.
LEMMA CancelledInv ==
  ASSUME IInv, NEW h \in [Slots -> HoldRow], SameAmounts(hold, h), Cancellable,
         Cancelled(h), away' \subseteq Leavers
  PROVE  IInv'
<1>1. /\ session' = [session EXCEPT !.status = "CANCELLED"]
      /\ hold' = Moved(h, Slots, {"HELD"}, "REFUNDED")
      /\ UNCHANGED <<payout, charge>>
  BY DEF Cancelled, RefundRemainingDeposit, RefundedAll
<1> DEFINE back == Positive(session.deposit - (AllRows(h) + SellersPaid))
<1>2. /\ ledger' = [ledger EXCEPT !.credited = @ + back]
      /\ mishap' = mishap \cup Noting(PlatformRows(h) > 0, "commission counted")
  BY DEF Cancelled, RefundRemainingDeposit
<1>3. /\ hold' \in [Slots -> HoldRow] /\ SameAmounts(h, hold')
      /\ \A s \in Slots : hold'[s].status # "HELD"
  <2>1. hold' \in [Slots -> HoldRow] /\ SameAmounts(h, hold')
    BY <1>1, MovedKeepsAmounts DEF HoldStatus
  <2> QED BY <1>1, <2>1 DEF Moved, HoldRow
<1>4. SameAmounts(hold, hold') /\ Amounts(hold') = Amounts(hold) /\ Amounts(h) = Amounts(hold)
  BY <1>3, SameTotal DEF SameAmounts
<1>5. /\ AllRows(h) = Amounts(hold) + PlatformRows(h) /\ PlatformRows(h) \in Nat
      /\ Amounts(hold) \in Nat
  <2>1. \A s \in Slots : h[s].status = "NONE" => h[s].amount = 0
    BY DEF SameAmounts, IInv, NoneIsEmpty
  <2> QED BY <1>4, <2>1, HavingSplits, PlatformRowsNat, AmountsNat DEF AllRows
<1>6. back \in Nat /\ (PlatformRows(h) = 0 => back = Positive(session.deposit - Amounts(hold) - SellersPaid))
  BY <1>5, AllNat, PositiveNat DEF IInv
<1>7. /\ Numbers(session') = Numbers(session) /\ session'.status = "CANCELLED"
      /\ session'.deposit = session.deposit /\ session' \in SessionRow
  BY <1>1 DEF IInv, TypeOK, SessionRow, Numbers, SessionStatus, Ended
<1> HIDE DEF back
<1>8. /\ ledger'.credited = ledger.credited + back /\ ledger'.paidIn = ledger.paidIn
      /\ ledger'.sellers = ledger.sellers
      /\ ledger' \in [paidIn : Nat, credited : Nat, closed : Nat, sellers : Nat]
  <2>1. ledger \in [paidIn : Nat, credited : Nat, closed : Nat, sellers : Nat] /\ back \in Nat
    BY <1>6 DEF IInv, TypeOK
  <2>2. ledger' = [ledger EXCEPT !.credited = @ + back]
    BY <1>2
  <2> QED BY <2>1, <2>2
<1>9. TypeOK'
  BY <1>1, <1>2, <1>3, <1>7, <1>8 DEF IInv, TypeOK, Noting, Mishaps
<1>10. SellersPaid' = SellersPaid /\ mishap \subseteq mishap'
  BY <1>1, <1>2 DEF SellersPaid
<1>11. session.status \notin Ended
  BY DEF Cancellable, Ended
<1>12. back + Amounts(hold) + SellersPaid <= session.deposit \/ back = 0
  BY <1>5, AllNat DEF back, Positive, IInv
<1>13. /\ session.deposit \in Nat /\ SellersPaid \in Int
       /\ ledger.paidIn \in Nat /\ ledger.credited \in Nat
  BY AllNat DEF IInv
<1>14. Balanced'
  <2> SUFFICES ASSUME Accountable(mishap)
      PROVE  ledger'.credited + Amounts(hold') + SellersPaid' <= ledger'.paidIn
    BY <1>7, <1>10, FewerMishaps DEF Balanced, Ended
  <2>1. ledger.credited = 0 /\ session.deposit = ledger.paidIn
    BY <1>11 DEF IInv, Balanced
  <2>2. Amounts(hold) + SellersPaid <= session.deposit
    BY SetAsideFits, StricterMishaps
  <2> QED BY <1>4, <1>5, <1>6, <1>8, <1>10, <1>12, <1>13, <2>1, <2>2
<1>15. Settled'
  <2> SUFFICES ASSUME mishap' = {}
      PROVE  ledger'.credited + Amounts(hold') + SellersPaid' = ledger'.paidIn
    BY <1>7 DEF Settled
  <2>1. mishap = {} /\ PlatformRows(h) = 0
    <3>1. mishap = {} /\ ~(PlatformRows(h) > 0)
      BY <1>2 DEF Noting
    <3> QED BY <1>5, <3>1
  <2>2. ledger.credited = 0 /\ session.deposit = ledger.paidIn
    BY <1>11, <2>1, StricterMishaps DEF IInv, Balanced
  <2>3. Amounts(hold) + SellersPaid <= session.deposit
    BY <2>1, SetAsideFits, StricterMishaps
  <2>4. back = session.deposit - Amounts(hold) - SellersPaid
    BY <1>5, <1>6, <1>13, <2>1, <2>3 DEF Positive
  <2> QED BY <1>4, <1>5, <1>8, <1>10, <1>13, <2>2, <2>4
<1> QED BY <1>1, <1>3, <1>4, <1>7, <1>8, <1>9, <1>10, <1>14, <1>15, EndsInv DEF Ended

LEMMA CancelSessionInv ==
  ASSUME IInv, CancelSession \/ LeaveSearch \/ ExpireStaleSearching \/ ExpireStaleLive
  PROVE  IInv'
<1>1. Cancelled(hold) /\ UNCHANGED away /\ Cancellable
  BY DEF CancelSession, LeaveSearch, ExpireStaleSearching, ExpireStaleLive, Cancellable,
         Before, Bought
<1> QED BY <1>1, CancelledInv, SameHolds DEF IInv, TypeOK

LEMMA ShopperPaidKeeps ==
  ASSUME TypeOK
  PROVE  ShopperPaid \in [Slots -> HoldRow] /\ SameAmounts(hold, ShopperPaid)
  BY MovedKeepsAmounts DEF ShopperPaid, HoldStatus, TypeOK

LEMMA ExpireAbandonedInv ==
  ASSUME IInv, ExpireAbandoned
  PROVE  IInv'
<1>1. Cancelled(ShopperPaid) /\ UNCHANGED away /\ Cancellable
  BY DEF ExpireAbandoned, Cancellable, Before
<1> QED BY <1>1, CancelledInv, ShopperPaidKeeps DEF IInv, TypeOK

LEMMA MarkAwayInv ==
  ASSUME IInv, NEW p \in Leavers, MarkAway(p)
  PROVE  IInv'
<1>1. away' \subseteq Leavers /\ Cancellable
  BY DEF MarkAway, IInv, TypeOK
<1>2. CASE UNCHANGED <<session, hold, payout, charge, ledger, mishap>>
  BY <1>1, <1>2, HoldsOnlyInv, SameHolds DEF IInv, TypeOK
<1>3. CASE Cancelled(ShopperPaid)
  BY <1>1, <1>3, CancelledInv, ShopperPaidKeeps DEF IInv
<1> QED BY <1>2, <1>3 DEF MarkAway

\* updateTicketStatus can complete a session that nobody has confirmed; that is noted.
LEMMA ResolveForPayeesInv ==
  ASSUME IInv, ResolveForPayees
  PROVE  IInv'
<1>1. /\ hold' = Moved(hold, Slots, LiveStatus, "RELEASED")
      /\ session' = [session EXCEPT !.status = "COMPLETED"]
      /\ mishap' = mishap \cup Noting(session.status # "COMPLETED", "ticket")
      /\ UNCHANGED <<away, payout, charge, ledger>>
  BY DEF ResolveForPayees
<1>2. /\ hold' \in [Slots -> HoldRow] /\ SameAmounts(hold, hold')
      /\ \A s \in Slots : hold'[s].status # "HELD"
  <2>1. hold' \in [Slots -> HoldRow] /\ SameAmounts(hold, hold')
    BY <1>1, MovedKeepsAmounts DEF HoldStatus, LiveStatus, IInv, TypeOK
  <2> QED BY <1>1, <2>1 DEF Moved, HoldRow, LiveStatus, IInv, TypeOK
<1>3. /\ Numbers(session') = Numbers(session) /\ session'.status = "COMPLETED"
      /\ session' \in SessionRow /\ session'.deposit = session.deposit
      /\ session'.fee = session.fee /\ session'.riderFee = session.riderFee
  BY <1>1 DEF IInv, TypeOK, SessionRow, Numbers, SessionStatus, Ended
<1>4. TypeOK'
  BY <1>1, <1>2, <1>3 DEF IInv, TypeOK, Noting, Mishaps
<1>5. /\ mishap \subseteq mishap' /\ SellersPaid' = SellersPaid
      /\ Amounts(hold') = Amounts(hold)
  BY <1>1, <1>2, SameTotal DEF SellersPaid
<1>6. Balanced'
  <2> SUFFICES ASSUME Accountable(mishap)
      PROVE  ledger.credited + Amounts(hold) + SellersPaid <= ledger.paidIn
    BY <1>1, <1>3, <1>5, FewerMishaps DEF Balanced, Ended
  <2>1. CASE session.status \in Ended
    BY <2>1 DEF IInv, Balanced
  <2>2. CASE session.status \notin Ended
    <3>1. ledger.credited = 0 /\ session.deposit = ledger.paidIn
      BY <2>2 DEF IInv, Balanced
    <3>2. Amounts(hold) + SellersPaid <= session.deposit
      BY SetAsideFits, StricterMishaps
    <3>3. Amounts(hold) \in Nat /\ SellersPaid \in Int
      BY AmountsNat, AllNat DEF IInv, TypeOK
    <3> QED BY <3>1, <3>2, <3>3
  <2> QED BY <2>1, <2>2
<1>7. Settled'
  <2> SUFFICES ASSUME mishap' = {} PROVE Settled'
    BY DEF Settled
  <2>1. mishap = {} /\ session.status = "COMPLETED"
    BY <1>1 DEF Noting
  <2> QED BY <1>1, <1>2, <1>3, <1>5, <2>1 DEF IInv, Settled, Ended, SameAmounts, Slots
<1> QED BY <1>1, <1>2, <1>3, <1>4, <1>5, <1>6, <1>7, EndsInv DEF Ended

LEMMA ConfirmEmergencyEndInv ==
  ASSUME IInv, NEW f \in CallFees, ConfirmEmergencyEnd(f)
  PROVE  IInv'
<1> DEFINE h == IF session.emergency = "CUSTOMER" THEN ChargedFor(f) ELSE hold
           back == Positive(session.deposit - session.fee - session.riderFee)
<1>1. /\ hold' = Moved(h, Slots, {"HELD"}, "REFUNDED")
      /\ ledger' = [ledger EXCEPT !.credited = @ + back]
      /\ session' = [session EXCEPT !.status = "CANCELLED", !.emergency = "NONE"]
      /\ mishap' = mishap \cup {"emergency end"}
      /\ UNCHANGED <<away, payout, charge>>
  BY DEF ConfirmEmergencyEnd, RefundedAll
<1>2. h \in [Slots -> HoldRow] /\ SameAmounts(hold, h)
  <2> DEFINE first == Moved(hold, {"fee"}, {"HELD"}, "RELEASED")
             second == Moved(first, {"shortfall"}, {"HELD"}, "RELEASED")
  <2>1. first \in [Slots -> HoldRow] /\ SameAmounts(hold, first)
    BY MovedKeepsAmounts DEF IInv, TypeOK, HoldStatus
  <2>2. second \in [Slots -> HoldRow] /\ SameAmounts(first, second)
    BY <2>1, MovedKeepsAmounts DEF HoldStatus
  <2>3. h \in {hold, first, second}
    BY DEF ChargedFor
  <2> QED BY <2>1, <2>2, <2>3, SameHolds DEF IInv, TypeOK, SameAmounts
<1> HIDE DEF h
<1>3. /\ hold' \in [Slots -> HoldRow] /\ SameAmounts(h, hold')
      /\ \A s \in Slots : hold'[s].status # "HELD"
  <2>1. hold' \in [Slots -> HoldRow] /\ SameAmounts(h, hold')
    BY <1>1, <1>2, MovedKeepsAmounts DEF HoldStatus
  <2> QED BY <1>1, <1>2, <2>1 DEF Moved, HoldRow
<1>4. SameAmounts(hold, hold')
  BY <1>2, <1>3 DEF SameAmounts
<1>5. back \in Nat
  BY AllNat, PositiveNat DEF IInv
<1> HIDE DEF back
<1>6. /\ Numbers(session') = Numbers(session) /\ session'.status = "CANCELLED"
      /\ session' \in SessionRow
  BY <1>1 DEF IInv, TypeOK, SessionRow, Numbers, SessionStatus, Ended
<1>7. /\ ledger' \in [paidIn : Nat, credited : Nat, closed : Nat, sellers : Nat]
      /\ ledger'.sellers = ledger.sellers
  <2>1. ledger \in [paidIn : Nat, credited : Nat, closed : Nat, sellers : Nat]
    BY DEF IInv, TypeOK
  <2>2. ledger' = [ledger EXCEPT !.credited = @ + back]
    BY <1>1
  <2> QED BY <1>5, <2>1, <2>2
<1>8. TypeOK'
  BY <1>1, <1>3, <1>6, <1>7 DEF IInv, TypeOK, Mishaps
<1>9. Balanced' /\ Settled'
  BY <1>1 DEF Balanced, Settled, Accountable
<1> QED BY <1>1, <1>3, <1>4, <1>6, <1>7, <1>8, <1>9, EndsInv DEF Ended

\* The arithmetic of refundUnspentBudget: what is left of the budget covers what is
\* due, first for the call, then for the rider.
LEMMA OffsetFits ==
  ASSUME IInv, NEW unspent, NEW offset, NEW forFee,
         unspent = Positive(session.deposit - session.fee - session.riderFee - SellersPaid),
         offset = Lesser(unspent, Shortfall(session)),
         forFee = Lesser(offset, FeeShortfall(session))
  PROVE  /\ unspent \in Nat /\ offset \in Nat /\ forFee \in Nat
         /\ forFee <= offset /\ offset <= unspent
         /\ unspent > 0 => unspent = session.deposit - session.fee - session.riderFee - SellersPaid
         /\ unspent >= session.deposit - session.fee - session.riderFee - SellersPaid
         /\ forFee <= session.fee - session.feeCollected
         /\ offset - forFee <= session.riderFee - session.riderCollected
         /\ Shortfall(session) = 0 =>
              /\ offset = 0 /\ forFee = 0
              /\ session.feeCollected = session.fee
<1> DEFINE F == session.fee
           R == session.riderFee
           C == session.feeCollected
           K == session.riderCollected
<1>1. /\ F \in Nat /\ R \in Nat /\ C \in Nat /\ K \in Nat /\ C <= F /\ K <= R
      /\ session.deposit \in Nat /\ SellersPaid \in Int
  BY AllNat DEF IInv, CollectedWithinFees
<1> HIDE DEF F, R, C, K
<1>2. FeeShortfall(session) = F - C /\ Shortfall(session) = (F - C) + (R - K)
  BY <1>1 DEF FeeShortfall, RiderShortfall, Shortfall, Positive, F, R, C, K
<1>3. /\ unspent \in Nat
      /\ unspent > 0 => unspent = session.deposit - F - R - SellersPaid
      /\ unspent >= session.deposit - F - R - SellersPaid
  BY <1>1 DEF Positive, F, R
<1>4. /\ offset \in Nat /\ forFee \in Nat /\ forFee <= offset /\ offset <= unspent
      /\ forFee <= F - C /\ offset - forFee <= R - K
      /\ (F - C) + (R - K) = 0 => offset = 0 /\ forFee = 0 /\ C = F
  BY <1>1, <1>2, <1>3 DEF Lesser
<1> QED BY <1>2, <1>3, <1>4 DEF F, R, C, K

\* A delivered session is completed: confirmSession and finalizeAutoReleasedSessions.
LEMMA CompletedInv ==
  ASSUME IInv, NEW h \in [Slots -> HoldRow], SameAmounts(hold, h),
         \A s \in Slots : h[s].status = "HELD" => h[s].amount = 0,
         session.status = "DELIVERED", RefundUnspentBudget(h),
         UNCHANGED <<away, payout, charge>>
  PROVE  IInv'
<1> DEFINE unspent == Positive(session.deposit - session.fee - session.riderFee
                                 - SellersPaid)
           offset == Lesser(unspent, Shortfall(session))
           forFee == Lesser(offset, FeeShortfall(session))
<1>1. /\ hold' = IF forFee > 0 /\ session.shopper
                 THEN [h EXCEPT !["offset"] = [status |-> "RELEASED", amount |-> forFee]]
                 ELSE h
      /\ session' = [session EXCEPT !.status = "COMPLETED", !.feeCollected = @ + forFee,
                                    !.riderCollected = @ + offset - forFee]
      /\ ledger' = [ledger EXCEPT !.credited = @ + unspent - offset]
      /\ mishap' = mishap \cup Noting(Shortfall(session) > 0, "shortfall")
  BY DEF RefundUnspentBudget
<1>2. /\ unspent \in Nat /\ offset \in Nat /\ forFee \in Nat
      /\ forFee <= offset /\ offset <= unspent
      /\ unspent > 0 => unspent = session.deposit - session.fee - session.riderFee - SellersPaid
      /\ unspent >= session.deposit - session.fee - session.riderFee - SellersPaid
      /\ forFee <= session.fee - session.feeCollected
      /\ offset - forFee <= session.riderFee - session.riderCollected
      /\ Shortfall(session) = 0 =>
           /\ offset = 0 /\ forFee = 0
           /\ session.feeCollected = session.fee
  BY OffsetFits
<1> HIDE DEF unspent, offset, forFee
<1>3. session.shopper /\ session.rider
  <2>1. session.status \notin {"SEARCHING"} \cup Ended
    BY DEF Ended
  <2> QED BY <2>1 DEF IInv, UnmatchedIsBlank, RiderIsHeldFor, Riding
<1>4. /\ session.deposit \in Nat /\ session.fee \in Nat /\ session.riderFee \in Nat
      /\ session.feeCollected \in Nat /\ session.riderCollected \in Nat
      /\ SellersPaid \in Int /\ MinFee \in Nat \ {0}
      /\ \A s \in Slots : hold[s].amount \in Nat
  BY AllNat DEF IInv
<1>5. /\ session'.status = "COMPLETED"
      /\ session'.feeCollected = session.feeCollected + forFee
      /\ session'.riderCollected = session.riderCollected + offset - forFee
      /\ session'.shopper = session.shopper /\ session'.rider = session.rider
      /\ session'.deposit = session.deposit /\ session'.fee = session.fee
      /\ session'.riderFee = session.riderFee /\ session'.items = session.items
      /\ session' \in SessionRow
  <2>1. session \in SessionRow
    BY DEF IInv, TypeOK
  <2>2. session.feeCollected + forFee \in Nat /\ session.riderCollected + offset - forFee \in Nat
    BY <1>2, <1>4
  <2>3. "COMPLETED" \in SessionStatus
    BY DEF SessionStatus, Ended
  <2> QED BY <1>1, <2>1, <2>2, <2>3 DEF SessionRow
<1>6. /\ ledger'.credited = ledger.credited + unspent - offset
      /\ ledger'.paidIn = ledger.paidIn /\ ledger'.sellers = ledger.sellers
      /\ ledger' \in [paidIn : Nat, credited : Nat, closed : Nat, sellers : Nat]
  <2>1. ledger \in [paidIn : Nat, credited : Nat, closed : Nat, sellers : Nat]
    BY DEF IInv, TypeOK
  <2>2. ledger.credited + unspent - offset \in Nat
    BY <1>2, <2>1
  <2>3. ledger' = [ledger EXCEPT !.credited = @ + unspent - offset]
    BY <1>1
  <2> QED BY <2>1, <2>2, <2>3
<1>7. /\ hold' \in [Slots -> HoldRow]
      /\ \A s \in Slots \ {"offset"} : hold'[s] = h[s]
      /\ hold'["offset"] = h["offset"] \/ hold'["offset"] = [status |-> "RELEASED", amount |-> forFee]
      /\ h["offset"].amount = 0 => hold'["offset"].amount = forFee
  BY <1>1, <1>2, <1>3 DEF Slots, HoldRow, HoldStatus
<1>8. /\ \A s \in Slots \ {"offset"} : /\ hold'[s].amount = hold[s].amount
                                       /\ hold'[s].status = "NONE" <=> hold[s].status = "NONE"
      /\ hold["offset"].amount = 0 => hold'["offset"].amount = forFee
      /\ \A s \in Slots : hold'[s].status = "NONE" => hold'[s].amount = 0
      /\ \A s \in Slots : hold'[s].status = "HELD" => hold'[s].amount = 0
  BY <1>7 DEF SameAmounts, Slots, IInv, NoneIsEmpty
<1>9. TypeOK'
  BY <1>1, <1>5, <1>6, <1>7 DEF IInv, TypeOK, Noting, Mishaps
<1>10. mishap \subseteq mishap' /\ SellersPaid' = SellersPaid
  BY <1>1 DEF SellersPaid
<1>11. NoneIsEmpty' /\ NothingHeld'
  BY <1>8 DEF NoneIsEmpty, NothingHeld
<1>12. CollectedWithinFees'
  BY <1>2, <1>4, <1>5 DEF IInv, CollectedWithinFees
<1>13. UnmatchedIsBlank' /\ RiderIsHeldFor' /\ CallIsUnpriced'
  BY <1>3, <1>5 DEF UnmatchedIsBlank, RiderIsHeldFor, CallIsUnpriced, Riding, Before
\* While the fees are covered, the holds come to what was collected for the call and
\* the rider fee.
<1>14. ASSUME Funded(mishap)
       PROVE  /\ hold["fee"].amount = MinFee /\ hold["offset"].amount = 0
              /\ session.feeCollected = MinFee + hold["shortfall"].amount
              /\ hold["shortfall"].amount > 0 => session.feeCollected = session.fee
              /\ hold["rider"].amount = session.riderFee
              /\ session.feeCollected + session.riderFee + SellersPaid <= session.deposit
              /\ hold'["fee"].amount = MinFee /\ hold'["offset"].amount = forFee
              /\ hold'["shortfall"].amount = hold["shortfall"].amount
              /\ hold'["rider"].amount = session.riderFee
              /\ hold["shortfall"].amount \in Nat
              /\ Amounts(hold') = session.feeCollected + session.riderFee + forFee
  <2>1. /\ hold["fee"].amount = MinFee /\ hold["offset"].amount = 0
        /\ session.feeCollected = MinFee + hold["shortfall"].amount
        /\ hold["shortfall"].amount > 0 => session.feeCollected = session.fee
        /\ hold["rider"].amount = session.riderFee
        /\ session.feeCollected + session.riderFee + SellersPaid <= session.deposit
    BY <1>3, <1>4, <1>14 DEF IInv, FeesCovered, Ended, Riding, Slots
  <2>2. /\ hold'["fee"].amount = MinFee /\ hold'["offset"].amount = forFee
        /\ hold'["shortfall"].amount = hold["shortfall"].amount
        /\ hold'["rider"].amount = session.riderFee
        /\ hold["shortfall"].amount \in Nat
    <3>1. /\ "fee" \in Slots \ {"offset"} /\ "shortfall" \in Slots \ {"offset"}
          /\ "rider" \in Slots \ {"offset"}
      BY DEF Slots
    <3>2. /\ hold'["fee"].amount = hold["fee"].amount
          /\ hold'["shortfall"].amount = hold["shortfall"].amount
          /\ hold'["rider"].amount = hold["rider"].amount
      BY <1>8, <3>1
    <3>3. hold'["offset"].amount = forFee
      BY <1>8, <2>1
    <3>4. hold["shortfall"].amount \in Nat
      BY <1>4, <3>1
    <3> QED BY <2>1, <3>2, <3>3, <3>4
  <2>3. Amounts(hold') = MinFee + hold["shortfall"].amount + forFee + session.riderFee
    BY <2>2, AmountsAdd
  <2> QED BY <1>2, <1>4, <2>1, <2>2, <2>3
<1>15. FeesCovered'
  <2> SUFFICES ASSUME Funded(mishap)
      PROVE  /\ hold'["fee"].amount = MinFee
             /\ session'.feeCollected
                  = MinFee + hold'["shortfall"].amount + hold'["offset"].amount
             /\ hold'["shortfall"].amount > 0 => session'.feeCollected = session'.fee
             /\ hold'["rider"].amount <= session'.riderFee
             /\ session'.feeCollected + session'.riderFee + SellersPaid' <= session'.deposit
    BY <1>5, <1>10, FewerMishaps DEF FeesCovered, Ended, Riding
  <2> QED BY <1>2, <1>4, <1>5, <1>10, <1>14
<1>16. Balanced'
  <2> SUFFICES ASSUME Accountable(mishap)
      PROVE  ledger'.credited + Amounts(hold') + SellersPaid <= ledger'.paidIn
    BY <1>5, <1>10, FewerMishaps DEF Balanced, Ended
  <2>1. ledger.credited = 0 /\ session.deposit = ledger.paidIn
    BY DEF IInv, Balanced, Ended
  <2> QED BY <1>2, <1>4, <1>6, <1>14, <2>1, StricterMishaps
<1>17. Settled'
  <2> SUFFICES ASSUME mishap' = {}
      PROVE  /\ ledger'.credited + Amounts(hold') + SellersPaid = ledger'.paidIn
             /\ hold'["rider"].amount = session.riderFee
             /\ hold'["fee"].amount + hold'["shortfall"].amount + hold'["offset"].amount
                  = session.fee
    BY <1>5, <1>10 DEF Settled
  <2>1. mishap = {} /\ ~(Shortfall(session) > 0)
    BY <1>1 DEF Noting
  <2>2. Shortfall(session) = 0
    <3>1. Shortfall(session) \in Nat
      BY <1>4 DEF Shortfall, FeeShortfall, RiderShortfall, Positive
    <3> QED BY <2>1, <3>1
  <2>3. ledger.credited = 0 /\ session.deposit = ledger.paidIn
    BY <2>1, StricterMishaps DEF IInv, Balanced, Ended
  <2>4. Funded(mishap)
    BY <2>1, StricterMishaps
  <2>5. ledger'.paidIn = session.deposit /\ ledger'.credited = unspent
    BY <1>2, <1>6, <2>2, <2>3
  <2>6. session.feeCollected = session.fee /\ forFee = 0
    BY <1>2, <2>2
  <2>7. unspent = session.deposit - session.fee - session.riderFee - SellersPaid
    BY <1>2, <1>4, <1>14, <2>4, <2>6
  <2> QED BY <1>4, <1>14, <2>4, <2>5, <2>6, <2>7
<1>18. SellersSent'
  BY <1>5, <1>6, <1>10, SentKept
<1> QED BY <1>9, <1>11, <1>12, <1>13, <1>15, <1>16, <1>17, <1>18 DEF IInv

LEMMA ConfirmSessionInv ==
  ASSUME IInv, ConfirmSession
  PROVE  IInv'
<1>1. ReleasedAll(hold) \in [Slots -> HoldRow] /\ SameAmounts(hold, ReleasedAll(hold))
  BY MovedKeepsAmounts DEF ReleasedAll, HoldStatus, IInv, TypeOK
<1>2. \A s \in Slots : ReleasedAll(hold)[s].status # "HELD"
  BY DEF ReleasedAll, Moved, IInv, TypeOK, HoldRow
<1> QED BY <1>1, <1>2, CompletedInv DEF ConfirmSession

LEMMA NoSumNoPart ==
  ASSUME NEW a \in Nat, NEW b \in Nat, NEW c \in Nat, NEW d \in Nat, a + b + c + d = 0
  PROVE  a = 0 /\ b = 0 /\ c = 0 /\ d = 0
  OBVIOUS

LEMMA FinalizeAutoReleasedInv ==
  ASSUME IInv, FinalizeAutoReleased
  PROVE  IInv'
<1>1. hold \in [Slots -> HoldRow] /\ Having(hold, {"HELD"}) = 0
  BY DEF FinalizeAutoReleased, IInv, TypeOK
<1>2. \A s \in Slots : hold[s].status = "HELD" => hold[s].amount = 0
  <2> DEFINE due == [s \in Slots |-> IF hold[s].status \in {"HELD"} THEN hold[s].amount ELSE 0]
  <2>1. \A s \in Slots : due[s] \in Nat
    BY <1>1 DEF HoldRow
  <2>2. due["fee"] + due["shortfall"] + due["offset"] + due["rider"] = 0
    BY <1>1 DEF Having, Over
  <2>3. \A s \in Slots : due[s] = 0
    <3>1. /\ due["fee"] \in Nat /\ due["shortfall"] \in Nat
          /\ due["offset"] \in Nat /\ due["rider"] \in Nat
      BY <2>1 DEF Slots
    <3> HIDE DEF due
    <3>2. due["fee"] = 0 /\ due["shortfall"] = 0 /\ due["offset"] = 0 /\ due["rider"] = 0
      BY <2>2, <3>1, NoSumNoPart
    <3> QED BY <3>2 DEF Slots
  <2> QED BY <2>3
<1> QED BY <1>1, <1>2, CompletedInv, SameHolds DEF FinalizeAutoReleased

-----------------------------------------------------------------------------
(* Payments into the session. *)

\* A payment that is to raise the deposit by a: either that much came in, or it is
\* noted that it did not; money that comes after the end is noted too.
Booked(a) ==
  /\ UNCHANGED <<away, payout>>
  /\ charge' \in [Charges -> ChargeRow]
  /\ \A c \in Charges : charge'[c].status # "NONE" =>
       charge[c].status # "NONE" /\ charge'[c].purpose = charge[c].purpose
  /\ ledger' \in [paidIn : Nat, credited : Nat, closed : Nat, sellers : Nat]
  /\ ledger'.credited = ledger.credited /\ ledger'.sellers = ledger.sellers
  /\ mishap \subseteq mishap' /\ LateMoney \subseteq mishap' /\ mishap' \subseteq Mishaps
  /\ \/ ledger'.paidIn = ledger.paidIn + a
     \/ "applied twice" \in mishap' \/ "stale shortfall" \in mishap'

\* What such a payment leaves as it was.
LEMMA BookedKeeps ==
  ASSUME IInv, NEW a, Booked(a), session'.shopper = session.shopper
  PROVE  /\ ChargesKnown' /\ SellersPaid' = SellersPaid /\ SellersSent'
         /\ Funded(mishap') => Funded(mishap)
         /\ Timely(mishap') => session.status \notin Ended
         /\ Accountable(mishap') =>
              /\ session.status \notin Ended
              /\ ledger'.credited = 0
              /\ ledger'.paidIn = session.deposit + a
         /\ mishap' = {} => session.status \notin Ended
         /\ Funded(mishap') => session.status \notin Ended
<1>1. ChargesKnown'
  BY DEF Booked, IInv, UnmatchedIsBlank, ChargesKnown
<1>2. SellersPaid' = SellersPaid
  BY DEF Booked, SellersPaid
<1>3. mishap \subseteq mishap'
  BY DEF Booked
<1>4. session.status \in Ended => "late money" \in mishap'
  BY DEF Booked, LateMoney, Noting
<1>5. ASSUME Accountable(mishap')
      PROVE  /\ session.status \notin Ended
             /\ ledger'.credited = 0
             /\ ledger'.paidIn = session.deposit + a
  <2>1. "late money" \notin mishap' /\ "applied twice" \notin mishap'
        /\ "stale shortfall" \notin mishap'
    BY <1>5 DEF Accountable
  <2>2. session.status \notin Ended /\ ledger'.paidIn = ledger.paidIn + a
        /\ ledger'.credited = ledger.credited
    BY <1>4, <2>1 DEF Booked
  <2>3. Accountable(mishap)
    BY <1>3, <1>5, FewerMishaps
  <2> QED BY <2>2, <2>3 DEF IInv, Balanced
<1>6. Funded(mishap') => "late money" \notin mishap'
  BY DEF Funded
<1>7. Funded(mishap') => Funded(mishap)
  BY <1>3, FewerMishaps
<1>8. SellersSent'
  BY SentKept DEF Booked
<1> QED BY <1>1, <1>2, <1>4, <1>5, <1>6, <1>7, <1>8 DEF Timely

\* confirmShopSessionPayment and confirmItemsTopUp.  As long as the fees are covered
\* the shopper has a hold already, so that only matchSession makes it.
LEMMA DepositInv ==
  ASSUME IInv, NEW a \in Nat, Booked(a),
         session' = [session EXCEPT !.deposit = @ + a],
         hold' \in {hold, WithFeeHold(hold, session')}
  PROVE  IInv'
<1>1. /\ session'.deposit = session.deposit + a /\ session' \in SessionRow
      /\ session'.status = session.status
      /\ session'.shopper = session.shopper /\ session'.rider = session.rider
      /\ session'.fee = session.fee /\ session'.riderFee = session.riderFee
      /\ session'.feeCollected = session.feeCollected
      /\ session'.riderCollected = session.riderCollected
      /\ session'.items = session.items
  BY DEF IInv, TypeOK, SessionRow
<1>2. hold' = hold \/ /\ session.shopper /\ ShopperHolds(hold) = {}
                      /\ hold' = Created(hold, "fee", session.fee)
  BY <1>1 DEF WithFeeHold
<1>3. /\ hold' \in [Slots -> HoldRow]
      /\ \A s \in Slots \ {"fee"} : hold'[s] = hold[s]
      /\ \A s \in Slots : hold'[s].status = "NONE" => hold'[s].amount = 0
      /\ ~session.shopper => hold' = hold
  BY <1>2, AllNat DEF IInv, TypeOK, NoneIsEmpty, Created, HoldRow, HoldStatus
<1>4. TypeOK'
  BY <1>1, <1>3 DEF Booked, IInv, TypeOK
<1>5. /\ ChargesKnown' /\ SellersPaid' = SellersPaid /\ SellersSent'
      /\ Funded(mishap') => Funded(mishap)
      /\ Timely(mishap') => session.status \notin Ended
      /\ Accountable(mishap') =>
           /\ session.status \notin Ended
           /\ ledger'.credited = 0
           /\ ledger'.paidIn = session.deposit + a
      /\ mishap' = {} => session.status \notin Ended
  BY <1>1, BookedKeeps
<1>6. session.deposit \in Nat
  BY AllNat DEF IInv
<1>7. NoneIsEmpty' /\ CollectedWithinFees' /\ CallIsUnpriced'
  BY <1>1, <1>3 DEF IInv, NoneIsEmpty, CollectedWithinFees, CallIsUnpriced
<1>8. RiderIsHeldFor'
  <2>1. "rider" \in Slots \ {"fee"}
    BY DEF Slots
  <2> QED BY <1>1, <1>3, <2>1 DEF IInv, RiderIsHeldFor
<1>9. UnmatchedIsBlank'
  <2>1. SUFFICES ASSUME ~session.shopper
        PROVE  /\ ~session'.rider /\ session'.status \in {"SEARCHING"} \cup Ended
               /\ session'.fee = MinFee /\ session'.riderCollected = session'.riderFee
               /\ \A s \in Slots : hold'[s].status = "NONE"
               /\ SellersPaid' = 0
               /\ session'.items = 0
    BY <1>1, <1>5 DEF UnmatchedIsBlank, ChargesKnown
  <2>2. /\ ~session.rider /\ session.status \in {"SEARCHING"} \cup Ended
        /\ session.fee = MinFee /\ session.riderCollected = session.riderFee
        /\ \A s \in Slots : hold[s].status = "NONE"
        /\ SellersPaid = 0
        /\ session.items = 0
    BY <2>1 DEF IInv, UnmatchedIsBlank
  <2> QED BY <1>1, <1>3, <1>5, <2>1, <2>2
<1>10. FeesCovered'
  <2> SUFFICES ASSUME Funded(mishap'), session'.shopper PROVE FeesCovered'
    BY DEF FeesCovered
  <2>1. Funded(mishap) /\ session.shopper
    BY <1>1, <1>5
  <2>2. hold["fee"].amount = MinFee
    BY <2>1 DEF IInv, FeesCovered
  <2>3. hold' = hold
    <3>1. hold["fee"].status # "NONE"
      BY <2>2, SessionAmountsAssumption DEF IInv, NoneIsEmpty, Slots
    <3>2. ShopperHolds(hold) # {}
      BY <3>1 DEF ShopperHolds, Slots
    <3> QED BY <1>2, <3>2
  <2>4. /\ SellersPaid \in Int /\ session.feeCollected \in Nat /\ session.riderFee \in Nat
        /\ session.items \in Nat
    BY AllNat DEF IInv
  <2>5. FeesCovered
    BY DEF IInv
  <2>6. /\ session'.feeCollected + session'.riderFee + SellersPaid' <= session'.deposit
        /\ session.status \notin Ended =>
             session'.feeCollected + session'.riderFee + session'.items <= session'.deposit
    BY <1>1, <1>5, <1>6, <2>1, <2>4, <2>5 DEF FeesCovered
  <2> QED BY <1>1, <2>1, <2>3, <2>5, <2>6 DEF FeesCovered
<1>11. Balanced' /\ Settled' /\ NothingHeld'
  BY <1>1, <1>5 DEF Balanced, Settled, NothingHeld
<1> QED BY <1>4, <1>5, <1>7, <1>8, <1>9, <1>10, <1>11 DEF IInv

\* confirmRiderFeeTopUp, which only a session with its shopper can come to.
LEMMA RiderTopUpInv ==
  ASSUME IInv, NEW a \in Nat, Booked(a), session.shopper, ConfirmRiderFeeTopUp(a)
  PROVE  IInv'
<1>1. /\ session'.deposit = session.deposit + a /\ session' \in SessionRow
      /\ session'.status = "FINDING_RIDER"
      /\ session'.shopper = session.shopper /\ session'.rider = session.rider
      /\ session'.fee = session.fee /\ session'.riderFee = session.riderFee + a
      /\ session'.feeCollected = session.feeCollected
      /\ session'.riderCollected = session.riderCollected
      /\ session'.items = session.items
      /\ hold' = hold
  <2>1. session \in SessionRow /\ session.riderFee + a \in Nat /\ session.deposit + a \in Nat
    BY AllNat DEF IInv, TypeOK
  <2>2. "FINDING_RIDER" \in SessionStatus
    BY DEF SessionStatus, Bought
  <2>3. /\ session' = [session EXCEPT !.riderFee = @ + a, !.deposit = @ + a,
                                      !.status = "FINDING_RIDER"]
        /\ hold' = hold
    BY DEF ConfirmRiderFeeTopUp
  <2> QED BY <2>1, <2>2, <2>3 DEF SessionRow
<1>2. TypeOK'
  BY <1>1 DEF Booked, IInv, TypeOK
<1>3. /\ SellersPaid' = SellersPaid /\ SellersSent'
      /\ Funded(mishap') => Funded(mishap) /\ session.status \notin Ended
      /\ Accountable(mishap') =>
           /\ ledger'.credited = 0
           /\ ledger'.paidIn = session.deposit + a
  BY <1>1, BookedKeeps
<1>4. session'.status \notin {"SEARCHING"} \cup Before \cup Riding \cup Ended
  BY <1>1 DEF Before, Riding, Ended
<1>5. /\ session.deposit \in Nat /\ session.riderFee \in Nat /\ session.items \in Nat
      /\ session.riderCollected \in Nat /\ session.feeCollected \in Nat
      /\ SellersPaid \in Int /\ \A s \in Slots : hold[s].amount \in Nat
  BY AllNat DEF IInv
<1>6. CollectedWithinFees'
  BY <1>1, <1>5 DEF IInv, CollectedWithinFees
<1>7. NoneIsEmpty' /\ UnmatchedIsBlank' /\ RiderIsHeldFor' /\ CallIsUnpriced'
  BY <1>1, <1>4 DEF IInv, NoneIsEmpty, UnmatchedIsBlank, RiderIsHeldFor, CallIsUnpriced
<1>8. FeesCovered'
  <2> SUFFICES ASSUME Funded(mishap') PROVE FeesCovered'
    BY DEF FeesCovered
  <2>1. /\ hold["fee"].amount = MinFee
        /\ session.feeCollected = MinFee + hold["shortfall"].amount + hold["offset"].amount
        /\ hold["shortfall"].amount > 0 => session.feeCollected = session.fee
        /\ hold["rider"].amount <= session.riderFee
        /\ session.feeCollected + session.riderFee + SellersPaid <= session.deposit
        /\ hold["offset"].amount = 0
        /\ session.feeCollected + session.riderFee + session.items <= session.deposit
    BY <1>3 DEF IInv, FeesCovered
  <2>2. hold["rider"].amount \in Nat
    BY <1>5 DEF Slots
  <2>3. /\ session'.feeCollected + session'.riderFee + SellersPaid' <= session'.deposit
        /\ session'.feeCollected + session'.riderFee + session'.items <= session'.deposit
        /\ hold'["rider"].amount <= session'.riderFee
    BY <1>1, <1>3, <1>5, <2>1, <2>2
  <2> QED BY <1>1, <1>4, <2>1, <2>3 DEF FeesCovered
<1>9. Balanced' /\ Settled' /\ NothingHeld'
  BY <1>1, <1>3, <1>4 DEF Balanced, Settled, NothingHeld
<1> QED BY <1>2, <1>3, <1>6, <1>7, <1>8, <1>9 DEF IInv

\* confirmShopSessionShortfall.  A second hold is made once: as long as the fees are
\* covered there is nothing more due for the call after it.
LEMMA ShortfallInv ==
  ASSUME IInv, Booked(Shortfall(session)), ConfirmShopSessionShortfall
  PROVE  IInv'
<1> DEFINE fs == FeeShortfall(session)
           rs == RiderShortfall(session)
<1>1. /\ session.deposit \in Nat /\ session.fee \in Nat /\ session.riderFee \in Nat
      /\ session.feeCollected \in Nat /\ session.riderCollected \in Nat
      /\ session.items \in Nat /\ SellersPaid \in Int /\ MinFee \in Nat \ {0}
      /\ \A s \in Slots : hold[s].amount \in Nat
  BY AllNat DEF IInv
<1>2. /\ MinFee <= session.feeCollected /\ session.feeCollected <= session.fee
      /\ session.riderCollected <= session.riderFee
  BY DEF IInv, CollectedWithinFees
<1>3. /\ fs \in Nat /\ rs \in Nat /\ Shortfall(session) = fs + rs
      /\ session.feeCollected + fs = session.fee
      /\ session.riderCollected + rs = session.riderFee
  BY <1>1, <1>2 DEF Shortfall, FeeShortfall, RiderShortfall, Positive
<1>4. /\ session' = [session EXCEPT !.deposit = @ + Shortfall(session),
                                    !.feeCollected = @ + fs, !.riderCollected = @ + rs]
      /\ hold' = IF fs > 0 /\ session.shopper THEN Created(hold, "shortfall", fs) ELSE hold
  BY DEF ConfirmShopSessionShortfall
<1> HIDE DEF fs, rs
<1>5. /\ session'.deposit = session.deposit + fs + rs
      /\ session'.feeCollected = session.fee /\ session'.riderCollected = session.riderFee
      /\ session'.status = session.status
      /\ session'.shopper = session.shopper /\ session'.rider = session.rider
      /\ session'.fee = session.fee /\ session'.riderFee = session.riderFee
      /\ session'.items = session.items
      /\ session' \in SessionRow
  <2>1. session \in SessionRow
    BY DEF IInv, TypeOK
  <2>2. /\ session.deposit + Shortfall(session) = session.deposit + fs + rs
        /\ session.deposit + Shortfall(session) \in Nat
    BY <1>1, <1>3
  <2> QED BY <1>1, <1>3, <1>4, <2>1, <2>2 DEF SessionRow
<1>6. /\ hold' \in [Slots -> HoldRow]
      /\ \A s \in Slots \ {"shortfall"} : hold'[s] = hold[s]
      /\ \A s \in Slots : hold'[s].status = "NONE" => hold'[s].amount = 0
      /\ fs > 0 /\ session.shopper => hold'["shortfall"].amount = fs
      /\ ~(fs > 0 /\ session.shopper) => hold' = hold
  BY <1>3, <1>4 DEF IInv, TypeOK, NoneIsEmpty, Created, HoldRow, HoldStatus, Slots
<1>7. TypeOK'
  BY <1>5, <1>6 DEF Booked, IInv, TypeOK
<1>8. /\ ChargesKnown' /\ SellersPaid' = SellersPaid /\ SellersSent'
      /\ Funded(mishap') => Funded(mishap)
      /\ Timely(mishap') => session.status \notin Ended
      /\ Accountable(mishap') =>
           /\ session.status \notin Ended
           /\ ledger'.credited = 0
           /\ ledger'.paidIn = session.deposit + Shortfall(session)
      /\ mishap' = {} => session.status \notin Ended
  BY <1>5, BookedKeeps
<1>9. NoneIsEmpty' /\ CallIsUnpriced'
  BY <1>5, <1>6 DEF IInv, NoneIsEmpty, CallIsUnpriced
<1>10. CollectedWithinFees'
  BY <1>1, <1>2, <1>5 DEF CollectedWithinFees
<1>11. RiderIsHeldFor'
  <2>1. "rider" \in Slots \ {"shortfall"}
    BY DEF Slots
  <2> QED BY <1>5, <1>6, <2>1 DEF IInv, RiderIsHeldFor
<1>12. UnmatchedIsBlank'
  <2>1. SUFFICES ASSUME ~session.shopper
        PROVE  /\ ~session'.rider /\ session'.status \in {"SEARCHING"} \cup Ended
               /\ session'.fee = MinFee /\ session'.riderCollected = session'.riderFee
               /\ \A s \in Slots : hold'[s].status = "NONE"
               /\ SellersPaid' = 0
               /\ session'.items = 0
    BY <1>5, <1>8 DEF UnmatchedIsBlank, ChargesKnown
  <2>2. /\ ~session.rider /\ session.status \in {"SEARCHING"} \cup Ended
        /\ session.fee = MinFee
        /\ \A s \in Slots : hold[s].status = "NONE"
        /\ SellersPaid = 0
        /\ session.items = 0
    BY <2>1 DEF IInv, UnmatchedIsBlank
  <2> QED BY <1>5, <1>6, <1>8, <2>1, <2>2
<1>13. FeesCovered'
  <2> SUFFICES ASSUME Funded(mishap'), session'.shopper PROVE FeesCovered'
    BY DEF FeesCovered
  <2>1. /\ hold["fee"].amount = MinFee
        /\ session.feeCollected = MinFee + hold["shortfall"].amount + hold["offset"].amount
        /\ hold["shortfall"].amount > 0 => session.feeCollected = session.fee
        /\ hold["rider"].amount <= session.riderFee
        /\ session.status \in Riding => hold["rider"].amount = session.riderFee
        /\ session.feeCollected + session.riderFee + SellersPaid <= session.deposit
        /\ session.status \notin Ended =>
             /\ hold["offset"].amount = 0
             /\ session.feeCollected + session.riderFee + session.items <= session.deposit
    BY <1>5, <1>8 DEF IInv, FeesCovered
  <2>2. /\ hold["shortfall"].amount \in Nat /\ hold["offset"].amount \in Nat
        /\ hold'["fee"] = hold["fee"] /\ hold'["offset"] = hold["offset"]
        /\ hold'["rider"] = hold["rider"]
    BY <1>1, <1>6 DEF Slots
  <2>3. hold'["shortfall"].amount = hold["shortfall"].amount + fs
    <3>1. CASE fs > 0
      <4>1. hold["shortfall"].amount = 0
        BY <1>1, <1>3, <2>1, <2>2, <3>1
      <4> QED BY <1>3, <1>5, <1>6, <3>1, <4>1
    <3>2. CASE fs = 0
      BY <1>6, <2>2, <3>2
    <3> QED BY <1>3, <3>1, <3>2
  <2>4. session'.feeCollected
          = MinFee + hold'["shortfall"].amount + hold'["offset"].amount
    BY <1>1, <1>3, <1>5, <2>1, <2>2, <2>3
  <2>5. /\ session'.feeCollected + session'.riderFee + SellersPaid' <= session'.deposit
        /\ session.status \notin Ended =>
             session'.feeCollected + session'.riderFee + session'.items <= session'.deposit
    BY <1>1, <1>3, <1>5, <1>8, <2>1
  <2> QED BY <1>5, <2>1, <2>2, <2>4, <2>5 DEF FeesCovered
<1>14. Balanced' /\ Settled' /\ NothingHeld'
  <2>1. session.deposit + Shortfall(session) = session.deposit + fs + rs
    BY <1>1, <1>3
  <2> QED BY <1>5, <1>8, <2>1 DEF Balanced, Settled, NothingHeld
<1> QED BY <1>7, <1>8, <1>9, <1>10, <1>11, <1>12, <1>13, <1>14 DEF IInv

\* The customer pays from the wallet.
LEMMA PaidFromWallet ==
  ASSUME IInv, NEW a \in Nat, ledger' = PaidIn(a), UNCHANGED <<away, payout, charge>>,
         mishap' = mishap \cup LateMoney
  PROVE  Booked(a)
<1>1. ledger \in [paidIn : Nat, credited : Nat, closed : Nat, sellers : Nat]
  BY DEF IInv, TypeOK
<1>2. /\ ledger' \in [paidIn : Nat, credited : Nat, closed : Nat, sellers : Nat]
      /\ ledger'.paidIn = ledger.paidIn + a /\ ledger'.credited = ledger.credited
      /\ ledger'.sellers = ledger.sellers
  BY <1>1 DEF PaidIn
<1>3. mishap' \subseteq Mishaps
  BY DEF IInv, TypeOK, LateMoney, Noting, Mishaps
<1> QED BY <1>2, <1>3 DEF Booked, IInv, TypeOK

LEMMA PaySessionInv ==
  ASSUME IInv, NEW budget \in Budgets, PaySession(budget)
  PROVE  IInv'
<1>1. DepositPrice(budget) \in Nat
  BY AllNat, SessionAmountsAssumption DEF IInv, DepositPrice
<1>2. Booked(DepositPrice(budget))
  BY <1>1, PaidFromWallet DEF PaySession
<1> QED BY <1>1, <1>2, DepositInv DEF PaySession, ConfirmShopSessionPayment

LEMMA TopUpItemsInv ==
  ASSUME IInv, NEW amount \in TopUps, TopUpItems(amount)
  PROVE  IInv'
<1>1. amount \in Nat
  BY SessionAmountsAssumption
<1>2. Booked(amount)
  BY <1>1, PaidFromWallet DEF TopUpItems
<1> QED BY <1>1, <1>2, DepositInv DEF TopUpItems

LEMMA PayRiderFeeTopUpInv ==
  ASSUME IInv, PayRiderFeeTopUp
  PROVE  IInv'
<1>1. RiderTopUp \in Nat
  BY AllNat, SessionAmountsAssumption DEF IInv, PayRiderFeeTopUp, RiderTopUpDue, RiderTopUp
<1>2. session.status = "PACKAGING"
  BY DEF PayRiderFeeTopUp, RiderTopUpDue
<1>3. LateMoney = {} /\ session.shopper
  BY <1>2 DEF LateMoney, Noting, Ended, IInv, UnmatchedIsBlank
<1>4. mishap' = mishap \cup LateMoney
  BY <1>3 DEF PayRiderFeeTopUp
<1>5. Booked(RiderTopUp)
  BY <1>1, <1>4, PaidFromWallet DEF PayRiderFeeTopUp
<1> QED BY <1>1, <1>3, <1>5, RiderTopUpInv DEF PayRiderFeeTopUp

LEMMA PayShopSessionShortfallInv ==
  ASSUME IInv, PayShopSessionShortfall
  PROVE  IInv'
<1>1. Shortfall(session) \in Nat
  BY AllNat DEF IInv, Shortfall, FeeShortfall, RiderShortfall, Positive
<1>2. Booked(Shortfall(session))
  BY <1>1, PaidFromWallet DEF PayShopSessionShortfall
<1> QED BY <1>2, ShortfallInv DEF PayShopSessionShortfall

\* The handler of a payment made outside the wallet, once the books are kept.
LEMMA ApplyInv ==
  ASSUME IInv, NEW c \in Charges, charge[c].status # "NONE", Apply(c),
         Booked(charge[c].amount),
         charge[c].purpose = "SHORTFALL" => Booked(Shortfall(session))
  PROVE  IInv'
<1>1. charge[c].amount \in Nat
  BY DEF IInv, TypeOK, ChargeRow
<1>2. CASE charge[c].purpose = "SESSION" /\ ConfirmShopSessionPayment(charge[c].amount)
  BY <1>1, <1>2, DepositInv DEF ConfirmShopSessionPayment
<1>3. CASE charge[c].purpose = "RIDER_TOPUP" /\ ConfirmRiderFeeTopUp(charge[c].amount)
  <2>1. session.shopper
    BY <1>3 DEF IInv, UnmatchedIsBlank
  <2> QED BY <1>1, <1>3, <2>1, RiderTopUpInv
<1>4. CASE charge[c].purpose = "SHORTFALL" /\ ConfirmShopSessionShortfall
  BY <1>4, ShortfallInv
<1> QED BY <1>2, <1>3, <1>4 DEF Apply

LEMMA ChargeConfirmedInv ==
  ASSUME IInv, NEW c \in Charges, ChargeConfirmed(c)
  PROVE  IInv'
<1>1. /\ charge[c].status = "INITIATED" /\ Apply(c)
      /\ charge' = [charge EXCEPT ![c].status = "APPLIED"]
      /\ ledger' = PaidIn(charge[c].amount)
      /\ mishap' = mishap \cup LateMoney
                     \cup Noting(/\ charge[c].purpose = "SHORTFALL"
                                 /\ charge[c].amount # Shortfall(session),
                                 "stale shortfall")
      /\ UNCHANGED <<away, payout>>
  BY DEF ChargeConfirmed
<1>2. /\ charge' \in [Charges -> ChargeRow]
      /\ \A d \in Charges : charge'[d].status # "NONE" =>
           charge[d].status # "NONE" /\ charge'[d].purpose = charge[d].purpose
  BY <1>1 DEF IInv, TypeOK, ChargeRow
<1>3. /\ ledger' \in [paidIn : Nat, credited : Nat, closed : Nat, sellers : Nat]
      /\ ledger'.paidIn = ledger.paidIn + charge[c].amount
      /\ ledger'.credited = ledger.credited /\ ledger'.sellers = ledger.sellers
  <2>1. ledger \in [paidIn : Nat, credited : Nat, closed : Nat, sellers : Nat]
    BY DEF IInv, TypeOK
  <2>2. charge[c].amount \in Nat
    BY DEF IInv, TypeOK, ChargeRow
  <2>3. ledger' = [ledger EXCEPT !.paidIn = @ + charge[c].amount]
    BY <1>1 DEF PaidIn
  <2> QED BY <2>1, <2>2, <2>3
<1>4. /\ mishap \subseteq mishap' /\ LateMoney \subseteq mishap' /\ mishap' \subseteq Mishaps
      /\ charge[c].purpose = "SHORTFALL" /\ charge[c].amount # Shortfall(session) =>
           "stale shortfall" \in mishap'
  BY <1>1 DEF IInv, TypeOK, LateMoney, Noting, Mishaps
<1>5. Booked(charge[c].amount)
  BY <1>1, <1>2, <1>3, <1>4 DEF Booked
<1>6. charge[c].purpose = "SHORTFALL" => Booked(Shortfall(session))
  BY <1>1, <1>2, <1>3, <1>4 DEF Booked
<1> QED BY <1>1, <1>5, <1>6, ApplyInv

LEMMA ChargeConfirmedAgainInv ==
  ASSUME IInv, NEW c \in Charges, ChargeConfirmedAgain(c)
  PROVE  IInv'
<1>1. /\ charge[c].status = "APPLIED" /\ Apply(c)
      /\ charge' = [charge EXCEPT ![c].status = "TWICE"]
      /\ mishap' = mishap \cup LateMoney \cup {"applied twice"}
      /\ UNCHANGED <<away, payout, ledger>>
  BY DEF ChargeConfirmedAgain
<1>2. /\ charge' \in [Charges -> ChargeRow]
      /\ \A d \in Charges : charge'[d].status # "NONE" =>
           charge[d].status # "NONE" /\ charge'[d].purpose = charge[d].purpose
  BY <1>1 DEF IInv, TypeOK, ChargeRow
<1>3. /\ mishap \subseteq mishap' /\ LateMoney \subseteq mishap' /\ mishap' \subseteq Mishaps
      /\ "applied twice" \in mishap'
  BY <1>1 DEF IInv, TypeOK, LateMoney, Noting, Mishaps
<1>4. ASSUME NEW a PROVE Booked(a)
  BY <1>1, <1>2, <1>3 DEF Booked, IInv, TypeOK
<1> QED BY <1>1, <1>4, ApplyInv

-----------------------------------------------------------------------------
(* From the search to the delivery. *)

\* matchSession: a session whose deposit was not paid is matched too, and that is
\* noted; with the deposit the shopper has the hold for the least fee of a call.
LEMMA MatchSessionInv ==
  ASSUME IInv, MatchSession
  PROVE  IInv'
<1>1. /\ session.status = "SEARCHING" /\ ~session.shopper
      /\ session' = [session EXCEPT !.status = "MATCHED", !.shopper = TRUE]
      /\ hold' = WithFeeHold(hold, session')
      /\ mishap' = mishap \cup
           Noting(session.deposit < session.fee + session.riderFee, "unfunded match")
      /\ UNCHANGED <<away, payout, charge, ledger>>
  BY DEF MatchSession
<1>2. /\ session'.status = "MATCHED" /\ session'.shopper /\ session' \in SessionRow
      /\ session'.deposit = session.deposit /\ session'.rider = session.rider
      /\ session'.fee = session.fee /\ session'.riderFee = session.riderFee
      /\ session'.feeCollected = session.feeCollected
      /\ session'.riderCollected = session.riderCollected
      /\ session'.items = session.items
  BY <1>1 DEF IInv, TypeOK, SessionRow, SessionStatus, Before
<1>3. /\ session.deposit \in Nat /\ session.fee \in Nat /\ session.riderFee \in Nat
      /\ session.feeCollected \in Nat /\ session.items \in Nat
      /\ MinFee \in Nat \ {0}
  BY AllNat DEF IInv
<1>4. /\ session.fee = MinFee /\ session.feeCollected = MinFee /\ ~session.rider
      /\ \A s \in Slots : hold[s].status = "NONE" /\ hold[s].amount = 0
      /\ SellersPaid = 0
      /\ session.items = 0
  <2>1. ~session.shopper
    BY <1>1
  <2>2. /\ session.fee = MinFee /\ ~session.rider
        /\ \A s \in Slots : hold[s].status = "NONE"
        /\ SellersPaid = 0
        /\ session.items = 0
    BY <2>1 DEF IInv, UnmatchedIsBlank
  <2>3. session.feeCollected = MinFee
    BY <1>3, <2>2 DEF IInv, CollectedWithinFees
  <2>4. \A s \in Slots : hold[s].amount = 0
    BY <2>2 DEF IInv, NoneIsEmpty
  <2> QED BY <2>2, <2>3, <2>4
<1>5. hold' = IF session.deposit >= session.fee THEN Created(hold, "fee", session.fee)
                                                ELSE hold
  <2>1. ShopperHolds(hold) = {}
    BY <1>4 DEF ShopperHolds
  <2>2. hold' = IF session'.shopper /\ session'.deposit >= session'.fee
                     /\ ShopperHolds(hold) = {}
                THEN Created(hold, "fee", session'.fee) ELSE hold
    <3>1. hold' = WithFeeHold(hold, session')
      BY <1>1
    <3> QED BY <3>1 DEF WithFeeHold
  <2> QED BY <1>2, <2>1, <2>2
<1>6. /\ hold' \in [Slots -> HoldRow]
      /\ \A s \in Slots \ {"fee"} : hold'[s].amount = 0 /\ hold'[s].status = "NONE"
      /\ \A s \in Slots : hold'[s].status = "NONE" => hold'[s].amount = 0
      /\ session.deposit >= session.fee => hold'["fee"].amount = MinFee
  BY <1>3, <1>4, <1>5 DEF IInv, TypeOK, Created, HoldRow, HoldStatus, Slots
<1>7. TypeOK'
  BY <1>1, <1>2, <1>6 DEF IInv, TypeOK, Noting, Mishaps
<1>8. session'.status \notin Ended \cup Riding
  BY <1>2 DEF Ended, Riding
<1>9. SellersPaid' = 0 /\ mishap \subseteq mishap'
  BY <1>1, <1>4 DEF SellersPaid
<1>10. NoneIsEmpty' /\ CollectedWithinFees'
  BY <1>2, <1>6 DEF NoneIsEmpty, IInv, CollectedWithinFees
<1>11. UnmatchedIsBlank' /\ CallIsUnpriced'
  BY <1>2, <1>4 DEF UnmatchedIsBlank, CallIsUnpriced
<1>12. RiderIsHeldFor'
  <2>1. "rider" \in Slots \ {"fee"}
    BY DEF Slots
  <2> QED BY <1>6, <1>8, <2>1 DEF RiderIsHeldFor
<1>13. FeesCovered'
  <2> SUFFICES ASSUME Funded(mishap') PROVE FeesCovered'
    BY DEF FeesCovered
  <2>1. session.fee + session.riderFee <= session.deposit
    <3>1. ~(session.deposit < session.fee + session.riderFee)
      BY <1>1 DEF Funded, Noting
    <3> QED BY <1>3, <3>1
  <2>2. hold'["fee"].amount = MinFee
    BY <1>3, <1>6, <2>1
  <2>3. hold'["shortfall"].amount = 0 /\ hold'["offset"].amount = 0 /\ hold'["rider"].amount = 0
    BY <1>6 DEF Slots
  <2>4. /\ session'.feeCollected
             = MinFee + hold'["shortfall"].amount + hold'["offset"].amount
        /\ ~(hold'["shortfall"].amount > 0)
        /\ hold'["rider"].amount <= session'.riderFee
    BY <1>2, <1>3, <1>4, <2>3
  <2>5. /\ session'.feeCollected + session'.riderFee + SellersPaid' <= session'.deposit
        /\ session'.feeCollected + session'.riderFee + session'.items <= session'.deposit
    BY <1>2, <1>3, <1>4, <1>9, <2>1
  <2> QED BY <1>8, <2>2, <2>3, <2>4, <2>5 DEF FeesCovered
<1>14. Balanced'
  <2>1. session.status \notin Ended
    BY <1>1 DEF Ended
  <2> QED BY <1>1, <1>2, <1>8, <1>9, <2>1, FewerMishaps DEF IInv, Balanced
<1>15. Settled' /\ NothingHeld'
  BY <1>8 DEF Settled, NothingHeld
<1>16. SellersSent'
  BY <1>1, <1>2, <1>9, SentKept
<1> QED BY <1>7, <1>10, <1>11, <1>12, <1>13, <1>14, <1>15, <1>16 DEF IInv

\* approveItem and resetItemPricing: the list fits in beside both fees, or is no
\* longer than it was, or it is noted that a new price has raised it.
LEMMA ItemsInv ==
  ASSUME IInv, NEW total \in ItemTotals, session.shopper,
         session' = [session EXCEPT !.items = total, !.repriced = FALSE],
         UNCHANGED <<hold, away, payout, charge, ledger>>,
         mishap \subseteq mishap', mishap' \subseteq Mishaps,
         \/ total <= session.deposit - session.fee - session.riderFee
         \/ total <= session.items
         \/ "repriced" \in mishap'
  PROVE  IInv'
<1>1. total \in Nat
  BY SessionAmountsAssumption
<1>2. /\ session'.deposit = session.deposit /\ session' \in SessionRow
      /\ session'.status = session.status
      /\ session'.shopper = session.shopper /\ session'.rider = session.rider
      /\ session'.fee = session.fee /\ session'.riderFee = session.riderFee
      /\ session'.feeCollected = session.feeCollected
      /\ session'.riderCollected = session.riderCollected
      /\ session'.items = total
  BY <1>1 DEF IInv, TypeOK, SessionRow
<1>3. /\ session.deposit \in Nat /\ session.fee \in Nat /\ session.riderFee \in Nat
      /\ session.feeCollected \in Nat /\ session.items \in Nat
      /\ session.feeCollected <= session.fee
  BY AllNat DEF IInv, CollectedWithinFees
<1>4. TypeOK'
  BY <1>2 DEF IInv, TypeOK
<1>5. SellersPaid' = SellersPaid
  BY DEF SellersPaid
<1>6. NoneIsEmpty' /\ CollectedWithinFees' /\ RiderIsHeldFor' /\ CallIsUnpriced'
  BY <1>2 DEF IInv, NoneIsEmpty, CollectedWithinFees, RiderIsHeldFor, CallIsUnpriced
<1>7. UnmatchedIsBlank' /\ SellersSent'
  BY <1>2, SentKept DEF UnmatchedIsBlank
<1>8. FeesCovered'
  <2>1. ASSUME Funded(mishap'), session.status \notin Ended
        PROVE  session.feeCollected + session.riderFee + total <= session.deposit
    <3>1. session.feeCollected + session.riderFee + session.items <= session.deposit
      BY <2>1, FewerMishaps DEF IInv, FeesCovered
    <3>2. "repriced" \notin mishap'
      BY <2>1 DEF Funded, Unchecked
    <3> QED BY <1>1, <1>3, <3>1, <3>2
  <2> QED BY <1>2, <1>5, <2>1, FewerMishaps DEF IInv, FeesCovered
<1>9. Balanced' /\ Settled' /\ NothingHeld'
  BY <1>2, <1>5, FewerMishaps DEF IInv, Balanced, Settled, NothingHeld
<1> QED BY <1>4, <1>6, <1>7, <1>8, <1>9 DEF IInv

LEMMA ApproveItemInv ==
  ASSUME IInv, NEW sum \in ItemTotals, ApproveItem(sum)
  PROVE  IInv'
<1>1. mishap' = mishap /\ mishap \subseteq Mishaps
  BY DEF ApproveItem, IInv, TypeOK
<1> QED BY <1>1, ItemsInv DEF ApproveItem

LEMMA ResetItemPricingInv ==
  ASSUME IInv, NEW sum \in ItemTotals, ResetItemPricing(sum)
  PROVE  IInv'
<1>1. mishap' = mishap \cup Noting(sum > session.items, "repriced")
  BY DEF ResetItemPricing
<1>2. mishap \subseteq mishap' /\ mishap' \subseteq Mishaps
  BY <1>1 DEF Noting, Mishaps, IInv, TypeOK
<1>3. sum \in Nat /\ session.items \in Nat
  BY AllNat, SessionAmountsAssumption DEF IInv
<1>4. sum <= session.items \/ "repriced" \in mishap'
  BY <1>1, <1>3 DEF Noting
<1> QED BY <1>2, <1>4, ItemsInv DEF ResetItemPricing

\* priceItem notes that there is a new price, and adds nothing up.
LEMMA PriceItemInv ==
  ASSUME IInv, PriceItem
  PROVE  IInv'
<1>1. /\ session' = [session EXCEPT !.repriced = TRUE]
      /\ UNCHANGED <<hold, away, payout, charge, ledger, mishap>>
  BY DEF PriceItem
<1>2. TypeOK'
  BY <1>1 DEF IInv, TypeOK, SessionRow
<1>3. /\ Numbers(session') = Numbers(session) /\ session'.status = session.status
      /\ session'.shopper = session.shopper
  BY <1>1 DEF IInv, TypeOK, SessionRow, Numbers
<1>4. ChargesKnown'
  BY <1>1, <1>3 DEF IInv, UnmatchedIsBlank, ChargesKnown
<1>5. SellersPaid' = SellersPaid
  BY <1>1 DEF SellersPaid
<1> QED BY <1>1, <1>2, <1>3, <1>4, <1>5, SentKept, SameMoney, SameHolds

\* startPackaging prices the call: nothing beyond the least fee is collected by then.
LEMMA StartPackagingInv ==
  ASSUME IInv, NEW f \in CallFees, StartPackaging(f)
  PROVE  IInv'
<1>1. f \in Nat /\ MinFee <= f /\ MinFee \in Nat
  BY SessionAmountsAssumption
<1>2. /\ session.status = "LIVE_CALL"
      /\ session'.deposit = session.deposit /\ session' \in SessionRow
      /\ session'.status = "PACKAGING"
      /\ session'.shopper = session.shopper /\ session'.rider = session.rider
      /\ session'.fee = f /\ session'.riderFee = session.riderFee
      /\ session'.feeCollected = session.feeCollected
      /\ session'.riderCollected = session.riderCollected
      /\ session'.items = session.items
  BY <1>1 DEF StartPackaging, IInv, TypeOK, SessionRow, SessionStatus, Bought
<1>3. UNCHANGED <<hold, away, payout, charge, ledger, mishap>>
  BY DEF StartPackaging
<1>4. session.shopper /\ session.feeCollected = MinFee
  <2>1. session.fee = MinFee /\ session.shopper
    BY <1>2 DEF IInv, CallIsUnpriced, UnmatchedIsBlank, Before, Ended
  <2> QED BY <2>1, AllNat DEF IInv, CollectedWithinFees
<1>5. /\ session.status \notin Ended /\ session'.status \notin Ended
      /\ session'.status \notin Riding \cup {"SEARCHING"} \cup Before
  BY <1>2 DEF Ended, Riding, Before
<1>6. TypeOK'
  BY <1>2, <1>3 DEF IInv, TypeOK
<1>7. SellersPaid' = SellersPaid
  BY <1>3 DEF SellersPaid
<1>8. CollectedWithinFees'
  BY <1>1, <1>2, <1>4 DEF IInv, CollectedWithinFees
<1>9. NoneIsEmpty' /\ UnmatchedIsBlank' /\ RiderIsHeldFor' /\ CallIsUnpriced'
  BY <1>2, <1>3, <1>4, <1>5
     DEF IInv, NoneIsEmpty, UnmatchedIsBlank, RiderIsHeldFor, CallIsUnpriced
<1>10. FeesCovered'
  <2> SUFFICES ASSUME Funded(mishap) PROVE FeesCovered'
    BY <1>3 DEF FeesCovered
  <2>1. session.feeCollected = MinFee + hold["shortfall"].amount + hold["offset"].amount
    BY <1>4 DEF IInv, FeesCovered
  <2>2. hold["shortfall"].amount \in Nat /\ hold["offset"].amount \in Nat
    BY AllNat DEF IInv, Slots
  <2>3. hold["shortfall"].amount = 0
    BY <1>1, <1>4, <2>1, <2>2
  <2> QED BY <1>2, <1>3, <1>4, <1>5, <1>7, <2>3 DEF IInv, FeesCovered
<1>11. Balanced' /\ Settled' /\ NothingHeld'
  BY <1>2, <1>3, <1>5 DEF IInv, Balanced, Settled, NothingHeld
<1>12. SellersSent'
  BY <1>2, <1>3, SentKept
<1> QED BY <1>6, <1>8, <1>9, <1>10, <1>11, <1>12 DEF IInv

\* findRider: no more than the rider fee is ever collected for it, so that there is
\* no surplus to offset or to pay back.
LEMMA FindRiderInv ==
  ASSUME IInv, FindRider
  PROVE  IInv'
<1>1. /\ session.riderFee \in Nat /\ session.riderCollected \in Nat
      /\ session.feeCollected \in Nat /\ session.fee \in Nat /\ session.deposit \in Nat
      /\ ledger.credited \in Nat
      /\ session.riderCollected <= session.riderFee
  BY AllNat DEF IInv, CollectedWithinFees
<1> DEFINE surplus == Positive(session.riderCollected - session.riderFee)
           offset == Lesser(surplus, FeeShortfall(session))
           refund == surplus - offset
<1>2. surplus = 0 /\ offset = 0 /\ refund = 0
  BY <1>1 DEF Positive, Lesser, FeeShortfall
<1>3. /\ session.status = "PACKAGING"
      /\ session' = [session EXCEPT
                       !.status = "FINDING_RIDER",
                       !.riderCollected = IF surplus > 0
                                          THEN session.riderFee + refund ELSE @,
                       !.feeCollected = @ + offset,
                       !.deposit = @ - refund]
      /\ ledger' = [ledger EXCEPT !.credited = @ + refund]
      /\ UNCHANGED <<hold, away, payout, charge, mishap>>
  BY DEF FindRider
<1> HIDE DEF surplus, offset, refund
<1>4. ledger' = ledger
  <2>1. ledger \in [paidIn : Nat, credited : Nat, closed : Nat, sellers : Nat] /\ ledger.credited + refund = ledger.credited
    BY <1>1, <1>2 DEF IInv, TypeOK
  <2> QED BY <1>3, <2>1
<1>5. session' = [session EXCEPT !.status = "FINDING_RIDER"]
  <2>1. /\ session.feeCollected + offset = session.feeCollected
        /\ session.deposit - refund = session.deposit /\ ~(surplus > 0)
    BY <1>1, <1>2
  <2>2. session \in SessionRow
    BY DEF IInv, TypeOK
  <2> QED BY <1>3, <2>1, <2>2 DEF SessionRow
<1>6. Goes("PACKAGING", "FINDING_RIDER")
  BY <1>3, <1>4, <1>5 DEF Goes
<1> QED BY <1>6, GoesInv DEF Onward

LEMMA AcceptDeliveryInv ==
  ASSUME IInv, AcceptDelivery
  PROVE  IInv'
<1>1. /\ session.status = "FINDING_RIDER" /\ ~session.rider
      /\ session'.deposit = session.deposit /\ session' \in SessionRow
      /\ session'.status = "RIDER_ASSIGNED" /\ session'.rider
      /\ session'.shopper = session.shopper
      /\ session'.fee = session.fee /\ session'.riderFee = session.riderFee
      /\ session'.feeCollected = session.feeCollected
      /\ session'.riderCollected = session.riderCollected
      /\ session'.items = session.items
  BY DEF AcceptDelivery, IInv, TypeOK, SessionRow, SessionStatus, Bought
<1>2. /\ hold' = Created(hold, "rider", session.riderFee)
      /\ UNCHANGED <<away, payout, charge, ledger, mishap>>
  BY DEF AcceptDelivery
<1>3. session.riderFee \in Nat
  BY AllNat DEF IInv
<1>4. /\ hold' \in [Slots -> HoldRow]
      /\ hold'["fee"] = hold["fee"] /\ hold'["shortfall"] = hold["shortfall"]
      /\ hold'["offset"] = hold["offset"] /\ hold'["rider"].amount = session.riderFee
      /\ \A s \in Slots : hold'[s].status = "NONE" => hold'[s].amount = 0
  BY <1>2, <1>3 DEF IInv, TypeOK, NoneIsEmpty, Created, HoldRow, HoldStatus, Slots
<1>5. TypeOK'
  BY <1>1, <1>2, <1>4 DEF IInv, TypeOK
<1>6. SellersPaid' = SellersPaid
  BY <1>2 DEF SellersPaid
<1>7. /\ session.status \notin Ended /\ session'.status \notin Ended
      /\ session'.status \notin {"SEARCHING"} \cup Before
      /\ session.shopper
  BY <1>1 DEF Ended, Before, IInv, UnmatchedIsBlank
<1>8. NoneIsEmpty' /\ CollectedWithinFees' /\ UnmatchedIsBlank' /\ RiderIsHeldFor'
      /\ CallIsUnpriced'
  BY <1>1, <1>4, <1>7 DEF IInv, NoneIsEmpty, CollectedWithinFees, UnmatchedIsBlank,
                          RiderIsHeldFor, CallIsUnpriced
<1>9. FeesCovered'
  BY <1>1, <1>2, <1>3, <1>4, <1>6, <1>7 DEF IInv, FeesCovered
<1>10. Balanced' /\ Settled' /\ NothingHeld'
  BY <1>1, <1>2, <1>7 DEF IInv, Balanced, Settled, NothingHeld
<1>11. SellersSent'
  BY <1>1, <1>2, SentKept
<1> QED BY <1>5, <1>8, <1>9, <1>10, <1>11 DEF IInv

-----------------------------------------------------------------------------
(* Paying the sellers. *)

\* confirmSellerPayouts stays within the list, and a failed transfer pays less.
LEMMA SellersInv ==
  ASSUME IInv, UNCHANGED <<session, hold, away, charge>>, session.shopper,
         payout' \in [processing : Nat, paid : Int],
         ledger' \in [paidIn : Nat, credited : Nat, closed : Nat, sellers : Nat],
         ledger'.paidIn = ledger.paidIn, ledger'.credited = ledger.credited,
         mishap \subseteq mishap', LateMoney \subseteq mishap', mishap' \subseteq Mishaps,
         \/ SellersPaid' <= SellersPaid
         \/ SellersPaid' <= session.items
         \/ "negative" \in mishap',
         SellersSent'
  PROVE  IInv'
<1>1. SellersPaid \in Int /\ SellersPaid' \in Int
  <2>1. payout \in [processing : Nat, paid : Int]
    BY DEF IInv, TypeOK
  <2>2. SellersPaid' = payout'.processing + payout'.paid
    BY DEF SellersPaid
  <2>3. /\ payout.processing \in Int /\ payout.paid \in Int
        /\ payout'.processing \in Int /\ payout'.paid \in Int
    BY <2>1
  <2> QED BY <2>2, <2>3 DEF SellersPaid
<1>2. TypeOK'
  BY DEF IInv, TypeOK
<1>3. session.status \in Ended => "late money" \in mishap'
  BY DEF LateMoney, Noting
<1>4. NoneIsEmpty' /\ CollectedWithinFees' /\ RiderIsHeldFor' /\ CallIsUnpriced'
  BY DEF IInv, NoneIsEmpty, CollectedWithinFees, RiderIsHeldFor, CallIsUnpriced
<1>5. UnmatchedIsBlank'
  BY DEF UnmatchedIsBlank
<1>6. FeesCovered'
  <2> SUFFICES ASSUME Funded(mishap') PROVE FeesCovered'
    BY DEF FeesCovered
  <2>1. Funded(mishap) /\ session.status \notin Ended
    BY <1>3, FewerMishaps DEF Funded
  <2>2. /\ session.feeCollected + session.riderFee + SellersPaid <= session.deposit
        /\ session.feeCollected + session.riderFee + session.items <= session.deposit
    BY <2>1 DEF IInv, FeesCovered
  <2>3. session.feeCollected + session.riderFee + SellersPaid' <= session.deposit
    <3>1. /\ session.feeCollected \in Nat /\ session.riderFee \in Nat
          /\ session.items \in Nat /\ session.deposit \in Nat
      BY AllNat DEF IInv
    <3>2. "negative" \notin mishap'
      BY DEF Funded, Unchecked
    <3>3. SellersPaid' <= SellersPaid \/ SellersPaid' <= session.items
      BY <3>2
    <3> QED BY <1>1, <2>2, <3>1, <3>3
  <2> QED BY <2>1, <2>3 DEF IInv, FeesCovered
<1>7. /\ Accountable(mishap') => session.status \notin Ended
      /\ Timely(mishap') => session.status \notin Ended
      /\ mishap' = {} => session.status \notin Ended
  BY <1>3 DEF Accountable, Timely
<1>8. Balanced' /\ Settled' /\ NothingHeld'
  BY <1>7, FewerMishaps DEF IInv, Balanced, Settled, NothingHeld
<1> QED BY <1>2, <1>4, <1>5, <1>6, <1>8 DEF IInv

LEMMA ConfirmSellerPayoutsInv ==
  ASSUME IInv, NEW amount \in Slices, NEW less \in Negatives \cup {0}, NEW outcome \in Outcomes,
         ConfirmSellerPayouts(amount, less, outcome)
  PROVE  IInv'
<1> DEFINE moved == IF outcome = "transfer" THEN amount ELSE 0
           given == IF outcome = "cash" THEN amount - less ELSE 0
<1>1. /\ amount \in Nat \ {0} /\ less \in Nat /\ payout \in [processing : Nat, paid : Int]
      /\ outcome \in {"cash", "transfer", "lost"}
      /\ ledger \in [paidIn : Nat, credited : Nat, closed : Nat, sellers : Nat]
      /\ session.items \in Nat
  BY AllNat, SessionAmountsAssumption DEF IInv, TypeOK
<1>2. /\ session.shopper /\ SellersPaid + amount - less <= session.items
      /\ payout' = [processing |-> payout.processing + moved, paid |-> payout.paid + given]
      /\ ledger' = [ledger EXCEPT !.sellers = @ + amount]
      /\ mishap' = mishap \cup LateMoney \cup Noting(less > 0, "negative")
                     \cup Noting(outcome = "lost", "lost")
  BY DEF ConfirmSellerPayouts
<1>3. /\ moved \in Nat /\ given \in Int /\ moved <= amount
      /\ outcome # "lost" /\ less = 0 => moved + given = amount
      /\ less = 0 \/ moved + given = amount - less \/ outcome = "transfer" \/ moved + given = 0
      /\ outcome = "lost" => moved + given = 0
  BY <1>1
<1> HIDE DEF moved, given
<1>4. /\ ledger' \in [paidIn : Nat, credited : Nat, closed : Nat, sellers : Nat]
      /\ ledger'.paidIn = ledger.paidIn /\ ledger'.credited = ledger.credited
      /\ ledger'.sellers = ledger.sellers + amount
  <2>1. ledger.sellers + amount \in Nat
    BY <1>1
  <2> QED BY <1>1, <1>2, <2>1
<1>5. /\ payout' \in [processing : Nat, paid : Int]
      /\ payout'.processing = payout.processing + moved
      /\ SellersPaid' = SellersPaid + (moved + given)
  <2>1. payout.processing \in Nat /\ payout.paid \in Int
    BY <1>1
  <2>2. payout.processing + moved \in Nat /\ payout.paid + given \in Int
    BY <1>3, <2>1
  <2>3. /\ payout' \in [processing : Nat, paid : Int]
        /\ payout'.processing = payout.processing + moved
        /\ payout'.paid = payout.paid + given
    BY <1>2, <2>2
  <2>4. SellersPaid' = payout'.processing + payout'.paid
    BY DEF SellersPaid
  <2> QED BY <1>3, <2>1, <2>3, <2>4 DEF SellersPaid
<1>6. /\ mishap \subseteq mishap' /\ LateMoney \subseteq mishap' /\ mishap' \subseteq Mishaps
      /\ less > 0 => "negative" \in mishap'
      /\ outcome = "lost" => "lost" \in mishap'
  BY <1>2 DEF IInv, TypeOK, LateMoney, Noting, Mishaps
<1>7. /\ SellersPaid \in Int /\ ledger.sellers \in Nat /\ payout.processing \in Nat
      /\ moved + given \in Int
  <2>1. payout.processing \in Nat /\ payout.paid \in Int /\ ledger.sellers \in Nat
    BY <1>1
  <2> QED BY <1>3, <2>1 DEF SellersPaid
<1>8. \/ SellersPaid' <= SellersPaid
      \/ SellersPaid' <= session.items
      \/ "negative" \in mishap'
  <2>1. CASE less > 0
    BY <1>6, <2>1
  <2>2. CASE less = 0 /\ outcome = "lost"
    <3>1. moved + given <= 0
      BY <1>3, <2>2
    <3> QED BY <1>5, <1>7, <3>1
  <2>3. CASE less = 0 /\ outcome # "lost"
    <3>1. moved + given = amount /\ SellersPaid + amount <= session.items
      BY <1>1, <1>2, <1>3, <1>7, <2>3
    <3> QED BY <1>5, <3>1
  <2>4. less = 0 \/ less > 0
    BY <1>1
  <2> QED BY <2>1, <2>2, <2>3, <2>4
<1>9. SellersSent'
  <2>1. payout'.processing <= ledger'.sellers
    <3>1. payout.processing <= ledger.sellers
      BY DEF IInv, SellersSent
    <3> QED BY <1>1, <1>3, <1>4, <1>5, <1>7, <3>1
  <2>2. session'.shopper
    BY <1>2 DEF ConfirmSellerPayouts
  <2>3. ASSUME mishap' \cap {"negative", "lost"} = {}
        PROVE  ledger'.sellers = SellersPaid'
    <3>1. ledger.sellers = SellersPaid
      BY <1>6, <2>3 DEF IInv, SellersSent
    <3>2. less = 0 /\ outcome # "lost"
      <4>1. ~(less > 0) /\ outcome # "lost"
        BY <1>6, <2>3
      <4> QED BY <1>1, <4>1
    <3>3. moved + given = amount
      BY <1>3, <3>2
    <3> QED BY <1>4, <1>5, <3>1, <3>3
  <2> QED BY <2>1, <2>2, <2>3 DEF SellersSent
<1> QED BY <1>2, <1>4, <1>5, <1>6, <1>8, <1>9, SellersInv DEF ConfirmSellerPayouts

LEMMA TransferFailedInv ==
  ASSUME IInv, NEW amount \in Slices, TransferFailed(amount)
  PROVE  IInv'
<1>1. /\ amount \in Nat \ {0} /\ payout \in [processing : Nat, paid : Int]
      /\ ledger \in [paidIn : Nat, credited : Nat, closed : Nat, sellers : Nat]
  BY SessionAmountsAssumption DEF IInv, TypeOK
<1>2. /\ payout.processing >= amount /\ payout' = [payout EXCEPT !.processing = @ - amount]
      /\ ledger' = [ledger EXCEPT !.sellers = @ - amount]
      /\ mishap' = mishap \cup LateMoney
      /\ UNCHANGED <<session, hold, away, charge>>
  BY DEF TransferFailed
<1>3. /\ payout' \in [processing : Nat, paid : Int] /\ SellersPaid' = SellersPaid - amount
      /\ payout'.processing = payout.processing - amount
  BY <1>1, <1>2 DEF SellersPaid
<1>4. payout.processing <= ledger.sellers
  BY DEF IInv, SellersSent
<1>5. /\ ledger' \in [paidIn : Nat, credited : Nat, closed : Nat, sellers : Nat]
      /\ ledger'.paidIn = ledger.paidIn /\ ledger'.credited = ledger.credited
      /\ ledger'.sellers = ledger.sellers - amount
  <2>1. ledger.sellers - amount \in Nat
    BY <1>1, <1>2, <1>4
  <2> QED BY <1>1, <1>2, <2>1
<1>6. session.shopper
  <2>1. ledger.sellers > 0
    BY <1>1, <1>2, <1>4
  <2> QED BY <2>1 DEF IInv, SellersSent
<1>7. mishap \subseteq mishap' /\ LateMoney \subseteq mishap' /\ mishap' \subseteq Mishaps
  BY <1>2 DEF IInv, TypeOK, LateMoney, Noting, Mishaps
<1>8. SellersPaid \in Int
  <2>1. payout.processing \in Nat /\ payout.paid \in Int
    BY <1>1
  <2> QED BY <2>1 DEF SellersPaid
<1>9. SellersSent'
  <2>1. payout'.processing <= ledger'.sellers
    BY <1>1, <1>3, <1>4, <1>5
  <2>2. ASSUME mishap' \cap {"negative", "lost"} = {}
        PROVE  ledger'.sellers = SellersPaid'
    <3>1. ledger.sellers = SellersPaid
      BY <1>7, <2>2 DEF IInv, SellersSent
    <3> QED BY <1>3, <1>5, <3>1
  <2> QED BY <1>2, <1>6, <2>1, <2>2 DEF SellersSent
<1>10. SellersPaid' <= SellersPaid
  BY <1>1, <1>3, <1>8
<1> QED BY <1>2, <1>3, <1>5, <1>6, <1>7, <1>9, <1>10, SellersInv

-----------------------------------------------------------------------------
(* Every step keeps the invariant. *)

LEMMA CustomerInv ==
  ASSUME IInv, CustomerNext
  PROVE  IInv'
<1>1. ASSUME NEW sum \in ItemTotals, ApproveItem(sum) \/ ResetItemPricing(sum)
      PROVE  IInv'
  BY <1>1, ApproveItemInv, ResetItemPricingInv
<1>2. CASE DeclineEmergencyEnd
  BY <1>2, EmergencyInv
<1>3. CASE LeaveSearch
  BY <1>3, CancelSessionInv
<1> QED BY <1>1, <1>2, <1>3, PaySessionInv, TopUpItemsInv, PayRiderFeeTopUpInv,
           PayShopSessionShortfallInv, InitializeChargeInv, ConfirmEmergencyEndInv,
           ConfirmSessionInv
        DEF CustomerNext

LEMMA ShopperInv ==
  ASSUME IInv, ShopperNext
  PROVE  IInv'
<1>1. CASE StartCall
  BY <1>1, GoesInv DEF StartCall, Onward
<1>2. CASE \E by \in {"CUSTOMER", "SHOPPER"} : RequestEmergencyEnd(by)
  BY <1>2, EmergencyInv
<1> QED BY <1>1, <1>2, MatchSessionInv, StartPackagingInv, FindRiderInv, PriceItemInv,
           ConfirmSellerPayoutsInv
        DEF ShopperNext

LEMMA RiderInv ==
  ASSUME IInv, RiderNext
  PROVE  IInv'
<1>1. CASE MarkOutForDelivery
  BY <1>1, GoesInv DEF MarkOutForDelivery, Onward
<1>2. CASE MarkDelivered
  BY <1>2, GoesInv DEF MarkDelivered, Onward
<1> QED BY <1>1, <1>2, AcceptDeliveryInv DEF RiderNext

LEMMA AnyPartyInv ==
  ASSUME IInv, AnyPartyNext
  PROVE  IInv'
  BY CancelSessionInv, MarkAwayInv, ReturnInv DEF AnyPartyNext

LEMMA SystemInv ==
  ASSUME IInv, SystemNext
  PROVE  IInv'
<1>1. CASE ExpireStaleSearching \/ ExpireStaleLive
  BY <1>1, CancelSessionInv
<1> QED BY <1>1, ChargeConfirmedInv, ChargeConfirmedAgainInv, TransferSucceededInv,
           TransferFailedInv, AutoReleaseInv, FinalizeAutoReleasedInv,
           ExpireAbandonedInv
        DEF SystemNext

LEMMA AdminInv ==
  ASSUME IInv, AdminNext
  PROVE  IInv'
  BY InvestigateInv, ResolveForPayeesInv, ResolveForFilerInv DEF AdminNext

LEMMA IdleInv ==
  ASSUME IInv, UNCHANGED vars
  PROVE  IInv'
<1>1. UNCHANGED <<session, hold, away, payout, charge, ledger, mishap>>
  BY DEF vars
<1>2. away' \subseteq Leavers /\ hold' \in [Slots -> HoldRow]
      /\ ledger' \in [paidIn : Nat, credited : Nat, closed : Nat, sellers : Nat]
  BY <1>1 DEF IInv, TypeOK
<1> QED BY <1>1, <1>2, HoldsOnlyInv, SameHolds

LEMMA NextInv == IInv /\ [Next]_vars => IInv'
  BY CustomerInv, ShopperInv, RiderInv, AnyPartyInv, SystemInv, AdminInv, IdleInv DEF Next

\* The inductive invariant holds in every reachable state.
LEMMA AlwaysIInv == Spec => []IInv
  BY InitInv, NextInv, PTL DEF Spec

-----------------------------------------------------------------------------
(* What follows from it. *)

\* The types of the rows: deposits, fees, holds, payouts and credits stay natural
\* numbers, whatever the handlers subtract.
THEOREM TypeCorrect == Spec => []TypeOK
<1>1. IInv => TypeOK
  BY DEF IInv
<1> QED BY <1>1, AlwaysIInv, PTL

\* What went out and what is still owed is the amounts of the holds and the credits.
LEMMA OutgoingIsAmounts ==
  ASSUME IInv
  PROVE  /\ ToCustomer + ToPayees + ledger.sellers + Owed
              = ledger.credited + Amounts(hold) + ledger.sellers - ledger.closed
         /\ Amounts(hold) \in Nat
<1>1. hold \in [Slots -> HoldRow] /\ \A s \in Slots : hold[s].status = "NONE" => hold[s].amount = 0
  BY DEF IInv, TypeOK, NoneIsEmpty
<1>2. /\ Having(hold, {"REFUNDED"}) + Having(hold, {"RELEASED"}) + Having(hold, LiveStatus)
           = Amounts(hold)
      /\ Having(hold, {"REFUNDED"}) \in Nat /\ Having(hold, {"RELEASED"}) \in Nat
      /\ Having(hold, LiveStatus) \in Nat /\ Amounts(hold) \in Nat
  BY <1>1, HavingSplits, HavingNat, AmountsNat
<1>3. ledger.credited \in Nat /\ ledger.closed \in Nat /\ ledger.sellers \in Nat
  BY AllNat DEF IInv
<1> QED BY <1>2, <1>3 DEF ToCustomer, ToPayees, Owed

\* No session pays out, with what it still owes, more than was paid into it: over any
\* interleaving of payments, releases, cancellations, expiries, payouts, failed
\* transfers, repricings, resets and disputes, as long as none of the named mishaps
\* happened.
THEOREM NeverOverpaidHolds == Spec => []NeverOverpaid
<1>1. IInv => NeverOverpaid
  <2> SUFFICES ASSUME IInv, Accountable(mishap)
               PROVE  ToCustomer + ToPayees + ledger.sellers + Owed <= ledger.paidIn
    BY DEF NeverOverpaid, Accountable
  <2> ledger.sellers = SellersPaid
    BY DEF IInv, SellersSent, Accountable, Unchecked
  <2>1. ledger.credited + Amounts(hold) + SellersPaid <= ledger.paidIn
    <3>1. CASE session.status \in Ended
      BY <3>1 DEF IInv, Balanced
    <3>2. CASE session.status \notin Ended
      <4>1. ledger.credited = 0 /\ session.deposit = ledger.paidIn
        BY <3>2 DEF IInv, Balanced
      <4>2. Amounts(hold) + SellersPaid <= session.deposit
        BY SetAsideFits, StricterMishaps
      <4>3. Amounts(hold) \in Nat /\ SellersPaid \in Int
        BY OutgoingIsAmounts, AllNat DEF IInv
      <4> QED BY <4>1, <4>2, <4>3
    <3> QED BY <3>1, <3>2
  <2>2. /\ ledger.credited \in Nat /\ ledger.closed \in Nat /\ SellersPaid \in Int
        /\ ledger.paidIn \in Nat /\ Amounts(hold) \in Nat
    BY OutgoingIsAmounts, AllNat DEF IInv
  <2>3. ledger.credited + Amounts(hold) + SellersPaid - ledger.closed <= ledger.paidIn
    BY <2>1, <2>2
  <2> QED BY <2>3, OutgoingIsAmounts
<1> QED BY <1>1, AlwaysIInv, PTL

\* A session that ended without a mishap keeps nothing of what was paid into it.
THEOREM NothingKeptHolds == Spec => []NothingKept
<1>1. IInv => NothingKept
  <2> SUFFICES ASSUME IInv, session.status \in Ended, mishap = {}
               PROVE  ToCustomer + ToPayees + ledger.sellers + Owed + ledger.closed
                        >= ledger.paidIn
    BY DEF NothingKept
  <2> ledger.sellers = SellersPaid
    BY DEF IInv, SellersSent
  <2>1. ledger.credited + Amounts(hold) + SellersPaid = ledger.paidIn
    BY DEF IInv, Settled
  <2>2. /\ ledger.credited \in Nat /\ ledger.closed \in Nat /\ SellersPaid \in Int
        /\ ledger.paidIn \in Nat /\ Amounts(hold) \in Nat
    BY OutgoingIsAmounts, AllNat DEF IInv
  <2>3. ledger.credited + Amounts(hold) + SellersPaid - ledger.closed + ledger.closed
          >= ledger.paidIn
    BY <2>1, <2>2
  <2> QED BY <2>3, OutgoingIsAmounts
<1> QED BY <1>1, AlwaysIInv, PTL

\* A completed session without a mishap has holds of exactly the fee of the call for
\* the shopper, in one, two or three of them, and of the rider fee for the rider.
THEOREM PayeesGetTheirFeesHolds == Spec => []PayeesGetTheirFees
<1>1. IInv => PayeesGetTheirFees
  BY DEF IInv, Settled, PayeesGetTheirFees, Ended
<1> QED BY <1>1, AlwaysIInv, PTL

LEMMA NoneHeldSum ==
  ASSUME NEW h, \A s \in Slots : h[s].status = "HELD" => h[s].amount = 0
  PROVE  Having(h, {"HELD"}) = 0
<1> DEFINE held == [s \in Slots |-> IF h[s].status \in {"HELD"} THEN h[s].amount ELSE 0]
<1>1. held["fee"] = 0 /\ held["shortfall"] = 0 /\ held["offset"] = 0 /\ held["rider"] = 0
  BY DEF Slots
<1>2. Having(h, {"HELD"}) = held["fee"] + held["shortfall"] + held["offset"] + held["rider"]
  BY DEF Having, Over
<1> HIDE DEF held
<1> QED BY <1>1, <1>2

\* Nothing is left HELD behind a session that has ended, however it ended.
THEOREM EndedLeavesNothingHeldHolds == Spec => []EndedLeavesNothingHeld
<1>1. IInv => EndedLeavesNothingHeld
  BY NoneHeldSum DEF IInv, NothingHeld, Timely, EndedLeavesNothingHeld
<1> QED BY <1>1, AlwaysIInv, PTL

\* The holds and what the sellers were sent fit into the deposit at every moment of a
\* session whose deposit was there when it was matched, until a new price, an allotment
\* below zero or an answer that was lost gets past the checks.
THEOREM AllocationsFitDepositHolds == Spec => []AllocationsFitDeposit
<1>1. IInv => AllocationsFitDeposit
  <2> SUFFICES ASSUME IInv, Funded(mishap)
               PROVE  Having(hold, HoldStatus) + ledger.sellers <= session.deposit
    BY DEF AllocationsFitDeposit, Funded
  <2>1. ledger.sellers = SellersPaid
    BY DEF IInv, SellersSent, Funded, Unchecked
  <2>2. Amounts(hold) + SellersPaid <= session.deposit
    BY SetAsideFits
  <2>3. hold \in [Slots -> HoldRow] /\ \A s \in Slots : hold[s].status = "NONE" => hold[s].amount = 0
    BY DEF IInv, TypeOK, NoneIsEmpty
  <2> QED BY <2>1, <2>2, <2>3, HavingSplits
<1> QED BY <1>1, AlwaysIInv, PTL

-----------------------------------------------------------------------------
(* The chat: its inductive invariant. *)

\* A handler is past its first read, knows its thread, and has who writes in it.
OnPath(r) ==
  \/ r = Idle
  \/ r.step = "create" /\ r.thread = 0
  \/ /\ r.step \notin {"none", "create"} /\ r.thread \in Made
     /\ r.step = "write" => r.by \in People
     /\ r.step \in {"join", "adminWrite", "stamp"} => r.by \in Admins
     /\ r.step = "stamp" => r.fresh

\* There is no open thread for whoever is about to create one.
Alone ==
  ~crossed =>
    /\ \A s, t \in Opened : s = t
    /\ \A h \in Handlers : run[h].step = "create" => Opened = {}

\* The one thread the end of the booking found is closed, or about to be.
Closing ==
  ~failed /\ (\A s, t \in left : s = t) =>
    \A t \in left \cap Opened :
      \E h \in Handlers : run[h].step = "close" /\ run[h].by = Nobody /\ run[h].thread = t

SealedAtRest ==
  \A t \in sealed : threads[t].closed /\ \A h \in Handlers : run[h].thread # t

HumanAtRest ==
  \A t \in human :
    /\ threads[t].handledBy # Nobody
    /\ \A h \in Handlers : run[h].thread = t => run[h].step # "aiWrite" /\ ~run[h].fresh

ChatInv ==
  /\ ChatTypeOK /\ \A h \in Handlers : OnPath(run[h])
  /\ Alone /\ Closing /\ SealedAtRest /\ HumanAtRest

\* What is at rest stays so in a step.
Rested ==
  /\ \A t \in sealed : /\ t \in DOMAIN threads' /\ threads'[t].closed
                       /\ threads'[t].messages = threads[t].messages
                       /\ \A h \in Handlers : run'[h].thread # t
  /\ \A t \in human : /\ t \in DOMAIN threads'
                      /\ threads'[t].handledBy = threads[t].handledBy
                      /\ AiSaid(t, threads') = AiSaid(t, threads)
                      /\ \A h \in Handlers : run'[h].thread = t =>
                           run'[h].step # "aiWrite" /\ ~run'[h].fresh

LEMMA ChatInitInv == ChatInit => ChatInv
<1> SUFFICES ASSUME ChatInit PROVE ChatInv
  OBVIOUS
<1>1. Made = {} /\ Opened = {}
  BY DEF ChatInit, Made, Opened
<1>2. threads \in Seq(ThreadRow) /\ Len(threads) = 0
  BY EmptySeq DEF ChatInit
<1>3. Idle \in RunRow
  BY ThreadsAssumption DEF Idle, RunRow
<1>4. ChatTypeOK
  <2>1. Len(threads) <= MaxThreads
    BY <1>2, ThreadsAssumption
  <2>2. run \in [Handlers -> RunRow]
    BY <1>3 DEF ChatInit
  <2>3. kind \in Kinds /\ aiUser \in BOOLEAN /\ failed \in BOOLEAN /\ crossed \in BOOLEAN
        /\ left \subseteq Made /\ sealed \subseteq Made /\ human \subseteq Made
    BY DEF ChatInit
  <2> QED BY <1>2, <2>1, <2>2, <2>3 DEF ChatTypeOK
<1>5. Alone /\ Closing /\ SealedAtRest /\ HumanAtRest
  BY <1>1 DEF ChatInit, Alone, Closing, SealedAtRest, HumanAtRest
<1> QED BY <1>4, <1>5 DEF ChatInv, ChatInit, OnPath

LEMMA ThreadsAre ==
  ASSUME ChatTypeOK
  PROVE  /\ Made = 1 .. Len(threads) /\ Len(threads) \in Nat
         /\ \A t \in Made : /\ threads[t] \in ThreadRow
                            /\ threads[t].messages \in Seq(People \cup {"ai"})
         /\ \A t \in Made : t \in 1 .. MaxThreads
         /\ Opened \subseteq Made
<1>1. threads \in Seq(ThreadRow) /\ Len(threads) <= MaxThreads
  BY DEF ChatTypeOK
<1>2. Made = 1 .. Len(threads) /\ Len(threads) \in Nat
  BY <1>1, LenProperties DEF Made
<1>3. \A t \in Made : threads[t] \in ThreadRow
  BY <1>1, <1>2, ElementOfSeq
<1> QED BY <1>1, <1>2, <1>3, ThreadsAssumption DEF ThreadRow, Opened

\* What settles with a step is at rest, and so is what was and has stayed so.
LEMMA SettlesInv ==
  ASSUME ChatInv, Rested, Settles
  PROVE  /\ SealedAtRest' /\ HumanAtRest'
         /\ Made \subseteq Made' => sealed' \subseteq Made' /\ human' \subseteq Made'
<1>1. \A t \in human : threads'[t].handledBy # Nobody
  BY DEF ChatInv, HumanAtRest, Rested
<1>2. SealedAtRest'
  BY DEF Rested, Settles, SealedAtRest
<1>3. HumanAtRest'
  BY <1>1 DEF Rested, Settles, HumanAtRest
<1>4. Made \subseteq Made' => sealed' \subseteq Made' /\ human' \subseteq Made'
  BY DEF ChatInv, ChatTypeOK, Settles, Made
<1> QED BY <1>2, <1>3, <1>4

LEMMA AiSaidAppend ==
  ASSUME NEW S, NEW m \in Seq(S), NEW x \in S, x # "ai"
  PROVE  {i \in DOMAIN Append(m, x) : Append(m, x)[i] = "ai"} = {i \in DOMAIN m : m[i] = "ai"}
<1>1. /\ Append(m, x) \in Seq(S) /\ Len(Append(m, x)) = Len(m) + 1 /\ Len(m) \in Nat
      /\ \A i \in 1 .. Len(m) : Append(m, x)[i] = m[i]
      /\ Append(m, x)[Len(m) + 1] = x
  BY AppendProperties, LenProperties
<1>2. DOMAIN m = 1 .. Len(m) /\ DOMAIN Append(m, x) = 1 .. Len(m) + 1
  BY <1>1, LenProperties
<1>3. \A i : i \in 1 .. Len(m) + 1 <=> i \in 1 .. Len(m) \/ i = Len(m) + 1
  BY <1>1
<1> QED BY <1>1, <1>2, <1>3

-----------------------------------------------------------------------------
(* The first read of a handler. *)

\* Handler h starts with row r; an opener has found nothing, all others an open thread.
Starts(h, r) ==
  /\ run[h] = Idle /\ run' = [run EXCEPT ![h] = r] /\ r \in RunRow
  /\ UNCHANGED <<kind, threads, aiUser, failed, crossed>>
  /\ \/ /\ r.step = "create" /\ r.thread = 0 /\ ~r.fresh /\ Opened = {}
        /\ UNCHANGED left
     \/ /\ r.step \in {"write", "join", "close"} /\ r.thread \in Opened
        /\ r.fresh => threads[r.thread].handledBy = Nobody
        /\ r.step = "write" => r.by \in People
        /\ r.step = "join" => r.by \in Admins
        /\ \/ UNCHANGED left
           \/ left' = Made /\ r.step = "close" /\ r.by = Nobody

LEMMA StartsInv ==
  ASSUME ChatInv, NEW h \in Handlers, NEW r, Starts(h, r), Settles
  PROVE  ChatInv' /\ Rested
<1>1. run \in [Handlers -> RunRow] /\ run' \in [Handlers -> RunRow]
  BY DEF ChatInv, ChatTypeOK, Starts
<1>2. /\ run[h] = Idle /\ run'[h] = r
      /\ \A g \in Handlers \ {h} : run'[g] = run[g]
      /\ threads' = threads /\ Made' = Made /\ Opened' = Opened
  BY <1>1 DEF Starts, Made, Opened
<1>3. /\ Opened \subseteq Made /\ 0 \notin Made
      /\ \A t \in Opened : ~threads[t].closed
  BY ThreadsAre DEF ChatInv, Opened
<1>4. Rested
  <2>1. ASSUME NEW t \in sealed
        PROVE  /\ t \in Made /\ threads[t].closed /\ r.thread # t
               /\ \A g \in Handlers : run[g].thread # t
    BY <1>3 DEF ChatInv, ChatTypeOK, SealedAtRest, Starts
  <2>2. ASSUME NEW t \in human
        PROVE  /\ t \in Made
               /\ r.thread = t => r.step # "aiWrite" /\ ~r.fresh
               /\ \A g \in Handlers : run[g].thread = t =>
                    run[g].step # "aiWrite" /\ ~run[g].fresh
    BY <1>3 DEF ChatInv, ChatTypeOK, HumanAtRest, Starts
  <2> QED BY <1>2, <2>1, <2>2 DEF Rested, Made
<1>5. SealedAtRest' /\ HumanAtRest' /\ sealed' \subseteq Made' /\ human' \subseteq Made'
  BY <1>2, <1>4, SettlesInv
<1>6. ChatTypeOK'
  BY <1>1, <1>2, <1>5 DEF ChatInv, ChatTypeOK, Starts
<1>7. \A g \in Handlers : OnPath(run[g])'
  <2>1. OnPath(r)'
    BY <1>2, <1>3 DEF OnPath, Starts
  <2> QED BY <1>2, <2>1 DEF ChatInv, OnPath
<1>8. Alone'
  <2>1. crossed' = crossed /\ (r.step = "create" => Opened = {})
    BY DEF Starts
  <2> QED BY <1>2, <2>1 DEF ChatInv, Alone
<1>9. Closing'
  <2>1. failed' = failed
    BY DEF Starts
  <2>2. CASE left' = left
    BY <1>2, <2>1, <2>2 DEF ChatInv, Closing, Idle
  <2>3. CASE left' = Made /\ r.step = "close" /\ r.by = Nobody /\ r.thread \in Opened
    BY <1>2, <1>3, <2>3 DEF Closing
  <2> QED BY <2>2, <2>3 DEF Starts
<1> QED BY <1>4, <1>5, <1>6, <1>7, <1>8, <1>9 DEF ChatInv

LEMMA StartInv ==
  ASSUME ChatInv, NEW h \in Handlers, Start(h), Settles
  PROVE  ChatInv' /\ Rested
<1>1. /\ Opened \subseteq Made /\ \A t \in Made : t \in 1 .. MaxThreads
      /\ 0 \in 0 .. MaxThreads
  BY ThreadsAre, ThreadsAssumption DEF ChatInv
<1>2. "user" \in People /\ "peer" \in People /\ Parties \subseteq People
      /\ Admins \subseteq People
  BY DEF People, Parties
<1>3. ASSUME NEW s, NEW by, NEW t, NEW f, Begin(h, s, by, t, f)
      PROVE  /\ run[h] = Idle /\ UNCHANGED <<kind, threads, aiUser>>
             /\ run' = [run EXCEPT ![h] = [step |-> s, by |-> by, thread |-> t, fresh |-> f]]
  BY <1>3 DEF Begin, rows
<1>4. CASE StartOpen(h)
  <2>1. PICK p \in Openers : Findable(p) = {} /\ Begin(h, "create", p, 0, FALSE)
    BY <1>4 DEF StartOpen
  <2>2. Opened = {}
    BY <1>1, <2>1 DEF Findable
  <2>3. p \in People
    BY <1>2 DEF Openers
  <2>4. Starts(h, [step |-> "create", by |-> p, thread |-> 0, fresh |-> FALSE])
    BY <1>1, <1>3, <1>4, <2>1, <2>2, <2>3 DEF Starts, StartOpen, history, RunRow
  <2> QED BY <2>4, StartsInv
<1>5. CASE StartSend(h)
  <2>1. PICK t \in Opened, p \in Parties : Begin(h, "write", p, t, FALSE)
    BY <1>5 DEF StartSend
  <2>2. t \in 0 .. MaxThreads /\ p \in People
    BY <1>1, <1>2, ThreadsAssumption
  <2> DEFINE r == [step |-> "write", by |-> p, thread |-> t, fresh |-> FALSE]
  <2>3. r \in RunRow /\ r.step = "write" /\ r.by = p /\ r.thread = t /\ ~r.fresh
    BY <2>2 DEF RunRow
  <2>4. run[h] = Idle /\ run' = [run EXCEPT ![h] = r] /\ UNCHANGED <<kind, threads, aiUser>>
    BY <2>1 DEF Begin, rows
  <2>5. UNCHANGED <<failed, crossed>> /\ UNCHANGED left
    BY <1>5 DEF StartSend, history
  <2> HIDE DEF r
  <2>6. Starts(h, r)
    BY <2>1, <2>2, <2>3, <2>4, <2>5 DEF Starts
  <2> QED BY <2>6, StartsInv
<1>6. CASE StartAdminSend(h)
  <2>1. PICK t \in Opened, a \in Admins : Begin(h, "join", a, t, threads[t].handledBy = Nobody)
    BY <1>6 DEF StartAdminSend
  <2>2. t \in 0 .. MaxThreads /\ a \in People
    BY <1>1, <1>2, ThreadsAssumption
  <2> DEFINE f == threads[t].handledBy = Nobody
             r == [step |-> "join", by |-> a, thread |-> t, fresh |-> f]
  <2>3. r \in RunRow /\ r.step = "join" /\ r.by = a /\ r.thread = t /\ (r.fresh => f)
    <3>1. f \in BOOLEAN
      OBVIOUS
    <3> HIDE DEF f
    <3> QED BY <2>2, <3>1 DEF RunRow
  <2>4. run[h] = Idle /\ run' = [run EXCEPT ![h] = r] /\ UNCHANGED <<kind, threads, aiUser>>
    BY <2>1 DEF Begin, rows
  <2>5. UNCHANGED <<failed, crossed, left>>
    BY <1>6 DEF StartAdminSend, history
  <2> HIDE DEF r
  <2>6. Starts(h, r)
    BY <2>1, <2>2, <2>3, <2>4, <2>5 DEF Starts
  <2> QED BY <2>6, StartsInv
<1>7. CASE StartClose(h)
  <2>1. PICK t \in Opened, p \in People : Begin(h, "close", p, t, FALSE)
    BY <1>2, <1>7 DEF StartClose
  <2>2. t \in 0 .. MaxThreads
    BY <1>1, ThreadsAssumption
  <2> DEFINE r == [step |-> "close", by |-> p, thread |-> t, fresh |-> FALSE]
  <2>3. r \in RunRow /\ r.step = "close" /\ r.by = p /\ r.thread = t /\ ~r.fresh
    BY <2>2 DEF RunRow
  <2>4. run[h] = Idle /\ run' = [run EXCEPT ![h] = r] /\ UNCHANGED <<kind, threads, aiUser>>
    BY <2>1 DEF Begin, rows
  <2>5. UNCHANGED <<failed, crossed>> /\ UNCHANGED left
    BY <1>7 DEF StartClose, history
  <2> HIDE DEF r
  <2>6. Starts(h, r)
    BY <2>1, <2>2, <2>3, <2>4, <2>5 DEF Starts
  <2> QED BY <2>6, StartsInv
<1>8. CASE StartCloseContext(h) /\ \E t \in Opened : Begin(h, "close", Nobody, t, FALSE)
  <2>1. PICK t \in Opened : Begin(h, "close", Nobody, t, FALSE)
    BY <1>8
  <2>2. t \in 0 .. MaxThreads
    BY <1>1, ThreadsAssumption
  <2> DEFINE r == [step |-> "close", by |-> Nobody, thread |-> t, fresh |-> FALSE]
  <2>3. r \in RunRow /\ r.step = "close" /\ r.by = Nobody /\ r.thread = t /\ ~r.fresh
    BY <2>2 DEF RunRow
  <2>4. run[h] = Idle /\ run' = [run EXCEPT ![h] = r] /\ UNCHANGED <<kind, threads, aiUser>>
    BY <2>1 DEF Begin, rows
  <2>5. UNCHANGED <<failed, crossed>> /\ left' = Made
    BY <1>8 DEF StartCloseContext, history
  <2> HIDE DEF r
  <2>6. Starts(h, r)
    BY <2>1, <2>2, <2>3, <2>4, <2>5 DEF Starts
  <2> QED BY <2>6, StartsInv
\* closeSupportThreadForContext finds a closed thread: with no other there is none open.
<1>9. CASE StartCloseContext(h) /\ Opened # Made /\ UNCHANGED <<rows, run>>
  <2>1. /\ left' = Made /\ threads' = threads /\ run' = run /\ Made' = Made
        /\ Opened' = Opened /\ UNCHANGED <<kind, aiUser, failed, crossed>>
    BY <1>9 DEF StartCloseContext, rows, Made, Opened
  <2>2. Rested
    BY <2>1 DEF Rested, ChatInv, ChatTypeOK, SealedAtRest, HumanAtRest, Made
  <2>3. SealedAtRest' /\ HumanAtRest' /\ sealed' \subseteq Made' /\ human' \subseteq Made'
    BY <2>1, <2>2, SettlesInv
  <2>4. ChatTypeOK'
    BY <2>1, <2>3 DEF ChatInv, ChatTypeOK
  <2>5. \A g \in Handlers : OnPath(run[g])'
    BY <2>1 DEF ChatInv, OnPath
  <2>6. Alone'
    BY <2>1 DEF ChatInv, Alone
  <2>7. Closing'
    BY <1>1, <1>9, <2>1 DEF Closing
  <2> QED BY <2>2, <2>3, <2>4, <2>5, <2>6, <2>7 DEF ChatInv
<1> QED BY <1>4, <1>5, <1>6, <1>7, <1>8, <1>9 DEF Start, StartCloseContext

-----------------------------------------------------------------------------
(* The steps that follow. *)

\* Handler h, at work on a thread, leaves the row of it as "row" and goes on with r.
Follows(h, row, r) ==
  /\ run[h].step \notin {"none", "create"}
  /\ threads' = [threads EXCEPT ![run[h].thread] = row] /\ row \in ThreadRow
  /\ Row(h).closed => row.closed
  /\ row.handledBy = Row(h).handledBy \/ run[h].step = "stamp"
  /\ \/ row.messages = Row(h).messages
     \/ \E x \in People : row.messages = Append(Row(h).messages, x)
     \/ run[h].step = "aiWrite"
  /\ run' = [run EXCEPT ![h] = r] /\ r \in RunRow /\ OnPath(r)
  /\ \/ r = Idle
     \/ /\ r.thread = run[h].thread /\ r.fresh = run[h].fresh
        /\ r.step \notin {"create", "close"}
  /\ r.step = "aiWrite" => Row(h).handledBy = Nobody
  /\ run[h].step = "close" /\ run[h].by = Nobody => row.closed \/ failed'
  /\ failed => failed'
  /\ failed' \in BOOLEAN /\ aiUser' \in BOOLEAN /\ UNCHANGED <<kind, crossed, left>>

LEMMA FollowsInv ==
  ASSUME ChatInv, NEW h \in Handlers, NEW row, NEW r, Follows(h, row, r), Settles
  PROVE  ChatInv' /\ Rested
<1> DEFINE u == run[h].thread
<1>1. /\ run \in [Handlers -> RunRow] /\ run' \in [Handlers -> RunRow]
      /\ run'[h] = r /\ \A g \in Handlers \ {h} : run'[g] = run[g]
  BY DEF ChatInv, ChatTypeOK, Follows
<1>2. /\ u \in Made /\ u # 0
      /\ run[h].step = "stamp" => run[h].fresh
  BY ThreadsAre DEF ChatInv, OnPath, Follows, Idle
<1>3. /\ threads' \in Seq(ThreadRow) /\ Len(threads') = Len(threads) /\ Made' = Made
      /\ threads'[u] = row /\ \A t \in Made \ {u} : threads'[t] = threads[t]
  <2>1. threads \in Seq(ThreadRow) /\ row \in ThreadRow /\ u \in 1 .. Len(threads)
    BY <1>2, ThreadsAre DEF ChatInv, ChatTypeOK, Follows
  <2>2. threads' = [threads EXCEPT ![u] = row]
    BY DEF Follows
  <2>3. DOMAIN threads = 1 .. Len(threads)
    BY <2>1, LenProperties
  <2>4. threads' \in Seq(ThreadRow) /\ Len(threads') = Len(threads)
    BY <2>1, <2>2, ExceptSeq
  <2>5. DOMAIN threads' = DOMAIN threads
    BY <2>2
  <2> QED BY <2>1, <2>2, <2>3, <2>4, <2>5 DEF Made
<1>4. Opened' \subseteq Opened /\ (row.closed => u \notin Opened')
  BY <1>2, <1>3 DEF Opened, Follows, Row
<1> HIDE DEF u
<1>5. Rested
  <2>1. ASSUME NEW t \in sealed
        PROVE  /\ t \in DOMAIN threads' /\ threads'[t].closed
               /\ threads'[t].messages = threads[t].messages
               /\ \A g \in Handlers : run'[g].thread # t
    <3>1. /\ t \in Made /\ t # u /\ t # 0 /\ threads[t].closed
          /\ \A g \in Handlers : run[g].thread # t
      BY ThreadsAre DEF ChatInv, ChatTypeOK, SealedAtRest, u
    <3>2. r.thread # t
      BY <3>1 DEF Follows, Idle, u
    <3> QED BY <1>1, <1>3, <3>1, <3>2 DEF Made
  <2>2. ASSUME NEW t \in human
        PROVE  /\ t \in DOMAIN threads'
               /\ threads'[t].handledBy = threads[t].handledBy
               /\ AiSaid(t, threads') = AiSaid(t, threads)
               /\ \A g \in Handlers : run'[g].thread = t =>
                    run'[g].step # "aiWrite" /\ ~run'[g].fresh
    <3>1. /\ t \in Made /\ t \in DOMAIN threads' /\ threads[t].handledBy # Nobody
          /\ \A g \in Handlers : run[g].thread = t => run[g].step # "aiWrite" /\ ~run[g].fresh
      BY <1>3 DEF ChatInv, ChatTypeOK, HumanAtRest, Made
    <3>2. r.thread = t => r.step # "aiWrite" /\ ~r.fresh
      BY <3>1, ThreadsAre DEF ChatInv, Follows, Idle, Row
    <3>3. CASE t # u
      BY <1>1, <1>3, <3>1, <3>2, <3>3 DEF AiSaid
    <3>4. CASE t = u
      <4>1. run[h].step # "stamp" /\ run[h].step # "aiWrite"
        BY <1>2, <3>1, <3>4 DEF u
      <4>2. threads'[t] = row /\ Row(h) = threads[t]
        BY <1>3, <3>4 DEF Row, u
      <4>3. row.handledBy = threads[t].handledBy
        BY <4>1, <4>2 DEF Follows
      <4>4. CASE row.messages = threads[t].messages
        BY <1>1, <3>1, <3>2, <4>2, <4>3, <4>4 DEF AiSaid
      <4>5. CASE \E x \in People : row.messages = Append(threads[t].messages, x)
        <5>1. PICK x \in People : row.messages = Append(threads[t].messages, x)
          BY <4>5
        <5>2. x # "ai"
          BY PeopleAssumption DEF People
        <5>3. threads[t].messages \in Seq(People \cup {"ai"})
          BY <3>1, ThreadsAre DEF ChatInv
        <5> DEFINE m == threads[t].messages
        <5>4. {i \in DOMAIN Append(m, x) : Append(m, x)[i] = "ai"}
                = {i \in DOMAIN m : m[i] = "ai"}
          <6> HIDE DEF m
          <6>1. m \in Seq(People \cup {"ai"})
            BY <5>3 DEF m
          <6> QED BY <5>2, <6>1, AiSaidAppend
        <5>5. AiSaid(t, threads') = AiSaid(t, threads)
          BY <4>2, <5>1, <5>4 DEF AiSaid
        <5> QED BY <1>1, <3>1, <3>2, <4>2, <4>3, <5>5
      <4> QED BY <4>1, <4>2, <4>4, <4>5 DEF Follows
    <3> QED BY <3>3, <3>4
  <2> QED BY <2>1, <2>2 DEF Rested
<1>6. SealedAtRest' /\ HumanAtRest' /\ sealed' \subseteq Made' /\ human' \subseteq Made'
  BY <1>3, <1>5, SettlesInv
<1>7. ChatTypeOK'
  <2>1. Len(threads') <= MaxThreads /\ left' \subseteq Made'
    BY <1>3 DEF ChatInv, ChatTypeOK, Follows
  <2>2. kind' \in Kinds /\ aiUser' \in BOOLEAN /\ failed' \in BOOLEAN /\ crossed' \in BOOLEAN
    BY DEF ChatInv, ChatTypeOK, Follows
  <2> QED BY <1>1, <1>3, <1>6, <2>1, <2>2 DEF ChatTypeOK
<1>8. \A g \in Handlers : OnPath(run[g])'
  <2>1. OnPath(r)
    BY DEF Follows
  <2> QED BY <1>1, <1>3, <2>1 DEF ChatInv, OnPath
<1>9. Alone'
  <2>1. r.step # "create" /\ crossed' = crossed
    BY DEF Follows, Idle
  <2> QED BY <1>1, <1>4, <2>1 DEF ChatInv, Alone
<1>10. Closing'
  <2> SUFFICES ASSUME ~failed', \A s, t \in left' : s = t, NEW t \in left' \cap Opened'
               PROVE  \E g \in Handlers : /\ run'[g].step = "close" /\ run'[g].by = Nobody
                                          /\ run'[g].thread = t
    BY DEF Closing
  <2>1. left' = left /\ ~failed /\ t \in left \cap Opened
    BY <1>4 DEF Follows
  <2>2. PICK g \in Handlers : run[g].step = "close" /\ run[g].by = Nobody /\ run[g].thread = t
    BY <2>1 DEF ChatInv, Closing
  <2>3. g # h
    BY <1>4, <2>2 DEF Follows, u
  <2> QED BY <1>1, <2>2, <2>3
<1> QED BY <1>5, <1>6, <1>7, <1>8, <1>9, <1>10 DEF ChatInv

\* What a handler goes on with.
GoesOn(h, s) == IF s = "done" THEN Idle ELSE [run[h] EXCEPT !.step = s]

LEMMA GoesOnIs ==
  ASSUME ChatInv, NEW h \in Handlers, run[h].step \notin {"none", "create"},
         NEW s \in {"done", "aiLook", "aiUser", "aiNewUser", "recheck", "aiWrite",
                    "adminWrite", "stamp"},
         s \in {"adminWrite", "stamp"} => run[h].by \in Admins,
         s = "stamp" => run[h].fresh,
         GoesTo(h, s)
  PROVE  /\ run' = [run EXCEPT ![h] = GoesOn(h, s)] /\ GoesOn(h, s) \in RunRow
         /\ OnPath(GoesOn(h, s))
         /\ \/ GoesOn(h, s) = Idle
            \/ /\ GoesOn(h, s).thread = run[h].thread /\ GoesOn(h, s).fresh = run[h].fresh
               /\ GoesOn(h, s).step \notin {"create", "close"}
         /\ GoesOn(h, s).step = "aiWrite" => s = "aiWrite"
<1>1. run \in [Handlers -> RunRow] /\ run[h] \in RunRow
  BY DEF ChatInv, ChatTypeOK
<1>2. run' = [run EXCEPT ![h] = GoesOn(h, s)]
  BY <1>1 DEF GoesTo, GoesOn
<1>3. run[h].thread \in Made
  BY DEF ChatInv, OnPath, Idle
<1>4. CASE s = "done"
  BY <1>2, <1>4, ThreadsAssumption DEF GoesOn, OnPath, Idle, RunRow
<1>5. CASE s # "done"
  <2>1. /\ GoesOn(h, s) = [run[h] EXCEPT !.step = s]
        /\ GoesOn(h, s) \in RunRow /\ GoesOn(h, s).step = s
        /\ GoesOn(h, s).thread = run[h].thread /\ GoesOn(h, s).fresh = run[h].fresh
        /\ GoesOn(h, s).by = run[h].by
    BY <1>1, <1>5 DEF GoesOn, RunRow
  <2>2. OnPath(GoesOn(h, s))
    BY <1>3, <1>5, <2>1 DEF OnPath
  <2> QED BY <1>2, <1>5, <2>1, <2>2
<1> QED BY <1>4, <1>5

\* The row of a handler at work, and that it may leave the rows as they are.
LEMMA RowIs ==
  ASSUME ChatInv, NEW h \in Handlers, run[h].step \notin {"none", "create"}
  PROVE  /\ Row(h) \in ThreadRow /\ run[h].thread \in Made
         /\ Row(h).messages \in Seq(People \cup {"ai"})
         /\ threads = [threads EXCEPT ![run[h].thread] = Row(h)]
<1>1. run[h].thread \in Made
  BY DEF ChatInv, OnPath, Idle
<1>2. Row(h) \in ThreadRow /\ Row(h).messages \in Seq(People \cup {"ai"})
  BY <1>1, ThreadsAre DEF ChatInv, Row
<1>3. threads = [threads EXCEPT ![run[h].thread] = Row(h)]
  BY <1>1 DEF ChatInv, ChatTypeOK, Row
<1> QED BY <1>1, <1>2, <1>3

\* A row with another message, another member, another admin or closed.
LEMMA RowsWith ==
  ASSUME NEW row \in ThreadRow
  PROVE  /\ \A x \in People \cup {"ai"} :
              LET new == [row EXCEPT !.messages = Append(@, x)]
              IN  /\ new \in ThreadRow /\ new.messages = Append(row.messages, x)
                  /\ new.closed = row.closed /\ new.handledBy = row.handledBy
         /\ \A p \in People :
              LET new == [row EXCEPT !.members = @ \cup {p}]
              IN  /\ new \in ThreadRow /\ new.messages = row.messages
                  /\ new.closed = row.closed /\ new.handledBy = row.handledBy
         /\ \A a \in Admins :
              LET new == [row EXCEPT !.handledBy = a]
              IN  /\ new \in ThreadRow /\ new.messages = row.messages
                  /\ new.closed = row.closed
         /\ LET new == [row EXCEPT !.closed = TRUE]
            IN  /\ new \in ThreadRow /\ new.messages = row.messages
                /\ new.closed /\ new.handledBy = row.handledBy
<1>1. \A x \in People \cup {"ai"} : Append(row.messages, x) \in Seq(People \cup {"ai"})
  BY AppendProperties DEF ThreadRow
<1>2. \A x \in People \cup {"ai"} :
        LET new == [row EXCEPT !.messages = Append(@, x)]
        IN  /\ new \in ThreadRow /\ new.messages = Append(row.messages, x)
            /\ new.closed = row.closed /\ new.handledBy = row.handledBy
  BY <1>1 DEF ThreadRow
<1>3. \A p \in People :
        LET new == [row EXCEPT !.members = @ \cup {p}]
        IN  /\ new \in ThreadRow /\ new.messages = row.messages
            /\ new.closed = row.closed /\ new.handledBy = row.handledBy
  BY DEF ThreadRow
<1>4. \A a \in Admins :
        LET new == [row EXCEPT !.handledBy = a]
        IN  /\ new \in ThreadRow /\ new.messages = row.messages
            /\ new.closed = row.closed
  BY DEF ThreadRow
<1>5. LET new == [row EXCEPT !.closed = TRUE]
      IN  /\ new \in ThreadRow /\ new.messages = row.messages
          /\ new.closed /\ new.handledBy = row.handledBy
  BY DEF ThreadRow
<1> QED BY <1>2, <1>3, <1>4, <1>5

\* The handlers' writes.
LEMMA WritesInv ==
  ASSUME ChatInv, NEW h \in Handlers, Settles,
         Send(h) \/ AiReply(h) \/ Join(h) \/ AdminSend(h) \/ Stamp(h) \/ Close(h)
  PROVE  ChatInv' /\ Rested
<1>1. run[h].step \notin {"none", "create"}
  BY DEF Send, AiReply, Join, AdminSend, Stamp, Close
<1>2. /\ Row(h) \in ThreadRow
      /\ run[h].step = "write" => run[h].by \in People
      /\ run[h].step \in {"join", "adminWrite", "stamp"} => run[h].by \in Admins
  <2>1. OnPath(run[h])
    BY DEF ChatInv
  <2>2. /\ run[h].step = "write" => run[h].by \in People
        /\ run[h].step \in {"join", "adminWrite", "stamp"} => run[h].by \in Admins
    BY <1>1, <2>1 DEF OnPath, Idle
  <2>3. Row(h) \in ThreadRow
    BY <1>1, RowIs
  <2> QED BY <2>2, <2>3
<1>3. failed \in BOOLEAN /\ aiUser \in BOOLEAN /\ Admins \subseteq People
  BY DEF ChatInv, ChatTypeOK, People
<1>4. ASSUME NEW row \in ThreadRow,
             NEW s \in {"done", "aiLook", "adminWrite", "stamp"}, Writes(h, row, s),
             Row(h).closed => row.closed,
             row.handledBy = Row(h).handledBy \/ run[h].step = "stamp",
             \/ row.messages = Row(h).messages
             \/ \E x \in People : row.messages = Append(Row(h).messages, x)
             \/ run[h].step = "aiWrite",
             run[h].step = "close" => row.closed,
             s \in {"adminWrite", "stamp"} => run[h].by \in Admins,
             s = "stamp" => run[h].fresh
      PROVE  ChatInv' /\ Rested
  <2>1. GoesTo(h, s) /\ threads' = [threads EXCEPT ![run[h].thread] = row]
        /\ UNCHANGED <<kind, crossed, left>> /\ failed' = failed /\ aiUser' = aiUser
    BY <1>4 DEF Writes, history
  <2>2. /\ run' = [run EXCEPT ![h] = GoesOn(h, s)] /\ GoesOn(h, s) \in RunRow
        /\ OnPath(GoesOn(h, s))
        /\ \/ GoesOn(h, s) = Idle
           \/ /\ GoesOn(h, s).thread = run[h].thread /\ GoesOn(h, s).fresh = run[h].fresh
              /\ GoesOn(h, s).step \notin {"create", "close"}
        /\ GoesOn(h, s).step # "aiWrite"
    BY <1>1, <1>4, <2>1, GoesOnIs
  <2>3. Follows(h, row, GoesOn(h, s))
    BY <1>1, <1>3, <1>4, <2>1, <2>2 DEF Follows
  <2> QED BY <2>3, FollowsInv
<1>5. CASE Send(h)
  <2> DEFINE row == [Row(h) EXCEPT !.messages = Append(@, run[h].by)]
             s == IF kind \in {"GENERAL", "BOOKING"} THEN "aiLook" ELSE "done"
  <2>1. Writes(h, row, s) /\ run[h].step = "write" /\ run[h].by \in People
    BY <1>2, <1>5 DEF Send
  <2>2. /\ row \in ThreadRow /\ row.closed = Row(h).closed
        /\ row.handledBy = Row(h).handledBy
        /\ row.messages = Append(Row(h).messages, run[h].by)
    BY <1>2, <2>1, RowsWith
  <2>3. s \in {"done", "aiLook"}
    OBVIOUS
  <2> HIDE DEF row, s
  <2> QED BY <1>4, <2>1, <2>2, <2>3
<1>6. CASE AiReply(h)
  <2> DEFINE row == [Row(h) EXCEPT !.messages = Append(@, "ai")]
  <2>1. Writes(h, row, "done") /\ run[h].step = "aiWrite"
    BY <1>6 DEF AiReply
  <2>2. /\ row \in ThreadRow /\ row.closed = Row(h).closed
        /\ row.handledBy = Row(h).handledBy
    BY <1>2, <2>1, RowsWith
  <2> HIDE DEF row
  <2> QED BY <1>4, <2>1, <2>2
<1>7. CASE Join(h)
  <2> DEFINE row == [Row(h) EXCEPT !.members = @ \cup {run[h].by}]
  <2>1. Writes(h, row, "adminWrite") /\ run[h].step = "join" /\ run[h].by \in Admins
    BY <1>2, <1>7 DEF Join
  <2>2. /\ row \in ThreadRow /\ row.closed = Row(h).closed
        /\ row.handledBy = Row(h).handledBy /\ row.messages = Row(h).messages
    BY <1>2, <1>3, <2>1, RowsWith
  <2> HIDE DEF row
  <2> QED BY <1>4, <2>1, <2>2
<1>8. CASE AdminSend(h)
  <2> DEFINE row == [Row(h) EXCEPT !.messages = Append(@, run[h].by)]
             s == IF run[h].fresh THEN "stamp" ELSE "done"
  <2>1. /\ Writes(h, row, s) /\ run[h].step = "adminWrite" /\ run[h].by \in Admins
        /\ run[h].by \in People
    BY <1>2, <1>3, <1>8 DEF AdminSend
  <2>2. /\ row \in ThreadRow /\ row.closed = Row(h).closed
        /\ row.handledBy = Row(h).handledBy
        /\ row.messages = Append(Row(h).messages, run[h].by)
    BY <1>2, <2>1, RowsWith
  <2>3. s \in {"done", "stamp"} /\ (s = "stamp" => run[h].fresh)
    OBVIOUS
  <2> HIDE DEF row, s
  <2> QED BY <1>4, <2>1, <2>2, <2>3
<1>9. CASE Stamp(h)
  <2> DEFINE row == [Row(h) EXCEPT !.handledBy = run[h].by]
  <2>1. Writes(h, row, "done") /\ run[h].step = "stamp" /\ run[h].by \in Admins
    BY <1>2, <1>9 DEF Stamp
  <2>2. row \in ThreadRow /\ row.closed = Row(h).closed /\ row.messages = Row(h).messages
    BY <1>2, <2>1, RowsWith
  <2> HIDE DEF row
  <2> QED BY <1>4, <2>1, <2>2
<1>10. CASE Close(h)
  <2> DEFINE row == [Row(h) EXCEPT !.closed = TRUE]
  <2>1. Writes(h, row, "done") /\ run[h].step = "close"
    BY <1>10 DEF Close
  <2>2. /\ row \in ThreadRow /\ row.closed /\ row.handledBy = Row(h).handledBy
        /\ row.messages = Row(h).messages
    BY <1>2, <2>1, RowsWith
  <2> HIDE DEF row
  <2> QED BY <1>4, <2>1, <2>2
<1> QED BY <1>5, <1>6, <1>7, <1>8, <1>9, <1>10

\* The handlers' reads, and a handler that fails.
LEMMA ReadsInv ==
  ASSUME ChatInv, NEW h \in Handlers, Settles, run[h].step # "create",
         AiLook(h) \/ AiUser(h) \/ AiNewUser(h) \/ Recheck(h) \/ Fail(h)
  PROVE  ChatInv' /\ Rested
<1>1. run[h].step \notin {"none", "create"}
  BY DEF AiLook, AiUser, AiNewUser, Recheck, Fail, ChatInv, OnPath, Idle
<1>2. Row(h) \in ThreadRow /\ threads = [threads EXCEPT ![run[h].thread] = Row(h)]
  BY <1>1, RowIs
<1>3. failed \in BOOLEAN /\ aiUser \in BOOLEAN
  BY DEF ChatInv, ChatTypeOK
<1>4. ASSUME NEW s \in {"done", "aiUser", "aiNewUser", "recheck", "aiWrite"}, GoesTo(h, s),
             s = "aiWrite" => Row(h).handledBy = Nobody,
             UNCHANGED <<kind, threads, crossed, left>>,
             failed' \in BOOLEAN, aiUser' \in BOOLEAN, failed => failed',
             run[h].step = "close" /\ run[h].by = Nobody => failed'
      PROVE  ChatInv' /\ Rested
  <2>1. /\ run' = [run EXCEPT ![h] = GoesOn(h, s)] /\ GoesOn(h, s) \in RunRow
        /\ OnPath(GoesOn(h, s))
        /\ \/ GoesOn(h, s) = Idle
           \/ /\ GoesOn(h, s).thread = run[h].thread /\ GoesOn(h, s).fresh = run[h].fresh
              /\ GoesOn(h, s).step \notin {"create", "close"}
        /\ GoesOn(h, s).step = "aiWrite" => Row(h).handledBy = Nobody
    BY <1>1, <1>4, GoesOnIs
  <2>2. threads' = [threads EXCEPT ![run[h].thread] = Row(h)]
    BY <1>2, <1>4
  <2>3. Follows(h, Row(h), GoesOn(h, s))
    BY <1>1, <1>2, <1>4, <2>1, <2>2 DEF Follows
  <2> QED BY <2>3, FollowsInv
<1>5. CASE AiLook(h)
  <2> DEFINE s == IF Row(h).handledBy = Nobody THEN "aiUser" ELSE "done"
  <2>1. /\ GoesTo(h, s) /\ run[h].step = "aiLook" /\ UNCHANGED <<kind, threads, crossed, left>>
        /\ failed' = failed /\ aiUser' = aiUser
    BY <1>5 DEF AiLook, rows, history
  <2>2. s \in {"aiUser", "done"}
    OBVIOUS
  <2> HIDE DEF s
  <2> QED BY <1>3, <1>4, <2>1, <2>2
<1>6. CASE AiUser(h)
  <2> DEFINE s == IF aiUser THEN "recheck" ELSE "aiNewUser"
  <2>1. /\ GoesTo(h, s) /\ run[h].step = "aiUser" /\ UNCHANGED <<kind, threads, crossed, left>>
        /\ failed' = failed /\ aiUser' = aiUser
    BY <1>6 DEF AiUser, rows, history
  <2>2. s \in {"recheck", "aiNewUser"}
    OBVIOUS
  <2> HIDE DEF s
  <2> QED BY <1>3, <1>4, <2>1, <2>2
<1>7. CASE AiNewUser(h)
  <2> DEFINE s == IF aiUser THEN "done" ELSE "recheck"
  <2>1. /\ GoesTo(h, s) /\ run[h].step = "aiNewUser" /\ UNCHANGED <<kind, threads, crossed, left>>
        /\ failed' = failed /\ aiUser' = TRUE
    BY <1>7 DEF AiNewUser, history
  <2>2. s \in {"done", "recheck"}
    OBVIOUS
  <2> HIDE DEF s
  <2> QED BY <1>3, <1>4, <2>1, <2>2
<1>8. CASE Recheck(h)
  <2> DEFINE s == IF Row(h).handledBy = Nobody THEN "aiWrite" ELSE "done"
  <2>1. /\ GoesTo(h, s) /\ run[h].step = "recheck" /\ UNCHANGED <<kind, threads, crossed, left>>
        /\ failed' = failed /\ aiUser' = aiUser
    BY <1>8 DEF Recheck, rows, history
  <2>2. s \in {"aiWrite", "done"} /\ (s = "aiWrite" => Row(h).handledBy = Nobody)
    OBVIOUS
  <2> HIDE DEF s
  <2> QED BY <1>3, <1>4, <2>1, <2>2
<1>9. CASE Fail(h)
  <2>1. /\ GoesTo(h, "done") /\ UNCHANGED <<kind, threads, crossed, left>>
        /\ aiUser' = aiUser
    BY <1>9 DEF Fail, rows
  <2>2. failed' = (failed \/ (run[h].step = "close" /\ run[h].by = Nobody))
    BY <1>9 DEF Fail
  <2>3. failed' \in BOOLEAN
    BY <1>3, <2>2
  <2>4. (failed => failed') /\ (run[h].step = "close" /\ run[h].by = Nobody => failed')
    BY <2>2
  <2> QED BY <1>3, <1>4, <2>1, <2>3, <2>4
<1> QED BY <1>5, <1>6, <1>7, <1>8, <1>9

\* A new thread: its creator found none open, so that it is the only one unless
\* another is about to be created on the same read.
LEMMA CreateInv ==
  ASSUME ChatInv, NEW h \in Handlers, Create(h), Settles
  PROVE  ChatInv' /\ Rested
<1> DEFINE row == NewThread(run[h].by)
           n == Len(threads)
<1>1. /\ run \in [Handlers -> RunRow] /\ run[h].step = "create" /\ run' = [run EXCEPT ![h] = Idle]
      /\ threads' = Append(threads, row) /\ threads \in Seq(ThreadRow) /\ n < MaxThreads
      /\ UNCHANGED <<kind, aiUser, failed, left>>
  BY DEF Create, GoesTo, ChatInv, ChatTypeOK
<1>2. row \in ThreadRow /\ ~row.closed /\ Idle \in RunRow /\ Idle.thread = 0
      /\ Idle.step = "none" /\ ~Idle.fresh
  <2>1. <<>> \in Seq(People \cup {"ai"})
    BY EmptySeq
  <2>2. Parties \subseteq People /\ "user" \in People
    BY DEF Parties, People
  <2> QED BY <2>1, <2>2, ThreadsAssumption DEF NewThread, ThreadRow, Idle, RunRow
<1>3. /\ run' \in [Handlers -> RunRow] /\ run'[h] = Idle
      /\ \A g \in Handlers \ {h} : run'[g] = run[g]
  BY <1>1, <1>2
<1> HIDE DEF row
<1>4. /\ n \in Nat /\ Made = 1 .. n /\ 0 \notin Made
  BY ThreadsAre DEF ChatInv
<1>5. /\ threads' \in Seq(ThreadRow) /\ Len(threads') = n + 1
      /\ \A t \in 1 .. n : threads'[t] = threads[t]
      /\ threads'[n + 1] = row
  BY <1>1, <1>2, <1>4, AppendProperties
<1>6. Made' = 1 .. (n + 1)
  <2>1. DOMAIN threads' = 1 .. Len(threads')
    BY <1>5, LenProperties
  <2> QED BY <1>5, <2>1 DEF Made
<1> HIDE DEF n
<1>7. Made' = Made \cup {n + 1} /\ n + 1 \notin Made
  BY <1>4, <1>6
<1>8. /\ \A t \in Made : t \in Opened' <=> t \in Opened
      /\ Opened' = Opened \cup {n + 1}
  BY <1>2, <1>4, <1>5, <1>7 DEF Opened
<1>9. Rested
  <2>1. ASSUME NEW t \in sealed
        PROVE  /\ t \in DOMAIN threads' /\ threads'[t].closed
               /\ threads'[t].messages = threads[t].messages
               /\ \A g \in Handlers : run'[g].thread # t
    BY <1>2, <1>3, <1>4, <1>5, <1>7 DEF ChatInv, ChatTypeOK, SealedAtRest, Made
  <2>2. ASSUME NEW t \in human
        PROVE  /\ t \in DOMAIN threads' /\ threads'[t] = threads[t]
               /\ \A g \in Handlers : run'[g].thread = t =>
                    run'[g].step # "aiWrite" /\ ~run'[g].fresh
    BY <1>2, <1>3, <1>4, <1>5, <1>7 DEF ChatInv, ChatTypeOK, HumanAtRest, Made
  <2>3. ASSUME NEW t \in human PROVE AiSaid(t, threads') = AiSaid(t, threads)
    BY <2>2 DEF AiSaid
  <2> QED BY <2>1, <2>2, <2>3 DEF Rested
<1>10. SealedAtRest' /\ HumanAtRest' /\ sealed' \subseteq Made' /\ human' \subseteq Made'
  BY <1>7, <1>9, SettlesInv
<1>11. ChatTypeOK'
  <2>1. Len(threads') <= MaxThreads
    BY <1>1, <1>4, <1>5, ThreadsAssumption DEF n
  <2>2. crossed' \in BOOLEAN
    BY DEF Create, ChatInv, ChatTypeOK
  <2>3. kind' \in Kinds /\ aiUser' \in BOOLEAN /\ failed' \in BOOLEAN /\ left' \subseteq Made'
    BY <1>1, <1>7 DEF ChatInv, ChatTypeOK
  <2> QED BY <1>3, <1>5, <1>10, <2>1, <2>2, <2>3 DEF ChatTypeOK
<1>12. \A g \in Handlers : OnPath(run[g])'
  <2>1. OnPath(Idle)'
    BY DEF OnPath, Idle
  <2>2. ASSUME NEW g \in Handlers \ {h} PROVE OnPath(run[g])'
    BY <1>3, <1>7 DEF ChatInv, OnPath
  <2>3. OnPath(run[h])'
    BY <1>3, <2>1 DEF OnPath
  <2> QED BY <2>2, <2>3
<1>13. Alone'
  <2>1. CASE crossed'
    BY <2>1 DEF Alone
  <2>2. CASE ~crossed'
    <3>1. ~crossed /\ \A g \in Handlers \ {h} : run[g].step # "create"
      BY <2>2 DEF Create
    <3>2. Opened = {}
      BY <1>1, <3>1 DEF ChatInv, Alone
    <3>3. \A g \in Handlers : run'[g].step # "create"
      BY <1>2, <1>3, <3>1
    <3> QED BY <1>8, <3>2, <3>3 DEF Alone
  <2> QED BY <2>1, <2>2
<1>14. Closing'
  <2>1. left' \cap Opened' = left \cap Opened
    BY <1>1, <1>7, <1>8 DEF ChatInv, ChatTypeOK
  <2>2. \A g \in Handlers : run[g].step = "close" => run'[g] = run[g]
    BY <1>1, <1>3
  <2> QED BY <1>1, <2>1, <2>2 DEF ChatInv, Closing
<1> QED BY <1>9, <1>10, <1>11, <1>12, <1>13, <1>14 DEF ChatInv

\* One that fails to create its thread leaves nothing.
LEMMA FailToCreateInv ==
  ASSUME ChatInv, NEW h \in Handlers, Fail(h), run[h].step = "create", Settles
  PROVE  ChatInv' /\ Rested
<1>1. /\ run \in [Handlers -> RunRow] /\ run' = [run EXCEPT ![h] = Idle]
      /\ threads' = threads /\ Made' = Made /\ Opened' = Opened /\ failed' = failed
      /\ UNCHANGED <<kind, aiUser, crossed, left>>
  BY DEF Fail, GoesTo, rows, ChatInv, ChatTypeOK, Made, Opened
<1>2. Idle \in RunRow /\ Idle.thread = 0 /\ Idle.step = "none" /\ ~Idle.fresh
  BY ThreadsAssumption DEF Idle, RunRow
<1>3. /\ run' \in [Handlers -> RunRow] /\ run'[h] = Idle
      /\ \A g \in Handlers \ {h} : run'[g] = run[g]
  BY <1>1, <1>2
<1>4. 0 \notin Made
  BY ThreadsAre DEF ChatInv
<1>5. Rested
  BY <1>1, <1>2, <1>3, <1>4
     DEF ChatInv, ChatTypeOK, SealedAtRest, HumanAtRest, Rested, Made
<1>6. SealedAtRest' /\ HumanAtRest' /\ sealed' \subseteq Made' /\ human' \subseteq Made'
  BY <1>1, <1>5, SettlesInv
<1>7. ChatTypeOK'
  BY <1>1, <1>3, <1>6 DEF ChatInv, ChatTypeOK
<1>8. \A g \in Handlers : OnPath(run[g])'
  <2>1. OnPath(Idle)'
    BY DEF OnPath, Idle
  <2> QED BY <1>1, <1>3, <2>1 DEF ChatInv, OnPath
<1>9. Alone'
  BY <1>1, <1>2, <1>3 DEF ChatInv, Alone
<1>10. Closing'
  <2>1. \A g \in Handlers : run[g].step = "close" => run'[g] = run[g]
    BY <1>3
  <2> QED BY <1>1, <2>1 DEF ChatInv, Closing
<1> QED BY <1>5, <1>6, <1>7, <1>8, <1>9, <1>10 DEF ChatInv

-----------------------------------------------------------------------------
(* Every step. *)

LEMMA ChatNextInv ==
  ASSUME ChatInv, ChatNext
  PROVE  ChatInv' /\ Rested
<1>1. PICK h \in Handlers : Start(h) \/ GoOn(h)
  BY DEF ChatNext
<1>2. Settles
  BY DEF ChatNext
<1>3. CASE Start(h)
  BY <1>2, <1>3, StartInv
<1>4. CASE Create(h)
  BY <1>2, <1>4, CreateInv
<1>5. CASE Send(h) \/ AiReply(h) \/ Join(h) \/ AdminSend(h) \/ Stamp(h) \/ Close(h)
  BY <1>2, <1>5, WritesInv
<1>6. CASE AiLook(h) \/ AiUser(h) \/ AiNewUser(h) \/ Recheck(h) \/ Fail(h)
  <2>1. CASE run[h].step # "create"
    BY <1>2, <1>6, <2>1, ReadsInv
  <2>2. CASE run[h].step = "create"
    <3>1. Fail(h)
      BY <1>6, <2>2 DEF AiLook, AiUser, AiNewUser, Recheck
    <3> QED BY <1>2, <2>2, <3>1, FailToCreateInv
  <2> QED BY <2>1, <2>2
<1> QED BY <1>1, <1>3, <1>4, <1>5, <1>6 DEF GoOn

LEMMA ChatStutter ==
  ASSUME ChatInv, UNCHANGED chatVars
  PROVE  ChatInv'
<1>1. /\ kind' = kind /\ threads' = threads /\ aiUser' = aiUser /\ run' = run
      /\ failed' = failed /\ crossed' = crossed /\ left' = left /\ sealed' = sealed
      /\ human' = human
  BY DEF chatVars, rows, history
<1>2. Made' = Made /\ Opened' = Opened
  BY <1>1 DEF Made, Opened
<1>3. ChatTypeOK'
  BY <1>1, <1>2 DEF ChatInv, ChatTypeOK
<1>4. \A g \in Handlers : OnPath(run[g])'
  BY <1>1, <1>2 DEF ChatInv, OnPath
<1>5. Alone' /\ Closing'
  BY <1>1, <1>2 DEF ChatInv, Alone, Closing
<1>6. SealedAtRest' /\ HumanAtRest'
  BY <1>1 DEF ChatInv, SealedAtRest, HumanAtRest
<1> QED BY <1>3, <1>4, <1>5, <1>6 DEF ChatInv

LEMMA AlwaysChatInv == ChatSpec => []ChatInv
<1>1. ChatInv /\ [ChatNext]_chatVars => ChatInv'
  BY ChatNextInv, ChatStutter
<1> QED BY ChatInitInv, <1>1, PTL DEF ChatSpec

\* The rows are ChatThread rows and the handlers in progress rows of the kind the code
\* goes through, in every context and with any number of handlers.
THEOREM ChatTypeCorrect == ChatSpec => []ChatTypeOK
<1>1. ChatInv => ChatTypeOK
  BY DEF ChatInv
<1> QED BY <1>1, AlwaysChatInv, PTL

LEMMA AtMostOne ==
  ASSUME NEW S, IsFiniteSet(S)
  PROVE  Cardinality(S) <= 1 <=> \A s, t \in S : s = t
<1>1. CASE S = {}
  BY <1>1, FS_EmptySet
<1>2. CASE S # {}
  <2>1. PICK s \in S : TRUE
    BY <1>2
  <2>2. /\ IsFiniteSet(S \ {s}) /\ Cardinality(S \ {s}) = Cardinality(S) - 1
        /\ Cardinality(S) \in Nat
    BY <2>1, FS_RemoveElement, FS_CardinalityType
  <2>3. Cardinality(S \ {s}) = 0 <=> S \ {s} = {}
    BY <2>2, FS_EmptySet
  <2>4. Cardinality(S \ {s}) \in Nat
    BY <2>2, FS_CardinalityType
  <2>5. Cardinality(S) <= 1 <=> S \ {s} = {}
    BY <2>2, <2>3, <2>4
  <2>6. S \ {s} = {} <=> \A a, b \in S : a = b
    BY <2>1
  <2> QED BY <2>5, <2>6
<1> QED BY <1>1, <1>2

LEMMA MadeFinite ==
  ASSUME ChatTypeOK
  PROVE  IsFiniteSet(Opened) /\ IsFiniteSet(left)
<1>1. IsFiniteSet(Made)
  BY ThreadsAre, FS_Interval
<1>2. Opened \subseteq Made /\ left \subseteq Made
  BY DEF ChatTypeOK, Opened
<1> QED BY <1>1, <1>2, FS_Subset

\* openThread, openSupportThread and openMyDisputeChat: their find and create never
\* leave two open threads of one context, unless two creations met on the same read.
THEOREM OneOpenThreadHolds == ChatSpec => []OneOpenThread
<1>1. ChatInv => OneOpenThread
  <2> SUFFICES ASSUME ChatInv, ~crossed PROVE Cardinality(Opened) <= 1
    BY DEF OneOpenThread
  <2>1. \A s, t \in Opened : s = t
    BY DEF ChatInv, Alone
  <2>2. IsFiniteSet(Opened)
    BY MadeFinite DEF ChatInv
  <2> QED BY <2>1, <2>2, AtMostOne
<1> QED BY <1>1, AlwaysChatInv, PTL

\* closeSupportThreadForContext: what the end of a booking found of its chat is closed
\* once all handlers are done, if there was one thread to find and nothing failed.
THEOREM EndedBookingClosesChatHolds == ChatSpec => []EndedBookingClosesChat
<1>1. ChatInv => EndedBookingClosesChat
  <2> SUFFICES ASSUME ChatInv, Quiet, ~failed, Cardinality(left) <= 1
               PROVE  left \cap Opened = {}
    BY DEF EndedBookingClosesChat
  <2>1. \A s, t \in left : s = t
    BY MadeFinite, AtMostOne DEF ChatInv
  <2>2. \A h \in Handlers : run[h].step # "close"
    BY DEF Quiet, Idle
  <2> QED BY <2>1, <2>2 DEF ChatInv, Closing
<1> QED BY <1>1, AlwaysChatInv, PTL

\* sendMessage, sendAdminChatMessage and maybeSendAiReply: nothing is said in a thread
\* that was closed while no handler was at work on it.
THEOREM SealedIsSilentHolds == ChatSpec => SealedIsSilent
<1>1. ChatInv /\ [ChatNext]_chatVars =>
        [\A t \in sealed : threads'[t].messages = threads[t].messages]_chatVars
  BY ChatNextInv DEF Rested
<1> QED BY <1>1, AlwaysChatInv, PTL DEF ChatSpec, SealedIsSilent

\* maybeSendAiReply looks twice at handledByAdminId, sendAdminChatMessage stamps only a
\* thread it found nobody's: once an admin has a thread, and what had passed its look
\* has landed, the AI is silent there and the thread stays that admin's.
THEOREM TakenOverForGoodHolds == ChatSpec => TakenOverForGood
<1>1. ChatInv /\ [ChatNext]_chatVars =>
        [\A t \in human : /\ AiSaid(t, threads') = AiSaid(t, threads)
                          /\ threads'[t].handledBy = threads[t].handledBy]_chatVars
  BY ChatNextInv DEF Rested
<1> QED BY <1>1, AlwaysChatInv, PTL DEF ChatSpec, TakenOverForGood
=============================================================================
