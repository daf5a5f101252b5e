------------------------ MODULE BookingPaymentProofs ------------------------
(***************************************************************************)
(* The payment of a booking, for any number of handlers, charges and       *)
(* crashes.  IInv is inductive: a handler past its checks knows what they  *)
(* asked for as far as others cannot undo it (Fits), a charge that has no  *)
(* event row was not applied (Recorded), and while nothing overlaps the    *)
(* one handler there is finds the booking as its last read left it (Alone, *)
(* Paying).                                                                *)
(***************************************************************************)
EXTENDS BookingPayment, TLAPS

\* What a step takes for granted of its handler, and of the holds.
Fits ==
  \A r \in Runs :
    /\ run[r].at \in {"balance", "debit"} => run[r].kind = "pay"
    /\ run[r].kind = "webhook" => run[r].charge \in Charges
    /\ run[r].at = "record" => run[r].kind = "webhook"
    /\ run[r].at \in {"paid", "confirm"} => held + refunded >= 1

Recorded == \A c \in Charges : c \notin event => applied[c] = 0

Alone ==
  ~overlap =>
    /\ \A r, q \in Runs : run[r] # Idle /\ run[q] # Idle => r = q
    /\ \A r \in Runs : run[r].at = "create" => held + refunded = 0

\* Between the debit of a wallet payment and its hold.
Indebted(r) == run[r].kind = "pay" /\ run[r].at \in {"status", "existing", "create"}

Paying ==
  ~overlap /\ crashes = 0 =>
    /\ \A r \in Runs : Indebted(r) \/ run[r].at \in {"balance", "debit"} =>
         status = "REQUESTED"
    /\ status = "REQUESTED" /\ held + refunded # 0 =>
         \E r \in Runs : run[r].at = "paid"
    /\ \/ debits = bought /\ \A r \in Runs : ~Indebted(r)
       \/ debits = bought + 1 /\ \E r \in Runs : Indebted(r)

IInv ==
  /\ TypeOK /\ Fits /\ Recorded /\ Alone /\ Paying
  /\ PaidAfterHold /\ OneHoldUnlessOverlap /\ WebhookAppliedOnce

LEMMA IdleType ==
  Idle \in [kind : Kinds, charge : Charges \cup {NoCharge}, at : Steps]
BY DEF Idle, Kinds, Steps

LEMMA InitIInv == Init => IInv
<1> SUFFICES ASSUME Init PROVE IInv
  OBVIOUS
<1>1. wallet \in Int /\ crashes \in 0 .. MaxCrashes
  BY PaymentAssumption DEF Init
<1>2. TypeOK
  BY <1>1, IdleType DEF Init, TypeOK
<1>3. Fits /\ Recorded /\ Alone /\ Paying
  BY DEF Init, Fits, Recorded, Alone, Paying, Indebted, Idle
<1>4. PaidAfterHold /\ OneHoldUnlessOverlap /\ WebhookAppliedOnce
  BY DEF Init, PaidAfterHold, OneHoldUnlessOverlap, WebhookAppliedOnce
<1> QED BY <1>2, <1>3, <1>4 DEF IInv

-----------------------------------------------------------------------------
(* Steps that read.                                                        *)

\* What does not depend on the handlers.
LEMMA RowsKept ==
  ASSUME IInv, UNCHANGED <<rows, charge, history>>
  PROVE  (Recorded /\ PaidAfterHold /\ OneHoldUnlessOverlap /\ WebhookAppliedOnce)'
BY DEF IInv, rows, history, Recorded, PaidAfterHold, OneHoldUnlessOverlap,
       WebhookAppliedOnce

\* On to the next step: what that one takes for granted has just been read.
LEMMA Advance ==
  ASSUME IInv, NEW r \in Runs, NEW next \in Steps, Goto(r, next),
         UNCHANGED <<rows, charge, history>>,
         run[r].at \notin {"idle", "create", "paid"}, next \notin {"idle", "paid"},
         next \in {"balance", "debit"} => run[r].kind = "pay" /\ status = "REQUESTED",
         next = "record" => run[r].kind = "webhook",
         next = "confirm" => held + refunded >= 1,
         next = "create" => held + refunded = 0,
         run[r].kind = "pay" =>
           (run[r].at \in {"status", "existing"} <=> next \in {"existing", "create"}),
         next = "status" => run[r].kind # "pay"
  PROVE  IInv'
<1>1. TypeOK'
  BY DEF IInv, TypeOK, Goto, rows, history
<1>2. Fits'
  BY DEF IInv, TypeOK, Fits, Goto, rows, history
<1>3. Alone'
  BY DEF IInv, TypeOK, Alone, Goto, Idle, rows, history
<1>4. Paying'
  <2> SUFFICES ASSUME ~overlap, crashes = 0, Paying PROVE Paying'
    BY DEF IInv, Paying, rows, history
  <2>1. \A q \in Runs : Indebted(q)' <=> Indebted(q)
    BY DEF IInv, TypeOK, Goto, Indebted
  <2>2. \A q \in Runs : run'[q].at = "paid" <=> run[q].at = "paid"
    BY DEF IInv, TypeOK, Goto
  <2>3. \A q \in Runs : run'[q].at \in {"balance", "debit"} =>
          status = "REQUESTED"
    BY DEF IInv, TypeOK, Goto, Paying
  <2> QED BY <2>1, <2>2, <2>3 DEF Paying, rows, history
<1> QED BY <1>1, <1>2, <1>3, <1>4, RowsKept DEF IInv

\* The end of a handler that has not debited the wallet.
LEMMA Leaves ==
  ASSUME IInv, NEW r \in Runs, End(r), UNCHANGED <<rows, charge, history>>,
         run[r].at # "paid", ~overlap /\ crashes = 0 => ~Indebted(r)
  PROVE  IInv'
<1>1. TypeOK'
  BY IdleType DEF IInv, TypeOK, End, rows, history
<1>2. Fits'
  BY DEF IInv, TypeOK, Fits, End, Idle, rows, history
<1>3. Alone'
  BY DEF IInv, TypeOK, Alone, End, Idle, rows, history
<1>4. Paying'
  <2> SUFFICES ASSUME ~overlap, crashes = 0, Paying PROVE Paying'
    BY DEF IInv, Paying, rows, history
  <2>1. \A q \in Runs : Indebted(q)' <=> Indebted(q)
    BY DEF IInv, TypeOK, End, Indebted, Idle
  <2>2. \A q \in Runs : run'[q].at = "paid" <=> run[q].at = "paid"
    BY DEF IInv, TypeOK, End, Idle
  <2>3. \A q \in Runs : run'[q].at \in {"balance", "debit"} =>
          run[q].at \in {"balance", "debit"}
    BY DEF IInv, TypeOK, End, Idle
  <2> QED BY <2>1, <2>2, <2>3 DEF Paying, rows, history
<1> QED BY <1>1, <1>2, <1>3, <1>4, RowsKept DEF IInv

LEMMA ReadingStep ==
  ASSUME IInv, NEW r \in Runs,
         \/ StartPay(r) \/ CheckBalance(r) \/ StartVerify(r) \/ StartWebhook(r)
         \/ CheckStatus(r) \/ LookForHold(r)
         \/ StartAccept(r) \/ StartDecline(r) \/ StartCancel(r)
  PROVE  IInv'
<1> USE DEF Decide
<1>1. CASE StartPay(r)
  <2>1. CASE Goto(r, "balance") /\ status = "REQUESTED"
    BY <1>1, <2>1, Advance DEF StartPay, Steps
  <2>2. CASE End(r)
    BY <1>1, <2>2, Leaves DEF StartPay, Indebted
  <2> QED BY <1>1, <2>1, <2>2 DEF StartPay
<1>2. CASE CheckBalance(r)
  <2>1. run[r].kind = "pay"
    BY <1>2 DEF CheckBalance, IInv, Fits
  <2>2. CASE Goto(r, "debit") /\ (~overlap /\ crashes = 0 => status = "REQUESTED")
    <3>1. TypeOK'
      BY <1>2, <2>2 DEF CheckBalance, IInv, TypeOK, Goto, rows, history, Steps
    <3>2. Fits'
      BY <1>2, <2>1, <2>2 DEF CheckBalance, IInv, TypeOK, Fits, Goto, rows, history
    <3>3. Alone'
      BY <1>2, <2>2 DEF CheckBalance, IInv, TypeOK, Alone, Goto, Idle, rows, history
    <3>4. \A q \in Runs : /\ Indebted(q)' <=> Indebted(q)
                          /\ run'[q].at = "paid" <=> run[q].at = "paid"
                          /\ run'[q].at \in {"balance", "debit"} =>
                               run[q].at \in {"balance", "debit"}
      BY <1>2, <2>2 DEF CheckBalance, IInv, TypeOK, Goto, Indebted
    <3>5. Paying'
      BY <1>2, <3>4 DEF CheckBalance, IInv, Paying, rows, history
    <3> QED BY <1>2, <3>1, <3>2, <3>3, <3>5, RowsKept DEF IInv, CheckBalance
  <2>3. CASE End(r)
    BY <1>2, <2>3, Leaves DEF CheckBalance, Indebted
  <2>4. ~overlap /\ crashes = 0 => status = "REQUESTED"
    BY <1>2 DEF CheckBalance, IInv, Paying
  <2> QED BY <1>2, <2>2, <2>3, <2>4 DEF CheckBalance
<1>3. CASE StartVerify(r)
  <2>1. CASE Goto(r, "status")
    BY <1>3, <2>1, Advance DEF StartVerify, Steps
  <2>2. CASE End(r)
    BY <1>3, <2>2, Leaves DEF StartVerify, Indebted
  <2> QED BY <1>3, <2>1, <2>2 DEF StartVerify
<1>4. CASE StartWebhook(r)
  <2>1. CASE Goto(r, "record")
    BY <1>4, <2>1, Advance DEF StartWebhook, Steps
  <2>2. CASE End(r)
    BY <1>4, <2>2, Leaves DEF StartWebhook, Indebted
  <2> QED BY <1>4, <2>1, <2>2 DEF StartWebhook
<1>5. CASE CheckStatus(r)
  <2>1. CASE Goto(r, "existing")
    BY <1>5, <2>1, Advance DEF CheckStatus, Steps
  <2>2. CASE End(r) /\ status # "REQUESTED"
    <3>1. ~overlap /\ crashes = 0 => ~Indebted(r)
      BY <2>2 DEF IInv, Paying
    <3> QED BY <1>5, <2>2, <3>1, Leaves DEF CheckStatus
  <2> QED BY <1>5, <2>1, <2>2 DEF CheckStatus
<1>6. CASE LookForHold(r)
  <2>1. CASE Goto(r, "create") /\ held + refunded = 0
    BY <1>6, <2>1, Advance DEF LookForHold, Steps
  <2>2. CASE End(r) /\ held + refunded # 0
    <3>1. ~overlap => \A q \in Runs : run[q].at # "paid"
      BY <1>6 DEF LookForHold, IInv, Alone, Idle
    <3>2. ~overlap /\ crashes = 0 => ~Indebted(r)
      BY <2>2, <3>1 DEF IInv, Paying
    <3> QED BY <1>6, <2>2, <3>2, Leaves DEF LookForHold
  <2> QED BY <1>6, <2>1, <2>2 DEF LookForHold
<1>7. CASE StartAccept(r)
  <2>1. CASE Goto(r, "confirm") /\ status = "PAID"
    <3>1. held + refunded >= 1
      BY <2>1 DEF IInv, PaidAfterHold
    <3> QED BY <1>7, <2>1, <3>1, Advance DEF StartAccept, Steps
  <2>2. CASE End(r)
    BY <1>7, <2>2, Leaves DEF StartAccept, Indebted
  <2> QED BY <1>7, <2>1, <2>2 DEF StartAccept
<1>8. CASE StartDecline(r)
  <2>1. CASE Goto(r, "refund")
    BY <1>8, <2>1, Advance DEF StartDecline, Steps
  <2>2. CASE End(r)
    BY <1>8, <2>2, Leaves DEF StartDecline, Indebted
  <2> QED BY <1>8, <2>1, <2>2 DEF StartDecline
<1>9. CASE StartCancel(r)
  <2>1. CASE Goto(r, "refund")
    BY <1>9, <2>1, Advance DEF StartCancel, Steps
  <2>2. CASE Goto(r, "close")
    BY <1>9, <2>2, Advance DEF StartCancel, Steps
  <2>3. CASE End(r)
    BY <1>9, <2>3, Leaves DEF StartCancel, Indebted
  <2> QED BY <1>9, <2>1, <2>2, <2>3 DEF StartCancel
<1> QED BY <1>1, <1>2, <1>3, <1>4, <1>5, <1>6, <1>7, <1>8, <1>9

-----------------------------------------------------------------------------
(* Steps that write.                                                       *)

LEMMA BeginInv ==
  ASSUME IInv, NEW r \in Runs, NEW kind \in Kinds, NEW c \in Charges \cup {NoCharge},
         kind = "webhook" => c \in Charges, Begin(r, kind, c)
  PROVE  IInv'
<1>1. /\ run' = [run EXCEPT ![r] = [kind |-> kind, charge |-> c, at |-> "start"]]
      /\ run[r] = Idle
      /\ overlap' = (overlap \/ \E other \in Runs : run[other] # Idle)
      /\ UNCHANGED <<rows, charge, debits, bought, applied, crashes>>
  BY DEF Begin
<1>2. overlap' \in BOOLEAN
  BY <1>1 DEF IInv, TypeOK
<1>3. TypeOK'
  BY <1>1, <1>2 DEF IInv, TypeOK, Kinds, Steps, rows
<1>4. Fits'
  BY <1>1 DEF IInv, TypeOK, Fits, rows
<1>5. Alone'
  BY <1>1 DEF IInv, TypeOK, Alone, Idle, rows
<1>6. \A q \in Runs : /\ Indebted(q)' <=> Indebted(q)
                      /\ run'[q].at = "paid" <=> run[q].at = "paid"
                      /\ run'[q].at \in {"balance", "debit"} =>
                           run[q].at \in {"balance", "debit"}
  BY <1>1 DEF IInv, TypeOK, Indebted, Idle
<1>7. Paying'
  BY <1>1, <1>6 DEF IInv, Paying, rows
<1>8. (Recorded /\ PaidAfterHold /\ OneHoldUnlessOverlap /\ WebhookAppliedOnce)'
  BY <1>1 DEF IInv, rows, Recorded, PaidAfterHold, OneHoldUnlessOverlap,
              WebhookAppliedOnce
<1> QED BY <1>3, <1>4, <1>5, <1>7, <1>8 DEF IInv

LEMMA DebitInv == ASSUME IInv, NEW r \in Runs, Debit(r) PROVE IInv'
<1>1. /\ run[r].at = "debit" /\ run[r].kind = "pay"
      /\ run' = [run EXCEPT ![r].at = "status"]
      /\ wallet' = wallet - 1 /\ debits' = debits + 1
      /\ UNCHANGED <<status, held, refunded, event, charge, bought, applied, overlap,
                     crashes>>
  BY DEF IInv, Fits, Debit, Goto
<1>2. TypeOK'
  BY <1>1 DEF IInv, TypeOK, Steps
<1>3. Fits'
  BY <1>1 DEF IInv, TypeOK, Fits
<1>4. Alone'
  BY <1>1 DEF IInv, TypeOK, Alone, Idle
<1>5. Paying'
  <2> SUFFICES ASSUME ~overlap, crashes = 0 PROVE Paying'
    BY <1>1 DEF Paying
  <2>1. \A q \in Runs \ {r} : ~Indebted(q)
    BY <1>1 DEF IInv, TypeOK, Alone, Indebted, Idle
  <2>2. ~Indebted(r) /\ Indebted(r)'
    BY <1>1 DEF IInv, TypeOK, Indebted
  <2>3. debits' = bought' + 1 /\ \E q \in Runs : Indebted(q)'
    BY <1>1, <2>1, <2>2 DEF IInv, TypeOK, Paying
  <2>4. status = "REQUESTED"
    BY <1>1 DEF IInv, Paying
  <2>5. \A q \in Runs : run'[q].at = "paid" <=> run[q].at = "paid"
    BY <1>1 DEF IInv, TypeOK
  <2> QED BY <1>1, <2>3, <2>4, <2>5 DEF IInv, Paying
<1>6. (Recorded /\ PaidAfterHold /\ OneHoldUnlessOverlap /\ WebhookAppliedOnce)'
  BY <1>1 DEF IInv, Recorded, PaidAfterHold, OneHoldUnlessOverlap, WebhookAppliedOnce
<1> QED BY <1>2, <1>3, <1>4, <1>5, <1>6 DEF IInv

LEMMA RecordEventInv == ASSUME IInv, NEW r \in Runs, RecordEvent(r) PROVE IInv'
<1>1. /\ run[r].at = "record" /\ run[r].kind = "webhook" /\ run[r].charge \in Charges
      /\ UNCHANGED <<status, held, refunded, wallet, charge, debits, bought, overlap,
                     crashes>>
  BY DEF IInv, Fits, RecordEvent
<1>2. CASE run[r].charge \in event
  <2>1. End(r) /\ UNCHANGED <<rows, charge, history>>
    BY <1>1, <1>2 DEF RecordEvent, rows, history
  <2> QED BY <1>1, <2>1, Leaves DEF Indebted
<1>3. CASE run[r].charge \notin event
  <2>1. /\ event' = event \cup {run[r].charge}
        /\ applied' = [applied EXCEPT ![run[r].charge] = @ + 1]
        /\ run' = [run EXCEPT ![r].at = "status"]
    BY <1>3 DEF RecordEvent, Goto
  <2>2. TypeOK'
    BY <1>1, <2>1 DEF IInv, TypeOK, Steps
  <2>3. Fits'
    BY <1>1, <2>1 DEF IInv, TypeOK, Fits
  <2>4. Alone'
    BY <1>1, <2>1 DEF IInv, TypeOK, Alone, Idle
  <2>5. \A q \in Runs : /\ Indebted(q)' <=> Indebted(q)
                        /\ run'[q].at = "paid" <=> run[q].at = "paid"
                        /\ run'[q].at \in {"balance", "debit"} =>
                             run[q].at \in {"balance", "debit"}
    BY <1>1, <2>1 DEF IInv, TypeOK, Indebted
  <2>6. Paying'
    BY <1>1, <2>5 DEF IInv, Paying
  <2>7. (Recorded /\ WebhookAppliedOnce)'
    BY <1>1, <1>3, <2>1 DEF IInv, TypeOK, Recorded, WebhookAppliedOnce
  <2>8. (PaidAfterHold /\ OneHoldUnlessOverlap)'
    BY <1>1 DEF IInv, PaidAfterHold, OneHoldUnlessOverlap
  <2> QED BY <2>2, <2>3, <2>4, <2>6, <2>7, <2>8 DEF IInv
<1> QED BY <1>2, <1>3

LEMMA CreateHoldInv == ASSUME IInv, NEW r \in Runs, CreateHold(r) PROVE IInv'
<1>1. /\ run[r].at = "create" /\ run' = [run EXCEPT ![r].at = "paid"]
      /\ held' = held + 1
      /\ bought' = IF run[r].kind = "pay" THEN bought + 1 ELSE bought
      /\ UNCHANGED <<status, refunded, wallet, event, charge, debits, applied, overlap,
                     crashes>>
  BY DEF CreateHold, Goto
<1>2. TypeOK'
  BY <1>1 DEF IInv, TypeOK, Steps
<1>3. Fits'
  BY <1>1 DEF IInv, TypeOK, Fits
<1>4. (Alone /\ OneHoldUnlessOverlap)'
  BY <1>1 DEF IInv, TypeOK, Alone, OneHoldUnlessOverlap, Idle
<1>5. Paying'
  <2> SUFFICES ASSUME ~overlap, crashes = 0 PROVE Paying'
    BY <1>1 DEF Paying
  <2>1. \A q \in Runs : ~Indebted(q)'
    BY <1>1 DEF IInv, TypeOK, Alone, Indebted, Idle
  <2>2. Indebted(r) <=> run[r].kind = "pay"
    BY <1>1 DEF Indebted
  <2>3. \A q \in Runs \ {r} : ~Indebted(q)
    BY <1>1 DEF IInv, TypeOK, Alone, Indebted, Idle
  <2>4. debits' = bought'
    BY <1>1, <2>2, <2>3 DEF IInv, TypeOK, Paying
  <2>5. run'[r].at = "paid" /\ \A q \in Runs : run'[q].at \notin {"balance", "debit"}
    BY <1>1 DEF IInv, TypeOK, Alone, Idle
  <2> QED BY <2>1, <2>4, <2>5 DEF Paying
<1>6. (Recorded /\ PaidAfterHold /\ WebhookAppliedOnce)'
  BY <1>1 DEF IInv, TypeOK, Recorded, PaidAfterHold, WebhookAppliedOnce
<1> QED BY <1>2, <1>3, <1>4, <1>5, <1>6 DEF IInv

\* The last write of a handler, of the status alone.
LEMMA StatusWritten ==
  ASSUME IInv, NEW r \in Runs, run[r].at \in {"paid", "confirm", "close"},
         status' \in {"PAID", "CONFIRMED", "DECLINED", "CANCELLED"},
         status' \in {"PAID", "CONFIRMED"} => run[r].at \in {"paid", "confirm"},
         End(r), UNCHANGED <<held, refunded, wallet, event, charge, history>>
  PROVE  IInv'
<1>1. TypeOK'
  BY IdleType DEF IInv, TypeOK, End, history
<1>2. Fits'
  BY DEF IInv, TypeOK, Fits, End, Idle, history
<1>3. Alone'
  BY DEF IInv, TypeOK, Alone, End, Idle, history
<1>4. PaidAfterHold'
  BY DEF IInv, Fits, PaidAfterHold
<1>5. Paying'
  <2> SUFFICES ASSUME ~overlap, crashes = 0 PROVE Paying'
    BY DEF Paying, history
  <2>1. \A q \in Runs : run'[q] = Idle
    BY DEF IInv, TypeOK, Alone, End, Idle
  <2>2. \A q \in Runs : ~Indebted(q) /\ ~Indebted(q)'
    BY <2>1 DEF IInv, TypeOK, Alone, End, Indebted, Idle
  <2> QED BY <2>1, <2>2 DEF IInv, Paying, Idle, history
<1>6. (Recorded /\ OneHoldUnlessOverlap /\ WebhookAppliedOnce)'
  BY DEF IInv, Recorded, OneHoldUnlessOverlap, WebhookAppliedOnce, history
<1> QED BY <1>1, <1>2, <1>3, <1>4, <1>5, <1>6 DEF IInv

LEMMA RefundHoldsInv == ASSUME IInv, NEW r \in Runs, RefundHolds(r) PROVE IInv'
<1>1. /\ run[r].at = "refund" /\ run' = [run EXCEPT ![r].at = "close"]
      /\ held' = 0 /\ refunded' = refunded + held /\ wallet' = wallet + held
      /\ UNCHANGED <<status, event, charge, history>>
  BY DEF RefundHolds, Goto
<1>2. held' + refunded' = held + refunded
  BY <1>1 DEF IInv, TypeOK
<1>3. TypeOK'
  BY <1>1 DEF IInv, TypeOK, Steps, history
<1>4. Fits'
  BY <1>1, <1>2 DEF IInv, TypeOK, Fits
<1>5. Alone'
  BY <1>1, <1>2 DEF IInv, TypeOK, Alone, Idle, history
<1>6. \A q \in Runs : /\ Indebted(q)' <=> Indebted(q)
                      /\ run'[q].at = "paid" <=> run[q].at = "paid"
                      /\ run'[q].at \in {"balance", "debit"} =>
                           run[q].at \in {"balance", "debit"}
  BY <1>1 DEF IInv, TypeOK, Indebted
<1>7. Paying'
  BY <1>1, <1>2, <1>6 DEF IInv, Paying, history
<1>8. (Recorded /\ PaidAfterHold /\ OneHoldUnlessOverlap /\ WebhookAppliedOnce)'
  BY <1>1, <1>2 DEF IInv, Recorded, PaidAfterHold, OneHoldUnlessOverlap,
                    WebhookAppliedOnce, history
<1> QED BY <1>3, <1>4, <1>5, <1>7, <1>8 DEF IInv

LEMMA ChargeInv ==
  ASSUME IInv, NEW c \in Charges, InitializeCharge(c) \/ CustomerPaysCharge(c)
  PROVE  IInv'
<1>1. /\ UNCHANGED <<rows, run, history>>
      /\ charge' \in [Charges -> {"none", "started", "collected"}]
  BY DEF IInv, TypeOK, InitializeCharge, CustomerPaysCharge
<1> QED BY <1>1 DEF IInv, TypeOK, Fits, Recorded, Alone, Paying, Indebted, PaidAfterHold,
                    OneHoldUnlessOverlap, WebhookAppliedOnce, rows, history

LEMMA CrashInv == ASSUME IInv, Crash PROVE IInv'
<1>1. /\ run' = [r \in Runs |-> Idle] /\ crashes' = crashes + 1
      /\ crashes < MaxCrashes
      /\ UNCHANGED <<rows, charge, debits, bought, applied, overlap>>
  BY DEF Crash
<1>2. crashes' \in 0 .. MaxCrashes /\ crashes' # 0
  BY <1>1, PaymentAssumption DEF IInv, TypeOK
<1>3. TypeOK'
  BY <1>1, <1>2, IdleType DEF IInv, TypeOK, rows
<1>4. (Fits /\ Alone)'
  BY <1>1 DEF Fits, Alone, Idle
<1>5. Paying'
  BY <1>2 DEF Paying
<1>6. (Recorded /\ PaidAfterHold /\ OneHoldUnlessOverlap /\ WebhookAppliedOnce)'
  BY <1>1 DEF IInv, rows, Recorded, PaidAfterHold, OneHoldUnlessOverlap,
              WebhookAppliedOnce
<1> QED BY <1>3, <1>4, <1>5, <1>6 DEF IInv

-----------------------------------------------------------------------------
LEMMA NextIInv == IInv /\ [Next]_vars => IInv'
<1> SUFFICES ASSUME IInv, [Next]_vars PROVE IInv'
  OBVIOUS
<1>1. ASSUME NEW r \in Runs, Arrive(r) PROVE IInv'
  BY <1>1, BeginInv DEF Arrive, Deliver, Kinds
<1>2. ASSUME NEW r \in Runs, Step(r) PROVE IInv'
  <2>1. CASE MarkPaid(r)
    BY <2>1, StatusWritten DEF MarkPaid
  <2>2. CASE MarkConfirmed(r)
    BY <2>2, StatusWritten DEF MarkConfirmed
  <2>3. CASE MarkClosed(r)
    BY <2>3, StatusWritten DEF MarkClosed
  <2> QED BY <1>2, <2>1, <2>2, <2>3, ReadingStep, DebitInv, RecordEventInv,
             CreateHoldInv, RefundHoldsInv DEF Step
<1>3. CASE UNCHANGED vars
  BY <1>3 DEF vars, rows, history, IInv, TypeOK, Fits, Recorded, Alone, Paying,
              Indebted, PaidAfterHold, OneHoldUnlessOverlap, WebhookAppliedOnce
<1> QED BY <1>1, <1>2, <1>3, ChargeInv, CrashInv DEF Next

LEMMA AlwaysIInv == Spec => []IInv
  BY InitIInv, NextIInv, PTL DEF Spec

\* Rows and handlers keep their types.
THEOREM PaymentTypeCorrect == Spec => []TypeOK
<1>1. IInv => TypeOK
  BY DEF IInv
<1> QED BY <1>1, AlwaysIInv, PTL

\* No crash and no overlap makes a booking count as paid without its hold.
THEOREM HeldBeforePaid == Spec => []PaidAfterHold
<1>1. IInv => PaidAfterHold
  BY DEF IInv
<1> QED BY <1>1, AlwaysIInv, PTL

\* Only overlapping handlers hold the money of a booking twice.
THEOREM HeldTwiceByOverlap == Spec => []OneHoldUnlessOverlap
<1>1. IInv => OneHoldUnlessOverlap
  BY DEF IInv
<1> QED BY <1>1, AlwaysIInv, PTL

\* With no overlap and no crash a wallet payment ends in a hold or without a debit.
THEOREM DebitMeansHold == Spec => []DebitBuysHold
<1>1. IInv => DebitBuysHold
  BY DEF IInv, Paying, Indebted, DebitBuysHold, Quiet, Idle
<1> QED BY <1>1, AlwaysIInv, PTL

\* The webhook applies a charge once at most.
THEOREM AppliedByWebhookOnce == Spec => []WebhookAppliedOnce
<1>1. IInv => WebhookAppliedOnce
  BY DEF IInv
<1> QED BY <1>1, AlwaysIInv, PTL
=============================================================================
