----------------------- MODULE WalletWithdrawalsProofs -----------------------
(***************************************************************************)
(* Withdrawals, for any number of requests, deliveries and crashes.  IInv  *)
(* is inductive: a request that has not ended was neither restored nor     *)
(* saved, so that its catch block is the first to credit it back; and a    *)
(* delivery that is about to apply is the only one for its transfer and    *)
(* comes before any credit of the webhook.                                 *)
(***************************************************************************)
EXTENDS WalletWithdrawals, TLAPS

\* What a request that is still handled has done so far.
Underway ==
  \A w \in Withdrawals :
    /\ request[w] # "ended" => w \notin code /\ restored[w] = 0
    /\ request[w] \in {"new", "checked", "transfer"} => transfer[w] = "none"

\* An event says what Paystack's record says, or said before a reversal.
Truthful ==
  \A d \in Deliveries : delivery[d].at # "idle" =>
    /\ delivery[d].of \in Withdrawals
    /\ transfer[delivery[d].of] \in Outcomes
    /\ delivery[d].says \in {"failed", "reversed"} =>
         transfer[delivery[d].of] = delivery[d].says

\* Of the deliveries for one transfer one at most gets to apply.
AppliedAlone ==
  \A d \in Deliveries : delivery[d].at = "apply" =>
    /\ delivery[d].of \in event
    /\ \A e \in Deliveries :
         delivery[e].at = "apply" /\ delivery[e].of = delivery[d].of => e = d

\* A withdrawal with a saved code is credited back by a delivery that has left.
RestoredByEvent ==
  \A w \in code : restored[w] # 0 =>
    /\ w \in event
    /\ \A d \in Deliveries : delivery[d].at = "apply" => delivery[d].of # w

\* Without overlap one debit is decided at a time, and the balance covers it.
Covered ==
  ~overlap =>
    /\ balance >= 0
    /\ \A w \in Withdrawals : request[w] = "checked" =>
         balance >= 1 /\ \A v \in Withdrawals : request[v] = "checked" => v = w

IInv ==
  /\ TypeOK /\ Underway /\ Truthful /\ AppliedAlone /\ RestoredByEvent /\ Covered
  /\ RestoredOnce /\ TrackedIsNotPaidTwice /\ FailedMeansRestored

LEMMA InitIInv == Init => IInv
<1> SUFFICES ASSUME Init PROVE IInv
  OBVIOUS
<1>1. TypeOK
  <2>1. balance \in Int /\ crashes \in 0 .. MaxCrashes
    BY WithdrawalAssumption DEF Init
  <2>2. Idle \in [of : Withdrawals \cup {NoWithdrawal}, says : Outcomes,
                 at : {"idle", "start", "record", "apply"}]
    BY DEF Idle, Outcomes
  <2> QED BY <2>1, <2>2 DEF Init, TypeOK
<1>2. Underway /\ Truthful /\ AppliedAlone /\ RestoredByEvent
  BY DEF Init, Underway, Truthful, AppliedAlone, RestoredByEvent, Idle
<1>3. Covered /\ RestoredOnce /\ TrackedIsNotPaidTwice /\ FailedMeansRestored
  BY WithdrawalAssumption
     DEF Init, Covered, RestoredOnce, TrackedIsNotPaidTwice, FailedMeansRestored
<1> QED BY <1>1, <1>2, <1>3 DEF IInv

\* A step of the request that leaves the rows and Paystack alone.
LEMMA HandlerMoves ==
  ASSUME IInv, NEW w \in Withdrawals, request[w] \notin {"new", "ended"},
         NEW step \in {"restore", "ended"}, GoOn(w, step),
         UNCHANGED <<money, transfer, event, delivery, overlap, crashes>>
  PROVE  IInv'
<1>1. TypeOK'
  BY DEF IInv, TypeOK, GoOn, money
<1>2. Underway'
  BY DEF IInv, TypeOK, Underway, GoOn, money
<1>3. (Truthful /\ AppliedAlone /\ RestoredByEvent)'
  BY DEF IInv, Truthful, AppliedAlone, RestoredByEvent, money
<1>4. Covered'
  BY DEF IInv, TypeOK, Covered, GoOn, money
<1>5. (RestoredOnce /\ TrackedIsNotPaidTwice /\ FailedMeansRestored)'
  BY DEF IInv, RestoredOnce, TrackedIsNotPaidTwice, FailedMeansRestored, money
<1> QED BY <1>1, <1>2, <1>3, <1>4, <1>5 DEF IInv

LEMMA CheckBalanceInv ==
  ASSUME IInv, NEW w \in Withdrawals, CheckBalance(w) PROVE IInv'
<1>1. TypeOK'
  BY DEF IInv, TypeOK, CheckBalance, GoOn, money
<1>2. Underway'
  BY DEF IInv, TypeOK, Underway, CheckBalance, GoOn, money
<1>3. (Truthful /\ AppliedAlone /\ RestoredByEvent)'
  BY DEF IInv, CheckBalance, Truthful, AppliedAlone, RestoredByEvent, money
<1>4. Covered'
  BY DEF IInv, TypeOK, Covered, CheckBalance, GoOn, money
<1>5. (RestoredOnce /\ TrackedIsNotPaidTwice /\ FailedMeansRestored)'
  BY DEF IInv, CheckBalance, RestoredOnce, TrackedIsNotPaidTwice,
         FailedMeansRestored, money
<1> QED BY <1>1, <1>2, <1>3, <1>4, <1>5 DEF IInv

LEMMA DebitInv ==
  ASSUME IInv, NEW w \in Withdrawals, Debit(w) PROVE IInv'
<1>1. TypeOK'
  BY DEF IInv, TypeOK, Debit, GoOn
<1>2. Underway'
  BY DEF IInv, TypeOK, Underway, Debit, GoOn
<1>3. (Truthful /\ AppliedAlone /\ RestoredByEvent)'
  BY DEF IInv, Debit, Truthful, AppliedAlone, RestoredByEvent
<1>4. Covered'
  BY DEF IInv, TypeOK, Covered, Debit, GoOn
<1>5. (RestoredOnce /\ TrackedIsNotPaidTwice)'
  BY DEF IInv, Debit, RestoredOnce, TrackedIsNotPaidTwice
<1>6. FailedMeansRestored'
  BY DEF IInv, TypeOK, Underway, Debit, FailedMeansRestored
<1> QED BY <1>1, <1>2, <1>3, <1>4, <1>5, <1>6 DEF IInv

LEMMA TransferAcceptedInv ==
  ASSUME IInv, NEW w \in Withdrawals, TransferAccepted(w) PROVE IInv'
<1>1. PICK step \in {"save", "restore"} : GoOn(w, step)
  BY DEF TransferAccepted
<1>2. TypeOK'
  BY <1>1 DEF IInv, TypeOK, TransferAccepted, GoOn, money
<1>3. Underway'
  BY <1>1 DEF IInv, TypeOK, Underway, TransferAccepted, GoOn, money
<1>4. Truthful'
  BY DEF IInv, TypeOK, Underway, Truthful, TransferAccepted, Outcomes
<1>5. (AppliedAlone /\ RestoredByEvent)'
  BY DEF IInv, TransferAccepted, AppliedAlone, RestoredByEvent, money
<1>6. Covered'
  BY <1>1 DEF IInv, TypeOK, Covered, TransferAccepted, GoOn, money
<1>7. (RestoredOnce /\ FailedMeansRestored)'
  BY DEF IInv, TransferAccepted, RestoredOnce, FailedMeansRestored, money
<1>8. TrackedIsNotPaidTwice'
  BY DEF IInv, TypeOK, Underway, TransferAccepted, TrackedIsNotPaidTwice, money
<1> QED BY <1>2, <1>3, <1>4, <1>5, <1>6, <1>7, <1>8 DEF IInv

LEMMA SaveCodeInv ==
  ASSUME IInv, NEW w \in Withdrawals, SaveCode(w) PROVE IInv'
<1>1. restored[w] = 0 /\ w \notin code
  BY DEF IInv, Underway, SaveCode
<1>2. TypeOK'
  BY DEF IInv, TypeOK, SaveCode, GoOn
<1>3. Underway'
  BY DEF IInv, TypeOK, Underway, SaveCode, GoOn
<1>4. (Truthful /\ AppliedAlone)'
  BY DEF IInv, SaveCode, Truthful, AppliedAlone
<1>5. RestoredByEvent'
  BY <1>1 DEF IInv, SaveCode, RestoredByEvent
<1>6. Covered'
  BY DEF IInv, TypeOK, Covered, SaveCode, GoOn
<1>7. (RestoredOnce /\ TrackedIsNotPaidTwice)'
  BY <1>1 DEF IInv, SaveCode, RestoredOnce, TrackedIsNotPaidTwice
<1>8. FailedMeansRestored'
  BY <1>1 DEF IInv, TypeOK, SaveCode, FailedMeansRestored
<1> QED BY <1>2, <1>3, <1>4, <1>5, <1>6, <1>7, <1>8 DEF IInv

LEMMA RestoreInv ==
  ASSUME IInv, NEW w \in Withdrawals, Restore(w) PROVE IInv'
<1>1. restored[w] = 0 /\ w \notin code
  BY DEF IInv, Underway, Restore
<1>2. TypeOK'
  BY DEF IInv, TypeOK, Restore, GoOn
<1>3. Underway'
  BY DEF IInv, TypeOK, Underway, Restore, GoOn
<1>4. (Truthful /\ AppliedAlone)'
  BY DEF IInv, Restore, Truthful, AppliedAlone
<1>5. RestoredByEvent'
  BY <1>1 DEF IInv, TypeOK, Restore, RestoredByEvent
<1>6. Covered'
  BY DEF IInv, TypeOK, Covered, Restore, GoOn
<1>7. RestoredOnce'
  BY <1>1 DEF IInv, TypeOK, Restore, RestoredOnce
<1>8. TrackedIsNotPaidTwice'
  BY <1>1 DEF IInv, TypeOK, Restore, TrackedIsNotPaidTwice
<1>9. FailedMeansRestored'
  BY <1>1 DEF IInv, TypeOK, Restore, FailedMeansRestored
<1> QED BY <1>2, <1>3, <1>4, <1>5, <1>6, <1>7, <1>8, <1>9 DEF IInv

-----------------------------------------------------------------------------
(* Paystack and the webhook.                                               *)

LEMMA TransferSettlesInv ==
  ASSUME IInv, NEW w \in Withdrawals, TransferSettles(w) PROVE IInv'
<1>1. TypeOK'
  BY DEF IInv, TypeOK, TransferSettles, Outcomes, money
<1>2. Underway'
  BY DEF IInv, TypeOK, Underway, TransferSettles, money
<1>3. Truthful'
  BY DEF IInv, TypeOK, Truthful, TransferSettles, Outcomes
<1>4. (AppliedAlone /\ RestoredByEvent /\ Covered)'
  BY DEF IInv, TransferSettles, AppliedAlone, RestoredByEvent, Covered, money
<1>5. (RestoredOnce /\ FailedMeansRestored)'
  BY DEF IInv, TransferSettles, RestoredOnce, FailedMeansRestored, money
<1>6. TrackedIsNotPaidTwice'
  BY DEF IInv, TypeOK, TransferSettles, TrackedIsNotPaidTwice, money
<1> QED BY <1>1, <1>2, <1>3, <1>4, <1>5, <1>6 DEF IInv

\* A step of the webhook that changes no row but those of the events.
LEMMA WebhookMoves ==
  ASSUME IInv, UNCHANGED <<money, request, transfer, overlap, crashes>>,
         TypeOK', Truthful', AppliedAlone', RestoredByEvent'
  PROVE  IInv'
<1>1. (Underway /\ Covered)'
  BY DEF IInv, Underway, Covered, money
<1>2. (RestoredOnce /\ TrackedIsNotPaidTwice /\ FailedMeansRestored)'
  BY DEF IInv, RestoredOnce, TrackedIsNotPaidTwice, FailedMeansRestored, money
<1> QED BY <1>1, <1>2 DEF IInv

LEMMA DeliverInv ==
  ASSUME IInv, NEW d \in Deliveries, NEW w \in Withdrawals, Deliver(d, w) PROVE IInv'
<1>1. PICK o \in Outcomes :
        /\ transfer[w] = o \/ (transfer[w] = "reversed" /\ o = "success")
        /\ delivery' = [delivery EXCEPT ![d] = [of |-> w, says |-> o, at |-> "start"]]
  BY DEF Deliver
<1>2. TypeOK'
  BY <1>1 DEF IInv, TypeOK, Deliver, money
<1>3. Truthful'
  BY <1>1 DEF IInv, TypeOK, Truthful, Deliver, Outcomes
<1>4. (AppliedAlone /\ RestoredByEvent)'
  BY <1>1 DEF IInv, TypeOK, AppliedAlone, RestoredByEvent, Deliver, money
<1> QED BY <1>2, <1>3, <1>4, WebhookMoves DEF Deliver

LEMMA LookForEventInv ==
  ASSUME IInv, NEW d \in Deliveries, LookForEvent(d) PROVE IInv'
<1>1. TypeOK'
  BY DEF IInv, TypeOK, LookForEvent, Leave, Idle, Outcomes, money
<1>2. Truthful'
  BY DEF IInv, TypeOK, Truthful, LookForEvent, Leave, Idle
<1>3. (AppliedAlone /\ RestoredByEvent)'
  BY DEF IInv, TypeOK, AppliedAlone, RestoredByEvent, LookForEvent, Leave, Idle, money
<1> QED BY <1>1, <1>2, <1>3, WebhookMoves DEF LookForEvent

LEMMA RecordEventInv ==
  ASSUME IInv, NEW d \in Deliveries, RecordEvent(d) PROVE IInv'
<1>1. delivery[d].of \in Withdrawals
  BY DEF IInv, Truthful, RecordEvent
<1>2. TypeOK'
  BY <1>1 DEF IInv, TypeOK, RecordEvent, Leave, Idle, Outcomes, money
<1>3. Truthful'
  BY DEF IInv, TypeOK, Truthful, RecordEvent, Leave, Idle
<1>4. (AppliedAlone /\ RestoredByEvent)'
  BY DEF IInv, TypeOK, AppliedAlone, RestoredByEvent, RecordEvent, Leave, Idle, money
<1> QED BY <1>2, <1>3, <1>4, WebhookMoves DEF RecordEvent

LEMMA ApplyEventInv ==
  ASSUME IInv, NEW d \in Deliveries, ApplyEvent(d) PROVE IInv'
<1> DEFINE w == delivery[d].of
<1>1. /\ w \in Withdrawals /\ w \in event
      /\ w \in code => restored[w] = 0 /\ request[w] = "ended"
      /\ delivery[d].says # "success" => transfer[w] \in {"failed", "reversed"}
  BY DEF IInv, TypeOK, Truthful, AppliedAlone, RestoredByEvent, Underway, ApplyEvent,
         Outcomes
<1>2. /\ delivery' = [delivery EXCEPT ![d] = Idle]
      /\ UNCHANGED <<code, request, transfer, event, overlap, crashes>>
  BY DEF ApplyEvent, Leave
<1>3. (Truthful /\ AppliedAlone)'
  BY <1>2 DEF IInv, TypeOK, Truthful, AppliedAlone, Idle
<1>4. \A e \in Deliveries : delivery'[e].at = "apply" => delivery'[e].of # w
  BY <1>2 DEF IInv, TypeOK, AppliedAlone, ApplyEvent, Idle
<1>5. CASE UNCHANGED <<balance, status, restored>>
  <2>1. TypeOK'
    BY <1>2, <1>5 DEF IInv, TypeOK, Idle, Outcomes
  <2>2. (Underway /\ Covered /\ RestoredOnce /\ TrackedIsNotPaidTwice
           /\ FailedMeansRestored)'
    BY <1>2, <1>5 DEF IInv, Underway, Covered, RestoredOnce, TrackedIsNotPaidTwice,
                      FailedMeansRestored
  <2>3. RestoredByEvent'
    BY <1>2, <1>5 DEF IInv, TypeOK, RestoredByEvent, Idle
  <2> QED BY <1>3, <2>1, <2>2, <2>3 DEF IInv
<1>6. CASE /\ w \in code
           /\ status' = [status EXCEPT ![w] = "COMPLETED"]
           /\ UNCHANGED <<balance, restored>>
  <2>1. TypeOK'
    BY <1>1, <1>2, <1>6 DEF IInv, TypeOK, Idle, Outcomes
  <2>2. (Underway /\ Covered /\ RestoredOnce /\ TrackedIsNotPaidTwice)'
    BY <1>2, <1>6 DEF IInv, Underway, Covered, RestoredOnce, TrackedIsNotPaidTwice
  <2>3. FailedMeansRestored'
    BY <1>1, <1>6 DEF IInv, TypeOK, FailedMeansRestored
  <2>4. RestoredByEvent'
    BY <1>2, <1>6 DEF IInv, TypeOK, RestoredByEvent, Idle
  <2> QED BY <1>3, <2>1, <2>2, <2>3, <2>4 DEF IInv
<1>7. CASE /\ w \in code
           /\ delivery[d].says # "success"
           /\ status' = [status EXCEPT ![w] = "FAILED"]
           /\ balance' = balance + 1
           /\ restored' = [restored EXCEPT ![w] = @ + 1]
  <2>1. TypeOK'
    BY <1>1, <1>2, <1>7 DEF IInv, TypeOK, Idle, Outcomes
  <2>2. Underway'
    BY <1>1, <1>2, <1>7 DEF IInv, TypeOK, Underway
  <2>3. Covered'
    BY <1>2, <1>7 DEF IInv, TypeOK, Covered
  <2>4. RestoredOnce'
    BY <1>1, <1>7 DEF IInv, TypeOK, RestoredOnce
  <2>5. TrackedIsNotPaidTwice'
    BY <1>1, <1>2, <1>7 DEF IInv, TypeOK, TrackedIsNotPaidTwice
  <2>6. FailedMeansRestored'
    BY <1>1, <1>7 DEF IInv, TypeOK, FailedMeansRestored
  <2>7. RestoredByEvent'
    <3>1. ASSUME NEW v \in code', restored'[v] # 0
          PROVE  v \in event'
                 /\ \A e \in Deliveries : delivery'[e].at = "apply" => delivery'[e].of # v
      <4>1. CASE v = w
        BY <1>1, <1>2, <1>4, <4>1
      <4>2. CASE v # w
        BY <1>2, <1>7, <3>1, <4>2 DEF IInv, TypeOK, RestoredByEvent, Idle
      <4> QED BY <4>1, <4>2
    <3> QED BY <3>1 DEF RestoredByEvent
  <2> QED BY <1>3, <2>1, <2>2, <2>3, <2>4, <2>5, <2>6, <2>7 DEF IInv
<1> QED BY <1>5, <1>6, <1>7 DEF ApplyEvent

LEMMA CrashInv == ASSUME IInv, Crash PROVE IInv'
<1>1. TypeOK'
  BY WithdrawalAssumption DEF IInv, TypeOK, Crash, Idle, Outcomes, money
<1>2. Underway'
  BY DEF IInv, TypeOK, Underway, Crash, money
<1>3. (Truthful /\ AppliedAlone /\ RestoredByEvent)'
  BY DEF IInv, Crash, Truthful, AppliedAlone, RestoredByEvent, Idle, money
<1>4. Covered'
  BY DEF IInv, Crash, Covered, money
<1>5. (RestoredOnce /\ TrackedIsNotPaidTwice /\ FailedMeansRestored)'
  BY DEF IInv, Crash, RestoredOnce, TrackedIsNotPaidTwice, FailedMeansRestored, money
<1> QED BY <1>1, <1>2, <1>3, <1>4, <1>5 DEF IInv

-----------------------------------------------------------------------------
LEMMA NextIInv == IInv /\ [Next]_vars => IInv'
<1> SUFFICES ASSUME IInv, [Next]_vars PROVE IInv'
  OBVIOUS
<1>1. ASSUME NEW w \in Withdrawals, Handle(w) PROVE IInv'
  <2>1. CASE TransferRefused(w)
    BY <2>1, HandlerMoves DEF TransferRefused
  <2>2. CASE SaveFails(w)
    BY <2>2, HandlerMoves DEF SaveFails
  <2> QED BY <1>1, <2>1, <2>2, CheckBalanceInv, DebitInv, TransferAcceptedInv,
             SaveCodeInv, RestoreInv DEF Handle
<1>2. ASSUME NEW d \in Deliveries, Work(d) PROVE IInv'
  BY <1>2, LookForEventInv, RecordEventInv, ApplyEventInv DEF Work
<1>3. CASE UNCHANGED vars
  BY <1>3 DEF vars, money, IInv, TypeOK, Underway, Truthful, AppliedAlone,
              RestoredByEvent, Covered, RestoredOnce, TrackedIsNotPaidTwice,
              FailedMeansRestored
<1> QED BY <1>1, <1>2, <1>3, TransferSettlesInv, DeliverInv, CrashInv DEF Next

LEMMA AlwaysIInv == Spec => []IInv
  BY InitIInv, NextIInv, PTL DEF Spec

\* Rows, handlers and deliveries keep their types.
THEOREM WithdrawalsTypeCorrect == Spec => []TypeOK
<1>1. IInv => TypeOK
  BY DEF IInv
<1> QED BY <1>1, AlwaysIInv, PTL

\* The catch block and the webhook together credit a withdrawal back once at most.
THEOREM CreditedBackOnce == Spec => []RestoredOnce
<1>1. IInv => RestoredOnce
  BY DEF IInv
<1> QED BY <1>1, AlwaysIInv, PTL

\* Money that is traced by its transfer code never leaves and comes back.
THEOREM NotPaidTwice == Spec => []TrackedIsNotPaidTwice
<1>1. IInv => TrackedIsNotPaidTwice
  BY DEF IInv
<1> QED BY <1>1, AlwaysIInv, PTL

\* FAILED is exactly what was credited back.
THEOREM FailedIsRestored == Spec => []FailedMeansRestored
<1>1. IInv => FailedMeansRestored
  BY DEF IInv
<1> QED BY <1>1, AlwaysIInv, PTL

\* Only overlapping debits overdraw the wallet.
THEOREM OverdrawnByOverlap == Spec => []NeverOverdrawnAlone
<1>1. IInv => NeverOverdrawnAlone
  BY DEF IInv, Covered, NeverOverdrawnAlone
<1> QED BY <1>1, AlwaysIInv, PTL
=============================================================================
