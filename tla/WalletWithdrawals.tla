------------------------- MODULE WalletWithdrawals -------------------------
(***************************************************************************)
(* Withdrawals from one wallet: requestWithdrawal (wallet.controller.js),  *)
(* the transfer at Paystack, and applyTransferWebhook (orderFlow.service)  *)
(* behind the deduplication of the webhook endpoint.  Every request runs   *)
(* in a handler of its own, concurrently with the others and with the      *)
(* deliveries of transfer events.  Every withdrawal is of one unit.        *)
(***************************************************************************)
EXTENDS Integers, FiniteSets

CONSTANTS
  Withdrawals,  \* identities of requests, each made once
  Deliveries,   \* bound: webhook deliveries in progress at a time
  Funds,        \* the wallet to begin with
  MaxCrashes    \* bound: deaths of the server

ASSUME WithdrawalAssumption == Funds \in Nat /\ MaxCrashes \in Nat

VARIABLES
  balance,    \* Wallet.balanceKobo
  status,     \* Withdrawal.status; "NONE" while there is no row
  code,       \* withdrawals whose paystackTransferCode is saved
  request,    \* where the handler of a request is
  transfer,   \* Paystack's record of the transfer
  event,      \* references with a PaymentWebhookEvent row
  delivery,   \* the webhook deliveries in progress
  restored,   \* history: how often a withdrawal was credited back
  overlap,    \* history: a debit was decided while another was on its way
  crashes

money == <<balance, status, code, restored>>
vars == <<money, request, transfer, event, delivery, overlap, crashes>>

NoWithdrawal == "no withdrawal"
Outcomes == {"success", "failed", "reversed"}
Idle == [of |-> NoWithdrawal, says |-> "success", at |-> "idle"]

TypeOK ==
  /\ balance \in Int
  /\ status \in [Withdrawals -> {"NONE", "PENDING", "PROCESSING", "COMPLETED", "FAILED"}]
  /\ code \subseteq Withdrawals
  /\ request \in [Withdrawals ->
       {"new", "checked", "transfer", "save", "restore", "ended"}]
  /\ transfer \in [Withdrawals -> {"none", "accepted"} \cup Outcomes]
  /\ event \subseteq Withdrawals
  /\ delivery \in [Deliveries ->
       [of : Withdrawals \cup {NoWithdrawal}, says : Outcomes,
        at : {"idle", "start", "record", "apply"}]]
  /\ restored \in [Withdrawals -> Nat]
  /\ overlap \in BOOLEAN
  /\ crashes \in 0 .. MaxCrashes

Init ==
  /\ balance = Funds
  /\ status = [w \in Withdrawals |-> "NONE"]
  /\ code = {}
  /\ request = [w \in Withdrawals |-> "new"]
  /\ transfer = [w \in Withdrawals |-> "none"]
  /\ event = {}
  /\ delivery = [d \in Deliveries |-> Idle]
  /\ restored = [w \in Withdrawals |-> 0]
  /\ overlap = FALSE
  /\ crashes = 0

-----------------------------------------------------------------------------
(* requestWithdrawal. *)

GoOn(w, step) == request' = [request EXCEPT ![w] = step]

\* Faulty variant: the debit does not look at the balance.
CheckNothing(w) ==
  /\ request[w] = "new"
  /\ GoOn(w, "checked")
  /\ overlap' = (overlap \/ \E other \in Withdrawals : request[other] = "checked")
  /\ UNCHANGED <<money, transfer, event, delivery, crashes>>

\* debitWallet reads the balance and throws if it is too small ...
CheckBalance(w) ==
  /\ request[w] = "new"
  /\ GoOn(w, IF balance >= 1 THEN "checked" ELSE "ended")
  /\ overlap' = (overlap \/ \E other \in Withdrawals : request[other] = "checked")
  /\ UNCHANGED <<money, transfer, event, delivery, crashes>>

\* ... and decrements it in the transaction that creates the Withdrawal row.
Debit(w) ==
  /\ request[w] = "checked"
  /\ balance' = balance - 1
  /\ status' = [status EXCEPT ![w] = "PENDING"]
  /\ GoOn(w, "transfer")
  /\ UNCHANGED <<code, restored, transfer, event, delivery, overlap, crashes>>

\* createTransferRecipient or initiateTransfer throws and Paystack has nothing.
TransferRefused(w) ==
  /\ request[w] = "transfer"
  /\ GoOn(w, "restore")
  /\ UNCHANGED <<money, transfer, event, delivery, overlap, crashes>>

\* Paystack takes the transfer; its answer arrives, or is lost and the call throws.
TransferAccepted(w) ==
  /\ request[w] = "transfer"
  /\ transfer' = [transfer EXCEPT ![w] = "accepted"]
  /\ \E step \in {"save", "restore"} : GoOn(w, step)
  /\ UNCHANGED <<money, event, delivery, overlap, crashes>>

\* The row becomes PROCESSING, with the transfer's code.
SaveCode(w) ==
  /\ request[w] = "save"
  /\ status' = [status EXCEPT ![w] = "PROCESSING"]
  /\ code' = code \cup {w}
  /\ GoOn(w, "ended")
  /\ UNCHANGED <<balance, restored, transfer, event, delivery, overlap, crashes>>

\* That update sits in the same try block as the calls to Paystack.
SaveFails(w) ==
  /\ request[w] = "save"
  /\ GoOn(w, "restore")
  /\ UNCHANGED <<money, transfer, event, delivery, overlap, crashes>>

\* The catch block: the money back and the row FAILED, in one transaction.
Restore(w) ==
  /\ request[w] = "restore"
  /\ balance' = balance + 1
  /\ restored' = [restored EXCEPT ![w] = @ + 1]
  /\ status' = [status EXCEPT ![w] = "FAILED"]
  /\ GoOn(w, "ended")
  /\ UNCHANGED <<code, transfer, event, delivery, overlap, crashes>>

-----------------------------------------------------------------------------
(* Paystack, as its events are used. *)

\* An accepted transfer succeeds or fails; one that succeeded may be reversed.
TransferSettles(w) ==
  /\ \/ transfer[w] = "accepted"
        /\ \E o \in {"success", "failed"} : transfer' = [transfer EXCEPT ![w] = o]
     \/ transfer[w] = "success"
        /\ transfer' = [transfer EXCEPT ![w] = "reversed"]
  /\ UNCHANGED <<money, request, event, delivery, overlap, crashes>>

\* An event is delivered, again and out of order if Paystack pleases.  Those of
\* one transfer all carry the reference it was initiated with.
Deliver(d, w) ==
  /\ delivery[d] = Idle
  /\ \E o \in Outcomes :
       /\ transfer[w] = o \/ (transfer[w] = "reversed" /\ o = "success")
       /\ delivery' = [delivery EXCEPT ![d] = [of |-> w, says |-> o, at |-> "start"]]
  /\ UNCHANGED <<money, request, transfer, event, overlap, crashes>>

-----------------------------------------------------------------------------
(* The webhook. *)

Leave(d) == delivery' = [delivery EXCEPT ![d] = Idle]

LookForEvent(d) ==
  /\ delivery[d].at = "start"
  /\ IF delivery[d].of \in event
     THEN Leave(d) ELSE delivery' = [delivery EXCEPT ![d].at = "record"]
  /\ UNCHANGED <<money, request, transfer, event, overlap, crashes>>

\* The unique index makes the second of two creates throw.
RecordEvent(d) ==
  /\ delivery[d].at = "record"
  /\ IF delivery[d].of \in event
     THEN Leave(d) /\ UNCHANGED event
     ELSE /\ event' = event \cup {delivery[d].of}
          /\ delivery' = [delivery EXCEPT ![d].at = "apply"]
  /\ UNCHANGED <<money, request, transfer, overlap, crashes>>

\* Faulty variant: any final event of a transfer ends the withdrawal as COMPLETED.
ApplyEventCompletes(d) ==
  LET w == delivery[d].of IN
  /\ delivery[d].at = "apply"
  /\ Leave(d)
  /\ status' = IF w \in code THEN [status EXCEPT ![w] = "COMPLETED"] ELSE status
  /\ UNCHANGED <<balance, code, restored, request, transfer, event, overlap, crashes>>

\* Faulty variant: any final event of a transfer credits the withdrawal back.
ApplyEventRestores(d) ==
  LET w == delivery[d].of IN
  /\ delivery[d].at = "apply"
  /\ Leave(d)
  /\ IF w \in code
     THEN /\ status' = [status EXCEPT ![w] = "FAILED"]
          /\ balance' = balance + 1
          /\ restored' = [restored EXCEPT ![w] = @ + 1]
     ELSE UNCHANGED <<balance, status, restored>>
  /\ UNCHANGED <<code, request, transfer, event, overlap, crashes>>

\* applyTransferWebhook: the row is found by the transfer's code, or not at all;
\* its present status is not looked at.
ApplyEvent(d) ==
  LET w == delivery[d].of IN
  /\ delivery[d].at = "apply"
  /\ Leave(d)
  /\ \/ w \notin code /\ UNCHANGED <<balance, status, restored>>
     \/ /\ w \in code
        /\ delivery[d].says = "success"
        /\ status' = [status EXCEPT ![w] = "COMPLETED"]
        /\ UNCHANGED <<balance, restored>>
     \/ /\ w \in code
        /\ delivery[d].says # "success"
        /\ status' = [status EXCEPT ![w] = "FAILED"]
        /\ balance' = balance + 1
        /\ restored' = [restored EXCEPT ![w] = @ + 1]
  /\ UNCHANGED <<code, request, transfer, event, overlap, crashes>>

\* The server dies: handlers and deliveries are gone, what was committed stays.
Crash ==
  /\ crashes < MaxCrashes
  /\ crashes' = crashes + 1
  /\ request' = [w \in Withdrawals |-> IF request[w] = "new" THEN "new" ELSE "ended"]
  /\ delivery' = [d \in Deliveries |-> Idle]
  /\ UNCHANGED <<money, transfer, event, overlap>>

Handle(w) ==
  \/ CheckBalance(w) \/ Debit(w)
  \/ TransferRefused(w) \/ TransferAccepted(w)
  \/ SaveCode(w) \/ SaveFails(w) \/ Restore(w)

Work(d) == LookForEvent(d) \/ RecordEvent(d) \/ ApplyEvent(d)

Next ==
  \/ \E w \in Withdrawals : Handle(w) \/ TransferSettles(w)
  \/ \E d \in Deliveries : Work(d) \/ \E w \in Withdrawals : Deliver(d, w)
  \/ Crash

Spec == Init /\ [][Next]_vars

\* Handlers and deliveries in progress go on, a request that has begun is one.
\* Paystack redelivers; strong fairness, because a free slot in Deliveries is the
\* model's limit, not the server's.
FairSpec ==
  /\ Spec
  /\ \A w \in Withdrawals : WF_vars(request[w] # "new" /\ Handle(w))
  /\ \A d \in Deliveries : WF_vars(Work(d))
  /\ \A w \in Withdrawals : SF_vars(\E d \in Deliveries : Deliver(d, w))

-----------------------------------------------------------------------------
(* Properties. *)

\* A withdrawal is credited back once at most, by the catch block of the request
\* or by one of the webhook's deliveries, whatever is lost, repeated or crashes.
RestoredOnce == \A w \in Withdrawals : restored[w] <= 1

\* A withdrawal whose transfer code was saved is only credited back if its
\* transfer did not go through.
TrackedIsNotPaidTwice ==
  \A w \in code : restored[w] = 1 => transfer[w] \in {"failed", "reversed"}

\* The status shown to the user and the admin agrees with the money: FAILED is
\* exactly what was credited back.
FailedMeansRestored ==
  \A w \in Withdrawals : status[w] = "FAILED" <=> restored[w] >= 1

\* With no two debits decided at the same time, the wallet is never overdrawn.
NeverOverdrawnAlone == ~overlap => balance >= 0

\* A transfer that fails after its code was saved and before any of its events
\* came in is credited back in the end, as long as the server lives.
LateFailureIsRestored ==
  \A w \in Withdrawals :
    (w \in code /\ transfer[w] = "failed" /\ w \notin event
       /\ \A d \in Deliveries : delivery[d].of # w)
    ~> (restored[w] = 1 \/ crashes > 0)
=============================================================================
