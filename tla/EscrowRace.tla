----------------------------- MODULE EscrowRace -----------------------------
(***************************************************************************)
(* The transactions of escrow.service.js on one hold, step by step, at the *)
(* isolation the database gives them (READ COMMITTED): a plain read takes  *)
(* no lock and sees what was committed before it, an UPDATE takes the lock *)
(* of its row until the transaction ends, and what is written is computed  *)
(* from the earlier read.  MaxOpen is how many transactions may be open at *)
(* a time: 1 is the service used by one request at a time, as its comments *)
(* read it; more is what the server allows.  An edit of the booking's      *)
(* price moves the hold in the same way, in bookings.controller.js.        *)
(***************************************************************************)
EXTENDS EscrowOps, FiniteSets

CONSTANTS
  Txs,       \* identities of transactions, each used once
  Amount,    \* what was put into the hold
  Parts,     \* the amounts of staged releases, and of edits of the price
  Ops,       \* the operations considered
  MaxOpen    \* bound: transactions open at a time

\* The operations of escrow.service.js, and the two directions in which
\* reconcileBookingEditFinancials moves a hold when the price is edited.
Edits == {"raise", "lower"}
AllOps == {"release", "partial", "refund", "dispute", "award", "close"} \cup Edits

ASSUME RaceAssumption ==
  /\ Amount \in Nat \ {0}
  /\ Parts \subseteq Nat \ {0}
  /\ Ops \subseteq AllOps
  /\ MaxOpen \in Nat \ {0}
  /\ IsFiniteSet(Txs)

NoLock == "nobody"
NoWallet == "none"

ASSUME LockAssumption == NoLock \notin Txs

VARIABLES
  hold,      \* the committed EscrowHold row
  tx,        \* the transactions
  lock,      \* who holds the lock of a Wallet row
  paid, refunded, kept,  \* committed wallet credits, before commission, and write-offs
  added,     \* committed debits of the payer for a higher price
  stale,     \* history: a transaction committed after the row it had read changed
  unbacked   \* history: an edit found a hold that was not HELD, or took all of it

vars == <<hold, tx, lock, paid, refunded, kept, added, stale, unbacked>>

\* The Wallet row an operation credits, or, to raise the price, debits.
WalletOf ==
  [release |-> "payee", partial |-> "payee", award |-> "payee",
   refund |-> "payer", lower |-> "payer", raise |-> "payer",
   dispute |-> NoWallet, close |-> NoWallet]

HoldRow == [status : HoldStatus, amount : Nat]
TxRow == [op : AllOps, part : Nat, pc : {"new", "open", "checked", "credited", "ended"},
          seen : HoldRow]

TypeOK ==
  /\ hold \in HoldRow
  /\ tx \in [Txs -> TxRow]
  /\ lock \in [{"payee", "payer"} -> Txs \cup {NoLock}]
  /\ paid \in Nat /\ refunded \in Nat /\ kept \in Nat /\ added \in Nat
  /\ stale \in BOOLEAN /\ unbacked \in BOOLEAN

Open == {t \in Txs : tx[t].pc \in {"open", "checked", "credited"}}

Init ==
  /\ hold = [status |-> "HELD", amount |-> Amount]
  /\ tx \in [Txs -> {[op |-> o, part |-> p, pc |-> "new", seen |-> hold] :
                       o \in Ops, p \in Parts}]
  /\ lock = [w \in {"payee", "payer"} |-> NoLock]
  /\ paid = 0 /\ refunded = 0 /\ kept = 0 /\ added = 0
  /\ stale = FALSE /\ unbacked = FALSE

Begin(t) ==
  /\ tx[t].pc = "new"
  /\ Cardinality(Open) < MaxOpen
  /\ tx' = [tx EXCEPT ![t].pc = "open"]
  /\ UNCHANGED <<hold, lock, paid, refunded, kept, added, stale, unbacked>>

\* Faulty variant: a refund does not look at the status.
MayProceedAnyRefund(t) ==
  CASE tx[t].op \in Edits \cup {"refund"} -> TRUE
    [] tx[t].op \in {"award", "close"} -> hold.status = "DISPUTED"
    [] tx[t].op = "partial" -> hold.status = "HELD" /\ tx[t].part <= hold.amount
    [] OTHER -> hold.status = "HELD"

\* The checks that follow the read; for a dispute, the filter of the query.  An
\* edit is checked against the booking, and takes the hold in any status.
MayProceed(t) ==
  CASE tx[t].op \in Edits -> TRUE
    [] tx[t].op \in {"award", "close"} -> hold.status = "DISPUTED"
    [] tx[t].op = "partial" -> hold.status = "HELD" /\ tx[t].part <= hold.amount
    [] OTHER -> hold.status = "HELD"

\* findUnique on the hold: the values the rest of the transaction works with.
Check(t) ==
  /\ tx[t].pc = "open"
  /\ tx' = [tx EXCEPT ![t].seen = hold,
                      ![t].pc = IF MayProceed(t) THEN "checked" ELSE "ended"]
  /\ UNCHANGED <<hold, lock, paid, refunded, kept, added, stale, unbacked>>

\* What is credited or debited: all of the row as it was read, or the part asked.
Credited(t) ==
  IF tx[t].op \in Edits \cup {"partial"} THEN tx[t].part ELSE tx[t].seen.amount

\* creditWallet: refuses an amount of zero; the increment waits for, then holds,
\* the lock of the wallet row.
Credit(t) ==
  LET w == WalletOf[tx[t].op] IN
  /\ tx[t].pc = "checked"
  /\ w # NoWallet
  /\ Credited(t) > 0
  /\ lock[w] = NoLock
  /\ lock' = [lock EXCEPT ![w] = t]
  /\ tx' = [tx EXCEPT ![t].pc = "credited"]
  /\ UNCHANGED <<hold, paid, refunded, kept, added, stale, unbacked>>

\* Math.min in the edit caps what is taken off; a release has checked it.
Less(amount, part) == IF part <= amount THEN amount - part ELSE 0

\* Faulty variant: a drained hold stays HELD, and a part is not taken off.
RowWithoutDecrement(t) ==
  CASE tx[t].op \in {"release", "award"} -> [hold EXCEPT !.status = "RELEASED"]
    [] tx[t].op \in {"refund", "close"} -> [hold EXCEPT !.status = "REFUNDED"]
    [] tx[t].op = "dispute" -> [hold EXCEPT !.status = "DISPUTED"]
    [] OTHER -> hold

\* What the final UPDATE of the hold leaves: only the columns it names change,
\* and the new amount of a partial release is computed from the one read.
RowAfter(t) ==
  CASE tx[t].op \in {"release", "award"} -> [hold EXCEPT !.status = "RELEASED"]
    [] tx[t].op \in {"refund", "close"} -> [hold EXCEPT !.status = "REFUNDED"]
    [] tx[t].op = "dispute" -> [hold EXCEPT !.status = "DISPUTED"]
    [] tx[t].op = "partial" /\ tx[t].part = tx[t].seen.amount ->
         [hold EXCEPT !.status = "RELEASED", !.amount = 0]
    [] tx[t].op = "raise" -> [hold EXCEPT !.amount = tx[t].seen.amount + tx[t].part]
    [] OTHER -> [hold EXCEPT !.amount = Less(tx[t].seen.amount, tx[t].part)]

\* An edit of a hold that is settled or frozen, or down to nothing held.
Unbacked(t) ==
  /\ tx[t].op \in Edits
  /\ \/ tx[t].seen.status # "HELD"
     \/ tx[t].op = "lower" /\ tx[t].part >= tx[t].seen.amount

Unlocked(t) == [w \in DOMAIN lock |-> IF lock[w] = t THEN NoLock ELSE lock[w]]

\* The UPDATE of the hold and the commit, at which all of it becomes visible.
Commit(t) ==
  /\ tx[t].pc = IF WalletOf[tx[t].op] = NoWallet THEN "checked" ELSE "credited"
  /\ hold' = RowAfter(t)
  /\ paid' = IF WalletOf[tx[t].op] = "payee" THEN paid + Credited(t) ELSE paid
  /\ refunded' = IF tx[t].op \in {"refund", "lower"} THEN refunded + Credited(t) ELSE refunded
  /\ added' = IF tx[t].op = "raise" THEN added + Credited(t) ELSE added
  /\ kept' = IF tx[t].op = "close" THEN kept + Credited(t) ELSE kept
  /\ stale' = (stale \/ hold # tx[t].seen)
  /\ unbacked' = (unbacked \/ Unbacked(t))
  /\ tx' = [tx EXCEPT ![t].pc = "ended"]
  /\ lock' = Unlocked(t)

\* The connection or the server dies, or a later statement fails: the database
\* rolls the transaction back.
RollBack(t) ==
  /\ t \in Open
  /\ tx' = [tx EXCEPT ![t].pc = "ended"]
  /\ lock' = Unlocked(t)
  /\ UNCHANGED <<hold, paid, refunded, kept, added, stale, unbacked>>

Done ==
  /\ \A t \in Txs : tx[t].pc = "ended"
  /\ UNCHANGED vars

Step(t) == Begin(t) \/ Check(t) \/ Credit(t) \/ Commit(t) \/ RollBack(t)

Next == (\E t \in Txs : Step(t)) \/ Done

Spec == Init /\ [][Next]_vars

-----------------------------------------------------------------------------
(* Properties. *)

Owed == IF hold.status \in LiveStatus THEN hold.amount ELSE 0

Contract == INSTANCE EscrowContract WITH owed <- Owed, frozen <- (hold.status = "DISPUTED")

\* Whatever the interleaving, every step of the service is a step of the contract
\* of a hold, or invisible to it, up to the first commit that rests on a stale
\* read: the checks of the service are right, their distance from the write is the
\* problem.
ContractUnlessStale ==
  /\ Contract!Init
  /\ [][stale' \/ unbacked' \/ Contract!Next]_(Contract!contractVars)

\* Used by one request at a time, with rollbacks anywhere and no unbacked edit, the
\* service implements the contract outright: releaseHold, partialReleaseHold,
\* refundHold, disputeHold, resolveDisputedHold and the edits are its steps.
ImplementsContract == []~unbacked => Contract!Spec

\* What has left the hold and what is still owed only differ from what was put in
\* after a commit that rested on a stale read, or an edit that nothing backed.
OnlyStaleReadsLoseCount ==
  ~stale /\ ~unbacked => paid + refunded + kept + Owed = Amount + added
=============================================================================
