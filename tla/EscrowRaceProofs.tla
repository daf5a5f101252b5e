-------------------------- MODULE EscrowRaceProofs --------------------------
(***************************************************************************)
(* The escrow service on one hold, for every number of transactions, every *)
(* amount and every interleaving.  Sound is inductive: a transaction past  *)
(* its checks still has the facts it checked about the row it read, and    *)
(* that row is the committed one unless another transaction came between.  *)
(***************************************************************************)
EXTENDS EscrowRace, FiniteSetTheorems, TLAPS

\* A transaction past its checks.
Decided(t) == tx[t].pc \in {"checked", "credited"}

\* What its checks found in the row it read.
Checked ==
  \A t \in Txs : Decided(t) =>
    /\ tx[t].op \in {"award", "close"} => tx[t].seen.status = "DISPUTED"
    /\ tx[t].op \notin Edits \cup {"award", "close"} => tx[t].seen.status = "HELD"
    /\ tx[t].op = "partial" => tx[t].part <= tx[t].seen.amount

\* An amount HELD or frozen is never empty.
LiveIsPositive == ~stale /\ ~unbacked /\ hold.status \in LiveStatus => hold.amount > 0

PartsPositive == \A t \in Txs : tx[t].part > 0

Sound == TypeOK /\ Checked /\ PartsPositive /\ LiveIsPositive /\ OnlyStaleReadsLoseCount

LEMMA InitSound == Init => Sound
<1> SUFFICES ASSUME Init PROVE Sound
  OBVIOUS
<1>1. hold \in HoldRow /\ hold.status = "HELD" /\ hold.amount = Amount
  BY RaceAssumption DEF Init, HoldRow, HoldStatus
<1>2. tx \in [Txs -> TxRow]
  BY <1>1, RaceAssumption DEF Init, TxRow
<1>3. \A t \in Txs : tx[t].pc = "new" /\ tx[t].part > 0
  BY RaceAssumption DEF Init
<1>4. TypeOK
  BY <1>1, <1>2 DEF Init, TypeOK
<1> QED
  BY <1>1, <1>3, <1>4, RaceAssumption
  DEF Init, Sound, Checked, Decided, PartsPositive, LiveIsPositive,
      OnlyStaleReadsLoseCount, Owed, LiveStatus

\* A step of t that commits nothing.
LEMMA InnerStep ==
  ASSUME Sound, NEW t \in Txs,
         UNCHANGED <<hold, paid, refunded, kept, added, stale, unbacked>>,
         lock' \in [{"payee", "payer"} -> Txs \cup {NoLock}],
         NEW row \in TxRow, tx' = [tx EXCEPT ![t] = row],
         row.part = tx[t].part,
         row.pc \in {"checked", "credited"} =>
            /\ row.op \in {"award", "close"} => row.seen.status = "DISPUTED"
            /\ row.op \notin Edits \cup {"award", "close"} => row.seen.status = "HELD"
            /\ row.op = "partial" => row.part <= row.seen.amount
  PROVE  Sound'
<1>1. TypeOK'
  BY DEF Sound, TypeOK
<1>2. Checked'
  BY DEF Sound, TypeOK, Checked, Decided
<1>3. PartsPositive'
  BY DEF Sound, TypeOK, PartsPositive
<1>4. LiveIsPositive' /\ OnlyStaleReadsLoseCount'
  BY DEF Sound, LiveIsPositive, OnlyStaleReadsLoseCount, Owed
<1> QED BY <1>1, <1>2, <1>3, <1>4 DEF Sound

LEMMA UnlockedTyped ==
  ASSUME TypeOK, NEW t \in Txs
  PROVE  Unlocked(t) \in [{"payee", "payer"} -> Txs \cup {NoLock}]
  BY DEF TypeOK, Unlocked

LEMMA BeginSound == ASSUME Sound, NEW t \in Txs, Begin(t) PROVE Sound'
<1>1. PICK row \in TxRow : row = [tx[t] EXCEPT !.pc = "open"]
  BY DEF Sound, TypeOK, TxRow
<1>2. tx' = [tx EXCEPT ![t] = row] /\ row.part = tx[t].part /\ row.pc = "open"
  BY <1>1 DEF Begin, Sound, TypeOK, TxRow
<1> QED BY <1>2, InnerStep DEF Begin, Sound, TypeOK

LEMMA CheckSound == ASSUME Sound, NEW t \in Txs, Check(t) PROVE Sound'
<1>1. PICK row \in TxRow :
        row = [tx[t] EXCEPT !.seen = hold,
                            !.pc = IF MayProceed(t) THEN "checked" ELSE "ended"]
  BY DEF Sound, TypeOK, TxRow
<1>2. /\ tx' = [tx EXCEPT ![t] = row] /\ row.part = tx[t].part
      /\ row.op = tx[t].op /\ row.seen = hold
      /\ row.pc = IF MayProceed(t) THEN "checked" ELSE "ended"
  BY <1>1 DEF Check, Sound, TypeOK, TxRow
<1>3. MayProceed(t) =>
        /\ row.op \in {"award", "close"} => row.seen.status = "DISPUTED"
        /\ row.op \notin Edits \cup {"award", "close"} => row.seen.status = "HELD"
        /\ row.op = "partial" => row.part <= row.seen.amount
  BY <1>2 DEF MayProceed
<1> QED BY <1>2, <1>3, InnerStep DEF Check, Sound, TypeOK

LEMMA CreditSound == ASSUME Sound, NEW t \in Txs, Credit(t) PROVE Sound'
<1>1. PICK row \in TxRow : row = [tx[t] EXCEPT !.pc = "credited"]
  BY DEF Sound, TypeOK, TxRow
<1>2. /\ tx' = [tx EXCEPT ![t] = row] /\ row.part = tx[t].part
      /\ row.op = tx[t].op /\ row.seen = tx[t].seen
  BY <1>1 DEF Credit, Sound, TypeOK, TxRow
<1>3. Decided(t)
  BY DEF Credit, Decided
<1>4. lock' \in [{"payee", "payer"} -> Txs \cup {NoLock}]
  BY DEF Credit, Sound, TypeOK
<1>5. /\ row.op \in {"award", "close"} => row.seen.status = "DISPUTED"
      /\ row.op \notin Edits \cup {"award", "close"} => row.seen.status = "HELD"
      /\ row.op = "partial" => row.part <= row.seen.amount
  BY <1>2, <1>3 DEF Sound, Checked
<1>6. UNCHANGED <<hold, paid, refunded, kept, added, stale, unbacked>>
  BY DEF Credit
<1> QED BY <1>2, <1>4, <1>5, <1>6, InnerStep

LEMMA RollBackSound == ASSUME Sound, NEW t \in Txs, RollBack(t) PROVE Sound'
<1>1. PICK row \in TxRow : row = [tx[t] EXCEPT !.pc = "ended"]
  BY DEF Sound, TypeOK, TxRow
<1>2. tx' = [tx EXCEPT ![t] = row] /\ row.part = tx[t].part /\ row.pc = "ended"
  BY <1>1 DEF RollBack, Sound, TypeOK, TxRow
<1> QED BY <1>2, InnerStep, UnlockedTyped DEF RollBack, Sound

\* What a commit writes, when the row is still the one that was read and an edit
\* takes less than what is held, is a step of the contract.
LEMMA FreshCommit ==
  ASSUME Sound, NEW t \in Txs, Commit(t), hold = tx[t].seen,
         ~stale, ~unbacked, ~Unbacked(t)
  PROVE  /\ Contract!Next
         /\ hold'.status \in LiveStatus => hold'.amount > 0
<1>1. /\ hold \in HoldRow /\ hold.amount \in Nat /\ added \in Nat
      /\ tx[t].op \in AllOps /\ tx[t].part \in Nat /\ tx[t].part > 0
      /\ Decided(t)
  BY DEF Sound, TypeOK, TxRow, HoldRow, PartsPositive, Commit, Decided
<1>2. hold.status \in LiveStatus => Owed = hold.amount /\ hold.amount > 0
  BY DEF Owed, Sound, LiveIsPositive
<1>3. CASE tx[t].op = "release"
  <2>1. hold.status = "HELD"
    BY <1>1, <1>3 DEF Sound, Checked, Edits
  <2>2. /\ paid' = paid + hold.amount /\ refunded' = refunded /\ kept' = kept
        /\ added' = added /\ hold' = [hold EXCEPT !.status = "RELEASED"]
    BY <1>1, <1>3 DEF Commit, RowAfter, Credited, WalletOf, NoWallet, Edits
  <2>3. hold'.status = "RELEASED" /\ Owed' = 0
    BY <1>1, <2>2 DEF HoldRow, Owed, LiveStatus
  <2>4. Owed \in 1 .. Owed /\ Owed = hold.amount
    BY <1>1, <1>2, <2>1 DEF LiveStatus
  <2> QED BY <2>1, <2>2, <2>3, <2>4 DEF Contract!Next, Contract!Pay, LiveStatus
<1>4. CASE tx[t].op = "partial"
  <2>1. hold.status = "HELD" /\ tx[t].part <= hold.amount
    BY <1>1, <1>4 DEF Sound, Checked, Edits
  <2>2. /\ paid' = paid + tx[t].part /\ refunded' = refunded /\ kept' = kept
        /\ added' = added
    BY <1>1, <1>4 DEF Commit, Credited, WalletOf, NoWallet, Edits
  <2>3. Owed = hold.amount /\ tx[t].part \in 1 .. Owed
    BY <1>1, <1>2, <2>1 DEF LiveStatus
  <2>4. /\ hold'.status # "DISPUTED" /\ Owed' = Owed - tx[t].part
        /\ hold'.status \in LiveStatus => hold'.amount > 0
    <3>1. CASE tx[t].part = hold.amount
      <4>1. hold' = [hold EXCEPT !.status = "RELEASED", !.amount = 0]
        BY <1>1, <1>4, <3>1 DEF Commit, RowAfter
      <4>2. hold'.status = "RELEASED"
        BY <1>1, <4>1 DEF HoldRow
      <4> QED BY <1>1, <2>3, <3>1, <4>2 DEF Owed, LiveStatus
    <3>2. CASE tx[t].part # hold.amount
      <4>1. hold' = [hold EXCEPT !.amount = hold.amount - tx[t].part]
        BY <1>1, <1>4, <2>1, <3>2 DEF Commit, RowAfter, Less
      <4>2. hold'.status = "HELD" /\ hold'.amount = hold.amount - tx[t].part
        BY <1>1, <2>1, <4>1 DEF HoldRow
      <4>3. hold'.amount > 0
        BY <1>1, <2>1, <3>2, <4>2
      <4> QED BY <2>3, <4>2, <4>3 DEF Owed, LiveStatus
    <3> QED BY <3>1, <3>2
  <2> QED BY <2>1, <2>2, <2>3, <2>4 DEF Contract!Next, Contract!Pay
<1>5. CASE tx[t].op = "refund"
  <2>1. hold.status = "HELD"
    BY <1>1, <1>5 DEF Sound, Checked, Edits
  <2>2. /\ paid' = paid /\ refunded' = refunded + hold.amount /\ kept' = kept
        /\ added' = added /\ hold' = [hold EXCEPT !.status = "REFUNDED"]
    BY <1>1, <1>5 DEF Commit, RowAfter, Credited, WalletOf, NoWallet, Edits
  <2>3. hold'.status = "REFUNDED" /\ Owed' = 0
    BY <1>1, <2>2 DEF HoldRow, Owed, LiveStatus
  <2>4. Owed \in 1 .. Owed /\ Owed = hold.amount
    BY <1>1, <1>2, <2>1 DEF LiveStatus
  <2> QED BY <2>1, <2>2, <2>3, <2>4 DEF Contract!Next, Contract!Refund, LiveStatus
<1>6. CASE tx[t].op = "dispute"
  <2>1. hold.status = "HELD"
    BY <1>1, <1>6 DEF Sound, Checked, Edits
  <2>2. /\ paid' = paid /\ refunded' = refunded /\ kept' = kept
        /\ added' = added /\ hold' = [hold EXCEPT !.status = "DISPUTED"]
    BY <1>1, <1>6 DEF Commit, RowAfter, WalletOf, NoWallet
  <2>3. /\ hold'.status = "DISPUTED" /\ Owed' = hold.amount
        /\ hold'.amount = hold.amount
    BY <1>1, <2>2 DEF HoldRow, Owed, LiveStatus
  <2> QED BY <1>2, <2>1, <2>2, <2>3 DEF Contract!Next, Contract!Freeze, LiveStatus
<1>7. CASE tx[t].op = "award"
  <2>1. hold.status = "DISPUTED"
    BY <1>1, <1>7 DEF Sound, Checked
  <2>2. /\ paid' = paid + hold.amount /\ refunded' = refunded /\ kept' = kept
        /\ added' = added /\ hold' = [hold EXCEPT !.status = "RELEASED"]
    BY <1>1, <1>7 DEF Commit, RowAfter, Credited, WalletOf, NoWallet, Edits
  <2>3. hold'.status = "RELEASED" /\ Owed' = 0
    BY <1>1, <2>2 DEF HoldRow, Owed, LiveStatus
  <2> QED BY <1>2, <2>1, <2>2, <2>3 DEF Contract!Next, Contract!Award, LiveStatus
<1>8. CASE tx[t].op = "close"
  <2>1. hold.status = "DISPUTED"
    BY <1>1, <1>8 DEF Sound, Checked
  <2>2. /\ paid' = paid /\ refunded' = refunded /\ kept' = kept + hold.amount
        /\ added' = added /\ hold' = [hold EXCEPT !.status = "REFUNDED"]
    BY <1>1, <1>8 DEF Commit, RowAfter, Credited, WalletOf, NoWallet, Edits
  <2>3. hold'.status = "REFUNDED" /\ Owed' = 0
    BY <1>1, <2>2 DEF HoldRow, Owed, LiveStatus
  <2> QED BY <1>2, <2>1, <2>2, <2>3 DEF Contract!Next, Contract!Close, LiveStatus
<1>9. CASE tx[t].op = "raise"
  <2>1. hold.status = "HELD"
    BY <1>9 DEF Unbacked, Edits
  <2>2. /\ paid' = paid /\ refunded' = refunded /\ kept' = kept
        /\ added' = added + tx[t].part
        /\ hold' = [hold EXCEPT !.amount = hold.amount + tx[t].part]
    BY <1>1, <1>9 DEF Commit, RowAfter, Credited, WalletOf, NoWallet, Edits
  <2>3. hold'.status = "HELD" /\ hold'.amount = hold.amount + tx[t].part
    BY <1>1, <2>1, <2>2 DEF HoldRow
  <2>4. Owed = hold.amount /\ hold.amount > 0 /\ Owed' = hold.amount + tx[t].part
    BY <1>2, <2>1, <2>3 DEF Owed, LiveStatus
  <2>5. added' > added /\ added' - added = tx[t].part /\ hold'.amount > 0
    BY <1>1, <2>2, <2>3
  <2>6. Owed > 0 /\ Owed' = Owed + (added' - added)
    BY <2>4, <2>5
  <2>7. Contract!Add
    BY <2>1, <2>2, <2>3, <2>5, <2>6 DEF Contract!Add
  <2> QED BY <2>5, <2>7 DEF Contract!Next
<1>10. CASE tx[t].op = "lower"
  <2>1. hold.status = "HELD" /\ tx[t].part < hold.amount
    BY <1>1, <1>10 DEF Unbacked, Edits
  <2>2. /\ paid' = paid /\ refunded' = refunded + tx[t].part /\ kept' = kept
        /\ added' = added
        /\ hold' = [hold EXCEPT !.amount = hold.amount - tx[t].part]
    BY <1>1, <1>10, <2>1 DEF Commit, RowAfter, Credited, WalletOf, NoWallet, Edits, Less
  <2>3. hold'.status = "HELD" /\ hold'.amount = hold.amount - tx[t].part
    BY <1>1, <2>1, <2>2 DEF HoldRow
  <2>4. Owed = hold.amount /\ Owed' = Owed - tx[t].part
    BY <1>2, <2>1, <2>3 DEF Owed, LiveStatus
  <2>5. tx[t].part \in 1 .. Owed /\ hold'.amount > 0
    BY <1>1, <2>1, <2>3, <2>4
  <2>6. Contract!Refund
    BY <2>1, <2>2, <2>3, <2>4, <2>5 DEF Contract!Refund
  <2> QED BY <2>5, <2>6 DEF Contract!Next
<1> QED
  BY <1>1, <1>3, <1>4, <1>5, <1>6, <1>7, <1>8, <1>9, <1>10 DEF AllOps, Edits

LEMMA Difference ==
  ASSUME NEW m \in Int, NEW n \in Int
  PROVE  m - n \in Int /\ m = n + (m - n)
OBVIOUS

\* No step of the contract makes or loses money.
LEMMA ContractConserves ==
  ASSUME TypeOK, added' \in Nat, Contract!Next,
         paid + refunded + kept + Owed = Amount + added
  PROVE  paid' + refunded' + kept' + Owed' = Amount + added'
<1>1. /\ paid \in Nat /\ refunded \in Nat /\ kept \in Nat /\ added \in Nat
      /\ Owed \in Nat /\ Amount \in Nat
  BY RaceAssumption DEF TypeOK, Owed, HoldRow
<1>2. CASE Contract!Pay
  BY <1>1, <1>2 DEF Contract!Pay
<1>3. CASE Contract!Refund
  BY <1>1, <1>3 DEF Contract!Refund
<1>4. CASE Contract!Add
  <2>1. paid' = paid /\ refunded' = refunded /\ kept' = kept
    BY <1>4 DEF Contract!Add
  <2>2. added \in Int /\ added' \in Int
    BY <1>1
  <2>3. PICK more \in Int : added' = added + more /\ more = added' - added
    BY <2>2, Difference, Zenon
  <2>4. Owed' = Owed + (added' - added)
    BY <1>4 DEF Contract!Add
  <2>5. Owed' = Owed + more
    BY <2>3, <2>4, Zenon
  <2> QED BY <1>1, <2>1, <2>3, <2>5
<1>5. CASE Contract!Freeze
  BY <1>1, <1>5 DEF Contract!Freeze
<1>6. CASE Contract!Award
  BY <1>1, <1>6 DEF Contract!Award
<1>7. CASE Contract!Close
  BY <1>1, <1>7 DEF Contract!Close
<1> QED BY <1>2, <1>3, <1>4, <1>5, <1>6, <1>7 DEF Contract!Next

LEMMA CommitSound == ASSUME Sound, NEW t \in Txs, Commit(t) PROVE Sound'
<1>1. /\ tx[t].op \in AllOps /\ tx[t].part \in Nat /\ tx[t].seen \in HoldRow
      /\ tx[t].seen.amount \in Nat /\ hold \in HoldRow /\ Decided(t)
  BY DEF Sound, TypeOK, TxRow, HoldRow, Commit, Decided
<1>2. tx' \in [Txs -> TxRow]
  BY DEF Sound, TypeOK, TxRow, Commit
<1>3. hold' \in HoldRow
  <2>1. /\ Less(tx[t].seen.amount, tx[t].part) \in Nat
        /\ tx[t].seen.amount + tx[t].part \in Nat
    BY <1>1 DEF Less
  <2>2. RowAfter(t) \in HoldRow
    BY <1>1, <2>1 DEF RowAfter, HoldRow, HoldStatus
  <2> QED BY <2>2 DEF Commit
<1>4. paid' \in Nat /\ refunded' \in Nat /\ kept' \in Nat /\ added' \in Nat
  BY <1>1 DEF Sound, TypeOK, Commit, Credited
<1>5. TypeOK'
  <2>1. stale' \in BOOLEAN /\ unbacked' \in BOOLEAN
    BY DEF Sound, TypeOK, Commit, Unbacked
  <2>2. lock' \in [{"payee", "payer"} -> Txs \cup {NoLock}]
    BY UnlockedTyped DEF Sound, Commit
  <2> QED BY <1>2, <1>3, <1>4, <2>1, <2>2 DEF TypeOK
<1>6. \A u \in Txs : /\ tx'[u].part = tx[u].part /\ tx'[u].op = tx[u].op
                     /\ tx'[u].seen = tx[u].seen
                     /\ tx'[u].pc = IF u = t THEN "ended" ELSE tx[u].pc
  BY DEF Sound, TypeOK, TxRow, Commit
<1>7. Checked' /\ PartsPositive'
  BY <1>6 DEF Sound, Checked, Decided, PartsPositive
<1>8. LiveIsPositive' /\ OnlyStaleReadsLoseCount'
  <2>1. /\ ~stale' => ~stale /\ hold = tx[t].seen
        /\ ~unbacked' => ~unbacked /\ ~Unbacked(t)
    BY DEF Commit
  <2>2. CASE stale' \/ unbacked'
    BY <2>2 DEF LiveIsPositive, OnlyStaleReadsLoseCount
  <2>3. CASE ~stale' /\ ~unbacked'
    <3>1. Contract!Next /\ (hold'.status \in LiveStatus => hold'.amount > 0)
      BY <2>1, <2>3, FreshCommit
    <3>2. paid' + refunded' + kept' + Owed' = Amount + added'
      BY <1>4, <2>1, <2>3, <3>1, ContractConserves DEF Sound, OnlyStaleReadsLoseCount
    <3> QED BY <3>1, <3>2 DEF LiveIsPositive, OnlyStaleReadsLoseCount
  <2> QED BY <2>2, <2>3
<1> QED BY <1>5, <1>7, <1>8 DEF Sound

LEMMA StutterSound == Sound /\ UNCHANGED vars => Sound'
  BY DEF Sound, TypeOK, Checked, Decided, PartsPositive, LiveIsPositive,
         OnlyStaleReadsLoseCount, Owed, vars

LEMMA NextSound == Sound /\ [Next]_vars => Sound'
  BY BeginSound, CheckSound, CreditSound, RollBackSound, CommitSound, StutterSound
  DEF Next, Step, Done

LEMMA AlwaysSound == Spec => []Sound
  BY InitSound, NextSound, PTL DEF Spec

\* Rows, transactions and locks keep their types in every interleaving.
THEOREM RaceTypeCorrect == Spec => []TypeOK
<1>1. Sound => TypeOK
  BY DEF Sound
<1> QED BY <1>1, AlwaysSound, PTL

\* Money is only ever miscounted after a commit that rested on a stale read.
THEOREM StaleReadsOnly == Spec => []OnlyStaleReadsLoseCount
<1>1. Sound => OnlyStaleReadsLoseCount
  BY DEF Sound
<1> QED BY <1>1, AlwaysSound, PTL

-----------------------------------------------------------------------------
(* One transaction at a time: what was read is what is there at the commit.*)

OneOpen == \A t, u \in Open : t = u
ReadIsCurrent == \A t \in Txs : Decided(t) => tx[t].seen = hold

Serial == OneOpen /\ ReadIsCurrent /\ ~stale

LEMMA NoneOpen ==
  ASSUME MaxOpen = 1, Cardinality(Open) < MaxOpen
  PROVE  Open = {}
<1>1. IsFiniteSet(Open)
  BY RaceAssumption, FS_Subset DEF Open
<1>2. Cardinality(Open) \in Nat
  BY <1>1, FS_CardinalityType
<1>3. Cardinality(Open) = 0
  BY <1>2
<1> QED BY <1>1, <1>3, FS_EmptySet

LEMMA InitSerial == Init => Serial
  BY DEF Init, Serial, OneOpen, ReadIsCurrent, Open, Decided

LEMMA NextSerial ==
  ASSUME MaxOpen = 1, Sound, Serial, [Next]_vars
  PROVE  Serial'
<1>1. ASSUME NEW t \in Txs, Begin(t) PROVE Serial'
  <2>1. Open = {}
    BY <1>1, NoneOpen DEF Begin
  <2>2. \A u \in Txs : /\ tx'[u].pc = IF u = t THEN "open" ELSE tx[u].pc
                       /\ tx'[u].seen = tx[u].seen
    BY <1>1 DEF Begin, Sound, TypeOK, TxRow
  <2> QED BY <1>1, <2>1, <2>2
          DEF Begin, Serial, OneOpen, ReadIsCurrent, Open, Decided
<1>2. ASSUME NEW t \in Txs, Check(t) PROVE Serial'
  <2>1. \A u \in Txs :
          /\ u # t => tx'[u] = tx[u]
          /\ tx'[t].seen = hold /\ tx'[t].pc \in {"checked", "ended"}
    BY <1>2 DEF Check, Sound, TypeOK, TxRow
  <2>2. t \in Open /\ UNCHANGED <<hold, stale>>
    BY <1>2 DEF Check, Open
  <2> QED BY <2>1, <2>2 DEF Serial, OneOpen, ReadIsCurrent, Open, Decided
<1>3. ASSUME NEW t \in Txs, Credit(t) PROVE Serial'
  <2>1. \A u \in Txs : /\ tx'[u].pc = IF u = t THEN "credited" ELSE tx[u].pc
                       /\ tx'[u].seen = tx[u].seen
    BY <1>3 DEF Credit, Sound, TypeOK, TxRow
  <2>2. Decided(t) /\ UNCHANGED <<hold, stale>>
    BY <1>3 DEF Credit, Decided
  <2> QED BY <2>1, <2>2 DEF Serial, OneOpen, ReadIsCurrent, Open, Decided
<1>4. ASSUME NEW t \in Txs, RollBack(t) PROVE Serial'
  <2>1. \A u \in Txs : /\ tx'[u].pc = IF u = t THEN "ended" ELSE tx[u].pc
                       /\ tx'[u].seen = tx[u].seen
    BY <1>4 DEF RollBack, Sound, TypeOK, TxRow
  <2>2. UNCHANGED <<hold, stale>>
    BY <1>4 DEF RollBack
  <2> QED BY <2>1, <2>2 DEF Serial, OneOpen, ReadIsCurrent, Open, Decided
<1>5. ASSUME NEW t \in Txs, Commit(t) PROVE Serial'
  <2>1. \A u \in Txs : /\ tx'[u].pc = IF u = t THEN "ended" ELSE tx[u].pc
                       /\ tx'[u].seen = tx[u].seen
    BY <1>5 DEF Commit, Sound, TypeOK, TxRow
  <2>2. Decided(t) /\ t \in Open
    BY <1>5 DEF Commit, Decided, Open
  <2>3. ~stale'
    BY <1>5, <2>2 DEF Commit, Serial, ReadIsCurrent
  <2>4. \A u \in Txs : ~Decided(u)'
    BY <2>1, <2>2 DEF Serial, OneOpen, Open, Decided
  <2>5. OneOpen'
    BY <2>1 DEF Serial, OneOpen, Open
  <2> QED BY <2>3, <2>4, <2>5 DEF Serial, ReadIsCurrent
<1>6. CASE UNCHANGED vars
  BY <1>6 DEF vars, Serial, OneOpen, ReadIsCurrent, Open, Decided
<1> QED BY <1>1, <1>2, <1>3, <1>4, <1>5, <1>6 DEF Next, Step, Done

-----------------------------------------------------------------------------
(* The contract of a hold.                                                 *)

LEMMA InitContract == Init => Contract!Init
  BY DEF Init, Contract!Init, Owed, LiveStatus

\* A step before anything stale or unbacked was committed.
LEMMA SoundStep ==
  ASSUME Sound, [Next]_vars, ~stale', ~unbacked'
  PROVE  [Contract!Next]_(Contract!contractVars)
<1>1. ASSUME UNCHANGED <<hold, paid, refunded, kept, added>>
      PROVE  UNCHANGED Contract!contractVars
  BY <1>1 DEF Contract!contractVars, Owed
<1>2. ASSUME NEW t \in Txs, Step(t)
      PROVE  [Contract!Next]_(Contract!contractVars)
  <2>1. CASE Commit(t)
    <3>1. hold = tx[t].seen /\ ~stale /\ ~unbacked /\ ~Unbacked(t)
      BY <2>1 DEF Commit
    <3> QED BY <2>1, <3>1, FreshCommit
  <2>2. CASE ~Commit(t)
    BY <1>1, <1>2, <2>2 DEF Step, Begin, Check, Credit, RollBack
  <2> QED BY <2>1, <2>2
<1>3. CASE UNCHANGED vars
  BY <1>1, <1>3 DEF vars
<1> QED BY <1>2, <1>3 DEF Next, Done

\* In every interleaving of any number of transactions, the service keeps the
\* contract of a hold up to its first commit on a stale read.
THEOREM KeepsContract == Spec => ContractUnlessStale
<1>1. Sound /\ [Next]_vars
        => [stale' \/ unbacked' \/ Contract!Next]_(Contract!contractVars)
  BY SoundStep
<1> QED
  BY <1>1, InitContract, AlwaysSound, PTL DEF Spec, ContractUnlessStale

\* Used by one request at a time, the service implements the contract of a hold.
THEOREM SerialImplementsContract ==
  ASSUME MaxOpen = 1
  PROVE  Spec => ImplementsContract
<1>1. Sound /\ Serial /\ Serial' /\ ~unbacked /\ (~unbacked)' /\ [Next]_vars
        => [Contract!Next]_(Contract!contractVars)
  BY SoundStep DEF Serial
<1>2. Sound /\ Serial /\ [Next]_vars => Serial'
  BY NextSerial
<1> QED
  BY <1>1, <1>2, InitContract, InitSerial, AlwaysSound, PTL
  DEF Spec, ImplementsContract, Contract!Spec

=============================================================================
