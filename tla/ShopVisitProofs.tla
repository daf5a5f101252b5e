-------------------------- MODULE ShopVisitProofs --------------------------
(***************************************************************************)
(* A Shop-For-Me session, for any number of handlers, shoppers and riders. *)
(* IInv is inductive: handlers are on the path of their operation (Fits);  *)
(* holds are made for those who are on the session (Parties); a call that  *)
(* is done, or about to be, was joined by the rider (Called); a cancelled  *)
(* session has a handler on its way to the refund while a hold is left     *)
(* (Emptied); a fee that is due is held or about to be (FeeDue); and two   *)
(* that are away are being dropped (Voted).  Beside it, settlements and    *)
(* ends of the session are counted against each other (Settling).          *)
(***************************************************************************)
EXTENDS ShopVisit, FiniteSetTheorems, TLAPS

\* The handlers that settle the money before they end the session.
LateEnders == {"expireStaleSearching", "expireStaleLive", "confirmEmergencyEnd"}

\* The handler of a row is on the path of its operation.
FitsRow(r) ==
  /\ IF r.op = "idle" THEN r.step = "none" ELSE r.by \in Actors
  /\ r.op = "matchSession" => r.by \in Shoppers
  /\ r.op = "acceptDelivery" => r.by \in Riders
  /\ r.op = "leave" => Kind(r.by) \in Leavers
  /\ r.op = "joinConfirmCall" => Kind(r.by) \in Roles
  /\ r.step \in {"ensure", "hold"} =>
       \/ r.op \in {"matchSession", "paySession"} /\ r.payee \in Shoppers
       \/ r.op = "acceptDelivery" /\ r.payee \in Riders /\ r.step = "hold"
  /\ r.step = "release" => r.op \in {"confirmSession", "finalizeAutoReleased"}
  /\ r.step = "payees" => r.op = "resolveTicket"
  /\ r.step \in {"vote", "dropAlone", "dropTogether"} => r.op \in {"leave", "return"}
  /\ r.step = "end" => r.op \in LateEnders
  /\ r.op \in LateEnders => r.step \in {"payout", "refund", "end"}

Fits == \A h \in Handlers : FitsRow(run[h])

Parties ==
  stale \cap {"matchSession", "acceptDelivery"} = {} =>
    /\ \A w \in Workers :
         held[w] > 0 \/ w \in paid => w \in {session.shopper, session.rider}
    /\ \A h \in Handlers : run[h].step \in {"ensure", "hold"} =>
         run[h].payee \in {session.shopper, session.rider}

Out == {"OUT_FOR_DELIVERY", "DELIVERED", "COMPLETED"}

\* A handler that has seen the call done, or everybody on it.
SawCall(r) == r.op \in {"completeConfirmCall", "markOutForDelivery"}

\* The writes by which a rider comes to the goods without the call.
Bypassed == stale \cap {"acceptDelivery", "resolveTicket"} # {}

Called ==
  ~Bypassed =>
    /\ \/ session.callDone \/ "rider" \in session.joined \/ session.status \in Out
       \/ \E h \in Handlers : SawCall(run[h])
       => session.rider \in heard
    /\ \A h \in Handlers :
         run[h].op = "joinConfirmCall" /\ run[h].by \in Riders => run[h].by = session.rider

Emptied ==
  /\ \A h \in Handlers : run[h].step = "end" => settled > 0
  /\ "createHold" \notin stale =>
       /\ \A h \in Handlers : run[h].step = "end" => Holding = {}
       /\ session.status = "CANCELLED" =>
            Holding = {} \/ \E h \in Handlers : run[h].step \in {"payout", "refund"}

FeeDue ==
  session.funded /\ session.shopper # NoOne =>
    feeHeld \/ \E h \in Handlers :
                 run[h].step \in {"ensure", "hold"} /\ run[h].payee \in Shoppers

Voted ==
  /\ "shopper" \in away => session.shopper # NoOne
  /\ \A h \in Handlers : run[h].op = "leave" /\ run[h].by \in Shoppers =>
       session.shopper # NoOne
  /\ stale \cap {"matchSession", "startCall"} = {} =>
       /\ \A h \in Handlers :
            run[h].op = "leave" /\ run[h].step = "write" /\ run[h].by \notin Riders =>
              session.status \notin NotBought
       /\ session.status \in {"MATCHED", "LIVE_CALL"}
            /\ {"customer", "shopper"} \subseteq away =>
              \E h \in Handlers : run[h].step = "dropTogether"

IInv == TypeOK /\ Fits /\ Parties /\ Called /\ Emptied /\ FeeDue /\ Voted

LEMMA KindIs ==
  ASSUME NEW a \in Actors
  PROVE  /\ a \in Shoppers => Kind(a) = "shopper" /\ a \notin Riders
         /\ a \in Riders => Kind(a) = "rider"
         /\ a \notin Shoppers \cup Riders => Kind(a) = a /\ a \in {"customer", "system"}
         /\ Kind(a) = "shopper" => a \in Shoppers
         /\ Kind(a) = "rider" => a \in Riders
BY PartiesAssumption DEF Kind, Actors, Workers

LEMMA InitIInv == Init => IInv
<1> SUFFICES ASSUME Init PROVE IInv
  OBVIOUS
<1>1. TypeOK
  <2>1. session \in SessionRow
    BY DEF Init, SessionRow, SessionStatus
  <2>2. Idle \in RunRow
    BY DEF Idle, RunRow
  <2>3. held \in [Workers -> 0 .. MaxHolds]
    BY PartiesAssumption DEF Init
  <2>4. run \in [Handlers -> RunRow]
    BY <2>2 DEF Init
  <2>5. away \subseteq Leavers /\ paid \subseteq Workers /\ heard \subseteq Riders
    BY DEF Init
  <2>6. feeHeld \in BOOLEAN /\ settled \in Nat /\ stale = {}
    BY DEF Init
  <2> QED BY <2>1, <2>3, <2>4, <2>5, <2>6 DEF TypeOK
<1>2. Fits
  BY DEF Init, Fits, FitsRow, Idle, LateEnders
<1>3. Parties
  BY DEF Init, Parties, Idle
<1>4. Called
  BY DEF Init, Called, SawCall, Out, Idle
<1>5. Emptied
  BY DEF Init, Emptied, Idle
<1>6. FeeDue
  BY DEF Init, FeeDue
<1>7. Voted
  BY DEF Init, Voted, Idle
<1> QED BY <1>1, <1>2, <1>3, <1>4, <1>5, <1>6, <1>7 DEF IInv

\* What the read lets in.
LEMMA Stages ==
  /\ StageOf["matchSession"] = "SEARCHING" /\ StageOf["startCall"] = "MATCHED"
  /\ StageOf["startPackaging"] = "LIVE_CALL" /\ StageOf["findRider"] = "PACKAGING"
  /\ StageOf["acceptDelivery"] = "FINDING_RIDER"
BY DEF StageOf

LEMMA MayMeans ==
  ASSUME NEW op \in Ops, NEW a \in Actors, May(op, a), TypeOK
  PROVE  /\ op = "matchSession" =>
              a \in Shoppers /\ session.status = "SEARCHING" /\ session.shopper = NoOne
         /\ op = "acceptDelivery" =>
              a \in Riders /\ session.status = "FINDING_RIDER" /\ session.rider = NoOne
         /\ op = "startCall" => session.status = "MATCHED"
         /\ op = "startPackaging" => session.status = "LIVE_CALL"
         /\ op \in {"findRider", "payRiderFeeTopUp"} => session.status = "PACKAGING"
         /\ op = "markOutForDelivery" => session.callDone
         /\ op = "completeConfirmCall" => session.joined = Roles
         /\ op = "joinConfirmCall" /\ a \in Riders => a = session.rider
         /\ op = "expireStaleSearching" => session.status = "SEARCHING"
         /\ op = "expireStaleLive" => session.status \in PreRider \cup PostRider
         /\ op = "leave" => Kind(a) \in Leavers /\ (a \in Shoppers => session.shopper # NoOne)
         /\ op \in {"leave", "return"} => Role(a) = Kind(a)
         /\ op = "joinConfirmCall" => Kind(a) \in Roles
<1> USE Stages
<1>1. op \in {"matchSession", "acceptDelivery"} => MayTake(op, a)
  BY DEF May, MayAdvance, MayCall, MayEndCall, MaySettle, MaySweep
<1>2. op \in {"startCall", "startPackaging", "findRider", "markOutForDelivery"} =>
        MayAdvance(op, a)
  BY DEF May, MayTake, MayCall, MayEndCall, MaySettle, MaySweep
<1>3. op \in {"completeConfirmCall", "joinConfirmCall"} => MayCall(op, a)
  BY DEF May, MayTake, MayAdvance, MayEndCall, MaySettle, MaySweep, StageOf
<1>4. op \in {"expireStaleSearching", "expireStaleLive"} => MaySweep(op)
  BY DEF May, MayTake, MayAdvance, MayEndCall, MaySettle, MayCall, StageOf
<1>5. op \in {"leave", "return"} => MayMove(op, a)
  BY DEF May, MayTake, MayAdvance, MayEndCall, MaySettle, MayCall, MaySweep, StageOf
<1>12. op = "payRiderFeeTopUp" => session.status = "PACKAGING"
  BY DEF May, MayTake, MayAdvance, MayEndCall, MaySettle, MayCall, MaySweep, StageOf
<1>6. /\ op = "matchSession" =>
           a \in Shoppers /\ session.status = "SEARCHING" /\ session.shopper = NoOne
      /\ op = "acceptDelivery" =>
           a \in Riders /\ session.status = "FINDING_RIDER" /\ session.rider = NoOne
  BY <1>1 DEF MayTake
<1>7. /\ op = "startCall" => session.status = "MATCHED"
      /\ op = "startPackaging" => session.status = "LIVE_CALL"
      /\ op = "findRider" => session.status = "PACKAGING"
      /\ op = "markOutForDelivery" => session.callDone
  BY <1>2 DEF MayAdvance
<1>8. /\ op = "completeConfirmCall" => session.joined = Roles
      /\ op = "joinConfirmCall" /\ a \in Riders => a = session.rider
      /\ op = "joinConfirmCall" => Kind(a) \in Roles
  BY <1>3, PartiesAssumption DEF MayCall, Role, Roles, Kind, TypeOK, SessionRow
<1>9. /\ op = "expireStaleSearching" => session.status = "SEARCHING"
      /\ op = "expireStaleLive" => session.status \in PreRider \cup PostRider
  BY <1>4 DEF MaySweep
<1>10. op \in {"leave", "return"} => Role(a) = Kind(a)
  BY <1>5, PartiesAssumption DEF MayMove, Role, TypeOK
<1>11. op = "leave" => Kind(a) \in Leavers /\ (a \in Shoppers => session.shopper # NoOne)
  BY <1>5, PartiesAssumption DEF MayMove, Role, TypeOK, SessionRow
<1> QED BY <1>6, <1>7, <1>8, <1>9, <1>10, <1>11, <1>12

LEMMA FirstSteps ==
  ASSUME NEW op \in Ops, NEW a \in Actors, May(op, a), TypeOK
  PROVE  /\ FirstStep(op, a) \in {"write", "vote", "dropAlone", "refund", "payout", "payees"}
         /\ FirstStep(op, a) = "payees" => op = "resolveTicket"
         /\ op \in LateEnders <=> FirstStep(op, a) \in {"refund", "payout"}
         /\ FirstStep(op, a) \in {"vote", "dropAlone"} => op \in {"leave", "return"}
         /\ op = "leave" /\ FirstStep(op, a) = "write" /\ a \notin Riders =>
              session.status \notin NotBought
<1>1. op \in {"leave", "return"} => FirstStep(op, a) \in {"write", "vote", "dropAlone"}
  BY DEF FirstStep, AwayBranch
<1>2. op \notin {"leave", "return"} => FirstStep(op, a) \in {"write", "refund", "payout", "payees"}
  BY DEF FirstStep
<1>3. op \in LateEnders <=> FirstStep(op, a) \in {"refund", "payout"}
  <2>1. CASE op \in {"leave", "return"}
    BY <1>1, <2>1 DEF LateEnders
  <2>2. CASE op \notin {"leave", "return"}
    BY <2>2 DEF FirstStep, LateEnders
  <2> QED BY <2>1, <2>2
<1>4. ASSUME op = "leave", FirstStep(op, a) = "write", a \notin Riders
      PROVE  session.status \notin NotBought
  <2>1. Role(a) # "rider"
    BY <1>4, MayMeans, KindIs
  <2> QED BY <1>4, <2>1 DEF FirstStep, AwayBranch
<1>5. FirstStep(op, a) = "payees" => op = "resolveTicket"
  BY <1>1 DEF FirstStep
<1> QED BY <1>1, <1>2, <1>3, <1>4, <1>5

-----------------------------------------------------------------------------
(* What a step leaves alone.                                               *)

\* Handler h moves on or ends, and the others do not move.
Moves(h, row) ==
  /\ \A q \in Handlers \ {h} : run'[q] = run[q]
  /\ run'[h] = row
  /\ run' \in [Handlers -> RunRow]

LEMMA FitsKept ==
  ASSUME IInv, NEW h \in Handlers, NEW row, Moves(h, row), FitsRow(row)
  PROVE  Fits'
BY DEF IInv, Fits, Moves, FitsRow

LEMMA PartiesKept ==
  ASSUME IInv, NEW h \in Handlers, NEW row, Moves(h, row), stale \subseteq stale',
         \A w \in Workers : held'[w] > 0 \/ w \in paid' => held[w] > 0 \/ w \in paid,
         session'.shopper = session.shopper, session'.rider = session.rider,
         row.step \in {"ensure", "hold"} =>
           \/ run[h].step \in {"ensure", "hold"} /\ row.payee = run[h].payee
           \/ row.payee \in {session.shopper, session.rider}
  PROVE  Parties'
BY DEF IInv, Parties, Moves

LEMMA CalledKept ==
  ASSUME IInv, NEW h \in Handlers, NEW row, Moves(h, row),
         stale \subseteq stale',
         heard' = heard, session'.rider = session.rider,
         \/ session'.callDone \/ "rider" \in session'.joined \/ session'.status \in Out
           \/ SawCall(row)
           => \/ session.callDone \/ "rider" \in session.joined
              \/ session.status \in Out \/ SawCall(run[h]),
         row.op = "joinConfirmCall" /\ row.by \in Riders =>
           \/ run[h].op = "joinConfirmCall" /\ run[h].by = row.by
           \/ row.by = session.rider
  PROVE  Called'
<1> SUFFICES ASSUME ~Bypassed' PROVE Called'
  BY DEF Called
<1>5. ~Bypassed
  BY DEF Bypassed
<1>1. \A q \in Handlers \ {h} : run'[q] = run[q]
  BY DEF Moves
<1>2. run'[h] = row
  BY DEF Moves
<1>3. \A q \in Handlers :
        run'[q].op = "joinConfirmCall" /\ run'[q].by \in Riders => run'[q].by = session'.rider
  BY <1>1, <1>2, <1>5 DEF IInv, Called
<1>4. ASSUME \/ session'.callDone \/ "rider" \in session'.joined \/ session'.status \in Out
             \/ \E q \in Handlers : SawCall(run'[q])
      PROVE  session.rider \in heard
  BY <1>1, <1>2, <1>4, <1>5 DEF IInv, Called
<1> QED BY <1>3, <1>4 DEF Called

LEMMA EmptiedKept ==
  ASSUME IInv, NEW h \in Handlers, NEW row, Moves(h, row), settled' = settled,
         stale \subseteq stale', held' = held,
         session'.status = "CANCELLED" =>
           session.status = "CANCELLED" \/ row.step \in {"payout", "refund"},
         run[h].step \in {"payout", "refund"} => row.step \in {"payout", "refund"},
         row.step # "end"
  PROVE  Emptied'
<1>1. Holding' = Holding
  BY DEF Holding
<1> QED BY <1>1 DEF IInv, Emptied, Moves

LEMMA FeeDueKept ==
  ASSUME IInv, NEW h \in Handlers, NEW row, Moves(h, row), feeHeld' = feeHeld,
         session'.shopper = session.shopper, session'.funded = session.funded,
         run[h].step \notin {"ensure", "hold"}
  PROVE  FeeDue'
BY DEF IInv, FeeDue, Moves

LEMMA VotedKept ==
  ASSUME IInv, NEW h \in Handlers, NEW row, Moves(h, row), away' = away,
         session'.shopper = session.shopper, stale \subseteq stale',
         row.op = "leave" =>
           /\ row.by \in Shoppers => session.shopper # NoOne
           /\ row.step = "write" /\ row.by \notin Riders => session.status \notin NotBought,
         session'.status \in NotBought => session.status \in NotBought,
         session'.status \in {"MATCHED", "LIVE_CALL"} =>
           /\ session.status \in {"MATCHED", "LIVE_CALL"}
           /\ run[h].step # "dropTogether"
  PROVE  Voted'
<1>1. \A q \in Handlers \ {h} : run'[q] = run[q]
  BY DEF Moves
<1>2. run'[h] = row
  BY DEF Moves
<1>3. stale' \cap {"matchSession", "startCall"} = {} =>
        stale \cap {"matchSession", "startCall"} = {}
  OBVIOUS
<1>4. /\ "shopper" \in away' => session'.shopper # NoOne
      /\ \A q \in Handlers : run'[q].op = "leave" /\ run'[q].by \in Shoppers =>
           session'.shopper # NoOne
  BY <1>1, <1>2 DEF IInv, Voted
<1>5. ASSUME stale' \cap {"matchSession", "startCall"} = {}, NEW q \in Handlers,
             run'[q].op = "leave", run'[q].step = "write", run'[q].by \notin Riders
      PROVE  session'.status \notin NotBought
  BY <1>1, <1>2, <1>3, <1>5 DEF IInv, Voted
<1>6. ASSUME stale' \cap {"matchSession", "startCall"} = {},
             session'.status \in {"MATCHED", "LIVE_CALL"},
             {"customer", "shopper"} \subseteq away'
      PROVE  \E q \in Handlers : run'[q].step = "dropTogether"
  BY <1>1, <1>2, <1>3, <1>6 DEF IInv, Voted
<1> QED BY <1>4, <1>5, <1>6 DEF Voted

-----------------------------------------------------------------------------
LEMMA BeginInv == ASSUME IInv, NEW h \in Handlers, Begin(h) PROVE IInv'
<1>1. PICK op \in Ops, a \in Actors :
        /\ May(op, a)
        /\ run' = [run EXCEPT ![h] = [op |-> op, by |-> a, step |-> FirstStep(op, a),
                                     status |-> IF op \in Unguarded
                                                THEN session.status ELSE "unread",
                                     payee |-> NoOne]]
  BY DEF Begin
<1> DEFINE row == [op |-> op, by |-> a, step |-> FirstStep(op, a),
                   status |-> IF op \in Unguarded THEN session.status ELSE "unread",
                   payee |-> NoOne]
<1>2. /\ run[h] = Idle
      /\ UNCHANGED <<session, away, held, paid, feeHeld, settled, heard, stale>>
  BY DEF Begin
<1>3. /\ FirstStep(op, a) \in {"write", "vote", "dropAlone", "refund", "payout", "payees"}
      /\ FirstStep(op, a) = "payees" => op = "resolveTicket"
      /\ op \in LateEnders <=> FirstStep(op, a) \in {"refund", "payout"}
      /\ FirstStep(op, a) \in {"vote", "dropAlone"} => op \in {"leave", "return"}
      /\ op = "leave" /\ FirstStep(op, a) = "write" /\ a \notin Riders =>
           session.status \notin NotBought
  BY <1>1, FirstSteps DEF IInv
<1>4. /\ row \in RunRow /\ row.op = op /\ row.by = a /\ row.step = FirstStep(op, a)
  BY <1>3 DEF RunRow, IInv, TypeOK, SessionRow
<1>5. Moves(h, row)
  BY <1>1, <1>4 DEF Moves, IInv, TypeOK
<1>6. run[h].step = "none" /\ run[h].op = "idle"
  BY <1>2 DEF Idle
<1> HIDE DEF row
<1>7. TypeOK'
  BY <1>2, <1>5 DEF IInv, TypeOK, Moves
<1>8. Fits'
  <2>1. FitsRow(row)
    <3>1. op # "idle"
      BY DEF Ops, ShopperOps, RiderOps, CustomerOps, PartyOps, SystemOps
    <3> QED BY <1>1, <1>3, <1>4, <3>1, MayMeans DEF IInv, FitsRow, LateEnders
  <2> QED BY <1>5, <2>1, FitsKept
<1>9. Parties'
  BY <1>2, <1>3, <1>4, <1>5, PartiesKept
<1>10. Called'
  <2>1. op = "markOutForDelivery" => session.callDone
    BY <1>1, MayMeans DEF IInv
  <2>2. op = "completeConfirmCall" => "rider" \in session.joined
    BY <1>1, MayMeans DEF IInv, Roles
  <2>3. op = "joinConfirmCall" /\ a \in Riders => a = session.rider
    BY <1>1, MayMeans DEF IInv
  <2> QED BY <1>2, <1>4, <1>5, <2>1, <2>2, <2>3, CalledKept DEF SawCall
<1>11. Emptied'
  BY <1>2, <1>3, <1>4, <1>5, <1>6, EmptiedKept
<1>12. FeeDue'
  BY <1>2, <1>5, <1>6, FeeDueKept
<1>13. Voted'
  <2>1. op = "leave" => (a \in Shoppers => session.shopper # NoOne)
    BY <1>1, MayMeans DEF IInv
  <2> QED BY <1>2, <1>3, <1>4, <1>5, <1>6, <2>1, VotedKept
<1> QED BY <1>7, <1>8, <1>9, <1>10, <1>11, <1>12, <1>13 DEF IInv

\* A handler that ends, or goes on to another step of its operation.
LEMMA GoesMoves ==
  ASSUME IInv, NEW h \in Handlers, run[h].op # "idle",
         NEW step \in {"done", "vote", "dropTogether", "hold", "release", "payout",
                       "refund", "end", "write"},
         Goes(h, step)
  PROVE  \E row \in RunRow :
           /\ Moves(h, row)
           /\ IF step = "done" THEN row = Idle /\ row.op = "idle" /\ row.step = "none"
              ELSE /\ row.op = run[h].op /\ row.by = run[h].by /\ row.step = step
                   /\ row.payee = run[h].payee
<1> DEFINE row == IF step = "done" THEN Idle ELSE [run[h] EXCEPT !.step = step]
<1>1. row \in RunRow
  BY DEF IInv, TypeOK, RunRow, Idle
<1>2. run' = [run EXCEPT ![h] = row]
  BY DEF Goes, IInv, TypeOK
<1>3. Moves(h, row)
  BY <1>1, <1>2 DEF Moves, IInv, TypeOK
<1>4. IF step = "done" THEN row = Idle /\ row.op = "idle" /\ row.step = "none"
      ELSE /\ row.op = run[h].op /\ row.by = run[h].by /\ row.step = step
           /\ row.payee = run[h].payee
  BY DEF Idle, IInv, TypeOK, RunRow
<1> HIDE DEF row
<1> QED BY <1>1, <1>3, <1>4

\* A stage, a call or an answer written by id.
LEMMA OverwriteInv ==
  ASSUME IInv, NEW h \in Handlers, NEW op \in Ops, NEW row \in SessionRow,
         Overwrite(h, op, row),
         row.shopper = session.shopper, row.rider = session.rider,
         row.funded = session.funded,
         "rider" \in row.joined => "rider" \in session.joined,
         row.callDone => session.callDone \/ op = "completeConfirmCall",
         \/ row.status = session.status
         \/ op = "startCall" /\ row.status = "LIVE_CALL"
         \/ row.status \in {"PACKAGING", "FINDING_RIDER"}
  PROVE  IInv'
<1>1. /\ run[h].op = op /\ run[h].step = "write" /\ run[h].op # "idle"
      /\ Goes(h, "done") /\ session' = row
      /\ UNCHANGED <<away, held, paid, feeHeld, settled, heard>>
      /\ stale' = IF op \in Unguarded /\ ~Fresh(h) THEN stale \cup {op} ELSE stale
  BY DEF Overwrite, At, Writes, Money, Ops, ShopperOps, RiderOps, CustomerOps, PartyOps,
         SystemOps
<1>2. PICK next \in RunRow : Moves(h, next) /\ next.op = "idle" /\ next.step = "none"
  BY <1>1, GoesMoves
<1>3. stale \subseteq stale' /\ stale' \subseteq Unguarded \cup {"createHold", "resolveTicket"}
  BY <1>1 DEF IInv, TypeOK
<1>4. TypeOK'
  BY <1>1, <1>2, <1>3 DEF IInv, TypeOK, Moves
<1>5. Fits'
  <2>1. FitsRow(next)
    BY <1>2 DEF FitsRow, LateEnders
  <2> QED BY <1>2, <2>1, FitsKept
<1>6. Parties'
  BY <1>1, <1>2, <1>3, PartiesKept
<1>7. Called'
  BY <1>1, <1>2, <1>3, CalledKept DEF SawCall, Out
<1>8. Emptied'
  BY <1>1, <1>2, <1>3, EmptiedKept
<1>9. FeeDue'
  BY <1>1, <1>2, FeeDueKept
<1>10. Voted'
  <2>1. CASE op = "startCall" /\ row.status = "LIVE_CALL"
    <3>1. CASE Fresh(h)
      <4>1. session.status = "MATCHED"
        <5>1. run[h].by \in Actors /\ TypeOK
          BY <1>1 DEF IInv, Fits, FitsRow
        <5> QED BY <1>1, <2>1, <3>1, <5>1, MayMeans DEF Fresh
      <4> QED BY <1>1, <1>2, <1>3, <2>1, <4>1, VotedKept DEF NotBought
    <3>2. CASE ~Fresh(h)
      <4>1. "startCall" \in stale'
        BY <1>1, <2>1, <3>2 DEF Unguarded
      <4> QED BY <1>1, <1>2, <4>1 DEF IInv, Voted, Moves
    <3> QED BY <3>1, <3>2
  <2>2. CASE row.status = session.status \/ row.status \in {"PACKAGING", "FINDING_RIDER"}
    BY <1>1, <1>2, <1>3, <2>2, VotedKept DEF NotBought
  <2> QED BY <2>1, <2>2
<1> QED BY <1>4, <1>5, <1>6, <1>7, <1>8, <1>9, <1>10 DEF IInv

\* A status written where it still is what the handler read.
LEMMA SwapInv ==
  ASSUME IInv, NEW h \in Handlers, run[h].op # "idle", NEW from, NEW to, NEW step,
         Swap(h, from, to, step), run[h].step \in {"write", "dropTogether"},
         run[h].step = "dropTogether" => from = Open,
         \/ from = {"RIDER_ASSIGNED"} /\ to = "OUT_FOR_DELIVERY" /\ step = "done"
            /\ run[h].op = "markOutForDelivery"
         \/ from = {"OUT_FOR_DELIVERY"} /\ to = "DELIVERED" /\ step = "done"
         \/ /\ from = {"DELIVERED"} /\ to = "COMPLETED" /\ step = "release"
            /\ run[h].op \in {"confirmSession", "finalizeAutoReleased"}
         \/ /\ from = Open /\ to = "CANCELLED" /\ step \in {"payout", "refund"}
            /\ run[h].op \notin LateEnders
            /\ run[h].op \notin {"joinConfirmCall", "completeConfirmCall",
                                 "markOutForDelivery"}
  PROVE  IInv'
<1>1. /\ UNCHANGED <<away, held, paid, feeHeld, settled, heard, stale>>
      /\ \/ session.status \in from /\ session' = [session EXCEPT !.status = to]
            /\ Goes(h, step)
         \/ session.status \notin from /\ UNCHANGED session /\ Goes(h, "done")
  BY DEF Swap, Money
<1>2. /\ session' \in SessionRow /\ session'.shopper = session.shopper
      /\ session'.rider = session.rider /\ session'.funded = session.funded
      /\ session'.joined = session.joined /\ session'.callDone = session.callDone
      /\ session'.status \in {session.status, to}
  BY <1>1 DEF IInv, TypeOK, SessionRow, SessionStatus, PreRider, PostRider, Closed
<1>3. PICK row \in RunRow :
        /\ Moves(h, row)
        /\ \/ row.op = "idle" /\ row.step = "none"
           \/ row.op = run[h].op /\ row.by = run[h].by /\ row.step = step /\ step # "done"
        /\ step # "done" /\ session.status \in from => row.step = step
  <2>1. step \in {"done", "release", "payout", "refund"}
    OBVIOUS
  <2> QED BY <1>1, <2>1, GoesMoves
<1>4. TypeOK'
  BY <1>1, <1>2, <1>3 DEF IInv, TypeOK, Moves
<1>5. Fits'
  <2>1. FitsRow(row)
    BY <1>3 DEF IInv, Fits, FitsRow, LateEnders
  <2> QED BY <1>3, <2>1, FitsKept
<1>6. Parties'
  BY <1>1, <1>2, <1>3, PartiesKept
<1>7. Called'
  BY <1>1, <1>2, <1>3, CalledKept DEF SawCall, Out
<1>8. Emptied'
  BY <1>1, <1>2, <1>3, EmptiedKept
<1>9. FeeDue'
  BY <1>1, <1>2, <1>3, FeeDueKept
<1>10. Voted'
  <2>1. session'.status \in NotBought => session'.status = session.status
    BY <1>2 DEF NotBought
  <2>2. session'.status \in {"MATCHED", "LIVE_CALL"} => run[h].step # "dropTogether"
    <3>1. session.status \in SessionStatus
      BY DEF IInv, TypeOK, SessionRow
    <3>2. CASE session.status \in from
      BY <1>1, <3>2 DEF IInv, TypeOK, SessionRow
    <3>3. CASE session.status \notin from
      BY <1>1, <3>1, <3>3 DEF Open, Closed
    <3> QED BY <3>2, <3>3
  <2>3. row.op = "leave" => /\ row.by \in Shoppers => session.shopper # NoOne
                           /\ row.step # "write"
    BY <1>3 DEF IInv, Voted
  <2> QED BY <1>1, <1>2, <1>3, <2>1, <2>2, <2>3, VotedKept DEF NotBought
<1> QED BY <1>4, <1>5, <1>6, <1>7, <1>8, <1>9, <1>10 DEF IInv

LEMMA BusyOps ==
  ASSUME IInv, NEW h \in Handlers,
         run[h].step \in {"ensure", "hold", "release", "payout", "refund", "end",
                         "payees", "write", "vote", "dropAlone", "dropTogether"}
  PROVE  run[h].op # "idle" /\ FitsRow(run[h])
BY DEF IInv, Fits, FitsRow

-----------------------------------------------------------------------------
(* Taking the session.                                                     *)

LEMMA FreshMeans ==
  ASSUME IInv, NEW h \in Handlers, run[h].op \in Ops, Fresh(h)
  PROVE  /\ run[h].op = "matchSession" =>
              session.status = "SEARCHING" /\ session.shopper = NoOne
         /\ run[h].op = "acceptDelivery" =>
              session.status = "FINDING_RIDER" /\ session.rider = NoOne
         /\ run[h].op = "expireStaleSearching" => session.status = "SEARCHING"
         /\ run[h].op = "expireStaleLive" => session.status \in PreRider \cup PostRider
         /\ run[h].op = "confirmEmergencyEnd" => session.status = "LIVE_CALL"
         /\ run[h].op = "startCall" => session.status = "MATCHED"
         /\ run[h].op = "startPackaging" => session.status = "LIVE_CALL"
         /\ run[h].op \in {"findRider", "payRiderFeeTopUp"} => session.status = "PACKAGING"
<1>1. run[h].by \in Actors /\ TypeOK
  BY DEF IInv, Fits, FitsRow, Ops, ShopperOps, RiderOps, CustomerOps, PartyOps, SystemOps
<1> QED BY <1>1, MayMeans DEF Fresh

LEMMA MatchSessionInv == ASSUME IInv, NEW h \in Handlers, MatchSession(h) PROVE IInv'
<1> DEFINE w == run[h].by
           row == IF session.funded
                  THEN [run[h] EXCEPT !.step = "ensure", !.payee = w] ELSE Idle
<1>1. /\ run[h].op = "matchSession" /\ run[h].step = "write"
      /\ session' = [session EXCEPT !.status = "MATCHED", !.shopper = w]
      /\ run' = [run EXCEPT ![h] = row]
      /\ stale' = IF ~Fresh(h) THEN stale \cup {"matchSession"} ELSE stale
      /\ UNCHANGED <<away, held, paid, feeHeld, settled, heard>>
  BY DEF MatchSession, At, Writes, Money, Unguarded, IInv, TypeOK
<1>2. w \in Shoppers /\ w # NoOne /\ w \in Workers
  BY <1>1, PartiesAssumption DEF IInv, Fits, FitsRow, Workers
<1>3. /\ row \in RunRow
      /\ IF session.funded
         THEN /\ row.op = "matchSession" /\ row.by = w /\ row.step = "ensure"
              /\ row.payee = w
         ELSE row.op = "idle" /\ row.step = "none"
  BY <1>1, <1>2 DEF IInv, TypeOK, RunRow, Idle
<1>4. Moves(h, row)
  BY <1>1, <1>3 DEF Moves, IInv, TypeOK
<1>5. /\ session' \in SessionRow /\ session'.status = "MATCHED" /\ session'.shopper = w
      /\ session'.rider = session.rider /\ session'.funded = session.funded
      /\ session'.joined = session.joined /\ session'.callDone = session.callDone
  BY <1>1, <1>2 DEF IInv, TypeOK, SessionRow, SessionStatus, PreRider
<1>6. /\ stale \subseteq stale' /\ stale' \subseteq Unguarded \cup {"createHold", "resolveTicket"}
      /\ "matchSession" \notin stale' => /\ session.status = "SEARCHING"
                                        /\ session.shopper = NoOne
  BY <1>1, FreshMeans DEF IInv, TypeOK, Unguarded, Ops, ShopperOps
<1> HIDE DEF row
<1>7. TypeOK'
  BY <1>1, <1>4, <1>5, <1>6 DEF IInv, TypeOK, Moves
<1>8. Fits'
  <2>1. FitsRow(row)
    BY <1>2, <1>3 DEF FitsRow, LateEnders, Actors
  <2> QED BY <1>4, <2>1, FitsKept
<1>9. Parties'
  <2> SUFFICES ASSUME stale' \cap {"matchSession", "acceptDelivery"} = {} PROVE Parties'
    BY DEF Parties
  <2>1. session.shopper = NoOne /\ stale \cap {"matchSession", "acceptDelivery"} = {}
    BY <1>6
  <2>2. \A v \in Workers : held[v] > 0 \/ v \in paid => v = session.rider
    BY <2>1, PartiesAssumption DEF IInv, Parties, Workers
  <2>3. \A q \in Handlers : run[q].step \in {"ensure", "hold"} => run[q].payee = session.rider
    BY <2>1, PartiesAssumption DEF IInv, Parties, Fits, FitsRow
  <2> QED BY <1>1, <1>3, <1>4, <1>5, <2>2, <2>3 DEF Parties, Moves
<1>10. Called'
  BY <1>1, <1>3, <1>4, <1>5, <1>6, CalledKept DEF SawCall, Out
<1>11. Emptied'
  BY <1>1, <1>3, <1>4, <1>5, <1>6, EmptiedKept
<1>12. FeeDue'
  BY <1>2, <1>3, <1>4, <1>5 DEF FeeDue, Moves
<1>13. Voted'
  <2>1. CASE "matchSession" \in stale'
    BY <1>1, <1>2, <1>3, <1>4, <1>5, <2>1 DEF IInv, Voted, Moves
  <2>2. CASE "matchSession" \notin stale'
    <3>1. session.status = "SEARCHING" /\ "shopper" \notin away
      BY <1>6, <2>2 DEF IInv, Voted
    <3>2. ASSUME stale' \cap {"matchSession", "startCall"} = {}, NEW q \in Handlers,
                 run'[q].op = "leave", run'[q].step = "write", run'[q].by \notin Riders
          PROVE  FALSE
      BY <1>3, <1>4, <1>6, <3>1, <3>2 DEF IInv, Voted, Moves, NotBought
    <3> QED BY <1>1, <1>2, <1>5, <3>1, <3>2 DEF Voted
  <2> QED BY <2>1, <2>2
<1> QED BY <1>7, <1>8, <1>9, <1>10, <1>11, <1>12, <1>13 DEF IInv

LEMMA PaySessionInv == ASSUME IInv, NEW h \in Handlers, PaySession(h) PROVE IInv'
<1> DEFINE row == IF session.shopper # NoOne
                  THEN [run[h] EXCEPT !.step = "ensure", !.payee = session.shopper] ELSE Idle
<1>1. /\ run[h].op = "paySession" /\ run[h].step = "write"
      /\ session' = [session EXCEPT !.funded = TRUE]
      /\ run' = [run EXCEPT ![h] = row]
      /\ UNCHANGED <<away, held, paid, feeHeld, settled, heard, stale>>
  BY DEF PaySession, At, Writes, Money, Unguarded, IInv, TypeOK
<1>2. session.shopper # NoOne => session.shopper \in Shoppers /\ session.shopper \in Workers
  BY DEF IInv, TypeOK, SessionRow, Workers
<1>3. /\ row \in RunRow
      /\ IF session.shopper # NoOne
         THEN /\ row.op = "paySession" /\ row.by = run[h].by /\ row.step = "ensure"
              /\ row.payee = session.shopper
         ELSE row.op = "idle" /\ row.step = "none"
  BY <1>1, <1>2 DEF IInv, TypeOK, RunRow, Idle
<1>4. Moves(h, row)
  BY <1>1, <1>3 DEF Moves, IInv, TypeOK
<1>5. /\ session' \in SessionRow /\ session'.status = session.status
      /\ session'.shopper = session.shopper
      /\ session'.rider = session.rider
      /\ session'.joined = session.joined /\ session'.callDone = session.callDone
  BY <1>1 DEF IInv, TypeOK, SessionRow
<1> HIDE DEF row
<1>6. TypeOK'
  BY <1>1, <1>4, <1>5 DEF IInv, TypeOK, Moves
<1>7. Fits'
  <2>1. FitsRow(row)
    BY <1>1, <1>2, <1>3 DEF IInv, Fits, FitsRow, LateEnders
  <2> QED BY <1>4, <2>1, FitsKept
<1>8. Parties'
  BY <1>1, <1>3, <1>4, <1>5, PartiesKept
<1>9. Called'
  BY <1>1, <1>3, <1>4, <1>5, CalledKept DEF SawCall
<1>10. Emptied'
  BY <1>1, <1>3, <1>4, <1>5, EmptiedKept
<1>11. FeeDue'
  BY <1>2, <1>3, <1>4, <1>5 DEF FeeDue, Moves
<1>12. Voted'
  BY <1>1, <1>3, <1>4, <1>5, VotedKept
<1> QED BY <1>6, <1>7, <1>8, <1>9, <1>10, <1>11, <1>12 DEF IInv

LEMMA PayRiderFeeTopUpInv ==
  ASSUME IInv, NEW h \in Handlers, PayRiderFeeTopUp(h) PROVE IInv'
<1>1. /\ run[h].op = "payRiderFeeTopUp" /\ run[h].step = "write"
      /\ Goes(h, "done") \/ UNCHANGED run
      /\ session' = [session EXCEPT !.status = "FINDING_RIDER"]
      /\ stale \subseteq stale' /\ stale' \subseteq stale \cup {"payRiderFeeTopUp"}
      /\ UNCHANGED <<away, held, paid, feeHeld, settled, heard>>
  BY DEF PayRiderFeeTopUp, At, Writes, Money
<1>2. run[h].op # "idle" /\ FitsRow(run[h])
  BY <1>1, BusyOps
<1>3. PICK row \in RunRow :
        /\ Moves(h, row)
        /\ \/ row.op = "idle" /\ row.step = "none"
           \/ row = run[h]
  <2>1. CASE Goes(h, "done")
    BY <1>2, <2>1, GoesMoves
  <2>2. CASE UNCHANGED run
    BY <2>2 DEF Moves, IInv, TypeOK
  <2> QED BY <1>1, <2>1, <2>2
<1>4. /\ session' \in SessionRow /\ session'.status = "FINDING_RIDER"
      /\ session'.shopper = session.shopper /\ session'.rider = session.rider
      /\ session'.funded = session.funded
      /\ session'.joined = session.joined /\ session'.callDone = session.callDone
  BY <1>1 DEF IInv, TypeOK, SessionRow, SessionStatus, PreRider
<1>5. TypeOK'
  BY <1>1, <1>3, <1>4 DEF IInv, TypeOK, Moves, Unguarded
<1>6. Fits'
  <2>1. FitsRow(row)
    BY <1>2, <1>3 DEF FitsRow, LateEnders
  <2> QED BY <1>3, <2>1, FitsKept
<1>7. Parties'
  BY <1>1, <1>3, <1>4, PartiesKept
<1>8. Called'
  BY <1>1, <1>3, <1>4, CalledKept DEF SawCall, Out
<1>9. Emptied'
  BY <1>1, <1>3, <1>4, EmptiedKept
<1>10. FeeDue'
  BY <1>1, <1>3, <1>4, FeeDueKept
<1>11. Voted'
  BY <1>1, <1>3, <1>4, VotedKept DEF NotBought
<1> QED BY <1>5, <1>6, <1>7, <1>8, <1>9, <1>10, <1>11 DEF IInv

LEMMA AcceptDeliveryInv == ASSUME IInv, NEW h \in Handlers, AcceptDelivery(h) PROVE IInv'
<1> DEFINE w == run[h].by
           row == [run[h] EXCEPT !.step = "hold", !.payee = w]
<1>1. /\ run[h].op = "acceptDelivery" /\ run[h].step = "write"
      /\ session' = [session EXCEPT !.status = "RIDER_ASSIGNED", !.rider = w]
      /\ run' = [run EXCEPT ![h] = row]
      /\ stale' = IF ~Fresh(h) THEN stale \cup {"acceptDelivery"} ELSE stale
      /\ UNCHANGED <<away, held, paid, feeHeld, settled, heard>>
  BY DEF AcceptDelivery, At, Writes, Money, Unguarded, IInv, TypeOK
<1>2. w \in Riders /\ w # NoOne /\ w \in Workers
  BY <1>1, PartiesAssumption DEF IInv, Fits, FitsRow, Workers
<1>3. /\ row \in RunRow /\ row.op = "acceptDelivery" /\ row.by = w /\ row.step = "hold"
      /\ row.payee = w
  BY <1>1, <1>2 DEF IInv, TypeOK, RunRow
<1>4. Moves(h, row)
  BY <1>1, <1>3 DEF Moves, IInv, TypeOK
<1>5. /\ session' \in SessionRow /\ session'.status = "RIDER_ASSIGNED"
      /\ session'.rider = w
      /\ session'.shopper = session.shopper /\ session'.funded = session.funded
      /\ session'.joined = session.joined /\ session'.callDone = session.callDone
  BY <1>1, <1>2 DEF IInv, TypeOK, SessionRow, SessionStatus, PostRider
<1>6. /\ stale \subseteq stale' /\ stale' \subseteq Unguarded \cup {"createHold", "resolveTicket"}
      /\ "acceptDelivery" \notin stale' => session.rider = NoOne
  BY <1>1, FreshMeans DEF IInv, TypeOK, Unguarded, Ops, RiderOps
<1> HIDE DEF row
<1>7. TypeOK'
  BY <1>1, <1>4, <1>5, <1>6 DEF IInv, TypeOK, Moves
<1>8. Fits'
  <2>1. FitsRow(row)
    BY <1>2, <1>3 DEF FitsRow, LateEnders, Actors
  <2> QED BY <1>4, <2>1, FitsKept
<1>9. Parties'
  <2> SUFFICES ASSUME stale' \cap {"matchSession", "acceptDelivery"} = {} PROVE Parties'
    BY DEF Parties
  <2>1. session.rider = NoOne /\ stale \cap {"matchSession", "acceptDelivery"} = {}
    BY <1>6
  <2>2. \A v \in Workers : held[v] > 0 \/ v \in paid => v = session.shopper
    BY <2>1, PartiesAssumption DEF IInv, Parties, Workers
  <2>3. \A q \in Handlers :
          run[q].step \in {"ensure", "hold"} => run[q].payee = session.shopper
    BY <2>1, PartiesAssumption DEF IInv, Parties, Fits, FitsRow
  <2> QED BY <1>1, <1>3, <1>4, <1>5, <2>2, <2>3 DEF Parties, Moves
<1>10. Called'
  <2> SUFFICES ASSUME ~Bypassed' PROVE Called'
    BY DEF Called
  <2>1. session.rider \notin heard /\ session.rider \notin Riders /\ ~Bypassed
    BY <1>6, PartiesAssumption DEF IInv, TypeOK, Bypassed
  <2>2. /\ ~session.callDone /\ "rider" \notin session.joined
        /\ \A q \in Handlers : ~SawCall(run[q])
        /\ \A q \in Handlers : run[q].op = "joinConfirmCall" => run[q].by \notin Riders
    BY <2>1 DEF IInv, Called
  <2>3. \A q \in Handlers : ~SawCall(run'[q])
    BY <1>3, <1>4, <2>2 DEF Moves, SawCall
  <2>4. \A q \in Handlers : run'[q].op = "joinConfirmCall" => run'[q].by \notin Riders
    BY <1>3, <1>4, <2>2 DEF Moves
  <2> QED BY <1>5, <2>2, <2>3, <2>4 DEF Called, Out
<1>11. Emptied'
  BY <1>1, <1>3, <1>4, <1>5, <1>6, EmptiedKept
<1>12. FeeDue'
  BY <1>1, <1>4, <1>5, FeeDueKept
<1>13. Voted'
  BY <1>1, <1>3, <1>4, <1>5, <1>6, VotedKept DEF NotBought
<1> QED BY <1>7, <1>8, <1>9, <1>10, <1>11, <1>12, <1>13 DEF IInv

LEMMA JoinConfirmCallInv ==
  ASSUME IInv, NEW h \in Handlers, JoinConfirmCall(h) PROVE IInv'
<1> DEFINE a == run[h].by
<1>1. /\ run[h].op = "joinConfirmCall" /\ run[h].step = "write" /\ Goes(h, "done")
      /\ session' = [session EXCEPT !.joined = @ \cup {Kind(a)}]
      /\ heard' = heard \cup ({a} \cap Riders)
      /\ UNCHANGED <<away, held, paid, feeHeld, settled, stale>>
  BY DEF JoinConfirmCall, At, Writes, Money, Unguarded, IInv, TypeOK
<1>2. PICK row \in RunRow : Moves(h, row) /\ row.op = "idle" /\ row.step = "none"
  BY <1>1, GoesMoves
<1>3. a \in Actors
  BY <1>1 DEF IInv, Fits, FitsRow
<1>4. Kind(a) \in Roles
  BY <1>1 DEF IInv, Fits, FitsRow
<1>5. /\ session' \in SessionRow /\ session'.status = session.status
      /\ session'.shopper = session.shopper /\ session'.rider = session.rider
      /\ session'.funded = session.funded /\ session'.callDone = session.callDone
      /\ session'.joined = session.joined \cup {Kind(a)}
  BY <1>1, <1>4 DEF IInv, TypeOK, SessionRow
<1>6. TypeOK'
  BY <1>1, <1>2, <1>5 DEF IInv, TypeOK, Moves
<1>7. Fits'
  <2>1. FitsRow(row)
    BY <1>2 DEF FitsRow, LateEnders
  <2> QED BY <1>2, <2>1, FitsKept
<1>8. Parties'
  BY <1>1, <1>2, <1>5, PartiesKept
<1>9. Called'
  <2> SUFFICES ASSUME ~Bypassed' PROVE Called'
    BY DEF Called
  <2>3. ~Bypassed
    BY <1>1 DEF Bypassed
  <2>1. a \in Riders => session.rider \in heard'
    BY <1>1, <2>3 DEF IInv, Called
  <2>2. "rider" \in session'.joined => "rider" \in session.joined \/ a \in Riders
    BY <1>3, <1>5, KindIs
  <2> QED BY <1>1, <1>2, <1>5, <2>1, <2>2, <2>3 DEF IInv, Called, Moves, SawCall
<1>10. Emptied'
  BY <1>1, <1>2, <1>5, EmptiedKept
<1>11. FeeDue'
  BY <1>1, <1>2, <1>5, FeeDueKept
<1>12. Voted'
  BY <1>1, <1>2, <1>5, VotedKept
<1> QED BY <1>6, <1>7, <1>8, <1>9, <1>10, <1>11, <1>12 DEF IInv

-----------------------------------------------------------------------------
(* The holds.                                                              *)

\* A step of the money leaves the session and the parties alone.
LEMMA MoneyInv ==
  ASSUME IInv, NEW h \in Handlers, NEW row \in RunRow, Moves(h, row), FitsRow(row),
         UNCHANGED <<session, away, heard>>,
         run[h].step \in {"ensure", "hold", "release", "payees", "payout", "refund"},
         row.op \in {"idle", run[h].op}, row.op = "idle" \/ row.by = run[h].by,
         row.step = "write" => row.op # "leave",
         row.step = "hold" => run[h].step = "ensure" /\ row.payee = run[h].payee,
         held' \in [Workers -> 0 .. MaxHolds], paid' \subseteq Workers,
         feeHeld' \in BOOLEAN, settled' \in Nat,
         stale \subseteq stale', stale' \subseteq stale \cup {"createHold"},
         Parties', Emptied', FeeDue'
  PROVE  IInv'
<1>1. TypeOK'
  BY DEF IInv, TypeOK, Moves
<1>2. Fits'
  BY FitsKept
<1>3. Called'
  BY CalledKept DEF SawCall
<1>4. Voted'
  <2>1. row.op = "leave" /\ row.by \in Shoppers => session.shopper # NoOne
    BY DEF IInv, Voted
  <2> QED BY <2>1, VotedKept
<1> QED BY <1>1, <1>2, <1>3, <1>4 DEF IInv

LEMMA EnsureInv == ASSUME IInv, NEW h \in Handlers, Ensure(h) PROVE IInv'
<1>1. /\ run[h].step = "ensure" /\ Goes(h, IF feeHeld THEN "done" ELSE "hold")
      /\ UNCHANGED <<session, away, held, paid, feeHeld, settled, heard, stale>>
  BY DEF Ensure, Money
<1>2. run[h].op # "idle" /\ FitsRow(run[h])
  BY <1>1, BusyOps
<1>3. PICK row \in RunRow :
        /\ Moves(h, row)
        /\ IF feeHeld THEN row.op = "idle" /\ row.step = "none"
           ELSE /\ row.op = run[h].op /\ row.by = run[h].by /\ row.step = "hold"
                /\ row.payee = run[h].payee
  BY <1>1, <1>2, GoesMoves
<1>4. FitsRow(row)
  BY <1>1, <1>2, <1>3 DEF FitsRow, LateEnders
<1>5. Parties'
  BY <1>1, <1>3, PartiesKept
<1>6. Emptied'
  BY <1>1, <1>3, EmptiedKept
<1>7. FeeDue'
  BY <1>1, <1>2, <1>3 DEF IInv, FeeDue, Moves
<1> QED BY <1>1, <1>3, <1>4, <1>5, <1>6, <1>7, MoneyInv DEF IInv, TypeOK

LEMMA CreateHoldInv == ASSUME IInv, NEW h \in Handlers, CreateHold(h) PROVE IInv'
<1> DEFINE w == run[h].payee
<1>1. /\ run[h].step = "hold" /\ held[w] < MaxHolds /\ Goes(h, "done")
      /\ held' = [held EXCEPT ![w] = @ + 1]
      /\ feeHeld' = (feeHeld \/ w \in Shoppers)
      /\ UNCHANGED <<session, away, paid, settled, heard>>
      /\ stale \subseteq stale' /\ stale' \subseteq stale \cup {"createHold"}
      /\ "createHold" \notin stale' => session.status \in Open /\ settled = 0
  BY DEF CreateHold
<1>2. run[h].op # "idle" /\ FitsRow(run[h])
  BY <1>1, BusyOps
<1>3. PICK row \in RunRow : Moves(h, row) /\ row.op = "idle" /\ row.step = "none"
  BY <1>1, <1>2, GoesMoves
<1>4. FitsRow(row)
  BY <1>3 DEF FitsRow, LateEnders
<1>5. w \in Workers /\ (w \in Shoppers \/ w \in Riders)
  BY <1>1, <1>2 DEF FitsRow, Workers
<1>6. /\ held' \in [Workers -> 0 .. MaxHolds]
      /\ \A v \in Workers : v # w => held'[v] = held[v]
  BY <1>1, <1>5, PartiesAssumption DEF IInv, TypeOK
<1>7. Parties'
  <2> SUFFICES ASSUME stale' \cap {"matchSession", "acceptDelivery"} = {} PROVE Parties'
    BY DEF Parties
  <2>1. stale \cap {"matchSession", "acceptDelivery"} = {}
    BY <1>1
  <2>2. w \in {session.shopper, session.rider}
    BY <1>1, <2>1 DEF IInv, Parties
  <2> QED BY <1>1, <1>3, <1>6, <2>1, <2>2 DEF IInv, Parties, Moves
<1>8. Emptied'
  <2>1. "createHold" \notin stale' => session.status # "CANCELLED" /\ settled = 0
    BY <1>1 DEF Open, Closed
  <2> QED BY <1>1, <1>3, <2>1 DEF IInv, Emptied, Moves
<1>9. FeeDue'
  BY <1>1, <1>2, <1>3 DEF IInv, FeeDue, Moves
<1> QED BY <1>1, <1>3, <1>4, <1>6, <1>7, <1>8, <1>9, MoneyInv DEF IInv, TypeOK

LEMMA ReleaseAllInv == ASSUME IInv, NEW h \in Handlers, ReleaseAll(h) PROVE IInv'
<1>1. /\ run[h].step = "release" /\ Goes(h, "done") /\ settled' = settled + 1
      /\ \/ paid' = paid \cup Holding /\ held' = [w \in Workers |-> 0]
         \/ UNCHANGED <<held, paid>>
      /\ UNCHANGED <<session, away, feeHeld, heard, stale>>
  BY DEF ReleaseAll
<1>2. run[h].op # "idle" /\ FitsRow(run[h])
  BY <1>1, BusyOps
<1>3. PICK row \in RunRow : Moves(h, row) /\ row.op = "idle" /\ row.step = "none"
  BY <1>1, <1>2, GoesMoves
<1>4. FitsRow(row)
  BY <1>3 DEF FitsRow, LateEnders
<1>5. /\ held' \in [Workers -> 0 .. MaxHolds] /\ paid' \subseteq Workers
      /\ \A w \in Workers : held'[w] > 0 \/ w \in paid' => held[w] > 0 \/ w \in paid
      /\ Holding' \subseteq Holding
  BY <1>1, PartiesAssumption DEF IInv, TypeOK, Holding
<1>6. Parties'
  BY <1>1, <1>3, <1>5, PartiesKept
<1>7. Emptied'
  <2>1. settled \in Nat
    BY DEF IInv, TypeOK
  <2> QED BY <1>1, <1>3, <1>5, <2>1 DEF IInv, Emptied, Moves
<1>8. FeeDue'
  BY <1>1, <1>3, FeeDueKept
<1> QED BY <1>1, <1>3, <1>4, <1>5, <1>6, <1>7, <1>8, MoneyInv DEF IInv, TypeOK

LEMMA PayoutInv == ASSUME IInv, NEW h \in Handlers, Payout(h) PROVE IInv'
<1>1. /\ run[h].step = "payout" /\ Goes(h, "refund")
      /\ \/ \E w \in Holding \cap Shoppers :
              held' = [held EXCEPT ![w] = @ - 1] /\ paid' = paid \cup {w}
         \/ UNCHANGED <<held, paid>>
      /\ UNCHANGED <<session, away, feeHeld, settled, heard, stale>>
  BY DEF Payout
<1>2. run[h].op # "idle" /\ FitsRow(run[h])
  BY <1>1, BusyOps
<1>3. PICK row \in RunRow : /\ Moves(h, row) /\ row.op = run[h].op /\ row.by = run[h].by
                            /\ row.step = "refund"
  BY <1>1, <1>2, GoesMoves
<1>4. FitsRow(row)
  BY <1>1, <1>2, <1>3 DEF FitsRow, LateEnders
<1>5. /\ held' \in [Workers -> 0 .. MaxHolds] /\ paid' \subseteq Workers
      /\ \A w \in Workers : held'[w] > 0 \/ w \in paid' => held[w] > 0 \/ w \in paid
      /\ Holding' \subseteq Holding
  BY <1>1, PartiesAssumption DEF IInv, TypeOK, Holding
<1>6. Parties'
  BY <1>1, <1>3, <1>5, PartiesKept
<1>7. Emptied'
  BY <1>1, <1>3, <1>5 DEF IInv, Emptied, Moves
<1>8. FeeDue'
  BY <1>1, <1>3, FeeDueKept
<1> QED BY <1>1, <1>3, <1>4, <1>5, <1>6, <1>7, <1>8, MoneyInv DEF IInv, TypeOK

LEMMA RefundInv == ASSUME IInv, NEW h \in Handlers, Refund(h) PROVE IInv'
<1> DEFINE step == IF run[h].op \in LateEnders THEN "end" ELSE "done"
<1>1. /\ run[h].step = "refund" /\ Goes(h, step) /\ settled' = settled + 1
      /\ held' = [w \in Workers |-> 0]
      /\ UNCHANGED <<session, away, paid, feeHeld, heard, stale>>
  BY DEF Refund, LateEnders
<1>2. run[h].op # "idle" /\ FitsRow(run[h])
  BY <1>1, BusyOps
<1>3. PICK row \in RunRow :
        /\ Moves(h, row)
        /\ IF run[h].op \in LateEnders
           THEN row.op = run[h].op /\ row.by = run[h].by /\ row.step = "end"
           ELSE row.op = "idle" /\ row.step = "none"
  BY <1>1, <1>2, GoesMoves
<1>4. FitsRow(row)
  BY <1>1, <1>2, <1>3 DEF FitsRow, LateEnders
<1>5. /\ held' \in [Workers -> 0 .. MaxHolds] /\ Holding' = {}
      /\ \A w \in Workers : held'[w] > 0 \/ w \in paid' => held[w] > 0 \/ w \in paid
  BY <1>1, PartiesAssumption DEF IInv, TypeOK, Holding
<1>6. Parties'
  BY <1>1, <1>3, <1>5, PartiesKept
<1>7. Emptied'
  <2>1. settled' \in Nat /\ settled' > 0
    BY <1>1 DEF IInv, TypeOK
  <2> QED BY <1>1, <1>5, <2>1 DEF Emptied
<1>8. FeeDue'
  BY <1>1, <1>3, FeeDueKept
<1>9. settled' \in Nat
  BY <1>1 DEF IInv, TypeOK
<1> QED BY <1>1, <1>3, <1>4, <1>5, <1>6, <1>7, <1>8, <1>9, MoneyInv DEF IInv, TypeOK

LEMMA ResolveHoldsInv == ASSUME IInv, NEW h \in Handlers, ResolveHolds(h) PROVE IInv'
<1>1. /\ run[h].step = "payees" /\ Goes(h, "write")
      /\ paid' = paid \cup Holding /\ held' = [w \in Workers |-> 0]
      /\ UNCHANGED <<session, away, feeHeld, settled, heard, stale>>
  BY DEF ResolveHolds
<1>2. run[h].op = "resolveTicket" /\ FitsRow(run[h])
  BY <1>1, BusyOps DEF FitsRow
<1>3. PICK row \in RunRow : /\ Moves(h, row) /\ row.op = run[h].op /\ row.by = run[h].by
                            /\ row.step = "write"
  BY <1>1, <1>2, GoesMoves
<1>4. FitsRow(row)
  BY <1>2, <1>3 DEF FitsRow, LateEnders
<1>5. /\ held' \in [Workers -> 0 .. MaxHolds] /\ paid' \subseteq Workers
      /\ \A w \in Workers : held'[w] > 0 \/ w \in paid' => held[w] > 0 \/ w \in paid
      /\ Holding' \subseteq Holding
  BY <1>1, PartiesAssumption DEF IInv, TypeOK, Holding
<1>6. Parties'
  BY <1>1, <1>3, <1>5, PartiesKept
<1>7. Emptied'
  BY <1>1, <1>3, <1>5 DEF IInv, Emptied, Moves
<1>8. FeeDue'
  BY <1>1, <1>3, FeeDueKept
<1> QED BY <1>1, <1>2, <1>3, <1>4, <1>5, <1>6, <1>7, <1>8, MoneyInv DEF IInv, TypeOK

LEMMA AutoReleaseInv == ASSUME IInv, NEW w \in Workers, AutoRelease(w) PROVE IInv'
<1>1. /\ held[w] > 0
      /\ held' = [held EXCEPT ![w] = @ - 1] /\ paid' = paid \cup {w}
      /\ UNCHANGED <<session, away, feeHeld, settled, heard, run, stale>>
  BY DEF AutoRelease
<1>2. /\ held' \in [Workers -> 0 .. MaxHolds] /\ paid' \subseteq Workers
      /\ \A v \in Workers : held'[v] > 0 \/ v \in paid' => held[v] > 0 \/ v \in paid
      /\ Holding' \subseteq Holding
  BY <1>1, PartiesAssumption DEF IInv, TypeOK, Holding
<1>3. (TypeOK /\ Fits)'
  BY <1>1, <1>2 DEF IInv, TypeOK, Fits, FitsRow
<1>4. Parties'
  BY <1>1, <1>2 DEF IInv, Parties
<1>5. Called'
  BY <1>1 DEF IInv, Called, SawCall, Bypassed
<1>6. Emptied'
  BY <1>1, <1>2 DEF IInv, Emptied
<1>7. (FeeDue /\ Voted)'
  BY <1>1 DEF IInv, FeeDue, Voted
<1> QED BY <1>3, <1>4, <1>5, <1>6, <1>7 DEF IInv

-----------------------------------------------------------------------------
(* Ends, leaving and coming back.                                          *)

LEMMA EndRefundedInv == ASSUME IInv, NEW h \in Handlers, EndRefunded(h) PROVE IInv'
<1>1. /\ run[h].step = "end" /\ Goes(h, "done")
      /\ \E p \in BOOLEAN :
           session' = [session EXCEPT !.status = "CANCELLED", !.pending = p]
      /\ UNCHANGED <<away, held, paid, feeHeld, settled, heard>>
      /\ stale \subseteq stale'
      /\ \/ stale' = stale
         \/ stale' = stale \cup {run[h].op} /\ run[h].op \in Unguarded
  BY DEF EndRefunded, Writes, Money, IInv, TypeOK, SessionRow
<1>2. run[h].op # "idle" /\ FitsRow(run[h])
  BY <1>1, BusyOps
<1>3. PICK row \in RunRow : Moves(h, row) /\ row.op = "idle" /\ row.step = "none"
  BY <1>1, <1>2, GoesMoves
<1>4. /\ session' \in SessionRow /\ session'.status = "CANCELLED"
      /\ session'.shopper = session.shopper /\ session'.rider = session.rider
      /\ session'.funded = session.funded
      /\ session'.joined = session.joined /\ session'.callDone = session.callDone
  BY <1>1 DEF IInv, TypeOK, SessionRow, SessionStatus, Closed
<1>5. TypeOK'
  BY <1>1, <1>3, <1>4 DEF IInv, TypeOK, Moves
<1>6. Fits'
  <2>1. FitsRow(row)
    BY <1>3 DEF FitsRow, LateEnders
  <2> QED BY <1>3, <2>1, FitsKept
<1>7. Parties'
  BY <1>1, <1>3, <1>4, PartiesKept
<1>8. Called'
  BY <1>1, <1>3, <1>4, CalledKept DEF SawCall, Out
<1>9. Emptied'
  <2>1. Holding' = Holding
    BY <1>1 DEF Holding
  <2>2. "createHold" \notin stale' => Holding = {}
    BY <1>1 DEF IInv, Emptied
  <2> QED BY <1>1, <1>3, <2>1, <2>2 DEF IInv, Emptied, Moves
<1>10. FeeDue'
  BY <1>1, <1>3, <1>4, FeeDueKept
<1>11. Voted'
  BY <1>1, <1>3, <1>4, VotedKept DEF NotBought
<1> QED BY <1>5, <1>6, <1>7, <1>8, <1>9, <1>10, <1>11 DEF IInv

LEMMA ResolveTicketInv == ASSUME IInv, NEW h \in Handlers, ResolveTicket(h) PROVE IInv'
<1>1. /\ run[h].op = "resolveTicket" /\ run[h].step = "write" /\ Goes(h, "done")
      /\ session' = [session EXCEPT !.status = "COMPLETED"]
      /\ stale \subseteq stale' /\ stale' \subseteq stale \cup {"resolveTicket"}
      /\ "resolveTicket" \notin stale' => session.status \in {"DELIVERED", "COMPLETED"}
      /\ UNCHANGED <<away, held, paid, feeHeld, settled, heard>>
  BY DEF ResolveTicket, At, Money
<1>2. PICK row \in RunRow : Moves(h, row) /\ row.op = "idle" /\ row.step = "none"
  BY <1>1, GoesMoves
<1>3. /\ session' \in SessionRow /\ session'.status = "COMPLETED"
      /\ session'.shopper = session.shopper /\ session'.rider = session.rider
      /\ session'.funded = session.funded
      /\ session'.joined = session.joined /\ session'.callDone = session.callDone
  BY <1>1 DEF IInv, TypeOK, SessionRow, SessionStatus, Closed
<1>4. TypeOK'
  BY <1>1, <1>2, <1>3 DEF IInv, TypeOK, Moves
<1>5. Fits'
  <2>1. FitsRow(row)
    BY <1>2 DEF FitsRow, LateEnders
  <2> QED BY <1>2, <2>1, FitsKept
<1>6. Parties'
  BY <1>1, <1>2, <1>3, PartiesKept
<1>7. Called'
  <2>1. CASE "resolveTicket" \in stale'
    BY <2>1 DEF Called, Bypassed
  <2>2. CASE "resolveTicket" \notin stale'
    <3>1. session.status \in Out
      BY <1>1, <2>2 DEF Out
    <3> QED BY <1>1, <1>2, <1>3, <3>1, CalledKept DEF SawCall
  <2> QED BY <2>1, <2>2
<1>8. Emptied'
  BY <1>1, <1>2, <1>3, EmptiedKept
<1>9. FeeDue'
  BY <1>1, <1>2, <1>3, FeeDueKept
<1>10. Voted'
  BY <1>1, <1>2, <1>3, VotedKept DEF NotBought
<1> QED BY <1>4, <1>5, <1>6, <1>7, <1>8, <1>9, <1>10 DEF IInv

LEMMA NoteAwayInv == ASSUME IInv, NEW h \in Handlers, NoteAway(h) PROVE IInv'
<1> DEFINE a == run[h].by
           drops == /\ run[h].step = "vote" /\ run[h].op = "leave"
                    /\ {"customer", "shopper"} \subseteq away'
<1>1. /\ run[h].op \in {"leave", "return"} /\ run[h].step \in {"write", "vote"}
      /\ away' = Moved(h)
      /\ Goes(h, IF drops THEN "dropTogether" ELSE "done")
      /\ UNCHANGED <<session, held, paid, feeHeld, settled, heard, stale>>
  BY DEF NoteAway, Money
<1>2. run[h].op # "idle" /\ FitsRow(run[h]) /\ a \in Actors
  BY <1>1, BusyOps DEF FitsRow
<1>3. PICK row \in RunRow :
        /\ Moves(h, row)
        /\ IF drops THEN row.op = "leave" /\ row.by = a /\ row.step = "dropTogether"
           ELSE row.op = "idle" /\ row.step = "none"
  BY <1>1, <1>2, GoesMoves
<1>4. /\ run[h].op = "leave" => away' = away \cup {Kind(a)} /\ Kind(a) \in Leavers
      /\ run[h].op = "return" => away' = away \ {Kind(a)}
  BY <1>1, <1>2 DEF Moved, FitsRow
<1> HIDE DEF drops
<1>5. TypeOK'
  BY <1>1, <1>3, <1>4 DEF IInv, TypeOK, Moves
<1>6. Fits'
  <2>1. FitsRow(row)
    BY <1>1, <1>2, <1>3 DEF FitsRow, LateEnders, drops
  <2> QED BY <1>3, <2>1, FitsKept
<1>7. (Parties /\ Emptied)'
  BY <1>1, <1>3, PartiesKept, EmptiedKept
<1>8. Called'
  BY <1>1, <1>3, CalledKept DEF SawCall
<1>9. FeeDue'
  BY <1>1, <1>3, FeeDueKept
<1>10. Voted'
  <2>1. \A q \in Handlers \ {h} : run'[q] = run[q]
    BY <1>3 DEF Moves
  <2>2. run'[h] = row
    BY <1>3 DEF Moves
  <2>3. "shopper" \in away' => session'.shopper # NoOne
    <3>1. "shopper" \in away' =>
            "shopper" \in away \/ (run[h].op = "leave" /\ a \in Shoppers)
      BY <1>1, <1>2, <1>4, KindIs
    <3> QED BY <1>1, <3>1 DEF IInv, Voted
  <2>4. \A q \in Handlers : run'[q].op = "leave" /\ run'[q].by \in Shoppers =>
          session'.shopper # NoOne
    BY <1>1, <1>3, <2>1, <2>2 DEF IInv, Voted, drops
  <2>5. ASSUME stale' \cap {"matchSession", "startCall"} = {}, NEW q \in Handlers,
               run'[q].op = "leave", run'[q].step = "write", run'[q].by \notin Riders
        PROVE  session'.status \notin NotBought
    BY <1>1, <1>3, <2>1, <2>2, <2>5 DEF IInv, Voted
  <2>6. ASSUME stale' \cap {"matchSession", "startCall"} = {},
               session'.status \in {"MATCHED", "LIVE_CALL"},
               {"customer", "shopper"} \subseteq away'
        PROVE  \E q \in Handlers : run'[q].step = "dropTogether"
    <3>1. CASE drops
      BY <1>3, <2>2, <3>1
    <3>2. CASE ~drops
      <4>1. {"customer", "shopper"} \subseteq away
        <5>1. CASE run[h].op = "return"
          BY <1>4, <2>6, <5>1
        <5>2. CASE run[h].op = "leave"
          <6>1. run[h].step = "write"
            BY <1>1, <2>6, <3>2, <5>2 DEF drops
          <6>2. a \in Riders
            BY <1>1, <2>6, <5>2, <6>1 DEF IInv, Voted, NotBought
          <6> QED BY <1>2, <1>4, <2>6, <5>2, <6>2, KindIs
        <5> QED BY <1>1, <5>1, <5>2
      <4>2. PICK q \in Handlers : run[q].step = "dropTogether"
        BY <1>1, <2>6, <4>1 DEF IInv, Voted
      <4> QED BY <1>1, <2>1, <4>2
    <3> QED BY <3>1, <3>2
  <2> QED BY <2>3, <2>4, <2>5, <2>6 DEF Voted
<1> QED BY <1>5, <1>6, <1>7, <1>8, <1>9, <1>10 DEF IInv

LEMMA DropAloneInv == ASSUME IInv, NEW h \in Handlers, DropAlone(h) PROVE IInv'
<1> DEFINE a == run[h].by
<1>1. /\ run[h].step = "dropAlone"
      /\ \/ /\ session.status \in Open
            /\ session' = [session EXCEPT !.status = "CANCELLED"] /\ Goes(h, "refund")
            /\ UNCHANGED away
         \/ session.status \notin Open /\ UNCHANGED session /\ Goes(h, "done")
            /\ away' = Moved(h)
      /\ UNCHANGED <<held, paid, feeHeld, settled, heard, stale>>
  BY DEF DropAlone, Money
<1>2. /\ run[h].op \in {"leave", "return"} /\ FitsRow(run[h]) /\ a \in Actors
      /\ run[h].op # "idle"
  BY <1>1, BusyOps DEF FitsRow
<1>3. PICK row \in RunRow :
        /\ Moves(h, row)
        /\ \/ row.op = "idle" /\ row.step = "none"
           \/ row.op = run[h].op /\ row.by = a /\ row.step = "refund"
        /\ session.status \in Open => row.step = "refund"
  BY <1>1, <1>2, GoesMoves
<1>4. /\ session' \in SessionRow /\ session'.status \in Closed
      /\ session'.status = "CANCELLED" =>
           session.status = "CANCELLED" \/ session.status \in Open
      /\ session'.shopper = session.shopper /\ session'.rider = session.rider
      /\ session'.funded = session.funded
      /\ session'.joined = session.joined /\ session'.callDone = session.callDone
      /\ session'.status \in Out => session.status \in Out
  BY <1>1 DEF IInv, TypeOK, SessionRow, SessionStatus, Closed, Open, Out
<1>5. TypeOK'
  BY <1>1, <1>2, <1>3, <1>4 DEF IInv, TypeOK, Moves, Moved, FitsRow
<1>6. Fits'
  <2>1. FitsRow(row)
    BY <1>2, <1>3 DEF FitsRow, LateEnders
  <2> QED BY <1>3, <2>1, FitsKept
<1>7. Parties'
  BY <1>1, <1>3, <1>4, PartiesKept
<1>8. Called'
  BY <1>1, <1>2, <1>3, <1>4, CalledKept DEF SawCall
<1>9. Emptied'
  BY <1>1, <1>3, <1>4, EmptiedKept
<1>10. FeeDue'
  BY <1>1, <1>3, <1>4, FeeDueKept
<1>11. Voted'
  <2>1. "shopper" \in away' => session'.shopper # NoOne
    <3>1. "shopper" \in away' =>
            "shopper" \in away \/ (run[h].op = "leave" /\ a \in Shoppers)
      BY <1>1, <1>2, KindIs DEF Moved
    <3> QED BY <1>4, <3>1 DEF IInv, Voted
  <2>2. \A q \in Handlers : run'[q].op = "leave" /\ run'[q].by \in Shoppers =>
          session'.shopper # NoOne
    BY <1>3, <1>4 DEF IInv, Voted, Moves
  <2>3. session'.status \notin NotBought /\ session'.status \notin {"MATCHED", "LIVE_CALL"}
    BY <1>4 DEF NotBought, Closed
  <2> QED BY <2>1, <2>2, <2>3 DEF Voted
<1> QED BY <1>5, <1>6, <1>7, <1>8, <1>9, <1>10, <1>11 DEF IInv

-----------------------------------------------------------------------------
LEMMA StageStepInv == ASSUME IInv, NEW h \in Handlers, StageStep(h) PROVE IInv'
<1>1. ASSUME NEW op \in Ops, NEW row, Overwrite(h, op, row),
             \/ op = "startCall" /\ row = [session EXCEPT !.status = "LIVE_CALL"]
             \/ op = "startPackaging" /\ row = [session EXCEPT !.status = "PACKAGING"]
             \/ op = "findRider" /\ row = [session EXCEPT !.status = "FINDING_RIDER"]
             \/ op = "riderArrivedCustomer" /\ row = [session EXCEPT !.arrived = TRUE]
             \/ op = "startConfirmCall" /\ row = [session EXCEPT !.joined = {}]
             \/ op = "completeConfirmCall" /\ row = [session EXCEPT !.callDone = TRUE]
             \/ op = "confirmHandover" /\ row = [session EXCEPT !.handover = TRUE]
      PROVE  IInv'
  <2>1. /\ row \in SessionRow
        /\ row.shopper = session.shopper /\ row.rider = session.rider
        /\ row.funded = session.funded
        /\ "rider" \in row.joined => "rider" \in session.joined
        /\ row.callDone => session.callDone \/ op = "completeConfirmCall"
        /\ \/ row.status = session.status
           \/ op = "startCall" /\ row.status = "LIVE_CALL"
           \/ row.status \in {"PACKAGING", "FINDING_RIDER"}
    BY <1>1 DEF IInv, TypeOK, SessionRow, SessionStatus, PreRider
  <2> QED BY <1>1, <2>1, OverwriteInv
<1>2. {"startCall", "startPackaging", "findRider", "riderArrivedCustomer", "startConfirmCall",
       "completeConfirmCall", "confirmHandover"} \subseteq Ops
  BY DEF Ops, ShopperOps, RiderOps, PartyOps
<1>3. CASE MarkOutForDelivery(h)
  BY <1>3, SwapInv DEF MarkOutForDelivery, At
<1>4. CASE MarkDelivered(h)
  BY <1>4, SwapInv DEF MarkDelivered, At
<1>5. CASE StartCall(h) \/ StartPackaging(h) \/ FindRider(h)
  BY <1>1, <1>2, <1>5 DEF StartCall, StartPackaging, FindRider
<1>6. CASE RiderArrivedCustomer(h) \/ StartConfirmCall(h)
  BY <1>1, <1>2, <1>6 DEF RiderArrivedCustomer, StartConfirmCall
<1>7. CASE CompleteConfirmCall(h) \/ ConfirmHandover(h)
  BY <1>1, <1>2, <1>7 DEF CompleteConfirmCall, ConfirmHandover
<1> QED BY <1>3, <1>4, <1>5, <1>6, <1>7, MatchSessionInv, PaySessionInv, AcceptDeliveryInv,
           PayRiderFeeTopUpInv, JoinConfirmCallInv DEF StageStep

LEMMA EndStepInv == ASSUME IInv, NEW h \in Handlers, EndStep(h) PROVE IInv'
<1>1. ASSUME NEW op \in {"requestEmergencyEnd", "declineEmergencyEnd"}, NEW p \in BOOLEAN,
             Overwrite(h, op, [session EXCEPT !.pending = p])
      PROVE  IInv'
  <2>1. op \in Ops
    BY DEF Ops, ShopperOps, CustomerOps
  <2> DEFINE row == [session EXCEPT !.pending = p]
  <2>2. /\ row \in SessionRow
        /\ row.shopper = session.shopper /\ row.rider = session.rider
        /\ row.funded = session.funded /\ row.joined = session.joined
        /\ row.callDone = session.callDone /\ row.status = session.status
    BY DEF IInv, TypeOK, SessionRow
  <2> HIDE DEF row
  <2>3. Overwrite(h, op, row)
    BY <1>1 DEF row
  <2> QED BY <2>1, <2>2, <2>3, OverwriteInv
<1>2. CASE CancelSession(h)
  BY <1>2, SwapInv DEF CancelSession, LateEnders
<1>3. CASE ConfirmSession(h) \/ FinalizeAutoReleased(h)
  BY <1>3, SwapInv DEF ConfirmSession, FinalizeAutoReleased, At
<1>4. CASE ExpireAbandoned(h)
  BY <1>4, SwapInv DEF ExpireAbandoned, At, LateEnders
<1>5. CASE DropTogether(h)
  <2>1. run[h].op \in {"leave", "return"}
    BY <1>5, BusyOps DEF DropTogether, FitsRow
  <2> QED BY <1>5, <2>1, SwapInv DEF DropTogether, LateEnders
<1>6. CASE RequestEmergencyEnd(h) \/ DeclineEmergencyEnd(h)
  BY <1>1, <1>6 DEF RequestEmergencyEnd, DeclineEmergencyEnd
<1> QED BY <1>2, <1>3, <1>4, <1>5, <1>6, EndRefundedInv, ResolveTicketInv, NoteAwayInv,
           DropAloneInv DEF EndStep

LEMMA NextIInv == IInv /\ [Next]_vars => IInv'
<1> SUFFICES ASSUME IInv, [Next]_vars PROVE IInv'
  OBVIOUS
<1>1. ASSUME NEW h \in Handlers, MoneyStep(h) PROVE IInv'
  BY <1>1, EnsureInv, CreateHoldInv, ReleaseAllInv, ResolveHoldsInv, PayoutInv, RefundInv
     DEF MoneyStep
<1>2. CASE UNCHANGED vars
  <2>1. (TypeOK /\ Fits /\ Parties /\ Emptied)'
    BY <1>2 DEF vars, IInv, TypeOK, Fits, FitsRow, Parties, Emptied, Holding
  <2>2. (Called /\ FeeDue /\ Voted)'
    BY <1>2 DEF vars, IInv, Called, SawCall, Bypassed, FeeDue, Voted
  <2> QED BY <2>1, <2>2 DEF IInv
<1> QED BY <1>1, <1>2, BeginInv, StageStepInv, EndStepInv, AutoReleaseInv DEF Next

LEMMA AlwaysIInv == Spec => []IInv
  BY InitIInv, NextIInv, PTL DEF Spec

-----------------------------------------------------------------------------
(* The theorems.                                                           *)

\* Every variable stays in its domain, for any number of handlers and parties.
THEOREM VisitTypeCorrect == Spec => []TypeOK
<1>1. IInv => TypeOK
  BY DEF IInv
<1> QED BY <1>1, AlwaysIInv, PTL

\* Holds and payouts are for the two that are on the session, unless two have taken it
\* on the same read (matchSession, acceptDelivery).
THEOREM MoneyForTheParty == Spec => []HeldForTheParty
<1>1. IInv => HeldForTheParty
  BY DEF IInv, Parties, HeldForTheParty
<1> QED BY <1>1, AlwaysIInv, PTL

\* No goods leave with a rider that has not been on the confirm call, unless the rider
\* took the session from another by a stale acceptDelivery, or a ticket completed it.
THEOREM GoodsAfterTheCall == Spec => []GoodsFollowTheCall
<1>1. IInv => GoodsFollowTheCall
  BY DEF IInv, Called, Bypassed, GoodsFollowTheCall, Out
<1> QED BY <1>1, AlwaysIInv, PTL

\* When the handlers are done, a cancelled session has no hold left for the sweep of
\* escrow, unless a hold was made after its money was settled.
THEOREM CancelledIsEmpty == Spec => []EndedHoldsNothing
<1>1. IInv => EndedHoldsNothing
  BY DEF IInv, Emptied, EndedHoldsNothing, Quiet, Idle
<1> QED BY <1>1, AlwaysIInv, PTL

\* Paid for and taken, in either order: the shopper's fee is held.
THEOREM FeeSecured == Spec => []FeeIsHeld
<1>1. IInv => FeeIsHeld
  BY DEF IInv, FeeDue, FeeIsHeld, Quiet, Idle
<1> QED BY <1>1, AlwaysIInv, PTL

\* No session waits for a customer and a shopper that are both away.
THEOREM NobodyLeftWaiting == Spec => []BothAwayEnds
<1>1. IInv => BothAwayEnds
  BY DEF IInv, Voted, BothAwayEnds, Quiet, Idle
<1> QED BY <1>1, AlwaysIInv, PTL

-----------------------------------------------------------------------------
(* Every write is a step of the journey, until a stale one, or a ticket.   *)

Guided ==
  \/ stale' \cap (Unguarded \cup {"resolveTicket"}) # {}
  \/ [Journey!Next]_(Journey!journeyVars)

LEMMA SwapGuided ==
  ASSUME IInv, NEW h \in Handlers, NEW from, NEW to, NEW step, Swap(h, from, to, step),
         \/ from = {"RIDER_ASSIGNED"} /\ to = "OUT_FOR_DELIVERY"
         \/ from = {"OUT_FOR_DELIVERY"} /\ to = "DELIVERED"
         \/ from = {"DELIVERED"} /\ to = "COMPLETED"
         \/ from = Open /\ to = "CANCELLED"
  PROVE  Guided
<1>1. CASE session.status \notin from
  BY <1>1 DEF Swap, Guided, Journey!journeyVars
<1>2. CASE session.status \in from
  <2>1. /\ session'.status = to /\ session'.shopper = session.shopper
        /\ session'.rider = session.rider
    BY <1>2 DEF Swap, IInv, TypeOK, SessionRow
  <2>2. CASE from = Open
    <3>1. session.status \notin Closed /\ to = "CANCELLED"
      <4>1. "SEARCHING" \in Open
        BY DEF Open, Closed, SessionStatus
      <4> QED BY <1>2, <2>2, <4>1 DEF Open
    <3>2. Journey!Cancel
      BY <2>1, <3>1 DEF Journey!Cancel, Closed
    <3> QED BY <3>2 DEF Guided, Journey!Next
  <2>3. CASE from # Open
    <3>1. Journey!Advance
      BY <1>2, <2>1, <2>3 DEF Journey!Advance, Journey!Onward
    <3> QED BY <3>1 DEF Guided, Journey!Next
  <2> QED BY <2>2, <2>3
<1> QED BY <1>1, <1>2

\* The handlers that write by id: fresh, or noted in "stale".
LEMMA WriteGuided ==
  ASSUME IInv, NEW h \in Handlers, NEW row, Writes(h, row), run[h].op \in Ops,
         Fresh(h) \/ run[h].op \notin Unguarded =>
           [Journey!Next]_(Journey!journeyVars)
  PROVE  Guided
BY DEF Writes, Guided

LEMMA StageGuided == ASSUME IInv, NEW h \in Handlers, StageStep(h) PROVE Guided
<1> USE DEF Ops, ShopperOps, RiderOps, CustomerOps, PartyOps
<1>1. CASE MatchSession(h)
  <2>1. /\ run[h].op = "matchSession" /\ run[h].op \in Ops
        /\ session' = [session EXCEPT !.status = "MATCHED", !.shopper = run[h].by]
    BY <1>1 DEF MatchSession, At, Writes
  <2>2. /\ session'.status = "MATCHED" /\ session'.shopper = run[h].by
        /\ session'.rider = session.rider /\ run[h].by \in Shoppers
    BY <2>1 DEF IInv, TypeOK, SessionRow, Fits, FitsRow
  <2>3. ASSUME Fresh(h) PROVE Journey!Match
    BY <2>1, <2>2, <2>3, FreshMeans DEF Journey!Match
  <2> QED BY <1>1, <2>1, <2>3, WriteGuided DEF MatchSession, Journey!Next, Unguarded
<1>2. CASE AcceptDelivery(h)
  <2>1. /\ run[h].op = "acceptDelivery" /\ run[h].op \in Ops
        /\ session' = [session EXCEPT !.status = "RIDER_ASSIGNED", !.rider = run[h].by]
    BY <1>2 DEF AcceptDelivery, At, Writes
  <2>2. /\ session'.status = "RIDER_ASSIGNED" /\ session'.rider = run[h].by
        /\ session'.shopper = session.shopper /\ run[h].by \in Riders
    BY <2>1 DEF IInv, TypeOK, SessionRow, Fits, FitsRow
  <2>3. ASSUME Fresh(h) PROVE Journey!Assign
    BY <2>1, <2>2, <2>3, FreshMeans DEF Journey!Assign
  <2> QED BY <1>2, <2>1, <2>3, WriteGuided DEF AcceptDelivery, Journey!Next, Unguarded
<1>3. ASSUME NEW op \in Ops, NEW to, Overwrite(h, op, [session EXCEPT !.status = to]),
             \/ op = "startCall" /\ to = "LIVE_CALL"
             \/ op = "startPackaging" /\ to = "PACKAGING"
             \/ op = "findRider" /\ to = "FINDING_RIDER"
      PROVE  Guided
  <2>1. run[h].op = op /\ session' = [session EXCEPT !.status = to]
        /\ Writes(h, [session EXCEPT !.status = to])
    BY <1>3 DEF Overwrite, At, Writes
  <2>2. /\ session'.status = to /\ session'.shopper = session.shopper
        /\ session'.rider = session.rider
    BY <2>1 DEF IInv, TypeOK, SessionRow
  <2>3. ASSUME Fresh(h) PROVE Journey!Advance
    <3>1. /\ op = "startCall" => session.status = "MATCHED"
          /\ op = "startPackaging" => session.status = "LIVE_CALL"
          /\ op = "findRider" => session.status = "PACKAGING"
      BY <2>1, <2>3, FreshMeans
    <3> QED BY <1>3, <2>2, <3>1 DEF Journey!Advance, Journey!Onward
  <2> QED BY <1>3, <2>1, <2>3, WriteGuided DEF Journey!Next, Unguarded
<1>4. CASE StartCall(h) \/ StartPackaging(h) \/ FindRider(h)
  BY <1>3, <1>4 DEF StartCall, StartPackaging, FindRider
<1>7. CASE PayRiderFeeTopUp(h)
  <2> DEFINE row == [session EXCEPT !.status = "FINDING_RIDER"]
  <2>1. run[h].op = "payRiderFeeTopUp" /\ Writes(h, row) /\ session' = row
    BY <1>7 DEF PayRiderFeeTopUp, At, Writes
  <2>2. /\ session'.status = "FINDING_RIDER" /\ session'.shopper = session.shopper
        /\ session'.rider = session.rider
    BY <2>1 DEF IInv, TypeOK, SessionRow
  <2>3. ASSUME Fresh(h) PROVE Journey!Advance
    BY <2>1, <2>2, <2>3, FreshMeans DEF Journey!Advance, Journey!Onward
  <2> HIDE DEF row
  <2> QED BY <2>1, <2>3, WriteGuided DEF Journey!Next, Unguarded
<1>5. CASE MarkOutForDelivery(h) \/ MarkDelivered(h)
  BY <1>5, SwapGuided DEF MarkOutForDelivery, MarkDelivered
<1>6. CASE \/ PaySession(h) \/ RiderArrivedCustomer(h) \/ StartConfirmCall(h)
           \/ JoinConfirmCall(h) \/ CompleteConfirmCall(h) \/ ConfirmHandover(h)
  <2>1. UNCHANGED Journey!journeyVars
    BY <1>6 DEF PaySession, RiderArrivedCustomer, StartConfirmCall, JoinConfirmCall,
                CompleteConfirmCall, ConfirmHandover, Overwrite, Writes, Journey!journeyVars,
                IInv, TypeOK, SessionRow
  <2> QED BY <2>1 DEF Guided
<1> QED BY <1>1, <1>2, <1>4, <1>5, <1>6, <1>7 DEF StageStep

LEMMA EndGuided == ASSUME IInv, NEW h \in Handlers, EndStep(h) PROVE Guided
<1>1. CASE EndRefunded(h)
  <2> DEFINE row == [session EXCEPT !.status = "CANCELLED",
                      !.pending = IF run[h].op = "confirmEmergencyEnd" THEN FALSE ELSE @]
  <2>1. /\ run[h].op \in LateEnders /\ run[h].op \in Ops
        /\ Writes(h, row) /\ session' = row
    BY <1>1, BusyOps DEF EndRefunded, FitsRow, LateEnders, Ops, CustomerOps, SystemOps, Writes
  <2>2. /\ session'.status = "CANCELLED" /\ session'.shopper = session.shopper
        /\ session'.rider = session.rider
    BY <2>1 DEF IInv, TypeOK, SessionRow
  <2>3. ASSUME Fresh(h) PROVE Journey!Cancel
    <3>1. session.status \in {"SEARCHING", "LIVE_CALL"} \cup PreRider \cup PostRider
      BY <2>1, <2>3, FreshMeans DEF LateEnders
    <3> QED BY <2>2, <3>1 DEF Journey!Cancel, PreRider, PostRider
  <2> HIDE DEF row
  <2> QED BY <2>1, <2>3, WriteGuided DEF Journey!Next, Unguarded, LateEnders
<1>2. CASE CancelSession(h) \/ ExpireAbandoned(h) \/ DropTogether(h)
  BY <1>2, SwapGuided DEF CancelSession, ExpireAbandoned, DropTogether
<1>3. CASE ConfirmSession(h) \/ FinalizeAutoReleased(h)
  BY <1>3, SwapGuided DEF ConfirmSession, FinalizeAutoReleased
<1>4. CASE DropAlone(h)
  <2>1. CASE session.status \in Open
    <3>1. /\ session'.status = "CANCELLED" /\ session'.shopper = session.shopper
          /\ session'.rider = session.rider
      BY <1>4, <2>1 DEF DropAlone, IInv, TypeOK, SessionRow
    <3> QED BY <2>1, <3>1 DEF Guided, Journey!Next, Journey!Cancel, Open, Closed
  <2>2. CASE session.status \notin Open
    BY <1>4, <2>2 DEF DropAlone, Guided, Journey!journeyVars
  <2> QED BY <2>1, <2>2
<1>5. CASE RequestEmergencyEnd(h) \/ DeclineEmergencyEnd(h) \/ NoteAway(h)
  <2>1. UNCHANGED Journey!journeyVars
    BY <1>5 DEF RequestEmergencyEnd, DeclineEmergencyEnd, NoteAway, Overwrite, Writes,
                Journey!journeyVars, IInv, TypeOK, SessionRow
  <2> QED BY <2>1 DEF Guided
<1>6. CASE ResolveTicket(h)
  <2>1. /\ session'.status = "COMPLETED" /\ session'.shopper = session.shopper
        /\ session'.rider = session.rider
    BY <1>6 DEF ResolveTicket, IInv, TypeOK, SessionRow
  <2>2. CASE session.status = "DELIVERED"
    BY <2>1, <2>2 DEF Guided, Journey!Next, Journey!Advance, Journey!Onward
  <2>3. CASE session.status = "COMPLETED"
    BY <2>1, <2>3 DEF Guided, Journey!journeyVars
  <2>4. CASE session.status \notin {"DELIVERED", "COMPLETED"}
    BY <1>6, <2>4 DEF ResolveTicket, Guided
  <2> QED BY <2>2, <2>3, <2>4
<1> QED BY <1>1, <1>2, <1>3, <1>4, <1>5, <1>6 DEF EndStep

LEMMA NextGuided == ASSUME IInv, [Next]_vars PROVE Guided
<1>1. ASSUME UNCHANGED session PROVE Guided
  BY <1>1 DEF Guided, Journey!journeyVars
<1>2. ASSUME NEW h \in Handlers, Begin(h) \/ MoneyStep(h) PROVE UNCHANGED session
  BY <1>2 DEF Begin, MoneyStep, Ensure, CreateHold, ReleaseAll, ResolveHolds, Payout, Refund
<1>3. ASSUME NEW w \in Workers, AutoRelease(w) PROVE UNCHANGED session
  BY <1>3 DEF AutoRelease
<1> QED BY <1>1, <1>2, <1>3, StageGuided, EndGuided DEF Next, vars

\* However handlers overlap, the session goes through the stages of ShopJourney, until
\* one that writes by id alone does so on a read that no longer holds, or a ticket
\* completes a session that has not been delivered.
THEOREM FollowsTheJourney == Spec => JourneyUnlessStale
<1>1. Init => Journey!Init
  BY DEF Init, Journey!Init
<1>2. IInv /\ [Next]_vars =>
        [stale' \cap (Unguarded \cup {"resolveTicket"}) # {} \/ Journey!Next]_(
           Journey!journeyVars)
  BY NextGuided DEF Guided
<1> QED BY <1>1, <1>2, AlwaysIInv, PTL DEF Spec, JourneyUnlessStale

-----------------------------------------------------------------------------
(* The money is settled once.  Until a stale write, the settlements made   *)
(* and those on the way (Committing) are at most as many as the session's  *)
(* end, or the ends that are still to be written (Ending); fewer only when *)
(* a ticket has completed the session, which settles nothing.              *)

Unshaken == stale \cap Unguarded = {}

Commits(r) == r.step \in {"payout", "refund", "release"} /\ r.op \notin LateEnders
Committing == {h \in Handlers : Commits(run[h])}
Ending == {h \in Handlers : run[h].step = "end"}
Over == IF session.status \in {"CANCELLED", "COMPLETED"} THEN 1 ELSE 0

Settling ==
  Unshaken => settled + Cardinality(Committing) <= Cardinality(Ending) + Over

\* What a handler in progress counts for.
Weight(r) == IF Commits(r) THEN 1 ELSE IF r.step = "end" THEN 0 - 1 ELSE 0

Only(h) == \A q \in Handlers \ {h} : run'[q] = run[q]

LEMMA OneMoves ==
  ASSUME NEW S \in SUBSET Handlers, NEW T \in SUBSET Handlers, NEW h \in Handlers,
         S \ {h} = T \ {h}
  PROVE  /\ Cardinality(S) \in Nat /\ Cardinality(T) \in Nat
         /\ Cardinality(T) + (IF h \in S THEN 1 ELSE 0)
              = Cardinality(S) + (IF h \in T THEN 1 ELSE 0)
<1> DEFINE R == S \ {h}
<1>1. IsFiniteSet(R) /\ IsFiniteSet(S) /\ IsFiniteSet(T)
  BY FS_Subset, PartiesAssumption
<1>2. Cardinality(R) \in Nat /\ Cardinality(S) \in Nat /\ Cardinality(T) \in Nat
  BY <1>1, FS_CardinalityType
<1>3. h \notin R /\ Cardinality(R \cup {h}) = Cardinality(R) + 1
  BY <1>1, FS_AddElement
<1>4. /\ S = IF h \in S THEN R \cup {h} ELSE R
      /\ T = IF h \in T THEN R \cup {h} ELSE R
  OBVIOUS
<1>5. Cardinality(S) = Cardinality(R) + (IF h \in S THEN 1 ELSE 0)
  BY <1>2, <1>3, <1>4
<1>6. Cardinality(T) = Cardinality(R) + (IF h \in T THEN 1 ELSE 0)
  <2>1. CASE h \in T
    BY <1>3, <1>4, <2>1
  <2>2. CASE h \notin T
    BY <1>2, <1>4, <2>2
  <2> QED BY <2>1, <2>2
<1> HIDE DEF R
<1> QED BY <1>2, <1>5, <1>6

LEMMA SettlingKept ==
  ASSUME IInv, Settling, settled' \in Nat, NEW h \in Handlers, Only(h),
         Unshaken' => /\ Unshaken
                      /\ settled' + Weight(run'[h]) - Over'
                           <= settled + Weight(run[h]) - Over
  PROVE  Settling'
<1> SUFFICES ASSUME Unshaken' PROVE Settling'
  BY DEF Settling
<1> DEFINE c == Cardinality(Committing)
           d == Cardinality(Committing')
           e == Cardinality(Ending)
           f == Cardinality(Ending')
<1>1. Committing \ {h} = Committing' \ {h} /\ Ending \ {h} = Ending' \ {h}
  BY DEF Only, Committing, Ending, Commits
<1>2. /\ c \in Nat /\ d \in Nat
      /\ d + (IF h \in Committing THEN 1 ELSE 0) = c + (IF h \in Committing' THEN 1 ELSE 0)
  BY <1>1, OneMoves DEF Committing
<1>3. /\ e \in Nat /\ f \in Nat
      /\ f + (IF h \in Ending THEN 1 ELSE 0) = e + (IF h \in Ending' THEN 1 ELSE 0)
  BY <1>1, OneMoves DEF Ending
<1>4. /\ h \in Committing <=> Commits(run[h])
      /\ h \in Committing' <=> Commits(run'[h])
      /\ h \in Ending <=> run[h].step = "end"
      /\ h \in Ending' <=> run'[h].step = "end"
  BY DEF Committing, Ending, Commits
<1>5. /\ Weight(run[h]) = (IF h \in Committing THEN 1 ELSE 0) - (IF h \in Ending THEN 1 ELSE 0)
      /\ Weight(run'[h]) =
           (IF h \in Committing' THEN 1 ELSE 0) - (IF h \in Ending' THEN 1 ELSE 0)
  BY <1>4 DEF Weight, Commits
<1>6. settled \in Nat /\ Over \in 0 .. 1 /\ Over' \in 0 .. 1
  BY DEF IInv, TypeOK, Over
<1> DEFINE m == settled
           n == settled'
           o == Over
           p == Over'
           x == IF h \in Committing THEN 1 ELSE 0
           y == IF h \in Committing' THEN 1 ELSE 0
           z == IF h \in Ending THEN 1 ELSE 0
           w == IF h \in Ending' THEN 1 ELSE 0
<1>7. m + c <= e + o
  BY DEF Settling
<1>8. n + (y - w) - p <= m + (x - z) - o
  BY <1>5
<1>9. d + x = c + y /\ f + z = e + w
  BY <1>2, <1>3
<1>10. /\ c \in Int /\ d \in Int /\ e \in Int /\ f \in Int
       /\ m \in Int /\ n \in Int /\ o \in Int /\ p \in Int
       /\ x \in Int /\ y \in Int /\ z \in Int /\ w \in Int
  BY <1>2, <1>3, <1>6
<1> HIDE DEF c, d, e, f, m, n, o, p, x, y, z, w
<1>11. n + d <= f + p
  BY <1>7, <1>8, <1>9, <1>10
<1> QED BY <1>11 DEF Settling, d, f, n, p

LEMMA InitSettling == Init => Settling
<1> SUFFICES ASSUME Init PROVE Settling
  OBVIOUS
<1>1. Committing = {} /\ Ending = {}
  BY DEF Init, Committing, Ending, Commits, Idle
<1>2. Over = 0 /\ settled = 0
  BY DEF Init, Over
<1> QED BY <1>1, <1>2, FS_EmptySet DEF Settling

\* A handler that has not come to the money, or has done with it, counts for nothing.
LEMMA NoWeight ==
  ASSUME NEW r, \/ r.step \in {"none", "write", "vote", "dropAlone", "dropTogether",
                               "ensure", "hold"}
                \/ r.step = "payees"
                \/ r.op \in LateEnders /\ r.step # "end"
  PROVE  Weight(r) = 0
BY DEF Weight, Commits

\* A handler that leaves the end of the session as it is, before its money or after.
LEMMA Weightless ==
  ASSUME IInv, Settling, NEW h \in Handlers, Only(h), settled' = settled,
         Weight(run[h]) = 0, Weight(run'[h]) = 0,
         Unshaken' => Unshaken /\ Over <= Over'
  PROVE  Settling'
<1>1. settled' \in Nat /\ Over \in Nat /\ Over' \in Nat
  BY DEF IInv, TypeOK, Over
<1>2. Unshaken' => /\ Unshaken
                   /\ settled' + Weight(run'[h]) - Over' <= settled + Weight(run[h]) - Over
  BY <1>1
<1> QED BY <1>1, <1>2, SettlingKept

\* A handler that is done, or goes on.
LEMMA GoesOnly ==
  ASSUME IInv, NEW h \in Handlers, run[h].op # "idle",
         NEW step \in {"done", "vote", "dropTogether", "hold", "release", "payout",
                       "refund", "end", "write"},
         Goes(h, step)
  PROVE  /\ Only(h)
         /\ IF step = "done" THEN run'[h].op = "idle" /\ run'[h].step = "none"
            ELSE run'[h].op = run[h].op /\ run'[h].step = step
<1>1. PICK row \in RunRow :
        /\ Moves(h, row)
        /\ IF step = "done" THEN row.op = "idle" /\ row.step = "none"
           ELSE row.op = run[h].op /\ row.step = step
  BY GoesMoves
<1> QED BY <1>1 DEF Only, Moves

LEMMA BeginSettles == ASSUME IInv, Settling, NEW h \in Handlers, Begin(h) PROVE Settling'
<1>1. PICK op \in Ops, a \in Actors :
        /\ May(op, a)
        /\ run' = [run EXCEPT ![h] = [op |-> op, by |-> a, step |-> FirstStep(op, a),
                                     status |-> IF op \in Unguarded
                                                THEN session.status ELSE "unread",
                                     payee |-> NoOne]]
  BY DEF Begin
<1>2. run[h].step = "none" /\ UNCHANGED <<session, settled, stale>>
  BY DEF Begin, Idle
<1>3. Only(h) /\ run'[h].op = op /\ run'[h].step = FirstStep(op, a)
  BY <1>1 DEF Only, IInv, TypeOK
<1>4. /\ FirstStep(op, a) \in {"write", "vote", "dropAlone", "refund", "payout", "payees"}
      /\ op \in LateEnders <=> FirstStep(op, a) \in {"refund", "payout"}
  BY <1>1, FirstSteps DEF IInv
<1>5. Weight(run[h]) = 0
  BY <1>2, NoWeight
<1>6. Weight(run'[h]) = 0
  BY <1>3, <1>4, NoWeight
<1>7. Over <= Over' /\ (Unshaken' => Unshaken)
  BY <1>2 DEF Over, Unshaken
<1> QED BY <1>2, <1>3, <1>5, <1>6, <1>7, Weightless

\* A write by id, of an open session or of none of its status.
LEMMA WriteSettles ==
  ASSUME IInv, Settling, NEW h \in Handlers, NEW row, Only(h),
         Writes(h, row), run[h].step = "write",
         run'[h].step \in {"none", "write", "ensure", "hold"},
         \/ row.status = session.status
         \/ /\ run[h].op \in Unguarded /\ row.status \notin {"CANCELLED", "COMPLETED"}
            /\ Fresh(h) => session.status \notin {"CANCELLED", "COMPLETED"}
  PROVE  Settling'
<1>1. session' = row /\ settled' = settled /\ stale \subseteq stale'
      /\ (run[h].op \in Unguarded /\ ~Fresh(h) => run[h].op \in stale')
  BY DEF Writes, Money
<1>2. Unshaken' => Unshaken /\ Over <= Over'
  BY <1>1 DEF Unshaken, Over
<1>3. Weight(run[h]) = 0 /\ Weight(run'[h]) = 0
  BY NoWeight
<1> QED BY <1>1, <1>2, <1>3, Weightless

LEMMA OverwriteSettles ==
  ASSUME IInv, Settling, NEW h \in Handlers, NEW op \in Ops, NEW row, Overwrite(h, op, row),
         \/ row.status = session.status
         \/ /\ op \in {"startCall", "startPackaging", "findRider"}
            /\ row.status \notin {"CANCELLED", "COMPLETED"}
  PROVE  Settling'
<1>1. /\ run[h].op = op /\ run[h].step = "write" /\ run[h].op # "idle"
      /\ Goes(h, "done") /\ Writes(h, row)
  BY DEF Overwrite, At, Ops, ShopperOps, RiderOps, CustomerOps, PartyOps, SystemOps
<1>2. Only(h) /\ run'[h].step = "none"
  BY <1>1, GoesOnly
<1>3. op \in {"startCall", "startPackaging", "findRider"} =>
        /\ op \in Unguarded
        /\ Fresh(h) => session.status \notin {"CANCELLED", "COMPLETED"}
  BY <1>1, FreshMeans DEF Unguarded
<1> QED BY <1>1, <1>2, <1>3, WriteSettles

\* A status written where it still is what the handler read: whoever ends the session
\* settles it.
LEMMA SwapSettles ==
  ASSUME IInv, Settling, NEW h \in Handlers, run[h].op # "idle", NEW from, NEW to, NEW step,
         Swap(h, from, to, step), run[h].step \in {"write", "dropTogether"},
         \/ from = {"RIDER_ASSIGNED"} /\ to = "OUT_FOR_DELIVERY" /\ step = "done"
         \/ from = {"OUT_FOR_DELIVERY"} /\ to = "DELIVERED" /\ step = "done"
         \/ /\ run[h].op \notin LateEnders
            /\ \/ from = {"DELIVERED"} /\ to = "COMPLETED" /\ step = "release"
               \/ from = Open /\ to = "CANCELLED" /\ step \in {"payout", "refund"}
  PROVE  Settling'
<1>1. settled' = settled /\ settled' \in Nat /\ (Unshaken' => Unshaken)
  BY DEF Swap, Money, Unshaken, IInv, TypeOK
<1>2. Weight(run[h]) = 0
  BY NoWeight
<1>3. CASE session.status \notin from
  <2>1. UNCHANGED session /\ Goes(h, "done")
    BY <1>3 DEF Swap
  <2>2. Only(h) /\ run'[h].step = "none"
    BY <2>1, GoesOnly
  <2>3. Weight(run'[h]) = 0 /\ Over <= Over'
    BY <2>1, <2>2, NoWeight DEF Over
  <2> QED BY <1>1, <1>2, <2>2, <2>3, Weightless
<1>4. CASE session.status \in from
  <2>1. session'.status = to /\ Goes(h, step)
    BY <1>4 DEF Swap, IInv, TypeOK, SessionRow
  <2>2. step \in {"done", "release", "payout", "refund"}
    OBVIOUS
  <2>3. /\ Only(h)
        /\ IF step = "done" THEN run'[h].op = "idle" /\ run'[h].step = "none"
           ELSE run'[h].op = run[h].op /\ run'[h].step = step
    BY <2>1, <2>2, GoesOnly
  <2>4. session.status \notin {"CANCELLED", "COMPLETED"} /\ Over = 0
    BY <1>4 DEF Over, Open, Closed
  <2>5. CASE step = "done"
    <3>1. Over' = 0
      BY <2>1, <2>5 DEF Over
    <3>2. Weight(run'[h]) = 0
      BY <2>3, <2>5, NoWeight
    <3> QED BY <1>1, <1>2, <2>3, <2>4, <3>1, <3>2, Weightless
  <2>6. CASE step # "done"
    <3>1. Over' = 1
      BY <2>1, <2>6 DEF Over
    <3>2. Weight(run'[h]) = 1
      BY <2>2, <2>3, <2>6 DEF Weight, Commits
    <3>3. settled \in Nat
      BY <1>1
    <3>4. settled' + Weight(run'[h]) - Over' <= settled + Weight(run[h]) - Over
      BY <1>1, <1>2, <2>4, <3>1, <3>2, <3>3
    <3> QED BY <1>1, <2>3, <3>4, SettlingKept
  <2> QED BY <2>5, <2>6
<1> QED BY <1>3, <1>4

LEMMA StageSettles ==
  ASSUME IInv, Settling, NEW h \in Handlers, StageStep(h) PROVE Settling'
<1> USE DEF Ops, ShopperOps, RiderOps, CustomerOps, PartyOps
<1>1. CASE MatchSession(h)
  <2> DEFINE row == [session EXCEPT !.status = "MATCHED", !.shopper = run[h].by]
  <2>1. /\ run[h].op = "matchSession" /\ run[h].step = "write" /\ Writes(h, row)
        /\ row.status = "MATCHED"
    BY <1>1 DEF MatchSession, At, IInv, TypeOK, SessionRow
  <2>2. Only(h) /\ run'[h].step \in {"none", "ensure"}
    BY <1>1 DEF MatchSession, Only, IInv, TypeOK, RunRow, Idle
  <2>3. Fresh(h) => session.status = "SEARCHING"
    BY <2>1, FreshMeans
  <2> HIDE DEF row
  <2> QED BY <2>1, <2>2, <2>3, WriteSettles DEF Unguarded
<1>2. CASE AcceptDelivery(h)
  <2> DEFINE row == [session EXCEPT !.status = "RIDER_ASSIGNED", !.rider = run[h].by]
  <2>1. /\ run[h].op = "acceptDelivery" /\ run[h].step = "write" /\ Writes(h, row)
        /\ row.status = "RIDER_ASSIGNED"
    BY <1>2 DEF AcceptDelivery, At, IInv, TypeOK, SessionRow
  <2>2. Only(h) /\ run'[h].step = "hold"
    BY <1>2 DEF AcceptDelivery, Only, IInv, TypeOK, RunRow
  <2>3. Fresh(h) => session.status = "FINDING_RIDER"
    BY <2>1, FreshMeans
  <2> HIDE DEF row
  <2> QED BY <2>1, <2>2, <2>3, WriteSettles DEF Unguarded
<1>3. CASE PaySession(h)
  <2> DEFINE row == [session EXCEPT !.funded = TRUE]
  <2>1. /\ run[h].op = "paySession" /\ run[h].step = "write" /\ Writes(h, row)
        /\ row.status = session.status
    BY <1>3 DEF PaySession, At, IInv, TypeOK, SessionRow
  <2>2. Only(h) /\ run'[h].step \in {"none", "ensure"}
    BY <1>3 DEF PaySession, Only, IInv, TypeOK, RunRow, Idle
  <2> HIDE DEF row
  <2> QED BY <2>1, <2>2, WriteSettles
<1>4. CASE JoinConfirmCall(h)
  <2> DEFINE row == [session EXCEPT !.joined = @ \cup {Kind(run[h].by)}]
  <2>1. /\ run[h].op = "joinConfirmCall" /\ run[h].step = "write" /\ Writes(h, row)
        /\ row.status = session.status /\ Goes(h, "done")
    BY <1>4 DEF JoinConfirmCall, At, IInv, TypeOK, SessionRow
  <2>2. Only(h) /\ run'[h].step = "none"
    BY <2>1, GoesOnly
  <2> HIDE DEF row
  <2> QED BY <2>1, <2>2, WriteSettles
<1>5. ASSUME NEW op \in Ops, NEW row, Overwrite(h, op, row),
             \/ op = "startCall" /\ row = [session EXCEPT !.status = "LIVE_CALL"]
             \/ op = "startPackaging" /\ row = [session EXCEPT !.status = "PACKAGING"]
             \/ op = "findRider" /\ row = [session EXCEPT !.status = "FINDING_RIDER"]
             \/ row = [session EXCEPT !.arrived = TRUE]
             \/ row = [session EXCEPT !.joined = {}]
             \/ row = [session EXCEPT !.callDone = TRUE]
             \/ row = [session EXCEPT !.handover = TRUE]
      PROVE  Settling'
  <2>1. \/ row.status = session.status
        \/ /\ op \in {"startCall", "startPackaging", "findRider"}
           /\ row.status \notin {"CANCELLED", "COMPLETED"}
    BY <1>5 DEF IInv, TypeOK, SessionRow
  <2> QED BY <1>5, <2>1, OverwriteSettles
<1>6. CASE StartCall(h) \/ StartPackaging(h) \/ FindRider(h) \/ RiderArrivedCustomer(h)
  BY <1>5, <1>6 DEF StartCall, StartPackaging, FindRider, RiderArrivedCustomer
<1>7. CASE StartConfirmCall(h) \/ CompleteConfirmCall(h) \/ ConfirmHandover(h)
  BY <1>5, <1>7 DEF StartConfirmCall, CompleteConfirmCall, ConfirmHandover
<1>8. CASE MarkOutForDelivery(h) \/ MarkDelivered(h)
  BY <1>8, SwapSettles DEF MarkOutForDelivery, MarkDelivered, At
<1>9. CASE PayRiderFeeTopUp(h)
  <2> DEFINE row == [session EXCEPT !.status = "FINDING_RIDER"]
  <2>1. /\ run[h].op = "payRiderFeeTopUp" /\ run[h].step = "write" /\ Writes(h, row)
        /\ row.status = "FINDING_RIDER"
        /\ Goes(h, "done") \/ UNCHANGED run
    BY <1>9 DEF PayRiderFeeTopUp, At, IInv, TypeOK, SessionRow
  <2>2. Only(h) /\ run'[h].step \in {"none", "write"}
    <3>1. CASE Goes(h, "done")
      BY <2>1, <3>1, GoesOnly
    <3>2. CASE UNCHANGED run
      BY <2>1, <3>2 DEF Only
    <3> QED BY <2>1, <3>1, <3>2
  <2>3. Fresh(h) => session.status = "PACKAGING"
    BY <2>1, FreshMeans
  <2> HIDE DEF row
  <2> QED BY <2>1, <2>2, <2>3, WriteSettles DEF Unguarded
<1> QED BY <1>1, <1>2, <1>3, <1>4, <1>6, <1>7, <1>8, <1>9 DEF StageStep

LEMMA EndSettles ==
  ASSUME IInv, Settling, NEW h \in Handlers, EndStep(h) PROVE Settling'
<1>1. CASE EndRefunded(h)
  <2> DEFINE row == [session EXCEPT !.status = "CANCELLED",
                      !.pending = IF run[h].op = "confirmEmergencyEnd" THEN FALSE ELSE @]
  <2>1. /\ run[h].step = "end" /\ run[h].op \in LateEnders /\ run[h].op \in Ops
        /\ Writes(h, row) /\ Goes(h, "done") /\ row.status = "CANCELLED"
        /\ run[h].op # "idle"
    BY <1>1, BusyOps DEF EndRefunded, FitsRow, LateEnders, Ops, CustomerOps, SystemOps, IInv,
                         TypeOK, SessionRow
  <2>2. Only(h) /\ run'[h].step = "none"
    BY <2>1, GoesOnly
  <2>3. Weight(run[h]) = 0 - 1 /\ Weight(run'[h]) = 0
    BY <2>1, <2>2 DEF Weight, Commits
  <2>4. session' = row /\ settled' = settled /\ settled \in Nat
    BY <2>1 DEF Writes, Money, IInv, TypeOK
  <2>5. Over' = 1
    BY <2>1, <2>4 DEF Over
  <2>6. ASSUME Unshaken' PROVE Unshaken /\ Over = 0
    <3>1. Unshaken /\ Fresh(h)
      BY <2>1, <2>6 DEF Writes, Unshaken, LateEnders, Unguarded
    <3>2. session.status \in {"SEARCHING", "LIVE_CALL"} \cup PreRider \cup PostRider
      BY <2>1, <3>1, FreshMeans DEF LateEnders
    <3> QED BY <3>1, <3>2 DEF Over, PreRider, PostRider
  <2> HIDE DEF row
  <2>7. Unshaken' => settled' + Weight(run'[h]) - Over' <= settled + Weight(run[h]) - Over
    BY <2>3, <2>4, <2>5, <2>6
  <2> QED BY <2>2, <2>4, <2>6, <2>7, SettlingKept
<1>2. CASE CancelSession(h) \/ ExpireAbandoned(h)
  BY <1>2, SwapSettles DEF CancelSession, ExpireAbandoned, At, LateEnders
<1>3. CASE DropTogether(h)
  <2>1. run[h].op \in {"leave", "return"}
    BY <1>3, BusyOps DEF DropTogether, FitsRow
  <2> QED BY <1>3, <2>1, SwapSettles DEF DropTogether, LateEnders
<1>4. CASE ConfirmSession(h) \/ FinalizeAutoReleased(h)
  BY <1>4, SwapSettles DEF ConfirmSession, FinalizeAutoReleased, At, LateEnders
<1>5. CASE RequestEmergencyEnd(h) \/ DeclineEmergencyEnd(h)
  <2>1. ASSUME NEW op \in Ops, NEW p, Overwrite(h, op, [session EXCEPT !.pending = p])
        PROVE  Settling'
    <3>1. [session EXCEPT !.pending = p].status = session.status
      BY DEF IInv, TypeOK, SessionRow
    <3> QED BY <2>1, <3>1, OverwriteSettles
  <2> QED BY <1>5, <2>1 DEF RequestEmergencyEnd, DeclineEmergencyEnd, Ops, ShopperOps,
                            CustomerOps
<1>6. CASE NoteAway(h)
  <2>1. /\ run[h].op \in {"leave", "return"} /\ run[h].step \in {"write", "vote"}
        /\ UNCHANGED <<session, settled, stale>>
        /\ Goes(h, "dropTogether") \/ Goes(h, "done")
    BY <1>6 DEF NoteAway, Money
  <2>2. Only(h) /\ run'[h].step \in {"none", "dropTogether"}
    BY <2>1, GoesOnly
  <2>3. Over <= Over' /\ (Unshaken' => Unshaken)
    BY <2>1 DEF Over, Unshaken
  <2> QED BY <2>1, <2>2, <2>3, NoWeight, Weightless
<1>7. CASE DropAlone(h)
  <2>1. run[h].step = "dropAlone" /\ run[h].op \in {"leave", "return"}
    BY <1>7, BusyOps DEF DropAlone, FitsRow
  <2>2. UNCHANGED <<settled, stale>> /\ settled \in Nat /\ Weight(run[h]) = 0
    BY <1>7, <2>1, NoWeight DEF DropAlone, Money, IInv, TypeOK
  <2>3. CASE session.status \in Open
    <3>1. Goes(h, "refund") /\ session'.status = "CANCELLED"
      BY <1>7, <2>3 DEF DropAlone, IInv, TypeOK, SessionRow
    <3>2. Only(h) /\ run'[h].op = run[h].op /\ run'[h].step = "refund"
      BY <2>1, <3>1, GoesOnly
    <3>3. Weight(run'[h]) = 1
      BY <2>1, <3>2 DEF Weight, Commits, LateEnders
    <3>4. Over = 0 /\ Over' = 1
      BY <2>3, <3>1 DEF Over, Open, Closed
    <3>5. /\ settled' \in Nat /\ (Unshaken' => Unshaken)
          /\ settled' + Weight(run'[h]) - Over' <= settled + Weight(run[h]) - Over
      BY <2>2, <3>3, <3>4 DEF Unshaken
    <3> QED BY <3>2, <3>5, SettlingKept
  <2>4. CASE session.status \notin Open
    <3>1. Goes(h, "done") /\ UNCHANGED session
      BY <1>7, <2>4 DEF DropAlone
    <3>2. Only(h) /\ run'[h].step = "none"
      BY <2>1, <3>1, GoesOnly
    <3>3. Over <= Over' /\ (Unshaken' => Unshaken)
      BY <2>2, <3>1 DEF Over, Unshaken
    <3> QED BY <2>2, <3>2, <3>3, NoWeight, Weightless
  <2> QED BY <2>3, <2>4
<1>8. CASE ResolveTicket(h)
  <2>1. /\ run[h].op = "resolveTicket" /\ run[h].step = "write" /\ Goes(h, "done")
        /\ settled' = settled /\ stale \subseteq stale' /\ session'.status = "COMPLETED"
    BY <1>8 DEF ResolveTicket, At, Money, IInv, TypeOK, SessionRow
  <2>2. Only(h) /\ run'[h].step = "none"
    BY <2>1, GoesOnly
  <2>3. Unshaken' => Unshaken /\ Over <= Over'
    BY <2>1 DEF Over, Unshaken
  <2> QED BY <2>1, <2>2, <2>3, NoWeight, Weightless
<1> QED BY <1>1, <1>2, <1>3, <1>4, <1>5, <1>6, <1>7, <1>8 DEF EndStep

LEMMA MoneySettles ==
  ASSUME IInv, Settling, NEW h \in Handlers, MoneyStep(h) PROVE Settling'
<1>1. CASE Ensure(h) \/ CreateHold(h)
  <2>1. /\ run[h].step \in {"ensure", "hold"} /\ UNCHANGED <<session, settled>>
        /\ Goes(h, "done") \/ Goes(h, "hold")
        /\ Unshaken' => Unshaken
    BY <1>1 DEF Ensure, CreateHold, Money, Unshaken
  <2>2. run[h].op # "idle"
    BY <2>1, BusyOps
  <2>3. Only(h) /\ run'[h].step \in {"none", "hold"}
    BY <2>1, <2>2, GoesOnly
  <2>4. Over <= Over'
    BY <2>1 DEF Over
  <2> QED BY <2>1, <2>3, <2>4, NoWeight, Weightless
<1>2. CASE ReleaseAll(h)
  <2>1. /\ run[h].step = "release" /\ Goes(h, "done") /\ settled' = settled + 1
        /\ UNCHANGED <<session, stale>>
    BY <1>2 DEF ReleaseAll
  <2>2. run[h].op \notin LateEnders /\ run[h].op # "idle"
    BY <2>1, BusyOps DEF FitsRow, LateEnders
  <2>3. Only(h) /\ run'[h].step = "none"
    BY <2>1, <2>2, GoesOnly
  <2>4. Weight(run[h]) = 1 /\ Weight(run'[h]) = 0
    BY <2>1, <2>2, <2>3 DEF Weight, Commits
  <2>5. Over' = Over /\ Over \in 0 .. 1 /\ (Unshaken' => Unshaken)
    BY <2>1 DEF Over, Unshaken
  <2>6. settled \in Nat
    BY DEF IInv, TypeOK
  <2>7. /\ settled' \in Nat
        /\ settled' + Weight(run'[h]) - Over' <= settled + Weight(run[h]) - Over
    BY <2>1, <2>4, <2>5, <2>6
  <2> QED BY <2>3, <2>5, <2>7, SettlingKept
<1>3. CASE Payout(h)
  <2>1. /\ run[h].step = "payout" /\ Goes(h, "refund") /\ settled' = settled
        /\ UNCHANGED <<session, stale>>
    BY <1>3 DEF Payout
  <2>2. run[h].op # "idle"
    BY <2>1, BusyOps
  <2>3. Only(h) /\ run'[h].op = run[h].op /\ run'[h].step = "refund"
    BY <2>1, <2>2, GoesOnly
  <2>4. Weight(run[h]) = Weight(run'[h])
    BY <2>1, <2>3 DEF Weight, Commits
  <2>5. Over' = Over /\ Over \in 0 .. 1 /\ (Unshaken' => Unshaken) /\ settled' \in Nat
    BY <2>1 DEF Over, Unshaken, IInv, TypeOK
  <2>6. Weight(run[h]) \in Int
    BY DEF Weight
  <2>7. settled' + Weight(run'[h]) - Over' <= settled + Weight(run[h]) - Over
    BY <2>1, <2>4, <2>5, <2>6
  <2> QED BY <2>3, <2>5, <2>7, SettlingKept
<1>4. CASE Refund(h)
  <2>1. /\ run[h].step = "refund" /\ settled' = settled + 1
        /\ Goes(h, IF run[h].op \in LateEnders THEN "end" ELSE "done")
        /\ UNCHANGED <<session, stale>>
    BY <1>4 DEF Refund, LateEnders
  <2>2. run[h].op # "idle"
    BY <2>1, BusyOps
  <2>3. /\ Only(h)
        /\ IF run[h].op \in LateEnders
           THEN run'[h].op = run[h].op /\ run'[h].step = "end"
           ELSE run'[h].op = "idle" /\ run'[h].step = "none"
    BY <2>1, <2>2, GoesOnly
  <2>4. Weight(run[h]) = Weight(run'[h]) + 1 /\ Weight(run'[h]) \in Int
    BY <2>1, <2>3 DEF Weight, Commits
  <2>5. Over' = Over /\ Over \in 0 .. 1 /\ (Unshaken' => Unshaken)
    BY <2>1 DEF Over, Unshaken
  <2>6. settled \in Nat
    BY DEF IInv, TypeOK
  <2>7. /\ settled' \in Nat
        /\ settled' + Weight(run'[h]) - Over' <= settled + Weight(run[h]) - Over
    BY <2>1, <2>4, <2>5, <2>6
  <2> QED BY <2>3, <2>5, <2>7, SettlingKept
<1>5. CASE ResolveHolds(h)
  <2>1. /\ run[h].step = "payees" /\ Goes(h, "write") /\ UNCHANGED <<session, settled, stale>>
    BY <1>5 DEF ResolveHolds
  <2>2. run[h].op # "idle"
    BY <2>1, BusyOps
  <2>3. Only(h) /\ run'[h].step = "write"
    BY <2>1, <2>2, GoesOnly
  <2>4. Over <= Over' /\ (Unshaken' => Unshaken)
    BY <2>1 DEF Over, Unshaken
  <2> QED BY <2>1, <2>3, <2>4, NoWeight, Weightless
<1> QED BY <1>1, <1>2, <1>3, <1>4, <1>5 DEF MoneyStep

LEMMA NextSettles == IInv /\ Settling /\ [Next]_vars => Settling'
<1> SUFFICES ASSUME IInv, Settling, [Next]_vars PROVE Settling'
  OBVIOUS
<1>1. ASSUME UNCHANGED <<session, settled, run, stale>> PROVE Settling'
  BY <1>1 DEF Settling, Unshaken, Committing, Commits, Ending, Over
<1>2. ASSUME NEW w \in Workers, AutoRelease(w)
      PROVE  UNCHANGED <<session, settled, run, stale>>
  BY <1>2 DEF AutoRelease
<1> QED BY <1>1, <1>2, BeginSettles, StageSettles, EndSettles, MoneySettles DEF Next, vars

\* However the ends of a session overlap, its money is settled once, until a write that a
\* stale read let through.
THEOREM MoneySettledOnce == Spec => []SettledOnce
<1>1. IInv /\ Settling => SettledOnce
  <2> SUFFICES ASSUME IInv, Settling, Quiet, Unshaken PROVE settled <= 1
    BY DEF SettledOnce, Unshaken
  <2>1. Committing = {} /\ Ending = {}
    BY DEF Quiet, Committing, Commits, Ending, Idle
  <2>2. settled + 0 <= 0 + Over /\ Over \in 0 .. 1 /\ settled \in Nat
    BY <2>1, FS_EmptySet DEF Settling, Over, IInv, TypeOK
  <2> QED BY <2>2
<1>2. Spec => []Settling
  BY InitSettling, NextSettles, AlwaysIInv, PTL DEF Spec
<1> QED BY <1>1, <1>2, AlwaysIInv, PTL
=============================================================================
