------------------------ MODULE EventRequestsProofs -------------------------
(***************************************************************************)
(* Event requests, for any number of handlers, planners, proposals and     *)
(* bookings.  IInv is inductive: a handler about to write has read what    *)
(* its checks ask for (Read), a request that is OPEN has no booking and    *)
(* no winner, and a booking is pointed to by its proposal unless a second  *)
(* acceptance of that proposal has taken the pointer over.                 *)
(***************************************************************************)
EXTENDS EventRequests, TLAPS

\* What a handler in progress has read.
Read ==
  \A h \in Handlers :
    /\ run[h].op \in {"accept", "decline"} =>
         run[h].proposal \in Proposals /\ proposal[run[h].proposal].status # "ABSENT"
    /\ run[h].op \in {"submit", "accept", "cancel"} => run[h].request = "OPEN"
    /\ run[h].op = "submit" => run[h].planner \in Planners
    /\ run[h].step = "write" =>
         /\ run[h].op = "submit" => run[h].found = "ABSENT"
         /\ run[h].op \in {"accept", "decline"} => run[h].found = "PENDING"

\* While the request is OPEN nobody has won it.
OpenMeansUndecided ==
  request.status = "OPEN" =>
    /\ Booked = {}
    /\ \A p \in Proposals : proposal[p].status # "ACCEPTED"

\* A booking can be found by its proposal, or a later booking took its place.
Linked ==
  \A b \in Booked :
    /\ booking[b].proposal \in Proposals
    /\ proposal[booking[b].proposal].status # "ABSENT"
    /\ \/ proposal[booking[b].proposal].booking = b
       \/ \E c \in Booked \ {b} : booking[c].proposal = booking[b].proposal

IInv ==
  /\ TypeOK /\ Read /\ OpenMeansUndecided /\ Linked
  /\ OneBookingPerRequest /\ BookingMatchesProposal
  /\ NobodyWaitsForClosedRequest /\ AcceptedIsConfirmedByPayment

LEMMA InitIInv == Init => IInv
<1> SUFFICES ASSUME Init PROVE IInv
  OBVIOUS
<1>1. TypeOK
  BY DEF Init, TypeOK, RequestRow, RequestStatus, ProposalRow, ProposalStatus,
         BookingRow, RunRow, Idle
<1>2. Booked = {} /\ Pending = {}
  BY DEF Init, Booked, Pending
<1>3. Read /\ OpenMeansUndecided /\ Linked
  BY <1>2 DEF Init, Read, Idle, OpenMeansUndecided, Linked
<1>4. OneBookingPerRequest /\ BookingMatchesProposal
  BY <1>2 DEF OneBookingPerRequest, BookingMatchesProposal
<1>5. NobodyWaitsForClosedRequest /\ AcceptedIsConfirmedByPayment
  BY <1>2 DEF Init, NobodyWaitsForClosedRequest, AcceptedIsConfirmedByPayment
<1> QED BY <1>1, <1>3, <1>4, <1>5 DEF IInv

\* A step of one handler that writes no row.
LEMMA QuietStep ==
  ASSUME IInv, NEW h \in Handlers, NEW row \in RunRow, run' = [run EXCEPT ![h] = row],
         UNCHANGED <<request, proposal, booking, stale>>,
         /\ row.op \in {"accept", "decline"} =>
              row.proposal \in Proposals /\ proposal[row.proposal].status # "ABSENT"
         /\ row.op \in {"submit", "accept", "cancel"} => row.request = "OPEN"
         /\ row.op = "submit" => row.planner \in Planners
         /\ row.step = "write" =>
              /\ row.op = "submit" => row.found = "ABSENT"
              /\ row.op \in {"accept", "decline"} => row.found = "PENDING"
  PROVE  IInv'
<1>1. TypeOK'
  BY DEF IInv, TypeOK
<1>2. Read'
  BY DEF IInv, TypeOK, Read
<1>3. UNCHANGED <<Booked, Pending>>
  BY DEF Booked, Pending
<1>4. OpenMeansUndecided' /\ Linked'
  BY <1>3 DEF IInv, OpenMeansUndecided, Linked
<1>5. OneBookingPerRequest' /\ BookingMatchesProposal'
  BY <1>3 DEF IInv, OneBookingPerRequest, BookingMatchesProposal
<1>6. NobodyWaitsForClosedRequest' /\ AcceptedIsConfirmedByPayment'
  BY <1>3 DEF IInv, NobodyWaitsForClosedRequest, AcceptedIsConfirmedByPayment
<1> QED BY <1>1, <1>2, <1>4, <1>5, <1>6 DEF IInv

LEMMA StartInv ==
  ASSUME IInv, NEW h \in Handlers,
         StartSubmit(h) \/ StartAccept(h) \/ StartDecline(h) \/ StartCancel(h)
  PROVE  IInv'
<1>1. CASE StartSubmit(h)
  <2>1. PICK v \in Planners :
          Begin(h, [Idle EXCEPT !.op = "submit", !.step = "look", !.planner = v,
                                !.request = request.status])
    BY <1>1 DEF StartSubmit
  <2> DEFINE row == [Idle EXCEPT !.op = "submit", !.step = "look", !.planner = v,
                                 !.request = request.status]
  <2>2. row \in RunRow /\ row.op = "submit" /\ row.step = "look"
        /\ row.planner = v /\ row.request = "OPEN"
    BY <1>1 DEF StartSubmit, Idle, RunRow, Writers, RequestStatus
  <2> QED BY <2>1, <2>2, QuietStep DEF Begin
<1>2. CASE StartAccept(h)
  <2>1. PICK p \in Proposals :
          /\ proposal[p].status # "ABSENT"
          /\ Begin(h, [Idle EXCEPT !.op = "accept", !.step = "look", !.proposal = p,
                                   !.request = request.status])
    BY <1>2 DEF StartAccept
  <2> DEFINE row == [Idle EXCEPT !.op = "accept", !.step = "look", !.proposal = p,
                                 !.request = request.status]
  <2>2. row \in RunRow /\ row.op = "accept" /\ row.step = "look"
        /\ row.proposal = p /\ row.request = "OPEN"
    BY <1>2 DEF StartAccept, Idle, RunRow, Writers, RequestStatus
  <2> QED BY <2>1, <2>2, QuietStep DEF Begin
<1>3. CASE StartDecline(h)
  <2>1. PICK p \in Proposals :
          /\ proposal[p].status # "ABSENT"
          /\ Begin(h, [Idle EXCEPT !.op = "decline", !.step = "look", !.proposal = p])
    BY <1>3 DEF StartDecline
  <2> DEFINE row == [Idle EXCEPT !.op = "decline", !.step = "look", !.proposal = p]
  <2>2. row \in RunRow /\ row.op = "decline" /\ row.step = "look" /\ row.proposal = p
    BY DEF Idle, RunRow, Writers
  <2> QED BY <2>1, <2>2, QuietStep DEF Begin
<1>4. CASE StartCancel(h)
  <2> DEFINE row == [Idle EXCEPT !.op = "cancel", !.step = "write",
                                 !.request = request.status]
  <2>1. row \in RunRow /\ row.op = "cancel" /\ row.request = "OPEN"
    BY <1>4 DEF StartCancel, Idle, RunRow, Writers, RequestStatus
  <2> QED BY <1>4, <2>1, QuietStep DEF StartCancel, Begin
<1> QED BY <1>1, <1>2, <1>3, <1>4

LEMMA LookInv ==
  ASSUME IInv, NEW h \in Handlers, LookForOwn(h) \/ LookAtProposal(h)
  PROVE  IInv'
<1> DEFINE row == [run[h] EXCEPT !.step = "write", !.found = Found(run[h])]
<1>1. Found(run[h]) \in {"ABSENT", "PENDING"}
  BY DEF LookForOwn, LookAtProposal
<1>2. row \in RunRow /\ run' = [run EXCEPT ![h] = row]
  BY <1>1 DEF LookForOwn, LookAtProposal, GoOn, IInv, TypeOK, RunRow, ProposalStatus
<1>3. /\ row.op = run[h].op /\ row.proposal = run[h].proposal
      /\ row.planner = run[h].planner /\ row.request = run[h].request
      /\ row.found = Found(run[h])
  BY DEF IInv, TypeOK, RunRow
<1>4. /\ row.op = "submit" => row.found = "ABSENT"
      /\ row.op \in {"accept", "decline"} => row.found = "PENDING"
  BY <1>3 DEF LookForOwn, LookAtProposal
<1>5. /\ row.op \in {"accept", "decline"} =>
           row.proposal \in Proposals /\ proposal[row.proposal].status # "ABSENT"
      /\ row.op \in {"submit", "accept", "cancel"} => row.request = "OPEN"
      /\ row.op = "submit" => row.planner \in Planners
  BY <1>3 DEF IInv, Read
<1>6. UNCHANGED <<request, proposal, booking, stale>>
  BY DEF LookForOwn, LookAtProposal, GoOn
<1> HIDE DEF row
<1> QED BY <1>2, <1>4, <1>5, <1>6, QuietStep

LEMMA FailInv == ASSUME IInv, NEW h \in Handlers, Fail(h) PROVE IInv'
<1>1. Idle \in RunRow /\ Idle.op = "idle" /\ Idle.step = "none"
  BY DEF Idle, RunRow
<1> QED BY <1>1, QuietStep DEF Fail, End

\* The handler that has written is done; the others keep what they have read, as
\* no proposal is ever ABSENT again.
LEMMA WriterDone ==
  ASSUME IInv, NEW h \in Handlers, run' = [run EXCEPT ![h] = Idle],
         proposal' \in [Proposals -> ProposalRow],
         \A p \in Proposals : proposal[p].status # "ABSENT" => proposal'[p].status # "ABSENT"
  PROVE  run' \in [Handlers -> RunRow] /\ Read'
<1>1. Idle \in RunRow /\ Idle.op = "idle" /\ Idle.step = "none"
  BY DEF Idle, RunRow
<1>2. \A g \in Handlers : run'[g] = IF g = h THEN Idle ELSE run[g]
  BY DEF IInv, TypeOK
<1> QED BY <1>1, <1>2 DEF IInv, TypeOK, Read

LEMMA SubmitInv == ASSUME IInv, NEW h \in Handlers, Submit(h) PROVE IInv'
<1> DEFINE v == run[h].planner
<1>1. PICK p \in Proposals :
        /\ proposal[p].status = "ABSENT"
        /\ proposal' = [proposal EXCEPT ![p] =
                          [status |-> "PENDING", planner |-> v, booking |-> Nothing]]
  BY DEF Submit
<1>2. /\ run[h].op = "submit" /\ run[h].step = "write"
      /\ run' = [run EXCEPT ![h] = Idle] /\ UNCHANGED <<request, booking>>
      /\ stale' = IF Fresh(h) THEN stale ELSE stale \cup {"submit"}
  BY DEF Submit, Writes, End
<1>3. run[h].request = "OPEN" /\ v \in Planners
  BY <1>2 DEF IInv, Read
<1>4. proposal' \in [Proposals -> ProposalRow]
  BY <1>1, <1>3 DEF IInv, TypeOK, ProposalRow, ProposalStatus
<1>5. \A q \in Proposals : proposal'[q] =
        IF q = p THEN [status |-> "PENDING", planner |-> v, booking |-> Nothing]
        ELSE proposal[q]
  BY <1>1 DEF IInv, TypeOK
<1>6. run' \in [Handlers -> RunRow] /\ Read'
  <2>1. \A q \in Proposals :
          proposal[q].status # "ABSENT" => proposal'[q].status # "ABSENT"
    BY <1>5
  <2> QED BY <1>2, <1>4, <2>1, WriterDone
<1>7. TypeOK'
  <2>1. stale' \subseteq Writers
    BY <1>2 DEF IInv, TypeOK, Writers
  <2> QED BY <1>2, <1>4, <1>6, <2>1 DEF IInv, TypeOK
<1>8. Booked' = Booked
  BY <1>2 DEF Booked
<1>9. OpenMeansUndecided' /\ Linked'
  BY <1>1, <1>2, <1>5, <1>8 DEF IInv, OpenMeansUndecided, Linked
<1>10. OneBookingPerRequest' /\ BookingMatchesProposal'
  <2>1. stale \subseteq stale'
    BY <1>2
  <2>2. OneBookingPerRequest'
    BY <1>8, <2>1 DEF IInv, OneBookingPerRequest
  <2>3. BookingMatchesProposal'
    BY <1>1, <1>2, <1>5, <1>8, <2>1 DEF IInv, BookingMatchesProposal, Linked
  <2> QED BY <2>2, <2>3
<1>11. NobodyWaitsForClosedRequest'
  BY <1>2, <1>3 DEF NobodyWaitsForClosedRequest, Fresh
<1>12. AcceptedIsConfirmedByPayment'
  BY <1>2, <1>8 DEF IInv, AcceptedIsConfirmedByPayment
<1> QED BY <1>6, <1>7, <1>9, <1>10, <1>11, <1>12 DEF IInv

LEMMA AcceptInv == ASSUME IInv, NEW h \in Handlers, Accept(h) PROVE IInv'
<1> DEFINE p == run[h].proposal
<1>1. PICK b \in Bookings \ Booked :
        /\ booking' = [booking EXCEPT ![b] = [status |-> "REQUESTED", proposal |-> p]]
        /\ proposal' = AfterAcceptance(p, b)
  BY DEF Accept
<1>2. /\ run[h].op = "accept" /\ run[h].step = "write"
      /\ run' = [run EXCEPT ![h] = Idle]
      /\ request' = [status |-> "PROPOSAL_ACCEPTED", accepted |-> p]
      /\ stale' = IF Fresh(h) THEN stale ELSE stale \cup {"accept"}
  BY DEF Accept, Writes, End
<1>3. p \in Proposals /\ run[h].request = "OPEN" /\ proposal[p].status # "ABSENT"
  BY <1>2 DEF IInv, Read
<1>4. proposal' \in [Proposals -> ProposalRow]
  BY <1>1, <1>3 DEF AfterAcceptance, IInv, TypeOK, ProposalRow, ProposalStatus
<1>5. \A q \in Proposals :
        /\ q = p => proposal'[q].status = "ACCEPTED" /\ proposal'[q].booking = b
        /\ q # p => /\ proposal'[q].booking = proposal[q].booking
                    /\ proposal'[q].status = IF proposal[q].status = "PENDING"
                                             THEN "DECLINED" ELSE proposal[q].status
  BY <1>1, <1>3 DEF AfterAcceptance, Pending, IInv, TypeOK, ProposalRow
<1>6. run' \in [Handlers -> RunRow] /\ Read'
  BY <1>2, <1>3, <1>4, <1>5, WriterDone
<1>7. TypeOK'
  BY <1>1, <1>2, <1>3, <1>4, <1>6
  DEF IInv, TypeOK, Writers, RequestRow, RequestStatus, BookingRow
<1>8. /\ Booked' = Booked \cup {b} /\ b \notin Booked /\ booking'[b].proposal = p
      /\ booking'[b].status = "REQUESTED"
      /\ \A c \in Booked : booking'[c] = booking[c]
  BY <1>1 DEF Booked, IInv, TypeOK
<1>9. OpenMeansUndecided'
  BY <1>2 DEF OpenMeansUndecided
<1>10. Linked'
  BY <1>3, <1>5, <1>8 DEF IInv, Linked
<1>11. ASSUME "accept" \notin stale'
       PROVE  Booked = {} /\ \A q \in Proposals : proposal[q].status # "ACCEPTED"
  BY <1>2, <1>3, <1>11 DEF Fresh, IInv, OpenMeansUndecided
<1>12. OneBookingPerRequest' /\ BookingMatchesProposal'
  BY <1>2, <1>3, <1>5, <1>8, <1>11 DEF OneBookingPerRequest, BookingMatchesProposal
<1>13. NobodyWaitsForClosedRequest'
  BY <1>3, <1>5 DEF NobodyWaitsForClosedRequest, Pending
<1>14. AcceptedIsConfirmedByPayment'
  BY <1>1, <1>8 DEF IInv, TypeOK, AcceptedIsConfirmedByPayment, Booked
<1> QED BY <1>6, <1>7, <1>9, <1>10, <1>12, <1>13, <1>14 DEF IInv

LEMMA DeclineInv == ASSUME IInv, NEW h \in Handlers, Decline(h) PROVE IInv'
<1> DEFINE p == run[h].proposal
<1>1. /\ run[h].op = "decline" /\ run[h].step = "write"
      /\ run' = [run EXCEPT ![h] = Idle] /\ UNCHANGED <<request, booking>>
      /\ proposal' = [proposal EXCEPT ![p].status = "DECLINED"]
      /\ stale' = IF Fresh(h) THEN stale ELSE stale \cup {"decline"}
  BY DEF Decline, Writes, End
<1>2. p \in Proposals /\ run[h].found = "PENDING"
  BY <1>1 DEF IInv, Read
<1>3. proposal' \in [Proposals -> ProposalRow]
  BY <1>1, <1>2 DEF IInv, TypeOK, ProposalRow, ProposalStatus
<1>4. \A q \in Proposals :
        /\ proposal'[q].booking = proposal[q].booking
        /\ proposal'[q].status = IF q = p THEN "DECLINED" ELSE proposal[q].status
  BY <1>1, <1>2 DEF IInv, TypeOK, ProposalRow
<1>5. run' \in [Handlers -> RunRow] /\ Read'
  <2>1. \A q \in Proposals :
          proposal[q].status # "ABSENT" => proposal'[q].status # "ABSENT"
    BY <1>4
  <2> QED BY <1>1, <1>3, <2>1, WriterDone
<1>6. TypeOK'
  <2>1. stale' \subseteq Writers
    BY <1>1 DEF IInv, TypeOK, Writers
  <2> QED BY <1>1, <1>3, <1>5, <2>1 DEF IInv, TypeOK
<1>7. Booked' = Booked
  BY <1>1 DEF Booked
<1>8. OpenMeansUndecided' /\ Linked'
  BY <1>1, <1>4, <1>7 DEF IInv, OpenMeansUndecided, Linked
<1>9. OneBookingPerRequest'
  BY <1>1, <1>7 DEF IInv, OneBookingPerRequest
<1>10. BookingMatchesProposal'
  <2>1. "decline" \notin stale' => proposal[p].status = "PENDING"
    BY <1>1, <1>2 DEF Fresh, Found
  <2> QED BY <1>1, <1>2, <1>4, <1>7, <2>1 DEF IInv, BookingMatchesProposal, Linked
<1>11. NobodyWaitsForClosedRequest'
  BY <1>1, <1>4 DEF IInv, NobodyWaitsForClosedRequest, Pending
<1>12. AcceptedIsConfirmedByPayment'
  BY <1>1, <1>7 DEF IInv, AcceptedIsConfirmedByPayment
<1> QED BY <1>5, <1>6, <1>8, <1>9, <1>10, <1>11, <1>12 DEF IInv

LEMMA CancelInv == ASSUME IInv, NEW h \in Handlers, Cancel(h) PROVE IInv'
<1>1. /\ run[h].op = "cancel" /\ run[h].step = "write"
      /\ run' = [run EXCEPT ![h] = Idle] /\ UNCHANGED booking
      /\ request' = [request EXCEPT !.status = "CANCELLED"]
      /\ proposal' = [q \in Proposals |->
                        IF q \in Pending THEN [proposal[q] EXCEPT !.status = "WITHDRAWN"]
                        ELSE proposal[q]]
      /\ stale' = IF Fresh(h) THEN stale ELSE stale \cup {"cancel"}
  BY DEF Cancel, Writes, End
<1>2. run[h].request = "OPEN"
  BY <1>1 DEF IInv, Read
<1>3. proposal' \in [Proposals -> ProposalRow] /\ request' \in RequestRow
      /\ request'.status = "CANCELLED"
  BY <1>1 DEF IInv, TypeOK, ProposalRow, ProposalStatus, RequestRow, RequestStatus
<1>4. \A q \in Proposals :
        /\ proposal'[q].booking = proposal[q].booking
        /\ proposal'[q].status = IF proposal[q].status = "PENDING"
                                 THEN "WITHDRAWN" ELSE proposal[q].status
  BY <1>1 DEF Pending, IInv, TypeOK, ProposalRow
<1>5. run' \in [Handlers -> RunRow] /\ Read'
  <2>1. \A q \in Proposals :
          proposal[q].status # "ABSENT" => proposal'[q].status # "ABSENT"
    BY <1>4
  <2> QED BY <1>1, <1>3, <2>1, WriterDone
<1>6. TypeOK'
  <2>1. stale' \subseteq Writers
    BY <1>1 DEF IInv, TypeOK, Writers
  <2> QED BY <1>1, <1>3, <1>5, <2>1 DEF IInv, TypeOK
<1>7. Booked' = Booked
  BY <1>1 DEF Booked
<1>8. OpenMeansUndecided' /\ Linked'
  BY <1>1, <1>3, <1>4, <1>7 DEF IInv, OpenMeansUndecided, Linked
<1>9. OneBookingPerRequest'
  BY <1>1, <1>7 DEF IInv, OneBookingPerRequest
<1>10. BookingMatchesProposal'
  <2>1. "cancel" \notin stale' => Booked = {}
    BY <1>1, <1>2 DEF Fresh, IInv, OpenMeansUndecided
  <2> QED BY <1>7, <2>1 DEF BookingMatchesProposal
<1>11. NobodyWaitsForClosedRequest'
  BY <1>4 DEF NobodyWaitsForClosedRequest, Pending
<1>12. AcceptedIsConfirmedByPayment'
  BY <1>1, <1>7 DEF IInv, AcceptedIsConfirmedByPayment
<1> QED BY <1>5, <1>6, <1>8, <1>9, <1>10, <1>11, <1>12 DEF IInv

LEMMA PayInv == ASSUME IInv, NEW b \in Bookings, PayBooking(b) PROVE IInv'
<1>1. PICK s \in {"PAID", "CONFIRMED"} :
        /\ booking' = [booking EXCEPT ![b].status = s]
        /\ s = "PAID" => ~\E p \in Proposals : proposal[p].booking = b
  BY DEF PayBooking
<1>2. booking[b].status = "REQUESTED" /\ UNCHANGED <<request, proposal, run, stale>>
  BY DEF PayBooking
<1>3. /\ booking' \in [Bookings -> BookingRow]
      /\ \A c \in Bookings :
           /\ booking'[c].proposal = booking[c].proposal
           /\ booking'[c].status = IF c = b THEN s ELSE booking[c].status
  BY <1>1 DEF IInv, TypeOK, BookingRow
<1>4. Booked' = Booked /\ b \in Booked /\ Pending' = Pending
  BY <1>2, <1>3 DEF Booked, Pending
<1>5. TypeOK' /\ Read'
  BY <1>2, <1>3 DEF IInv, TypeOK, Read
<1>6. OpenMeansUndecided' /\ Linked'
  BY <1>2, <1>3, <1>4 DEF IInv, OpenMeansUndecided, Linked, Booked
<1>7. OneBookingPerRequest' /\ BookingMatchesProposal'
  BY <1>2, <1>3, <1>4 DEF IInv, OneBookingPerRequest, BookingMatchesProposal, Booked
<1>8. NobodyWaitsForClosedRequest'
  BY <1>2, <1>4 DEF IInv, NobodyWaitsForClosedRequest
<1>9. AcceptedIsConfirmedByPayment'
  <2>1. s = "PAID" => \E c \in Booked \ {b} : booking[c].proposal = booking[b].proposal
    BY <1>1, <1>4 DEF IInv, Linked
  <2> QED BY <1>3, <1>4, <2>1 DEF IInv, AcceptedIsConfirmedByPayment, Booked
<1> QED BY <1>5, <1>6, <1>7, <1>8, <1>9 DEF IInv

LEMMA NextIInv == IInv /\ [Next]_vars => IInv'
<1> SUFFICES ASSUME IInv, [Next]_vars PROVE IInv'
  OBVIOUS
<1>1. ASSUME NEW h \in Handlers, HandlerStep(h) PROVE IInv'
  BY <1>1, StartInv, LookInv, FailInv, SubmitInv, AcceptInv, DeclineInv, CancelInv
  DEF HandlerStep
<1>2. ASSUME NEW b \in Bookings, PayBooking(b) PROVE IInv'
  BY <1>2, PayInv
<1>3. CASE UNCHANGED vars
  BY <1>3 DEF vars, IInv, TypeOK, Read, OpenMeansUndecided, Linked, Booked, Pending,
              OneBookingPerRequest, BookingMatchesProposal,
              NobodyWaitsForClosedRequest, AcceptedIsConfirmedByPayment
<1> QED BY <1>1, <1>2, <1>3 DEF Next

LEMMA AlwaysIInv == Spec => []IInv
  BY InitIInv, NextIInv, PTL DEF Spec

-----------------------------------------------------------------------------
\* Rows and handlers keep their types.
THEOREM RequestsTypeCorrect == Spec => []TypeOK
<1>1. IInv => TypeOK
  BY DEF IInv
<1> QED BY <1>1, AlwaysIInv, PTL

\* A second booking of a request takes an acceptance on a stale read.
THEOREM OneBooking == Spec => []OneBookingPerRequest
<1>1. IInv => OneBookingPerRequest
  BY DEF IInv
<1> QED BY <1>1, AlwaysIInv, PTL

\* Request, winning proposal and booking name each other.
THEOREM BookingMatches == Spec => []BookingMatchesProposal
<1>1. IInv => BookingMatchesProposal
  BY DEF IInv
<1> QED BY <1>1, AlwaysIInv, PTL

\* A closed request has no PENDING proposal, stale submissions apart.
THEOREM NobodyWaits == Spec => []NobodyWaitsForClosedRequest
<1>1. IInv => NobodyWaitsForClosedRequest
  BY DEF IInv
<1> QED BY <1>1, AlwaysIInv, PTL

\* Only a twice accepted proposal has a paid booking that waits for its vendor.
THEOREM ConfirmedByPayment == Spec => []AcceptedIsConfirmedByPayment
<1>1. IInv => AcceptedIsConfirmedByPayment
  BY DEF IInv
<1> QED BY <1>1, AlwaysIInv, PTL

-----------------------------------------------------------------------------
(* The tender.                                                             *)

LEMMA FreshStep ==
  ASSUME IInv, Next, stale' = {}
  PROVE  [Tender!Next]_(Tender!tenderVars)
<1>1. ASSUME UNCHANGED <<request, proposal, booking>>
      PROVE  UNCHANGED Tender!tenderVars
  BY <1>1 DEF Tender!tenderVars, Pending, Booked
<1>2. ASSUME NEW h \in Handlers, Submit(h) PROVE Tender!Bid
  <2>1. PICK p \in Proposals :
          /\ proposal[p].status = "ABSENT"
          /\ proposal' = [proposal EXCEPT ![p] =
               [status |-> "PENDING", planner |-> run[h].planner, booking |-> Nothing]]
    BY <1>2 DEF Submit
  <2>2. p \notin Pending /\ Pending' = Pending \cup {p}
    BY <2>1 DEF Pending, IInv, TypeOK
  <2>3. /\ run[h].op = "submit" /\ UNCHANGED <<request, booking>>
        /\ run[h].request \in {"unread", request.status}
    BY <1>2 DEF Submit, Writes, Fresh
  <2>4. request.status = "OPEN"
    BY <2>3 DEF IInv, Read
  <2>5. UNCHANGED {<<b, booking[b].proposal>> : b \in Booked}
    BY <2>3 DEF Booked
  <2> QED BY <2>1, <2>2, <2>3, <2>4, <2>5 DEF Tender!Bid
<1>3. ASSUME NEW h \in Handlers, Accept(h) PROVE Tender!Award
  <2> DEFINE p == run[h].proposal
  <2>1. PICK b \in Bookings \ Booked :
          /\ booking' = [booking EXCEPT ![b] = [status |-> "REQUESTED", proposal |-> p]]
          /\ proposal' = AfterAcceptance(p, b)
    BY <1>3 DEF Accept
  <2>2. /\ run[h].op = "accept" /\ run[h].step = "write"
        /\ request' = [status |-> "PROPOSAL_ACCEPTED", accepted |-> p]
        /\ run[h].request \in {"unread", request.status}
        /\ run[h].found = "unread" \/ run[h].found = Found(run[h])
    BY <1>3 DEF Accept, Writes, Fresh
  <2>3. p \in Proposals /\ request.status = "OPEN" /\ proposal[p].status = "PENDING"
    BY <2>2 DEF IInv, Read, Found
  <2>4. p \in Pending /\ Pending' = {}
    BY <2>1, <2>3 DEF Pending, AfterAcceptance, IInv, TypeOK, ProposalRow
  <2>5. /\ Booked' = Booked \cup {b} /\ booking'[b].proposal = p
        /\ \A c \in Booked : booking'[c] = booking[c]
    BY <2>1 DEF Booked, IInv, TypeOK
  <2>6. {<<c, booking'[c].proposal>> : c \in Booked'}
          = {<<c, booking[c].proposal>> : c \in Booked} \cup {<<b, p>>}
    BY <2>5
  <2>7. request'.status # "OPEN"
    BY <2>2
  <2> QED BY <2>3, <2>4, <2>6, <2>7 DEF Tender!Award
<1>4. ASSUME NEW h \in Handlers, Decline(h) PROVE Tender!Reject
  <2> DEFINE p == run[h].proposal
  <2>1. /\ run[h].op = "decline" /\ run[h].step = "write"
        /\ UNCHANGED <<request, booking>>
        /\ proposal' = [proposal EXCEPT ![p].status = "DECLINED"]
        /\ run[h].found = "unread" \/ run[h].found = Found(run[h])
        /\ stale = {}
    BY <1>4 DEF Decline, Writes, Fresh
  <2>2. p \in Pending
    BY <2>1 DEF IInv, Read, Found, Pending
  <2>3. request.status = "OPEN"
    BY <2>1, <2>2 DEF IInv, NobodyWaitsForClosedRequest
  <2>4. Pending' = Pending \ {p}
    BY <2>1, <2>2 DEF Pending, IInv, TypeOK, ProposalRow
  <2>5. UNCHANGED {<<b, booking[b].proposal>> : b \in Booked}
    BY <2>1 DEF Booked
  <2> QED BY <2>1, <2>2, <2>3, <2>4, <2>5 DEF Tender!Reject
<1>5. ASSUME NEW h \in Handlers, Cancel(h) PROVE Tender!Withdraw
  <2>1. /\ run[h].op = "cancel" /\ run[h].step = "write" /\ UNCHANGED booking
        /\ request' = [request EXCEPT !.status = "CANCELLED"]
        /\ run[h].request \in {"unread", request.status}
    BY <1>5 DEF Cancel, Writes, Fresh
  <2>2. request.status = "OPEN" /\ request'.status # "OPEN"
    BY <2>1 DEF IInv, Read, TypeOK, RequestRow
  <2>3. Pending' = {}
    BY <1>5 DEF Cancel, Pending, IInv, TypeOK, ProposalRow
  <2>4. UNCHANGED {<<b, booking[b].proposal>> : b \in Booked}
    BY <2>1 DEF Booked
  <2> QED BY <2>2, <2>3, <2>4 DEF Tender!Withdraw
<1>6. ASSUME NEW b \in Bookings, PayBooking(b) PROVE UNCHANGED Tender!tenderVars
  <2>1. /\ Booked' = Booked /\ UNCHANGED <<request, proposal>>
        /\ \A c \in Bookings : booking'[c].proposal = booking[c].proposal
    BY <1>6 DEF PayBooking, Booked, IInv, TypeOK, BookingRow
  <2>2. Booked \subseteq Bookings
    BY DEF Booked
  <2>3. {<<c, booking'[c].proposal>> : c \in Booked'}
          = {<<c, booking[c].proposal>> : c \in Booked}
    BY <2>1, <2>2
  <2> QED BY <2>1, <2>3 DEF Tender!tenderVars, Pending
<1>7. ASSUME NEW h \in Handlers,
             \/ StartSubmit(h) \/ StartAccept(h) \/ StartDecline(h) \/ StartCancel(h)
             \/ LookForOwn(h) \/ LookAtProposal(h) \/ Fail(h)
      PROVE  UNCHANGED Tender!tenderVars
  BY <1>1, <1>7 DEF StartSubmit, StartAccept, StartDecline, StartCancel, Begin,
                    LookForOwn, LookAtProposal, GoOn, Fail
<1> QED
  BY <1>2, <1>3, <1>4, <1>5, <1>6, <1>7 DEF Next, HandlerStep, Tender!Next

\* Until a handler writes on a stale read, all of them together are the tender.
THEOREM RequestsAreATender == Spec => TenderUnlessStale
<1>1. Init => Tender!Init
  BY DEF Init, Tender!Init, Pending, Booked
<1>2. IInv /\ [Next]_vars
        => [stale' # {} \/ Tender!Next]_(Tender!tenderVars)
  <2> SUFFICES ASSUME IInv, [Next]_vars, stale' = {}
               PROVE  [Tender!Next]_(Tender!tenderVars)
    OBVIOUS
  <2>1. CASE UNCHANGED vars
    BY <2>1 DEF vars, Tender!tenderVars, Pending, Booked
  <2> QED BY <2>1, FreshStep
<1> QED BY <1>1, <1>2, AlwaysIInv, PTL DEF Spec, TenderUnlessStale
=============================================================================
