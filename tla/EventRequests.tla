--------------------------- MODULE EventRequests ----------------------------
(***************************************************************************)
(* One event request, its proposals and the bookings made of them          *)
(* (eventRequests.controller.js), a handler per process and a database     *)
(* call per step.  Each handler reads the request or the proposal first    *)
(* and writes by id alone afterwards, whatever has happened in between.    *)
(* A Prisma transaction is one step: its row locks order it before or      *)
(* after every other writer of the same rows, and where two transactions   *)
(* wait for each other the database makes one of them Fail.                *)
(***************************************************************************)
EXTENDS FiniteSets

CONSTANTS
  Handlers,    \* slots for requests in progress
  Planners,    \* vendors of type EVENT_PLANNER
  Proposals,   \* identities of EventProposal rows, each created once
  Bookings,    \* identities of Booking rows, each created once
  Nobody,      \* no planner
  Nothing      \* no proposal, no booking

ASSUME IdentitiesAssumption ==
  /\ Nobody \notin Planners
  /\ Nothing \notin Proposals
  /\ Nothing \notin Bookings

VARIABLES
  request,    \* the EventRequest row
  proposal,   \* the EventProposal rows
  booking,    \* the Booking rows that acceptances created
  run,        \* the handlers in progress
  stale       \* history: the handlers that wrote after what they had read changed

vars == <<request, proposal, booking, run, stale>>

Writers == {"submit", "accept", "decline", "cancel"}

RequestStatus == {"OPEN", "PROPOSAL_ACCEPTED", "CANCELLED"}
ProposalStatus == {"ABSENT", "PENDING", "ACCEPTED", "DECLINED", "WITHDRAWN"}

RequestRow == [status : RequestStatus,
               accepted : Proposals \cup {Nothing}]
ProposalRow == [status : ProposalStatus,
                planner : Planners \cup {Nobody},
                booking : Bookings \cup {Nothing}]
BookingRow == [status : {"ABSENT", "REQUESTED", "PAID", "CONFIRMED"},
               proposal : Proposals \cup {Nothing}]
\* A handler in progress, with the statuses it has read so far.
RunRow == [op : Writers \cup {"idle"}, step : {"none", "look", "write"},
           planner : Planners \cup {Nobody}, proposal : Proposals \cup {Nothing},
           request : RequestStatus \cup {"unread"},
           found : ProposalStatus \cup {"unread"}]

Idle == [op |-> "idle", step |-> "none", planner |-> Nobody, proposal |-> Nothing,
         request |-> "unread", found |-> "unread"]

TypeOK ==
  /\ request \in RequestRow
  /\ proposal \in [Proposals -> ProposalRow]
  /\ booking \in [Bookings -> BookingRow]
  /\ run \in [Handlers -> RunRow]
  /\ stale \subseteq Writers

Pending == {p \in Proposals : proposal[p].status = "PENDING"}
Booked == {b \in Bookings : booking[b].status # "ABSENT"}
PendingOf(v) == {p \in Pending : proposal[p].planner = v}

Init ==
  /\ request = [status |-> "OPEN", accepted |-> Nothing]
  /\ proposal = [p \in Proposals |->
                   [status |-> "ABSENT", planner |-> Nobody, booking |-> Nothing]]
  /\ booking = [b \in Bookings |-> [status |-> "ABSENT", proposal |-> Nothing]]
  /\ run = [h \in Handlers |-> Idle]
  /\ stale = {}

-----------------------------------------------------------------------------
(* The first reads.  A handler whose read refuses it ends there and leaves *)
(* no trace, so that only the others are steps.                            *)

Begin(h, row) ==
  /\ run[h] = Idle
  /\ run' = [run EXCEPT ![h] = row]
  /\ UNCHANGED <<request, proposal, booking, stale>>

GoOn(h, found) ==
  /\ run[h].step = "look"
  /\ run' = [run EXCEPT ![h].step = "write", ![h].found = found]
  /\ UNCHANGED <<request, proposal, booking, stale>>

End(h) == run' = [run EXCEPT ![h] = Idle]

\* submitProposal: the request is OPEN.
StartSubmit(h) ==
  /\ request.status = "OPEN"
  /\ \E v \in Planners :
       Begin(h, [Idle EXCEPT !.op = "submit", !.step = "look", !.planner = v,
                             !.request = request.status])

\* Faulty variant: the handler does not care what the request's status is.
StartAcceptAnyRequest(h) ==
  \E p \in Proposals :
    /\ proposal[p].status # "ABSENT"
    /\ Begin(h, [Idle EXCEPT !.op = "accept", !.step = "look", !.proposal = p,
                             !.request = request.status])

\* acceptProposal: the request is OPEN.
StartAccept(h) ==
  /\ request.status = "OPEN"
  /\ \E p \in Proposals :
       /\ proposal[p].status # "ABSENT"
       /\ Begin(h, [Idle EXCEPT !.op = "accept", !.step = "look", !.proposal = p,
                                !.request = request.status])

\* declineProposal: the request is read for its owner only.
StartDecline(h) ==
  \E p \in Proposals :
    /\ proposal[p].status # "ABSENT"
    /\ Begin(h, [Idle EXCEPT !.op = "decline", !.step = "look", !.proposal = p])

\* cancelEventRequest: the request is OPEN.
StartCancel(h) ==
  /\ request.status = "OPEN"
  /\ Begin(h, [Idle EXCEPT !.op = "cancel", !.step = "write",
                           !.request = request.status])

-----------------------------------------------------------------------------
(* The second reads.                                                       *)

\* What findFirst or findUnique returns for the handler's proposal.
Found(row) ==
  IF row.op = "submit"
  THEN IF PendingOf(row.planner) = {} THEN "ABSENT" ELSE "PENDING"
  ELSE proposal[row.proposal].status

\* submitProposal: the planner has no PENDING proposal on the request.
LookForOwn(h) ==
  /\ run[h].op = "submit"
  /\ Found(run[h]) = "ABSENT"
  /\ GoOn(h, Found(run[h]))

\* acceptProposal and declineProposal: the proposal is PENDING.
LookAtProposal(h) ==
  /\ run[h].op \in {"accept", "decline"}
  /\ Found(run[h]) = "PENDING"
  /\ GoOn(h, Found(run[h]))

\* A read refused the handler, or it failed: an exception, a deadlock, a crash.
Fail(h) ==
  /\ run[h] # Idle
  /\ End(h)
  /\ UNCHANGED <<request, proposal, booking, stale>>

-----------------------------------------------------------------------------
(* The writes.                                                             *)

\* What the handler read is still so.
Fresh(h) ==
  /\ run[h].request \in {"unread", request.status}
  /\ run[h].found = "unread" \/ run[h].found = Found(run[h])

Writes(h, op) ==
  /\ run[h].op = op /\ run[h].step = "write"
  /\ stale' = IF Fresh(h) THEN stale ELSE stale \cup {op}
  /\ End(h)

\* submitProposal: create.
Submit(h) ==
  LET v == run[h].planner IN
  /\ Writes(h, "submit")
  /\ \E p \in Proposals :
       /\ proposal[p].status = "ABSENT"
       /\ proposal' = [proposal EXCEPT ![p] =
                         [status |-> "PENDING", planner |-> v, booking |-> Nothing]]
  /\ UNCHANGED <<request, booking>>

\* The proposals after the acceptance of p: it has its booking, the others that
\* were PENDING have lost.
AfterAcceptance(p, b) ==
  [q \in Proposals |->
    IF q = p THEN [proposal[q] EXCEPT !.status = "ACCEPTED", !.booking = b]
    ELSE IF q \in Pending THEN [proposal[q] EXCEPT !.status = "DECLINED"]
    ELSE proposal[q]]

\* acceptProposal: the transaction.
Accept(h) ==
  LET p == run[h].proposal IN
  /\ Writes(h, "accept")
  /\ \E b \in Bookings \ Booked :
       /\ booking' = [booking EXCEPT ![b] = [status |-> "REQUESTED", proposal |-> p]]
       /\ proposal' = AfterAcceptance(p, b)
  /\ request' = [status |-> "PROPOSAL_ACCEPTED", accepted |-> p]

\* declineProposal: the update.
Decline(h) ==
  LET p == run[h].proposal IN
  /\ Writes(h, "decline")
  /\ proposal' = [proposal EXCEPT ![p].status = "DECLINED"]
  /\ UNCHANGED <<request, booking>>

\* Faulty variant: the proposals are left as they are.
CancelRequestOnly(h) ==
  /\ Writes(h, "cancel")
  /\ request' = [request EXCEPT !.status = "CANCELLED"]
  /\ UNCHANGED <<proposal, booking>>

\* cancelEventRequest: the transaction.
Cancel(h) ==
  /\ Writes(h, "cancel")
  /\ request' = [request EXCEPT !.status = "CANCELLED"]
  /\ proposal' = [q \in Proposals |->
                    IF q \in Pending THEN [proposal[q] EXCEPT !.status = "WITHDRAWN"]
                    ELSE proposal[q]]
  /\ UNCHANGED booking

\* confirmBookingPayment: a booking that a proposal points to needs no decision of
\* the vendor any more.
PayBooking(b) ==
  /\ booking[b].status = "REQUESTED"
  /\ booking' = [booking EXCEPT ![b].status =
                   IF \E p \in Proposals : proposal[p].booking = b
                      THEN "CONFIRMED" ELSE "PAID"]
  /\ UNCHANGED <<request, proposal, run, stale>>

-----------------------------------------------------------------------------
HandlerStep(h) ==
  \/ StartSubmit(h) \/ StartAccept(h) \/ StartDecline(h) \/ StartCancel(h)
  \/ LookForOwn(h) \/ LookAtProposal(h) \/ Fail(h)
  \/ Submit(h) \/ Accept(h) \/ Decline(h) \/ Cancel(h)

Next == (\E h \in Handlers : HandlerStep(h)) \/ (\E b \in Bookings : PayBooking(b))

Spec == Init /\ [][Next]_vars

-----------------------------------------------------------------------------
(* Properties.                                                             *)

Tender == INSTANCE EventTender WITH
  Bids <- Proposals, Contracts <- Bookings,
  open <- (request.status = "OPEN"), standing <- Pending,
  signed <- {<<b, booking[b].proposal>> : b \in Booked}

\* Handlers may overlap as they like: until one of them writes what its reads no
\* longer allow, every write is a step of the tender.  declineProposal never looks
\* at the request, and is one all the same.
TenderUnlessStale ==
  /\ Tender!Init
  /\ [][stale' # {} \/ Tender!Next]_(Tender!tenderVars)

\* Customers are never asked to pay twice for one event: a second booking of a
\* request is only made by an acceptance that did not see another one or a
\* cancellation.  Stale submissions, declines and cancellations do no such harm.
OneBookingPerRequest ==
  "accept" \notin stale => \A b, c \in Booked : b = c

\* The request, its winning proposal and the booking name each other, whatever
\* submissions overlapped; a stale decline or cancellation breaks the chain and
\* leaves a booking that the other side was told is off.
BookingMatchesProposal ==
  stale \cap {"accept", "decline", "cancel"} = {} =>
    \A b \in Booked : LET p == booking[b].proposal IN
      /\ request = [status |-> "PROPOSAL_ACCEPTED", accepted |-> p]
      /\ proposal[p].status = "ACCEPTED" /\ proposal[p].booking = b
      /\ \A q \in Proposals \ {p} : proposal[q].status # "ACCEPTED"

\* No planner waits for an answer that cannot come any more: only a submission
\* that overlapped the closing of the request leaves a PENDING proposal behind.
NobodyWaitsForClosedRequest ==
  "submit" \notin stale /\ request.status # "OPEN" => Pending = {}

\* A paid booking of a proposal never waits for the vendor's decision, although the
\* handler finds the proposal by a column that acceptances overwrite: only two
\* acceptances of one proposal leave the first booking without it.
AcceptedIsConfirmedByPayment ==
  \A b \in Bookings : booking[b].status = "PAID" =>
    \E c \in Booked \ {b} : booking[c].proposal = booking[b].proposal
=============================================================================
