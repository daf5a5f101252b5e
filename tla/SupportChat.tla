---------------------------- MODULE SupportChat -----------------------------
(***************************************************************************)
(* The chat threads of one context (chat.controller.js and the chat        *)
(* handlers of admin.controller.js and support.controller.js): the general *)
(* support of one account, the support of one booking or session, the      *)
(* dispute chat of one party of a ticket, or the chat of two users.  A     *)
(* handler per process and a database call per step; the answer of the AI  *)
(* comes any time after it was asked for.  Any handler may fail at any     *)
(* step.  What a message says, its notifications and the read marks are    *)
(* left out.                                                               *)
(***************************************************************************)
EXTENDS FiniteSets, Naturals, Sequences

CONSTANTS
  Handlers,     \* slots for requests in progress
  Admins,       \* users with the ADMIN role
  Nobody,       \* no user
  MaxThreads,   \* bound: threads of the context
  MaxMessages   \* bound: messages after which no further one is begun

ASSUME PeopleAssumption ==
  /\ Nobody \notin Admins
  /\ Admins \cap {"user", "peer", "ai"} = {}
  /\ "user" # Nobody /\ "peer" # Nobody /\ "ai" # Nobody
ASSUME ThreadsAssumption == MaxThreads \in Nat

VARIABLES
  kind,      \* what the context is
  threads,   \* the ChatThread rows with their messages, oldest first
  aiUser,    \* the account the AI writes from exists
  run,       \* the handlers in progress
  failed,    \* history: the clean-up at the end of the booking was cut off
  crossed,   \* history: two handlers created a thread on the same read
  left,      \* history: the threads that the end of the booking found
  sealed,    \* history: closed threads that no handler was at work on
  human      \* history: threads an admin has, with all that was under way finished

rows == <<kind, threads, aiUser>>
history == <<failed, crossed, left>>
chatVars == <<rows, run, history, sealed, human>>

-----------------------------------------------------------------------------
\* GENERAL and BOOKING are both of contextType SUPPORT: the contextId of the one is
\* the account's, of the other a booking's or a session's.
Kinds == {"GENERAL", "BOOKING", "DISPUTE", "DIRECT"}
People == Admins \cup {"user", "peer"}

ThreadRow == [closed : BOOLEAN, handledBy : Admins \cup {Nobody},
              members : SUBSET People, messages : Seq(People \cup {"ai"})]

\* A handler in progress; "fresh" is what an admin's read of handledByAdminId was.
RunRow == [step : {"none", "create", "write", "aiLook", "aiUser", "aiNewUser",
                   "recheck", "aiWrite", "join", "adminWrite", "stamp", "close"},
           by : People \cup {Nobody}, thread : 0 .. MaxThreads, fresh : BOOLEAN]
Idle == [step |-> "none", by |-> Nobody, thread |-> 0, fresh |-> FALSE]

Made == DOMAIN threads
Opened == {t \in Made : ~threads[t].closed}
Said == UNION {{t} \X DOMAIN threads[t].messages : t \in Made}
Parties == IF kind = "DIRECT" THEN {"user", "peer"} ELSE {"user"}

ChatTypeOK ==
  /\ kind \in Kinds /\ aiUser \in BOOLEAN
  /\ threads \in Seq(ThreadRow) /\ Len(threads) <= MaxThreads
  /\ run \in [Handlers -> RunRow]
  /\ failed \in BOOLEAN /\ crossed \in BOOLEAN
  /\ left \subseteq Made /\ sealed \subseteq Made /\ human \subseteq Made

ChatInit ==
  /\ kind \in Kinds
  /\ threads = <<>> /\ aiUser = FALSE
  /\ run = [h \in Handlers |-> Idle]
  /\ failed = FALSE /\ crossed = FALSE /\ left = {} /\ sealed = {} /\ human = {}

-----------------------------------------------------------------------------
(* The first read of a handler.  One that refuses it leaves no trace, so   *)
(* that only the others are steps.                                         *)

Begin(h, step, by, t, fresh) ==
  /\ run[h] = Idle
  /\ run' = [run EXCEPT ![h] = [step |-> step, by |-> by, thread |-> t,
                                fresh |-> fresh]]
  /\ UNCHANGED rows

\* The threads that findFirst may return: openSupportThreadForUser is the one that
\* does not ask for an open one.
Findable(by) == IF kind = "GENERAL" /\ by \in Admins THEN Made ELSE Opened

\* Who may open a thread: the admin's counterparts are openSupportThreadForUser and
\* openDisputeThreadForTicketParty.
Openers == Parties \cup (IF kind \in {"GENERAL", "DISPUTE"} THEN Admins ELSE {})

\* Faulty variant: every tap makes a thread.
StartOpenBlindly(h) ==
  /\ \E p \in Openers : Begin(h, "create", p, 0, FALSE)
  /\ UNCHANGED history

\* openThread, openSupportThread, openMyDisputeChat: there is none to find.
StartOpen(h) ==
  /\ \E p \in Openers : Findable(p) = {} /\ Begin(h, "create", p, 0, FALSE)
  /\ UNCHANGED history

\* Faulty variant: a closed thread still takes messages.
StartSendAnyway(h) ==
  /\ Cardinality(Said) < MaxMessages
  /\ \E t \in Made, p \in Parties :
       p \in threads[t].members /\ Begin(h, "write", p, t, FALSE)
  /\ UNCHANGED history

\* sendMessage.
StartSend(h) ==
  /\ Cardinality(Said) < MaxMessages
  /\ \E t \in Opened, p \in Parties :
       p \in threads[t].members /\ Begin(h, "write", p, t, FALSE)
  /\ UNCHANGED history

\* sendAdminChatMessage: the panel shows support and dispute threads.
StartAdminSend(h) ==
  /\ kind # "DIRECT" /\ Cardinality(Said) < MaxMessages
  /\ \E t \in Opened, a \in Admins :
       Begin(h, "join", a, t, threads[t].handledBy = Nobody)
  /\ UNCHANGED history

\* closeThread, by a participant, and closeChatThread, by an admin.
StartClose(h) ==
  /\ \E t \in Opened, p \in Parties \cup (IF kind = "DIRECT" THEN {} ELSE Admins) :
       /\ p \in threads[t].members \cup Admins
       /\ Begin(h, "close", p, t, FALSE)
  /\ UNCHANGED history

\* Faulty variant: only a thread that somebody has written in is looked for.
StartCloseContextOfTalk(h) ==
  /\ kind = "BOOKING" /\ left' = Made
  /\ IF \E t \in Opened : threads[t].messages # <<>>
     THEN \E t \in Opened : threads[t].messages # <<>> /\ Begin(h, "close", Nobody, t, FALSE)
     ELSE run[h] = Idle /\ UNCHANGED <<rows, run>>
  /\ UNCHANGED <<failed, crossed>>

\* closeSupportThreadForContext: it finds some thread, open or not, and ends there if
\* that one is closed.
StartCloseContext(h) ==
  /\ kind = "BOOKING" /\ left' = Made
  /\ \/ \E t \in Opened : Begin(h, "close", Nobody, t, FALSE)
     \/ Opened # Made /\ run[h] = Idle /\ UNCHANGED <<rows, run>>
  /\ UNCHANGED <<failed, crossed>>

-----------------------------------------------------------------------------
(* The steps that follow.                                                  *)

GoesTo(h, step) ==
  run' = [run EXCEPT ![h] = IF step = "done" THEN Idle ELSE [@ EXCEPT !.step = step]]

NewThread(p) ==
  [closed |-> FALSE, handledBy |-> Nobody, messages |-> <<>>,
   members |-> IF kind = "DIRECT" THEN Parties ELSE {"user"}]

Create(h) ==
  /\ run[h].step = "create" /\ Len(threads) < MaxThreads
  /\ threads' = Append(threads, NewThread(run[h].by))
  /\ crossed' = (crossed \/ \E g \in Handlers \ {h} : run[g].step = "create")
  /\ GoesTo(h, "done")
  /\ UNCHANGED <<kind, aiUser, failed, left>>

\* A write of the handler's thread.
Writes(h, row, step) ==
  /\ threads' = [threads EXCEPT ![run[h].thread] = row]
  /\ GoesTo(h, step)
  /\ UNCHANGED <<kind, aiUser, history>>

Row(h) == threads[run[h].thread]

\* The message is there, the user has the answer; support threads go on to the AI.
Send(h) ==
  /\ run[h].step = "write"
  /\ Writes(h, [Row(h) EXCEPT !.messages = Append(@, run[h].by)],
            IF kind \in {"GENERAL", "BOOKING"} THEN "aiLook" ELSE "done")

\* maybeSendAiReply ends where an admin has taken over.
AiLook(h) ==
  /\ run[h].step = "aiLook"
  /\ GoesTo(h, IF Row(h).handledBy = Nobody THEN "aiUser" ELSE "done")
  /\ UNCHANGED <<rows, history>>

\* ensureAiSupportUser.
AiUser(h) ==
  /\ run[h].step = "aiUser"
  /\ GoesTo(h, IF aiUser THEN "recheck" ELSE "aiNewUser")
  /\ UNCHANGED <<rows, history>>

\* The address is unique: the second of two creations throws.
AiNewUser(h) ==
  /\ run[h].step = "aiNewUser"
  /\ aiUser' = TRUE
  /\ GoesTo(h, IF aiUser THEN "done" ELSE "recheck")
  /\ UNCHANGED <<kind, threads, history>>

\* Faulty variant: the answer of the AI is posted without a second look.
RecheckNothing(h) ==
  /\ run[h].step = "recheck" /\ GoesTo(h, "aiWrite")
  /\ UNCHANGED <<rows, history>>

\* The AI has answered: has an admin taken over in the meantime?
Recheck(h) ==
  /\ run[h].step = "recheck"
  /\ GoesTo(h, IF Row(h).handledBy = Nobody THEN "aiWrite" ELSE "done")
  /\ UNCHANGED <<rows, history>>

AiReply(h) ==
  /\ run[h].step = "aiWrite"
  /\ Writes(h, [Row(h) EXCEPT !.messages = Append(@, "ai")], "done")

\* The admin becomes a participant.
Join(h) ==
  /\ run[h].step = "join"
  /\ Writes(h, [Row(h) EXCEPT !.members = @ \cup {run[h].by}], "adminWrite")

AdminSend(h) ==
  /\ run[h].step = "adminWrite"
  /\ Writes(h, [Row(h) EXCEPT !.messages = Append(@, run[h].by)],
            IF run[h].fresh THEN "stamp" ELSE "done")

Stamp(h) ==
  /\ run[h].step = "stamp"
  /\ Writes(h, [Row(h) EXCEPT !.handledBy = run[h].by], "done")

Close(h) ==
  /\ run[h].step = "close"
  /\ Writes(h, [Row(h) EXCEPT !.closed = TRUE], "done")

\* A database error, an AI that does not answer, the process dying.
Fail(h) ==
  /\ run[h] # Idle
  /\ GoesTo(h, "done")
  /\ failed' = (failed \/ (run[h].step = "close" /\ run[h].by = Nobody))
  /\ UNCHANGED <<rows, crossed, left>>

-----------------------------------------------------------------------------
\* What has come to rest, for the properties: a closed thread that no handler is at
\* work on, and a thread that is an admin's, with no AI reply past its second look
\* and no other admin about to take it.
Settles ==
  /\ sealed' = sealed \cup {t \in DOMAIN threads' :
       threads'[t].closed /\ \A h \in Handlers : run'[h].thread # t}
  /\ human' = human \cup {t \in DOMAIN threads' :
       /\ threads'[t].handledBy # Nobody
       /\ \A h \in Handlers : run'[h].thread = t =>
            run'[h].step # "aiWrite" /\ ~run'[h].fresh}

Start(h) ==
  \/ StartOpen(h) \/ StartSend(h) \/ StartAdminSend(h) \/ StartClose(h)
  \/ StartCloseContext(h)

GoOn(h) ==
  \/ Create(h) \/ Send(h) \/ Join(h) \/ AdminSend(h) \/ Stamp(h) \/ Close(h)
  \/ AiLook(h) \/ AiUser(h) \/ AiNewUser(h) \/ Recheck(h) \/ AiReply(h)
  \/ Fail(h)

ChatNext == (\E h \in Handlers : Start(h) \/ GoOn(h)) /\ Settles

ChatSpec == ChatInit /\ [][ChatNext]_chatVars

-----------------------------------------------------------------------------
(* Properties.                                                             *)

Quiet == \A h \in Handlers : run[h] = Idle

\* All who open the chat of one context meet in one thread, whichever side is first,
\* however often it was closed and begun again, unless two of them created one on the
\* same read (chat.controller.js has no unique constraint to lean on).
OneOpenThread == ~crossed => Cardinality(Opened) <= 1

\* When a booking ends, so does its support chat: no thread that the end of it found
\* stays open, unless the clean-up was cut off, or there was an older thread for it
\* to find instead.
EndedBookingClosesChat ==
  Quiet /\ ~failed /\ Cardinality(left) <= 1 =>
    left \cap Opened = {}

\* Once a thread is closed and what was under way has landed, it says nothing more:
\* neither its parties, nor an admin, nor a late answer of the AI.
SealedIsSilent ==
  [][\A t \in sealed : threads'[t].messages = threads[t].messages]_chatVars

AiSaid(t, rowsNow) ==
  {i \in DOMAIN rowsNow[t].messages : rowsNow[t].messages[i] = "ai"}

\* Once an admin has taken a thread over and what had passed its last check has
\* landed, the AI is silent in it and no other admin takes it, whatever answers are
\* still to come.
TakenOverForGood ==
  [][\A t \in human : /\ AiSaid(t, threads') = AiSaid(t, threads)
                      /\ threads'[t].handledBy = threads[t].handledBy]_chatVars
=============================================================================
