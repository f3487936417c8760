---------------------------- MODULE Conversations ----------------------------
(***************************************************************************)
(* The conversations of the database and those who talk in them.  Clients  *)
(* of routes/chat.py send messages, rename and delete conversations, also  *)
(* those of Telegram, which the list shows like any other;                 *)
(* Telegram posts updates to the webhook, again when it got no good reply, *)
(* and every handler looks a conversation up and writes it in two          *)
(* transactions (database/models.py).  The answers of the agent go to the  *)
(* chats through services/telegram_service.py: every server process runs a *)
(* task for them (server.py; `auperator server --workers 4'), all of them  *)
(* in one group of the stream; that the group loses events only with a     *)
(* cause is in module EventCenter.                                         *)
(***************************************************************************)
EXTENDS Naturals, Sequences, FiniteSets

CONSTANTS
  Threads,      \* thread_ids clients use
  Chats,        \* thread_ids that are numbers: chats of Telegram
  Lengths,      \* numbers of messages an answer may take, 0 if it has no text
  Calls,        \* requests that are handled at a time
  Servers,      \* server processes
  MaxWork,      \* bound: requests of clients and answers of agents together
  MaxUpdates,   \* bound: updates of Telegram
  MaxFaults     \* bound: failures of Redis and the database, late replies

ASSUME CoAssumption ==
  /\ Threads \cap Chats = {}
  /\ Lengths \subseteq Nat
  /\ {MaxWork, MaxUpdates, MaxFaults} \subseteq Nat

AllThreads == Threads \union Chats

VARIABLES
  rows,      \* the table: by row id, the thread_id and the thread_id of the
             \* conversation that the row's title was meant for
  call,      \* what the handler of each open request does
  updates,   \* Telegram's messages and what it knows about their delivery
  published, \* the USER events: thread, and the update they are about
  answers,   \* the AGENT events, in stream order
  given,     \* the last answer the group was given
  telegram,  \* the task of each TelegramService: what it does, with which answer
  received,  \* what each chat received: parts of answers, and from which server
  asks,      \* history: what clients requested
  faults

replyVars == <<answers, given, telegram, received>>
vars == <<rows, call, updates, published, replyVars, asks, faults>>

Routes == {"send", "webhook", "delete", "rename"}

\* update: the one a webhook call is about, 0 for the requests of clients, whose
\* number is `request'; heeded: Telegram still waits for the reply.
Closed == [pc |-> "closed", route |-> "send", thread |-> 0, row |-> 0, update |-> 0,
           request |-> 0, heeded |-> FALSE]
Opened(route, t, u, q) ==
  [Closed EXCEPT !.pc = "look", !.route = route, !.thread = t, !.update = u,
                 !.request = q, !.heeded = (u # 0)]

Init ==
  /\ rows = [r \in {} |-> {}]
  /\ call = [c \in Calls |-> Closed]
  /\ updates = <<>> /\ published = <<>>
  /\ answers = <<>> /\ given = 0
  /\ telegram = [s \in Servers |-> [pc |-> "wait", cur |-> 0, part |-> 0]]
  /\ received = [t \in Chats |-> <<>>]
  /\ asks = <<>> /\ faults = 0

Fault == faults < MaxFaults /\ faults' = faults + 1

(***************************************************************************)
(* Replies                                                                 *)
(***************************************************************************)

\* What Telegram learns from the reply to call c.
Heard(c, how) ==
  \/ call[c].heeded /\ updates' = [updates EXCEPT ![call[c].update].state = how]
  \/ ~call[c].heeded /\ UNCHANGED updates

Close(c) == call' = [call EXCEPT ![c] = Closed]
Goto(c, pc) == call' = [call EXCEPT ![c].pc = pc]

\* Variant to be refuted: the webhook answers {"ok": True} to an exception.
Variant_Fails(c) == Close(c) /\ Heard(c, "done")

\* HTTPException 500: Telegram will post the update again.
Fails(c) == Close(c) /\ Heard(c, "waiting")

\* Variant to be refuted: the webhook has no reply that ends the delivery.
Variant_Succeeds(c) == Close(c) /\ Heard(c, "waiting")

Succeeds(c) == Close(c) /\ Heard(c, "done")

(***************************************************************************)
(* Requests                                                                *)
(***************************************************************************)

Request(c) ==
  /\ Len(asks) + Len(answers) < MaxWork
  /\ call[c].pc = "closed"
  /\ \E route \in Routes \ {"webhook"}, t \in AllThreads :
       /\ asks' = Append(asks, [route |-> route, thread |-> t])
       /\ call' = [call EXCEPT ![c] = Opened(route, t, 0, Len(asks) + 1)]
  /\ UNCHANGED <<rows, updates, published, replyVars, faults>>

\* Somebody writes in a chat: a text, or something else ("start", a picture).
Write ==
  /\ Len(updates) < MaxUpdates
  /\ \E t \in Chats, text \in BOOLEAN :
       updates' = Append(updates, [thread |-> t, text |-> text, state |-> "waiting"])
  /\ UNCHANGED <<rows, call, published, replyVars, asks, faults>>

\* Telegram posts an update; one without a text is answered at once.
Deliver(c) ==
  /\ call[c].pc = "closed"
  /\ \E u \in DOMAIN updates :
       /\ updates[u].state = "waiting"
       /\ \/ /\ updates[u].text
             /\ call' = [call EXCEPT ![c] = Opened("webhook", updates[u].thread, u, 0)]
             /\ updates' = [updates EXCEPT ![u].state = "posted"]
          \/ /\ ~updates[u].text
             /\ updates' = [updates EXCEPT ![u].state = "done"]
             /\ UNCHANGED call
  /\ UNCHANGED <<rows, published, replyVars, asks, faults>>

\* The reply is lost or takes too long: Telegram will post the update again.
GiveUp(c) ==
  /\ call[c].heeded
  /\ Fault
  /\ updates' = [updates EXCEPT ![call[c].update].state = "waiting"]
  /\ call' = [call EXCEPT ![c].heeded = FALSE]
  /\ UNCHANGED <<rows, published, replyVars, asks>>

(***************************************************************************)
(* Conversation.get_by_thread_id, get_or_create; delete and rename         *)
(***************************************************************************)

RowsOf(t) == {r \in DOMAIN rows : rows[r].thread = t}
Talks(c) == call[c].route \in {"send", "webhook"}

\* The row is there: its id is remembered.  (The column thread_id is unique:
\* scalar_one_or_none finds one row at most.)
Find(c) ==
  /\ call[c].pc = "look"
  /\ \E r \in RowsOf(call[c].thread) :
       call' = [call EXCEPT ![c].pc = "write", ![c].row = r]
  /\ UNCHANGED <<rows, updates, published, replyVars, asks, faults>>

\* Variant to be refuted: the new row is added to the session and not committed.
Variant_Miss(c) ==
  /\ call[c].pc = "look"
  /\ RowsOf(call[c].thread) = {}
  /\ \/ Talks(c) /\ Goto(c, "publish")
     \/ ~Talks(c) /\ Close(c)
  /\ UNCHANGED <<rows, updates, published, replyVars, asks, faults>>

\* It is not: a message makes one, the others are answered 404.
Miss(c) ==
  /\ call[c].pc = "look"
  /\ RowsOf(call[c].thread) = {}
  /\ \/ Talks(c) /\ Goto(c, "insert")
     \/ ~Talks(c) /\ Close(c)
  /\ UNCHANGED <<rows, updates, published, replyVars, asks, faults>>

\* unique=True
Free(t) == RowsOf(t) = {}

\* The row id is SQLite's choice: one more than the largest of the table, which
\* may be that of a row that was deleted (sqlite_autoincrement is not set).
Insert(c) ==
  /\ call[c].pc = "insert"
  /\ Free(call[c].thread)
  /\ \E id \in {1} \union {r + 1 : r \in DOMAIN rows} :
       /\ \A r \in DOMAIN rows : r < id
       /\ rows' = [r \in DOMAIN rows \union {id} |->
                     IF r = id THEN [thread |-> call[c].thread, title |-> call[c].thread]
                     ELSE rows[r]]
  /\ Goto(c, "publish")
  /\ UNCHANGED <<updates, published, replyVars, asks, faults>>

\* IntegrityError: another call has made the row since.
InsertFails(c) ==
  /\ call[c].pc = "insert"
  /\ ~Free(call[c].thread)
  /\ Fails(c)
  /\ UNCHANGED <<rows, published, replyVars, asks, faults>>

\* UPDATE ... WHERE id = ...: updated_at of a conversation that goes on, or the
\* title.  StaleDataError if no row has the id since; if another conversation's
\* row has it by now, that one is updated.
Update(c) ==
  /\ call[c].pc = "write" /\ call[c].route # "delete"
  /\ \/ /\ call[c].row \in DOMAIN rows
        /\ \/ Talks(c) /\ Goto(c, "publish") /\ UNCHANGED rows
           \/ /\ ~Talks(c)
              /\ rows' = [rows EXCEPT ![call[c].row].title = call[c].thread]
              /\ Close(c)
        /\ UNCHANGED updates
     \/ /\ call[c].row \notin DOMAIN rows
        /\ Fails(c)
        /\ UNCHANGED rows
  /\ UNCHANGED <<published, replyVars, asks, faults>>

\* DELETE ... WHERE id = ...: of whatever conversation's row has the id by now.
\* That there is none any more is no error.
Delete(c) ==
  /\ call[c].pc = "write" /\ call[c].route = "delete"
  /\ rows' = [r \in DOMAIN rows \ {call[c].row} |-> rows[r]]
  /\ Close(c)
  /\ UNCHANGED <<updates, published, replyVars, asks, faults>>

\* The database fails.
DbFails(c) ==
  /\ call[c].pc \in {"look", "insert", "write"}
  /\ Fault
  /\ Fails(c)
  /\ UNCHANGED <<rows, published, replyVars, asks>>

\* publish_event of the USER event.
PublishUser(c) ==
  /\ call[c].pc = "publish"
  /\ published' = Append(published, [thread |-> call[c].thread, update |-> call[c].update])
  /\ Succeeds(c)
  /\ UNCHANGED <<rows, replyVars, asks, faults>>

\* Redis fails: the command may have been executed, twice if it was repeated.
PublishFails(c) ==
  /\ call[c].pc = "publish"
  /\ Fault
  /\ \E k \in 0..2 :
       published' = published \o [i \in 1..k |-> [thread |-> call[c].thread,
                                                  update |-> call[c].update]]
  /\ Fails(c)
  /\ UNCHANGED <<rows, replyVars, asks>>

(***************************************************************************)
(* TelegramService                                                         *)
(***************************************************************************)

\* The AgentWorker answers in a conversation, or ends a run with [Done], which
\* like an empty text is not for Telegram.
Answer ==
  /\ Len(asks) + Len(answers) < MaxWork
  /\ \E t \in {published[i].thread : i \in DOMAIN published},
        k \in Lengths :
       answers' = Append(answers, [thread |-> t, parts |-> k])
  /\ UNCHANGED <<rows, call, updates, published, given, telegram, received, asks, faults>>

Turn(s, pc, cur, part) ==
  telegram' = [telegram EXCEPT ![s] = [pc |-> pc, cur |-> cur, part |-> part]]

\* The group's next event goes to server s; those of other conversations and
\* without a text are passed over.
NextAnswer(s) ==
  /\ telegram[s].pc = "wait"
  /\ given < Len(answers)
  /\ given' = given + 1
  /\ LET a == answers[given']
     IN  \/ a.thread \in Chats /\ a.parts > 0 /\ Turn(s, "send", given', 1)
         \/ (a.thread \notin Chats \/ a.parts = 0) /\ Turn(s, "wait", given', 0)
  /\ UNCHANGED <<rows, call, updates, published, answers, received, asks, faults>>

MorePartsLeft(s) == telegram[s].part < answers[telegram[s].cur].parts

\* Variant to be refuted: the reply ok = false is not looked at.
Variant_AfterPart(s, ok) ==
  \/ MorePartsLeft(s) /\ Turn(s, "send", telegram[s].cur, telegram[s].part + 1)
  \/ ~MorePartsLeft(s) /\ Turn(s, "wait", telegram[s].cur, 0)

\* The next part, if Telegram took this one; else the next answer.
AfterPart(s, ok) ==
  \/ ok /\ MorePartsLeft(s) /\ Turn(s, "send", telegram[s].cur, telegram[s].part + 1)
  \/ ~(ok /\ MorePartsLeft(s)) /\ Turn(s, "wait", telegram[s].cur, 0)

\* The chat gets the part that is due.
Get(s) ==
  received' = [received EXCEPT ![answers[telegram[s].cur].thread] =
                 Append(@, [answer |-> telegram[s].cur, part |-> telegram[s].part, by |-> s])]

\* send_message posts a part.  Telegram may refuse it (its Markdown does not
\* parse, the chat is gone) or take it and the reply be lost; then the rest is
\* not sent.
SendPart(s) ==
  /\ telegram[s].pc = "send"
  /\ \/ Get(s) /\ AfterPart(s, TRUE) /\ UNCHANGED faults
     \/ Get(s) /\ Fault /\ AfterPart(s, FALSE)
     \/ AfterPart(s, FALSE) /\ UNCHANGED <<received, faults>>
  /\ UNCHANGED <<rows, call, updates, published, answers, given, asks>>

\* A Redis error ends the task (line 257), and nothing starts it again but the
\* next start of the server.
ConsumerFails(s) ==
  /\ telegram[s].pc = "wait"
  /\ Fault
  /\ Turn(s, "over", telegram[s].cur, 0)
  /\ UNCHANGED <<rows, call, updates, published, answers, given, received, asks>>

\* stop_consumer, at a server's shutdown, and start_consumer at its next start:
\* its open requests are done by then, and what is left of the answer it was
\* sending is lost.
RestartServer(s) ==
  /\ Fault
  /\ Turn(s, "wait", telegram[s].cur, 0)
  /\ UNCHANGED <<rows, call, updates, published, answers, given, received, asks>>

TelegramTask(s) == NextAnswer(s) \/ SendPart(s) \/ ConsumerFails(s) \/ RestartServer(s)

Handler(c) ==
  \/ Find(c) \/ Miss(c) \/ Insert(c) \/ InsertFails(c) \/ Update(c) \/ Delete(c)
  \/ PublishUser(c) \/ PublishFails(c) \/ DbFails(c)

Next ==
  \/ \E c \in Calls : Request(c) \/ Deliver(c) \/ GiveUp(c) \/ Handler(c)
  \/ Write
  \/ Answer
  \/ \E s \in Servers : TelegramTask(s)

Spec == Init /\ [][Next]_vars

\* Handlers go on, and Telegram posts an update until it gets a good reply.
Fairness ==
  /\ \A c \in Calls : WF_vars(Handler(c))
  /\ WF_vars(\E c \in Calls : Deliver(c))

FairSpec == Spec /\ Fairness

(***************************************************************************)
(* Properties                                                              *)
(***************************************************************************)

\* Types of the variables.
TypeOK ==
  /\ DOMAIN rows \subseteq Nat \ {0}
  /\ rows \in [DOMAIN rows -> [thread : AllThreads, title : AllThreads]]
  /\ call \in [Calls -> [pc : {"closed", "look", "insert", "write", "publish"},
                         route : Routes, thread : AllThreads \union {0},
                         row : Nat, update : 0..Len(updates),
                         request : 0..Len(asks), heeded : BOOLEAN]]
  /\ updates \in Seq([thread : Chats, text : BOOLEAN, state : {"waiting", "posted", "done"}])
  /\ published \in Seq([thread : AllThreads, update : 0..Len(updates)])
  /\ answers \in Seq([thread : AllThreads, parts : Lengths])
  /\ given \in 0..Len(answers)
  /\ telegram \in [Servers -> [pc : {"wait", "send", "over"}, cur : 0..given, part : Nat]]
  /\ asks \in Seq([route : Routes, thread : AllThreads])

\* A client asked to delete conversation t.
Deleted(t) == \E i \in DOMAIN asks : asks[i] = [route |-> "delete", thread |-> t]

\* Two deletions of one conversation were asked: the second may find the row that
\* the first deletes, and delete whatever has its id by then.
Crossed ==
  \E i, j \in DOMAIN asks : i # j /\ asks[i] = asks[j] /\ asks[i].route = "delete"

\* Handlers look a row up and write it by its id later, the row may be gone by
\* then and its id another conversation's.  Still the conversation of every
\* published message is in the table and under its own title, unless it was
\* deleted - except after two deletions of the same conversation.
ConversationsAreKept ==
  /\ \A i \in DOMAIN published :
       LET t == published[i].thread
       IN  RowsOf(t) # {} \/ Deleted(t) \/ Crossed
  /\ \A r \in DOMAIN rows :
       LET t == rows[r].title
       IN  t = rows[r].thread \/ Deleted(t) \/ Crossed

\* What one would expect, and the row ids do not give (StaleRow.cfg): a
\* conversation goes only if its own deletion was asked.
OnlyItsOwnDeletion ==
  \A i \in DOMAIN published :
    LET t == published[i].thread
    IN  RowsOf(t) # {} \/ Deleted(t)

\* A chat receives the answers of its own conversation, of a long one no part
\* without those before it, nothing twice; and what comes from one server comes
\* in the order it was published.
RepliesInOrder ==
  \A t \in Chats : \A j \in DOMAIN received[t] :
    LET now == received[t][j]
    IN  /\ answers[now.answer].thread = t
        /\ now.part # 1 =>
             \E i \in 1..j-1 : received[t][i] = [now EXCEPT !.part = @ - 1]
        /\ \A i \in 1..j-1 :
             /\ received[t][i].by = now.by => received[t][i].answer <= now.answer
             /\ received[t][i].answer = now.answer => received[t][i].part < now.part

\* What a chat's reader would expect, and several servers do not give
\* (TwoServers.cfg): a later answer is not before an earlier one.
AnswersInOrder ==
  \A t \in Chats : \A i, j \in DOMAIN received[t] :
    i < j => received[t][i].answer <= received[t][j].answer

\* The webhook does not remember the updates it has seen, so a text can be
\* published again; but only a fault makes it so - a late reply, or a failure of
\* Redis after the event or both copies of it were added.  Neither the race for
\* the row nor a deletion in between does, because they fail before publishing.
RepeatedForCause ==
  \A u \in DOMAIN updates :
    Cardinality({i \in DOMAIN published : published[i].update = u}) <= 1 + 2 * faults

\* Whatever fails in the webhook - the database, Redis, the race of two first
\* messages of a chat for its row, a late reply - a text that was written in a
\* chat is published in the end, because only a 200 stops Telegram.
UpdatesArePublished ==
  \A u \in 1..MaxUpdates :
    (u \in DOMAIN updates /\ updates[u].text)
      ~> (\E i \in DOMAIN published : published[i].update = u)
=============================================================================
