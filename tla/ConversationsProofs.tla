------------------------ MODULE ConversationsProofs ------------------------
(***************************************************************************)
(* For any conversations, any number of requests at a time, any servers    *)
(* and any faults: a conversation goes only if its deletion was asked, or  *)
(* two deletions of one conversation were, although rows are looked up and *)
(* written in two transactions and row ids are used again.  The second     *)
(* part: the order of the answers in a chat.  The third: a text is         *)
(* published again for a cause only.                                       *)
(***************************************************************************)
EXTENDS Conversations, SequenceTheorems, FiniteSetTheorems, TLAPS

Row == [thread : AllThreads, title : AllThreads]
States == {"waiting", "posted", "done"}
Text == [thread : Chats, text : BOOLEAN, state : States]
User == [thread : AllThreads, update : Nat]
Ask == [route : Routes, thread : AllThreads]
Handling == [pc : {"closed", "look", "insert", "write", "publish"}, route : Routes,
             thread : AllThreads \union {0}, row : Nat, update : Nat, request : Nat,
             heeded : BOOLEAN]

Types ==
  /\ DOMAIN rows \subseteq Nat \ {0}
  /\ rows \in [DOMAIN rows -> Row]
  /\ call \in [Calls -> Handling]
  /\ updates \in Seq(Text)
  /\ published \in Seq(User)
  /\ asks \in Seq(Ask)

\* The deletion of t was asked, and not only by request q.
AskedToo(t, q) ==
  \E i \in DOMAIN asks : i # q /\ asks[i] = [route |-> "delete", thread |-> t]

\* The row a handler is about to write is still its conversation's.
Mine(c) == call[c].row \in DOMAIN rows /\ rows[call[c].row].thread = call[c].thread

Kept(t) == RowsOf(t) # {} \/ Deleted(t) \/ Crossed

\* An open request is in the history, each at its place.
AsksKnown ==
  /\ \A c \in Calls :
       /\ call[c].request <= Len(asks)
       /\ call[c].pc # "closed" /\ call[c].route = "delete" =>
            /\ call[c].request # 0
            /\ asks[call[c].request] = [route |-> "delete", thread |-> call[c].thread]
  /\ \A c, d \in Calls :
       /\ c # d /\ call[c].pc # "closed" /\ call[d].pc # "closed"
       /\ call[c].request # 0
       => call[c].request # call[d].request

\* What a handler has found out of its conversation: the row it is about to write
\* is the conversation's, or somebody else has asked to delete it; before it
\* publishes, the conversation is in the table or was deleted.
CallsKnow ==
  \A c \in Calls :
    /\ call[c].pc # "closed" => call[c].thread \in AllThreads
    /\ call[c].pc = "write" =>
         Mine(c) \/ AskedToo(call[c].thread, call[c].request) \/ Crossed
    /\ call[c].pc = "publish" => Kept(call[c].thread)

PublishedKnow == \A i \in DOMAIN published : Kept(published[i].thread)

TitlesKnow ==
  \A r \in DOMAIN rows :
    rows[r].title = rows[r].thread \/ Deleted(rows[r].title) \/ Crossed

\* The inductive invariant.
IInv == Types /\ AsksKnown /\ CallsKnow /\ PublishedKnow /\ TitlesKnow

LEMMA IInvImpliesProperty == IInv => ConversationsAreKept
BY DEF IInv, PublishedKnow, TitlesKnow, Kept, ConversationsAreKept

-----------------------------------------------------------------------------

\* The same entry is added k times.
LEMMA Repeated ==
  ASSUME NEW S, NEW s \in Seq(S), NEW e \in S, NEW k \in Nat
  PROVE  LET r == s \o [i \in 1..k |-> e]
         IN  /\ r \in Seq(S)
             /\ DOMAIN r = 1..Len(s) + k
             /\ \A i \in 1..Len(s) : r[i] = s[i]
             /\ \A i \in Len(s) + 1..Len(s) + k : r[i] = e
<1> DEFINE new == [i \in 1..k |-> e]
           r == s \o new
<1>1. new \in Seq(S) /\ Len(new) = k /\ \A i \in 1..k : new[i] = e
  <2>1. \A i \in 1..k : e \in S
    OBVIOUS
  <2>2. new \in Seq(S)
    BY <2>1, IsASeq
  <2> QED
    BY <2>2, LenProperties
<1> HIDE DEF new
<1>2. /\ r \in Seq(S)
      /\ Len(r) = Len(s) + k
      /\ \A i \in 1..Len(s) + k : r[i] = IF i <= Len(s) THEN s[i] ELSE new[i - Len(s)]
  BY <1>1, ConcatProperties
<1>3. Len(s) \in Nat /\ DOMAIN r = 1..Len(s) + k
  BY <1>2, LenProperties
<1>4. \A i \in Len(s) + 1..Len(s) + k : i - Len(s) \in 1..k
  BY <1>3
<1> QED
  BY <1>1, <1>2, <1>3, <1>4 DEF new

\* What Telegram learns of a reply changes a state only.
LEMMA HeardType ==
  ASSUME Types, NEW c \in Calls, NEW how \in States, Heard(c, how)
  PROVE  updates' \in Seq(Text)
<1>1. CASE UNCHANGED updates
  BY <1>1 DEF Types
<1>2. CASE updates' = [updates EXCEPT ![call[c].update].state = how]
  <2> DEFINE u == call[c].update
  <2>1. updates \in Seq(Text) /\ DOMAIN updates = 1..Len(updates) /\ Len(updates) \in Nat
    BY DEF Types
  <2>2. updates' = [i \in 1..Len(updates) |->
                      IF i = u THEN [updates[u] EXCEPT !.state = how] ELSE updates[i]]
    BY <1>2, <2>1
  <2>3. \A i \in 1..Len(updates) : updates[i] \in Text
    BY <2>1
  <2>4. \A i \in 1..Len(updates) :
          (IF i = u THEN [updates[u] EXCEPT !.state = how] ELSE updates[i]) \in Text
    BY <2>3 DEF Text
  <2> QED
    BY <2>1, <2>2, <2>4, IsASeq
<1> QED
  BY <1>1, <1>2 DEF Heard

\* A step that leaves the table, the history and the published events alone.
LEMMA CallStep ==
  ASSUME IInv, UNCHANGED <<rows, published, asks>>, updates' \in Seq(Text),
         call' \in [Calls -> Handling], AsksKnown', CallsKnow'
  PROVE  IInv'
<1>1. Types'
  BY DEF IInv, Types
<1>2. PublishedKnow' /\ TitlesKnow'
  BY DEF IInv, PublishedKnow, TitlesKnow, Kept, RowsOf, Deleted, Crossed
<1> QED
  BY <1>1, <1>2 DEF IInv

\* A call that goes on: what has to be known of it.
LEMMA GoesOn ==
  ASSUME IInv, UNCHANGED <<published, asks>>, UNCHANGED rows, NEW c \in Calls, NEW h \in Handling,
         call' = [call EXCEPT ![c] = h], call[c].pc # "closed",
         h.thread = call[c].thread, h.request = call[c].request, h.route = call[c].route,
         h.pc = "write" => \/ h.row \in DOMAIN rows /\ rows[h.row].thread = h.thread
                           \/ AskedToo(h.thread, h.request) \/ Crossed,
         h.pc = "publish" => Kept(h.thread),
         updates' \in Seq(Text)
  PROVE  IInv'
<1>1. call \in [Calls -> Handling] /\ AsksKnown /\ CallsKnow
  BY DEF IInv, Types
<1>2. /\ call' \in [Calls -> Handling]
      /\ call'[c] = h /\ \A d \in Calls : d # c => call'[d] = call[d]
  BY <1>1
<1>3. AsksKnown'
  BY <1>1, <1>2 DEF AsksKnown
<1>4. CallsKnow'
  BY <1>1, <1>2 DEF CallsKnow, Mine, Kept, RowsOf, Deleted, Crossed, AskedToo
<1> QED
  BY <1>2, <1>3, <1>4, CallStep

\* The end of a request: with a good or a bad reply, or none.
LEMMA CloseStep ==
  ASSUME IInv, NEW c \in Calls, Close(c), UNCHANGED <<rows, published, asks>>,
         updates' \in Seq(Text)
  PROVE  IInv'
<1>1. call \in [Calls -> Handling] /\ AsksKnown /\ CallsKnow /\ Len(asks) \in Nat
  BY DEF IInv, Types
<1>2. /\ call' \in [Calls -> Handling]
      /\ call'[c] = Closed /\ \A d \in Calls : d # c => call'[d] = call[d]
  BY <1>1 DEF Close, Closed, Handling, Routes
<1>3. AsksKnown'
  BY <1>1, <1>2 DEF AsksKnown, Closed
<1>4. CallsKnow'
  BY <1>1, <1>2 DEF CallsKnow, Mine, Kept, RowsOf, Deleted, Crossed, AskedToo, Closed
<1> QED
  BY <1>2, <1>3, <1>4, CallStep

LEMMA FailsStep ==
  ASSUME IInv, NEW c \in Calls, Fails(c), UNCHANGED <<rows, published, asks>>
  PROVE  IInv'
<1>1. updates' \in Seq(Text)
  BY HeardType DEF Fails, IInv, States
<1> QED
  BY <1>1, CloseStep DEF Fails

\* A client's request is noted, and its handler starts.
LEMMA RequestIInv == ASSUME IInv, NEW c \in Calls, Request(c) PROVE IInv'
<1>1. PICK route \in Routes \ {"webhook"}, t \in AllThreads :
        /\ asks' = Append(asks, [route |-> route, thread |-> t])
        /\ call' = [call EXCEPT ![c] = Opened(route, t, 0, Len(asks) + 1)]
  BY DEF Request
<1>2. PICK n, x, h : /\ n = Len(asks) /\ x = [route |-> route, thread |-> t]
                     /\ h = Opened(route, t, 0, n + 1)
  OBVIOUS
<1>3. /\ call \in [Calls -> Handling] /\ asks \in Seq(Ask) /\ n \in Nat
      /\ AsksKnown /\ CallsKnow /\ PublishedKnow /\ TitlesKnow
      /\ UNCHANGED <<rows, updates, published>>
  BY <1>2 DEF IInv, Types, Request
<1>4. /\ h \in Handling /\ h.request = n + 1 /\ h.thread = t /\ h.route = route
      /\ h.pc = "look"
  <2>1. route \in Routes /\ n + 1 \in Nat /\ t \in AllThreads
    BY <1>3
  <2>2. h = [pc |-> "look", route |-> route, thread |-> t, row |-> 0, update |-> 0,
             request |-> n + 1, heeded |-> FALSE]
    BY <1>2 DEF Opened, Closed
  <2> QED
    BY <2>1, <2>2 DEF Handling
<1>5. /\ asks' \in Seq(Ask) /\ Len(asks') = n + 1
      /\ \A i \in DOMAIN asks : i \in DOMAIN asks' /\ asks'[i] = asks[i]
      /\ \A i \in 1..n : i \in DOMAIN asks
      /\ asks'[n + 1] = x
  <2>1. x \in Ask
    BY <1>2 DEF Ask
  <2> QED
    BY <1>1, <1>2, <1>3, <2>1, AppendProperties
<1>6. /\ call' \in [Calls -> Handling]
      /\ call'[c] = h /\ \A d \in Calls : d # c => call'[d] = call[d]
  BY <1>1, <1>2, <1>3, <1>4
\* What was known of deletions is known still.
<1>7. /\ \A s : Deleted(s) =>
           \E i \in DOMAIN asks' : asks'[i] = [route |-> "delete", thread |-> s]
      /\ \A s, q : AskedToo(s, q) =>
           \E i \in DOMAIN asks' : i # q /\ asks'[i] = [route |-> "delete", thread |-> s]
      /\ Crossed => Crossed'
  BY <1>5 DEF Deleted, AskedToo, Crossed
<1>8. AsksKnown'
  <2>1. \A d \in Calls : call[d].request \in Nat /\ call[d].request <= n
    BY <1>2, <1>3 DEF AsksKnown, Handling
  <2>2. ASSUME NEW d \in Calls
        PROVE  /\ call'[d].request <= n + 1
               /\ call'[d].pc # "closed" /\ call'[d].route = "delete" =>
                    /\ call'[d].request # 0
                    /\ asks'[call'[d].request] = [route |-> "delete",
                                                  thread |-> call'[d].thread]
    <3>1. CASE d = c
      BY <1>2, <1>3, <1>4, <1>5, <1>6, <3>1
    <3>2. CASE d # c
      <4>1. call'[d] = call[d]
        BY <1>6, <3>2
      <4>2. call[d].request # 0 => asks'[call[d].request] = asks[call[d].request]
        BY <1>3, <1>5, <2>1
      <4> QED
        BY <1>3, <2>1, <4>1, <4>2 DEF AsksKnown
    <3> QED
      BY <3>1, <3>2
  <2>3. ASSUME NEW d \in Calls, NEW e \in Calls, d # e, call'[d].pc # "closed",
               call'[e].pc # "closed", call'[d].request # 0
        PROVE  call'[d].request # call'[e].request
    BY <1>3, <1>4, <1>6, <2>1, <2>3 DEF AsksKnown
  <2> QED
    BY <1>5, <2>2, <2>3 DEF AsksKnown
<1>9. CallsKnow'
  <2>1. ASSUME NEW d \in Calls
        PROVE  /\ call'[d].pc # "closed" => call'[d].thread \in AllThreads
               /\ call'[d].pc = "write" =>
                    (Mine(d) \/ AskedToo(call[d].thread, call[d].request) \/ Crossed)'
               /\ call'[d].pc = "publish" => Kept(call[d].thread)'
    <3>1. CASE d = c
      BY <1>4, <1>6, <3>1
    <3>2. CASE d # c
      <4>1. call'[d] = call[d]
        BY <1>6, <3>2
      <4>2. CASE call[d].pc = "write"
        <5>1. Mine(d) \/ AskedToo(call[d].thread, call[d].request) \/ Crossed
          BY <1>3, <4>2 DEF CallsKnow
        <5>2. Mine(d) => Mine(d)'
          BY <1>3, <4>1 DEF Mine
        <5>3. AskedToo(call[d].thread, call[d].request) =>
                AskedToo(call[d].thread, call[d].request)'
          BY <1>7, <4>1 DEF AskedToo
        <5> QED
          BY <1>3, <1>7, <4>1, <4>2, <5>1, <5>2, <5>3 DEF CallsKnow
      <4>3. CASE call[d].pc = "publish"
        <5>1. RowsOf(call[d].thread) # {} \/ Deleted(call[d].thread) \/ Crossed
          BY <1>3, <4>3 DEF CallsKnow, Kept
        <5>2. RowsOf(call[d].thread)' = RowsOf(call[d].thread)
          BY <1>3, <4>1 DEF RowsOf
        <5>3. Deleted(call[d].thread) => Deleted(call[d].thread)'
          BY <1>7, <4>1 DEF Deleted
        <5>4. Kept(call[d].thread)'
          BY <1>7, <5>1, <5>2, <5>3 DEF Kept
        <5> QED
          BY <1>3, <4>1, <4>3, <5>4 DEF CallsKnow
      <4>4. CASE call[d].pc \notin {"write", "publish"}
        BY <1>3, <4>1, <4>4 DEF CallsKnow
      <4> QED
        BY <1>3, <4>1, <4>2, <4>3, <4>4 DEF CallsKnow
    <3> QED
      BY <3>1, <3>2
  <2> QED
    BY <2>1 DEF CallsKnow
<1>10. PublishedKnow'
  BY <1>3, <1>7 DEF PublishedKnow, Kept, RowsOf, Deleted
<1>11. TitlesKnow'
  BY <1>3, <1>7 DEF TitlesKnow, Deleted
<1>12. Types'
  BY <1>3, <1>5, <1>6 DEF IInv, Types
<1> QED
  BY <1>8, <1>9, <1>10, <1>11, <1>12 DEF IInv

LEMMA WriteIInv == ASSUME IInv, Write PROVE IInv'
<1>1. PICK t \in Chats, text \in BOOLEAN :
        updates' = Append(updates, [thread |-> t, text |-> text, state |-> "waiting"])
  BY DEF Write
<1>2. updates' \in Seq(Text)
  <2>1. [thread |-> t, text |-> text, state |-> "waiting"] \in Text
    BY DEF Text, States
  <2> QED
    BY <1>1, <2>1, AppendProperties DEF IInv, Types
<1> QED
  BY <1>2, CallStep DEF Write, IInv, Types, AsksKnown, CallsKnow, Mine, Kept, RowsOf,
     Deleted, Crossed, AskedToo

\* One update changes its state.
LEMMA StateType ==
  ASSUME Types, NEW u \in DOMAIN updates, NEW how \in States,
         updates' = [updates EXCEPT ![u].state = how]
  PROVE  updates' \in Seq(Text)
<1>1. updates \in Seq(Text) /\ DOMAIN updates = 1..Len(updates) /\ Len(updates) \in Nat
  BY DEF Types
<1>2. updates[u] \in Text
  BY <1>1
<1>3. [updates[u] EXCEPT !.state = how] \in Text
  BY <1>2 DEF Text
<1>4. updates' = [updates EXCEPT ![u] = [updates[u] EXCEPT !.state = how]]
  OBVIOUS
<1> QED
  BY <1>1, <1>3, <1>4, ExceptSeq

LEMMA DeliverIInv == ASSUME IInv, NEW c \in Calls, Deliver(c) PROVE IInv'
<1>1. PICK u \in DOMAIN updates :
        /\ updates[u].state = "waiting"
        /\ \/ /\ updates[u].text
              /\ call' = [call EXCEPT ![c] = Opened("webhook", updates[u].thread, u, 0)]
              /\ updates' = [updates EXCEPT ![u].state = "posted"]
           \/ /\ ~updates[u].text
              /\ updates' = [updates EXCEPT ![u].state = "done"]
              /\ UNCHANGED call
  BY DEF Deliver
<1>2. updates' \in Seq(Text)
  BY <1>1, StateType DEF IInv, States
<1>3. u \in Nat /\ updates[u].thread \in AllThreads
  <2>1. updates \in Seq(Text)
    BY DEF IInv, Types
  <2>2. u \in Nat /\ updates[u] \in Text
    BY <2>1
  <2> QED
    BY <2>2 DEF Text, AllThreads
<1>4. CASE UNCHANGED call
  <2>1. UNCHANGED <<rows, published, asks>> /\ AsksKnown /\ CallsKnow
    BY DEF Deliver, IInv
  <2>2. call' \in [Calls -> Handling]
    BY <1>4 DEF IInv, Types
  <2>3. AsksKnown'
    BY <1>4, <2>1 DEF AsksKnown
  <2>4. CallsKnow'
    BY <1>4, <2>1 DEF CallsKnow, Mine, Kept, RowsOf, Deleted, Crossed, AskedToo
  <2> QED
    BY <1>2, <2>1, <2>2, <2>3, <2>4, CallStep
<1>5. CASE call' = [call EXCEPT ![c] = Opened("webhook", updates[u].thread, u, 0)]
  <2>1. PICK h : h = Opened("webhook", updates[u].thread, u, 0)
    OBVIOUS
  <2>2. /\ h \in Handling /\ h.request = 0 /\ h.thread \in AllThreads
        /\ h.route = "webhook" /\ h.pc = "look"
    BY <1>3, <2>1 DEF Opened, Closed, Handling, Routes
  <2>3. call \in [Calls -> Handling] /\ AsksKnown /\ CallsKnow /\ Len(asks) \in Nat
    BY DEF IInv, Types
  <2>4. /\ call' \in [Calls -> Handling]
        /\ call'[c] = h /\ \A d \in Calls : d # c => call'[d] = call[d]
    BY <1>5, <2>1, <2>2, <2>3
  <2>5. UNCHANGED <<rows, published, asks>>
    BY DEF Deliver
  <2>6. AsksKnown'
    BY <2>2, <2>3, <2>4, <2>5 DEF AsksKnown
  <2>7. CallsKnow'
    BY <2>2, <2>3, <2>4, <2>5 DEF CallsKnow, Mine, Kept, RowsOf, Deleted, Crossed, AskedToo
  <2> QED
    BY <1>2, <2>4, <2>5, <2>6, <2>7, CallStep
<1> QED
  BY <1>1, <1>4, <1>5

LEMMA GiveUpIInv == ASSUME IInv, NEW c \in Calls, GiveUp(c) PROVE IInv'
<1>1. updates' \in Seq(Text)
  <2>1. updates' = [updates EXCEPT ![call[c].update].state = "waiting"] /\ call[c].heeded
    BY DEF GiveUp
  <2> QED
    BY <2>1, HeardType DEF Heard, IInv, States
<1>2. call' \in [Calls -> Handling]
  BY DEF GiveUp, IInv, Types, Handling
<1>3. \A d \in Calls : /\ call'[d].pc = call[d].pc /\ call'[d].thread = call[d].thread
                       /\ call'[d].row = call[d].row /\ call'[d].route = call[d].route
                       /\ call'[d].request = call[d].request
  BY DEF GiveUp, IInv, Types, Handling
<1>4. UNCHANGED <<rows, published, asks>>
  BY DEF GiveUp
<1>5. AsksKnown'
  BY <1>3, <1>4 DEF IInv, AsksKnown
<1>6. CallsKnow'
  BY <1>3, <1>4 DEF IInv, CallsKnow, Mine, Kept, RowsOf, Deleted, Crossed, AskedToo
<1> QED
  BY <1>1, <1>2, <1>4, <1>5, <1>6, CallStep

-----------------------------------------------------------------------------

\* The row that is found is the conversation's.
LEMMA FindIInv == ASSUME IInv, NEW c \in Calls, Find(c) PROVE IInv'
<1>1. PICK r \in RowsOf(call[c].thread) :
        call' = [call EXCEPT ![c].pc = "write", ![c].row = r]
  BY DEF Find
<1>2. PICK h : h = [call[c] EXCEPT !.pc = "write", !.row = r]
  OBVIOUS
<1>3. call[c] \in Handling /\ r \in Nat /\ r \in DOMAIN rows /\ rows[r].thread = call[c].thread
  BY DEF IInv, Types, RowsOf
<1>4. /\ h \in Handling /\ h.thread = call[c].thread /\ h.request = call[c].request
      /\ h.route = call[c].route /\ h.pc = "write" /\ h.row = r
  BY <1>2, <1>3 DEF Handling
<1>5. call' = [call EXCEPT ![c] = h]
  BY <1>1, <1>2
<1> QED
  BY <1>3, <1>4, <1>5, GoesOn DEF Find, IInv, Types

LEMMA MissIInv == ASSUME IInv, NEW c \in Calls, Miss(c) PROVE IInv'
<1>1. CASE Close(c)
  BY <1>1, CloseStep DEF Miss, IInv, Types
<1>2. CASE Goto(c, "insert")
  <2>1. PICK h : h = [call[c] EXCEPT !.pc = "insert"]
    OBVIOUS
  <2>2. /\ h \in Handling /\ h.thread = call[c].thread /\ h.request = call[c].request
        /\ h.route = call[c].route /\ h.pc = "insert"
    BY <2>1 DEF IInv, Types, Handling
  <2>3. call' = [call EXCEPT ![c] = h]
    BY <1>2, <2>1 DEF Goto
  <2> QED
    BY <2>2, <2>3, GoesOn DEF Miss, IInv, Types
<1> QED
  BY <1>1, <1>2 DEF Miss

\* A step that keeps every row with its thread: what was known is known still.
LEMMA RowsStep ==
  ASSUME IInv, UNCHANGED <<updates, published, asks>>,
         DOMAIN rows' \subseteq Nat \ {0}, rows' \in [DOMAIN rows' -> Row],
         \A r \in DOMAIN rows : r \in DOMAIN rows' /\ rows'[r].thread = rows[r].thread,
         NEW c \in Calls, NEW h \in Handling, call' = [call EXCEPT ![c] = h],
         \/ h = Closed
         \/ /\ h.pc = "publish" /\ call[c].pc # "closed"
            /\ h.thread = call[c].thread /\ h.request = call[c].request
            /\ h.route = call[c].route
            /\ \E r \in DOMAIN rows' : rows'[r].thread = h.thread,
         TitlesKnow'
  PROVE  IInv'
<1>1. /\ call \in [Calls -> Handling] /\ AsksKnown /\ CallsKnow /\ PublishedKnow
      /\ Len(asks) \in Nat
  BY DEF IInv, Types
<1>2. /\ call' \in [Calls -> Handling]
      /\ call'[c] = h /\ \A d \in Calls : d # c => call'[d] = call[d]
  BY <1>1
<1>3. AsksKnown'
  BY <1>1, <1>2 DEF AsksKnown, Closed
<1>4. \A t : RowsOf(t) # {} => \E r \in DOMAIN rows' : rows'[r].thread = t
  BY DEF RowsOf
<1>5. CallsKnow'
  <2>1. ASSUME NEW d \in Calls
        PROVE  /\ call'[d].pc # "closed" => call'[d].thread \in AllThreads
               /\ call'[d].pc = "write" =>
                    (Mine(d) \/ AskedToo(call[d].thread, call[d].request) \/ Crossed)'
               /\ call'[d].pc = "publish" => Kept(call[d].thread)'
    <3>1. CASE d = c
      BY <1>1, <1>2, <3>1 DEF CallsKnow, Closed, Kept, RowsOf
    <3>2. CASE d # c
      <4>1. call'[d] = call[d]
        BY <1>2, <3>2
      <4>2. CASE call[d].pc = "write"
        BY <1>1, <4>1, <4>2 DEF CallsKnow, Mine, AskedToo, Crossed
      <4>3. CASE call[d].pc = "publish"
        BY <1>1, <1>4, <4>1, <4>3 DEF CallsKnow, Kept, RowsOf, Deleted, Crossed
      <4>4. CASE call[d].pc \notin {"write", "publish"}
        BY <1>1, <4>1, <4>4 DEF CallsKnow
      <4> QED
        BY <1>1, <4>1, <4>2, <4>3, <4>4 DEF CallsKnow
    <3> QED
      BY <3>1, <3>2
  <2> QED
    BY <2>1 DEF CallsKnow
<1>6. PublishedKnow'
  BY <1>1, <1>4 DEF PublishedKnow, Kept, RowsOf, Deleted, Crossed
<1>7. Types'
  BY <1>2 DEF IInv, Types
<1> QED
  BY <1>3, <1>5, <1>6, <1>7 DEF IInv

\* The new row is not where one was.
LEMMA InsertIInv == ASSUME IInv, NEW c \in Calls, Insert(c) PROVE IInv'
<1>1. PICK id \in {1} \union {r + 1 : r \in DOMAIN rows} :
        /\ \A r \in DOMAIN rows : r < id
        /\ rows' = [r \in DOMAIN rows \union {id} |->
                      IF r = id THEN [thread |-> call[c].thread, title |-> call[c].thread]
                      ELSE rows[r]]
  BY DEF Insert
<1>2. PICK t, x, h : /\ t = call[c].thread /\ x = [thread |-> t, title |-> t]
                     /\ h = [call[c] EXCEPT !.pc = "publish"]
  OBVIOUS
<1>3. /\ call[c] \in Handling /\ t \in AllThreads
      /\ DOMAIN rows \subseteq Nat \ {0} /\ rows \in [DOMAIN rows -> Row]
  BY <1>2 DEF Insert, IInv, Types, CallsKnow
<1>4. x \in Row /\ x.thread = t /\ x.title = t
  BY <1>2, <1>3 DEF Row
<1>5. id \in Nat \ {0} /\ id \notin DOMAIN rows
  BY <1>1, <1>3
<1>6. /\ DOMAIN rows' = DOMAIN rows \union {id}
      /\ rows'[id] = x
      /\ \A r \in DOMAIN rows : rows'[r] = rows[r]
  BY <1>1, <1>2, <1>5
<1>7. rows' \in [DOMAIN rows' -> Row] /\ DOMAIN rows' \subseteq Nat \ {0}
  BY <1>1, <1>3, <1>4, <1>5, <1>6
<1>8. /\ h \in Handling /\ h.pc = "publish" /\ h.thread = t
      /\ h.request = call[c].request /\ h.route = call[c].route
  BY <1>2, <1>3 DEF Handling
<1>9. call' = [call EXCEPT ![c] = h] /\ call[c].pc # "closed"
  BY <1>2 DEF Insert, Goto
<1>10. UNCHANGED <<updates, published, asks>>
  BY DEF Insert
<1>11. TitlesKnow'
  BY <1>4, <1>6, <1>10 DEF IInv, TitlesKnow, Deleted, Crossed
<1>12. \A r \in DOMAIN rows : r \in DOMAIN rows' /\ rows'[r].thread = rows[r].thread
  BY <1>6
<1>13. \E r \in DOMAIN rows' : rows'[r].thread = h.thread
  BY <1>4, <1>6, <1>8
<1>14. h.thread = call[c].thread
  BY <1>2, <1>8
<1> QED
  BY <1>7, <1>8, <1>9, <1>10, <1>11, <1>12, <1>13, <1>14, RowsStep

LEMMA InsertFailsIInv == ASSUME IInv, NEW c \in Calls, InsertFails(c) PROVE IInv'
  BY FailsStep DEF InsertFails

\* Nobody has asked to delete a conversation but those whose title went astray.
LEMMA UpdateIInv == ASSUME IInv, NEW c \in Calls, Update(c) PROVE IInv'
<1>1. /\ call[c] \in Handling /\ call[c].pc = "write" /\ call[c].thread \in AllThreads
      /\ UNCHANGED <<published, asks>>
      /\ Mine(c) \/ AskedToo(call[c].thread, call[c].request) \/ Crossed
  BY DEF Update, IInv, Types, CallsKnow
<1>2. CASE Fails(c) /\ UNCHANGED rows
  BY <1>1, <1>2, FailsStep
<1>3. CASE Goto(c, "publish") /\ UNCHANGED <<rows, updates>>
  <2>1. PICK h : h = [call[c] EXCEPT !.pc = "publish"]
    OBVIOUS
  <2>2. /\ h \in Handling /\ h.thread = call[c].thread /\ h.request = call[c].request
        /\ h.route = call[c].route /\ h.pc = "publish"
    BY <1>1, <2>1 DEF Handling
  <2>3. call' = [call EXCEPT ![c] = h]
    BY <1>3, <2>1 DEF Goto
  <2>4. Kept(h.thread)
    BY <1>1, <2>2 DEF Mine, Kept, RowsOf, Deleted, AskedToo
  <2> QED
    BY <1>1, <1>3, <2>2, <2>3, <2>4, GoesOn DEF IInv, Types
<1>4. CASE /\ call[c].row \in DOMAIN rows
           /\ rows' = [rows EXCEPT ![call[c].row].title = call[c].thread]
           /\ Close(c) /\ UNCHANGED updates
  <2>1. PICK r, t, x : /\ r = call[c].row /\ t = call[c].thread
                       /\ x = [rows[r] EXCEPT !.title = t]
    OBVIOUS
  <2>2. /\ r \in DOMAIN rows /\ rows[r] \in Row /\ t \in AllThreads
        /\ DOMAIN rows \subseteq Nat \ {0} /\ rows \in [DOMAIN rows -> Row]
    BY <1>1, <1>4, <2>1 DEF IInv, Types
  <2>3. x \in Row /\ x.thread = rows[r].thread /\ x.title = t
    BY <2>1, <2>2 DEF Row
  <2>4. rows' = [rows EXCEPT ![r] = x]
    BY <1>4, <2>1
  <2>5. /\ DOMAIN rows' = DOMAIN rows /\ rows'[r] = x
        /\ \A s \in DOMAIN rows : s # r => rows'[s] = rows[s]
        /\ rows' \in [DOMAIN rows' -> Row]
    BY <2>2, <2>3, <2>4
  <2>6. t = x.thread \/ Deleted(t) \/ Crossed
    BY <1>1, <2>1, <2>3 DEF Mine, AskedToo, Deleted
  <2>7. TitlesKnow'
    <3>1. ASSUME NEW s \in DOMAIN rows'
          PROVE  (rows[s].title = rows[s].thread \/ Deleted(rows[s].title) \/ Crossed)'
      <4>1. CASE s = r
        BY <1>1, <2>3, <2>5, <2>6, <4>1 DEF Deleted, Crossed
      <4>2. CASE s # r
        BY <1>1, <2>5, <4>2 DEF IInv, TitlesKnow, Deleted, Crossed
      <4> QED
        BY <4>1, <4>2
    <3> QED
      BY <3>1 DEF TitlesKnow
  <2>8. Closed \in Handling /\ call' = [call EXCEPT ![c] = Closed]
    BY <1>4 DEF Close, Closed, Handling, Routes
  <2>9. \A s \in DOMAIN rows : s \in DOMAIN rows' /\ rows'[s].thread = rows[s].thread
    BY <2>3, <2>5
  <2> QED
    BY <1>1, <1>4, <2>2, <2>5, <2>7, <2>8, <2>9, RowsStep
<1> QED
  BY <1>2, <1>3, <1>4 DEF Update

\* A row goes: its conversation's deletion was asked, or the row was another's when
\* it was looked up, and then there were two deletions of that one.
LEMMA DeleteIInv == ASSUME IInv, NEW c \in Calls, Delete(c) PROVE IInv'
<1>1. PICK n, t, q : n = call[c].row /\ t = call[c].thread /\ q = call[c].request
  OBVIOUS
<1>2. /\ call \in [Calls -> Handling] /\ AsksKnown /\ CallsKnow /\ PublishedKnow
      /\ TitlesKnow /\ asks \in Seq(Ask) /\ Len(asks) \in Nat
      /\ DOMAIN rows \subseteq Nat \ {0} /\ rows \in [DOMAIN rows -> Row]
      /\ UNCHANGED <<updates, published, asks>>
  BY DEF Delete, IInv, Types
<1>3. /\ DOMAIN rows' = DOMAIN rows \ {n}
      /\ \A r \in DOMAIN rows' : r \in DOMAIN rows /\ rows'[r] = rows[r]
  BY <1>1 DEF Delete
<1>4. rows' \in [DOMAIN rows' -> Row] /\ DOMAIN rows' \subseteq Nat \ {0}
  <2>1. \A r \in DOMAIN rows' : rows'[r] \in Row
    BY <1>2, <1>3
  <2>2. rows' = [r \in DOMAIN rows' |-> rows'[r]]
    BY DEF Delete
  <2> QED
    BY <1>2, <1>3, <2>1, <2>2
<1>5. /\ call[c].pc = "write" /\ q # 0 /\ q \in DOMAIN asks
      /\ asks[q] = [route |-> "delete", thread |-> t]
  <2>1. call[c].pc = "write" /\ call[c].route = "delete"
    BY DEF Delete
  <2>2. q # 0 /\ q <= Len(asks) /\ q \in Nat /\ asks[q] = [route |-> "delete", thread |-> t]
    BY <1>1, <1>2, <2>1 DEF AsksKnown, Handling
  <2> QED
    BY <1>2, <2>1, <2>2
<1>6. Deleted(t)
  BY <1>5 DEF Deleted
<1>7. (n \in DOMAIN rows /\ rows[n].thread = t) \/ Crossed
  <2>1. CASE Mine(c)
    BY <1>1, <2>1 DEF Mine
  <2>2. CASE AskedToo(t, q)
    <3>1. PICK i \in DOMAIN asks : i # q /\ asks[i] = [route |-> "delete", thread |-> t]
      BY <2>2 DEF AskedToo
    <3>2. asks[i].route = "delete" /\ asks[i] = asks[q]
      BY <1>5, <3>1
    <3> QED
      BY <1>5, <3>1, <3>2 DEF Crossed
  <2> QED
    BY <1>1, <1>2, <1>5, <2>1, <2>2 DEF CallsKnow
<1>8. /\ call' \in [Calls -> Handling]
      /\ call'[c] = Closed /\ \A d \in Calls : d # c => call'[d] = call[d]
  BY <1>2 DEF Delete, Close, Closed, Handling, Routes
\* What was in the table is in it, or its deletion was asked.
<1>9. ASSUME NEW s, Kept(s)
      PROVE  \/ \E r \in DOMAIN rows' : rows'[r].thread = s
             \/ Deleted(s) \/ Crossed
  <2>1. CASE RowsOf(s) # {}
    <3>1. PICK r \in DOMAIN rows : rows[r].thread = s
      BY <2>1 DEF RowsOf
    <3>2. CASE r = n
      BY <1>6, <1>7, <3>1, <3>2
    <3>3. CASE r # n
      BY <1>3, <3>1, <3>3
    <3> QED
      BY <3>2, <3>3
  <2> QED
    BY <1>9, <2>1 DEF Kept
<1>10. AsksKnown'
  BY <1>2, <1>8 DEF AsksKnown, Closed
<1>11. CallsKnow'
  <2>1. ASSUME NEW d \in Calls
        PROVE  /\ call'[d].pc # "closed" => call'[d].thread \in AllThreads
               /\ call'[d].pc = "write" =>
                    (Mine(d) \/ AskedToo(call[d].thread, call[d].request) \/ Crossed)'
               /\ call'[d].pc = "publish" => Kept(call[d].thread)'
    <3>1. CASE d = c
      BY <1>8, <3>1 DEF Closed
    <3>2. CASE d # c
      <4>1. call'[d] = call[d]
        BY <1>8, <3>2
      <4>2. CASE call[d].pc = "write"
        <5>1. CASE Mine(d)
          <6>1. CASE call[d].row # n
            <7>1. Mine(d)'
              BY <1>3, <4>1, <5>1, <6>1 DEF Mine
            <7> QED
              BY <1>2, <4>1, <4>2, <7>1 DEF CallsKnow
          <6>2. CASE call[d].row = n /\ ~Crossed
            <7>1. call[d].thread = t
              BY <1>7, <5>1, <6>2 DEF Mine
            <7>2. call[d].request # q
              BY <1>1, <1>2, <1>5, <3>2, <4>2 DEF AsksKnown
            <7>3. AskedToo(call[d].thread, call[d].request)'
              BY <1>2, <1>5, <4>1, <7>1, <7>2 DEF AskedToo
            <7> QED
              BY <1>2, <4>1, <4>2, <7>3 DEF CallsKnow
          <6>3. CASE Crossed
            BY <1>2, <4>1, <4>2, <6>3 DEF CallsKnow, Crossed
          <6> QED
            BY <6>1, <6>2, <6>3
        <5>2. CASE AskedToo(call[d].thread, call[d].request) \/ Crossed
          BY <1>2, <4>1, <4>2, <5>2 DEF CallsKnow, AskedToo, Crossed
        <5> QED
          BY <1>2, <4>2, <5>1, <5>2 DEF CallsKnow
      <4>3. CASE call[d].pc = "publish"
        <5>1. Kept(call[d].thread) /\ call[d].thread \in AllThreads
          BY <1>2, <4>3 DEF CallsKnow
        <5> QED
          <6>1. \/ \E r \in DOMAIN rows' : rows'[r].thread = call[d].thread
                \/ Deleted(call[d].thread) \/ Crossed
            BY <1>9, <5>1
          <6>2. Kept(call[d].thread)'
            BY <1>2, <4>1, <6>1 DEF Kept, RowsOf, Deleted, Crossed
          <6> QED
            BY <4>1, <4>3, <5>1, <6>2
      <4>4. CASE call[d].pc \notin {"write", "publish"}
        BY <1>2, <4>1, <4>4 DEF CallsKnow
      <4> QED
        BY <4>2, <4>3, <4>4
    <3> QED
      BY <3>1, <3>2
  <2> QED
    BY <2>1 DEF CallsKnow
<1>12. PublishedKnow'
  BY <1>2, <1>9 DEF PublishedKnow, Kept, RowsOf, Deleted, Crossed
<1>13. TitlesKnow'
  BY <1>2, <1>3 DEF TitlesKnow, Deleted, Crossed
<1>14. Types'
  BY <1>2, <1>4, <1>8 DEF IInv, Types
<1> QED
  BY <1>10, <1>11, <1>12, <1>13, <1>14 DEF IInv

LEMMA DbFailsIInv == ASSUME IInv, NEW c \in Calls, DbFails(c) PROVE IInv'
  BY FailsStep DEF DbFails

\* Events are added for the thread of a handler that is about to publish.
LEMMA PublishStep ==
  ASSUME IInv, NEW c \in Calls, call[c].pc = "publish", NEW k \in Nat,
         published' = published \o [i \in 1..k |-> [thread |-> call[c].thread,
                                                    update |-> call[c].update]],
         UNCHANGED <<rows, asks>>, Close(c), updates' \in Seq(Text)
  PROVE  IInv'
<1> DEFINE e == [thread |-> call[c].thread, update |-> call[c].update]
<1>1. e \in User /\ Kept(e.thread)
  BY DEF IInv, Types, Handling, CallsKnow, User
<1>2. published \in Seq(User) /\ DOMAIN published = 1..Len(published) /\ Len(published) \in Nat
  BY DEF IInv, Types
<1>3. published' = published \o [i \in 1..k |-> e]
  OBVIOUS
<1> HIDE DEF e
<1>4. /\ published' \in Seq(User) /\ DOMAIN published' = 1..Len(published) + k
      /\ \A i \in 1..Len(published) : published'[i] = published[i]
      /\ \A i \in Len(published) + 1..Len(published) + k : published'[i] = e
  BY <1>1, <1>2, <1>3, Repeated
<1>5. /\ published' \in Seq(User)
      /\ \A i \in DOMAIN published' : \/ i \in DOMAIN published /\ published'[i] = published[i]
                                      \/ published'[i] = e
  <2>1. \A i \in 1..Len(published) + k : \/ i \in 1..Len(published)
                                         \/ i \in Len(published) + 1..Len(published) + k
    BY <1>2
  <2> QED
    BY <1>2, <1>4, <2>1
<1>6. \A i \in DOMAIN published' : Kept(published'[i].thread)
  BY <1>1, <1>5 DEF IInv, PublishedKnow
<1>7. /\ call \in [Calls -> Handling] /\ AsksKnown /\ CallsKnow /\ Len(asks) \in Nat
  BY DEF IInv, Types
<1>8. /\ call' \in [Calls -> Handling]
      /\ call'[c] = Closed /\ \A d \in Calls : d # c => call'[d] = call[d]
  BY <1>7 DEF Close, Closed, Handling, Routes
<1>9. AsksKnown'
  <2>1. \A d \in Calls : call'[d].request <= Len(asks)
    <3>1. \A d \in Calls : call[d].request <= Len(asks)
      BY <1>7 DEF AsksKnown
    <3>2. Closed.request = 0 /\ 0 <= Len(asks)
      BY <1>7 DEF Closed
    <3> QED
      BY <1>8, <3>1, <3>2
  <2>2. \A d \in Calls : call'[d].pc # "closed" => d # c
    BY <1>8 DEF Closed
  <2> QED
    BY <1>7, <1>8, <2>1, <2>2 DEF AsksKnown
<1>10. CallsKnow'
  BY <1>7, <1>8 DEF CallsKnow, Mine, Kept, RowsOf, Deleted, Crossed, AskedToo, Closed
<1>11. Types' /\ TitlesKnow'
  BY <1>5, <1>8 DEF IInv, Types, TitlesKnow, Deleted, Crossed
<1>12. PublishedKnow'
  BY <1>6 DEF PublishedKnow, Kept, RowsOf, Deleted, Crossed
<1> QED
  BY <1>9, <1>10, <1>11, <1>12 DEF IInv

LEMMA PublishUserIInv == ASSUME IInv, NEW c \in Calls, PublishUser(c) PROVE IInv'
<1> DEFINE e == [thread |-> call[c].thread, update |-> call[c].update]
<1>1. e \in User
  BY DEF PublishUser, IInv, Types, Handling, CallsKnow, User
<1>2. published' = Append(published, e)
  BY DEF PublishUser
<1> HIDE DEF e
<1>3. [i \in 1..1 |-> e] = <<e>>
  OBVIOUS
<1>4. published' = published \o [i \in 1..1 |-> e]
  BY <1>1, <1>2, <1>3, AppendIsConcat DEF IInv, Types
<1>5. updates' \in Seq(Text)
  BY HeardType DEF PublishUser, Succeeds, IInv, States
<1> QED
  BY <1>4, <1>5, PublishStep DEF e, PublishUser, Succeeds

LEMMA PublishFailsIInv == ASSUME IInv, NEW c \in Calls, PublishFails(c) PROVE IInv'
<1>1. PICK k \in 0..2 :
        published' = published \o [i \in 1..k |-> [thread |-> call[c].thread,
                                                   update |-> call[c].update]]
  BY DEF PublishFails
<1>2. updates' \in Seq(Text)
  BY HeardType DEF PublishFails, Fails, IInv, States
<1>3. k \in Nat
  OBVIOUS
<1> QED
  BY <1>1, <1>2, <1>3, PublishStep DEF PublishFails, Fails

-----------------------------------------------------------------------------

LEMMA InitIInv == ASSUME Init PROVE IInv
<1>1. Types
  BY EmptySeq DEF Init, Types, Closed, Handling, Routes
<1>2. AsksKnown /\ CallsKnow /\ PublishedKnow /\ TitlesKnow
  BY DEF Init, AsksKnown, CallsKnow, PublishedKnow, TitlesKnow, Closed
<1> QED
  BY <1>1, <1>2 DEF IInv

\* What does not touch the conversations.
LEMMA OtherIInv ==
  ASSUME IInv, UNCHANGED <<rows, call, updates, published, asks>>
  PROVE  IInv'
<1>1. Types' /\ AsksKnown'
  BY DEF IInv, Types, AsksKnown
<1>2. CallsKnow'
  BY DEF IInv, CallsKnow, Mine, Kept, RowsOf, Deleted, Crossed, AskedToo
<1>3. PublishedKnow' /\ TitlesKnow'
  BY DEF IInv, PublishedKnow, TitlesKnow, Kept, RowsOf, Deleted, Crossed
<1> QED
  BY <1>1, <1>2, <1>3 DEF IInv

LEMMA NextIInv == ASSUME IInv, [Next]_vars PROVE IInv'
<1>1. ASSUME NEW c \in Calls, Request(c) \/ Deliver(c) \/ GiveUp(c) PROVE IInv'
  BY <1>1, RequestIInv, DeliverIInv, GiveUpIInv
<1>2. ASSUME NEW c \in Calls, Handler(c) PROVE IInv'
  BY <1>2, FindIInv, MissIInv, InsertIInv, InsertFailsIInv, UpdateIInv, DeleteIInv,
     PublishUserIInv, PublishFailsIInv, DbFailsIInv DEF Handler
<1>3. CASE Write
  BY <1>3, WriteIInv
<1>4. CASE Answer
  BY <1>4, OtherIInv DEF Answer
<1>5. ASSUME NEW s \in Servers, TelegramTask(s) PROVE IInv'
  BY <1>5, OtherIInv DEF TelegramTask, NextAnswer, SendPart, ConsumerFails, RestartServer
<1>6. CASE UNCHANGED vars
  BY <1>6, OtherIInv DEF vars
<1> QED
  BY <1>1, <1>2, <1>3, <1>4, <1>5, <1>6 DEF Next

\* Whatever requests run side by side, whatever row ids are used again and whatever
\* fails: the conversation of a published message is in the table under its own
\* title, unless its deletion, or twice that of another one, was asked.
THEOREM ConversationsAreAlwaysKept == Spec => []ConversationsAreKept
<1>1. Init => IInv
  BY InitIInv
<1>2. IInv /\ [Next]_vars => IInv'
  BY NextIInv
<1> QED
  BY <1>1, <1>2, IInvImpliesProperty, PTL DEF Spec

(***************************************************************************)
(* The replies in the chats                                                *)
(***************************************************************************)

Reply == [thread : AllThreads, parts : Lengths]
Part == [answer : Nat, part : Nat, by : Servers]
Task == [pc : {"wait", "send", "over"}, cur : Nat, part : Nat]

ReplyTypes ==
  /\ answers \in Seq(Reply)
  /\ given \in Nat /\ given <= Len(answers)
  /\ telegram \in [Servers -> Task]
  /\ \A s \in Servers : telegram[s].cur <= given
  /\ received \in [Chats -> Seq(Part)]

\* The group gives an answer to one server.
AnswersDiffer ==
  \A s, r \in Servers : s # r /\ telegram[s].cur # 0 => telegram[s].cur # telegram[r].cur

\* A task is at a part of an answer for a chat, which has the part before it.
AtPart ==
  \A s \in Servers : telegram[s].pc = "send" =>
    /\ telegram[s].cur # 0 /\ telegram[s].part # 0
    /\ answers[telegram[s].cur].thread \in Chats
    /\ telegram[s].part # 1 =>
         \E i \in DOMAIN received[answers[telegram[s].cur].thread] :
           received[answers[telegram[s].cur].thread][i] =
             [answer |-> telegram[s].cur, part |-> telegram[s].part - 1, by |-> s]

\* What a chat received was sent by a task that is further by now, and by no other.
Behind(e) ==
  /\ e.answer \in 1..telegram[e.by].cur
  /\ telegram[e.by].pc = "send" /\ telegram[e.by].cur = e.answer
       => e.part < telegram[e.by].part
  /\ \A r \in Servers \ {e.by} : telegram[r].cur # e.answer

BehindTasks == \A t \in Chats : \A i \in DOMAIN received[t] : Behind(received[t][i])

\* The j-th part in a chat comes after the one before it of its answer, and after
\* nothing that should come later.
InOrder(s, j) ==
  /\ s[j].part # 1 => \E i \in 1..j-1 : s[i] = [s[j] EXCEPT !.part = @ - 1]
  /\ \A i \in 1..j-1 :
       /\ s[i].by = s[j].by => s[i].answer <= s[j].answer
       /\ s[i].answer = s[j].answer => s[i].part < s[j].part

PartsInOrder ==
  \A t \in Chats : \A j \in DOMAIN received[t] :
    answers[received[t][j].answer].thread = t /\ InOrder(received[t], j)

\* The inductive invariant of the replies.
ReplyInv == ReplyTypes /\ AnswersDiffer /\ AtPart /\ BehindTasks /\ PartsInOrder

LEMMA InitReplyInv == ASSUME Init PROVE ReplyInv
<1>1. ReplyTypes
  BY EmptySeq DEF Init, ReplyTypes, Task
<1>2. AnswersDiffer /\ AtPart /\ BehindTasks /\ PartsInOrder
  BY DEF Init, AnswersDiffer, AtPart, BehindTasks, PartsInOrder
<1> QED
  BY <1>1, <1>2 DEF ReplyInv

LEMMA ReceivedTypes ==
  ASSUME ReplyTypes, NEW t \in Chats, NEW i \in DOMAIN received[t]
  PROVE  /\ received[t][i] \in Part
         /\ received[t][i].answer \in Nat /\ received[t][i].part \in Nat
         /\ received[t][i].by \in Servers
<1>1. received[t] \in Seq(Part)
  BY DEF ReplyTypes
<1>2. received[t][i] \in Part
  BY <1>1
<1> QED
  BY <1>2 DEF Part

\* An answer is added to the stream.
LEMMA AnswerReplyInv == ASSUME IInv, ReplyInv, Answer PROVE ReplyInv'
<1>1. PICK t \in {published[i].thread : i \in DOMAIN published}, k \in Lengths :
        answers' = Append(answers, [thread |-> t, parts |-> k])
  BY DEF Answer
<1>2. [thread |-> t, parts |-> k] \in Reply
  <2>1. PICK i \in DOMAIN published : t = published[i].thread
    OBVIOUS
  <2>2. published[i] \in User
    BY DEF IInv, Types
  <2> QED
    BY <2>1, <2>2 DEF User, Reply
<1>3. /\ answers' \in Seq(Reply) /\ Len(answers) \in Nat
      /\ Len(answers') = Len(answers) + 1
      /\ \A n \in 1..Len(answers) : answers'[n] = answers[n]
  BY <1>1, <1>2, AppendProperties DEF ReplyInv, ReplyTypes
<1>4. UNCHANGED <<given, telegram, received>>
  BY DEF Answer
<1>5. \A n \in 1..given : answers'[n] = answers[n]
  BY <1>3 DEF ReplyInv, ReplyTypes
<1>6. ReplyTypes'
  BY <1>3, <1>4 DEF ReplyInv, ReplyTypes
<1>7. AnswersDiffer' /\ BehindTasks'
  BY <1>4 DEF ReplyInv, AnswersDiffer, BehindTasks, Behind
<1>8. AtPart'
  <2>1. ASSUME NEW s \in Servers, telegram[s].pc = "send"
        PROVE  answers'[telegram[s].cur] = answers[telegram[s].cur]
    <3>1. telegram[s].cur # 0 /\ telegram[s].cur \in Nat /\ telegram[s].cur <= given
            /\ given \in Nat
      BY <2>1 DEF ReplyInv, ReplyTypes, AtPart, Task
    <3> QED
      BY <1>5, <3>1
  <2> QED
    BY <1>4, <2>1 DEF ReplyInv, AtPart
<1>9. PartsInOrder'
  <2>1. ASSUME NEW c \in Chats, NEW i \in DOMAIN received[c]
        PROVE  answers'[received[c][i].answer] = answers[received[c][i].answer]
    <3>1. Behind(received[c][i]) /\ received[c][i].by \in Servers
      BY ReceivedTypes DEF ReplyInv, BehindTasks
    <3>2. received[c][i].answer \in 1..given
      BY <3>1 DEF Behind, ReplyInv, ReplyTypes, Task
    <3> QED
      BY <1>5, <3>2
  <2> QED
    BY <1>4, <2>1 DEF ReplyInv, PartsInOrder, InOrder
<1> QED
  BY <1>6, <1>7, <1>8, <1>9 DEF ReplyInv

\* A task turns to another answer, or ends.
LEMMA TurnReplyInv ==
  ASSUME ReplyInv, NEW s \in Servers, NEW pc \in {"wait", "send", "over"}, NEW cur \in Nat,
         NEW part \in Nat, Turn(s, pc, cur, part), UNCHANGED <<answers, received>>,
         \/ pc # "send" /\ cur = telegram[s].cur /\ UNCHANGED given
         \/ /\ cur = given + 1 /\ cur <= Len(answers) /\ given' = cur
            /\ pc = "send" => part = 1 /\ answers[cur].thread \in Chats
  PROVE  ReplyInv'
<1>1. PICK x : x = [pc |-> pc, cur |-> cur, part |-> part]
  OBVIOUS
<1>2. x \in Task /\ x.pc = pc /\ x.cur = cur /\ x.part = part
  BY <1>1 DEF Task
<1>3. /\ telegram \in [Servers -> Task] /\ given \in Nat /\ Len(answers) \in Nat
      /\ \A r \in Servers : telegram[r].cur \in Nat /\ telegram[r].cur <= given
  BY DEF ReplyInv, ReplyTypes, Task
<1>4. /\ telegram' \in [Servers -> Task]
      /\ telegram'[s] = x /\ \A r \in Servers : r # s => telegram'[r] = telegram[r]
  BY <1>1, <1>2, <1>3 DEF Turn
<1>5. given' \in Nat /\ given <= given' /\ given' <= Len(answers) /\ cur <= given'
  BY <1>3 DEF ReplyInv, ReplyTypes
<1>6. ReplyTypes'
  <2>1. \A r \in Servers : telegram'[r].cur <= given'
    <3>1. ASSUME NEW r \in Servers PROVE telegram'[r].cur <= given'
      <4>1. CASE r = s
        BY <1>2, <1>4, <1>5, <4>1
      <4>2. CASE r # s
        BY <1>3, <1>4, <1>5, <4>2
      <4> QED
        BY <4>1, <4>2
    <3> QED
      BY <3>1
  <2> QED
    BY <1>4, <1>5, <2>1 DEF ReplyInv, ReplyTypes
<1>7. AnswersDiffer'
  BY <1>2, <1>3, <1>4 DEF ReplyInv, AnswersDiffer
<1>8. AtPart'
  <2>1. ASSUME NEW r \in Servers, telegram'[r].pc = "send"
        PROVE  /\ telegram'[r].cur # 0 /\ telegram'[r].part # 0
               /\ answers[telegram'[r].cur].thread \in Chats
               /\ telegram'[r].part # 1 =>
                    \E i \in DOMAIN received[answers[telegram'[r].cur].thread] :
                      received[answers[telegram'[r].cur].thread][i] =
                        [answer |-> telegram'[r].cur, part |-> telegram'[r].part - 1, by |-> r]
    <3>1. CASE r = s
      BY <1>2, <1>3, <1>4, <2>1, <3>1
    <3>2. CASE r # s
      BY <1>4, <2>1, <3>2 DEF ReplyInv, AtPart
    <3> QED
      BY <3>1, <3>2
  <2> QED
    BY <2>1 DEF AtPart
<1>9. BehindTasks'
  <2>1. ASSUME NEW t \in Chats, NEW i \in DOMAIN received[t]
        PROVE  Behind(received[t][i])'
    <3>1. PICK e : e = received[t][i]
      OBVIOUS
    <3>2. Behind(e) /\ e.by \in Servers /\ e.answer \in Nat
      BY <3>1, ReceivedTypes DEF ReplyInv, BehindTasks
    <3>3. e.answer \in 1..telegram[e.by].cur /\ e.answer <= given
      BY <1>3, <3>2 DEF Behind
    <3>4. Behind(e)'
      <4>1. CASE e.by = s
        BY <1>2, <1>3, <1>4, <3>2, <3>3, <4>1 DEF Behind
      <4>2. CASE e.by # s
        BY <1>2, <1>3, <1>4, <3>2, <3>3, <4>2 DEF Behind
      <4> QED
        BY <4>1, <4>2
    <3> QED
      BY <3>1, <3>4 DEF Behind
  <2> QED
    BY <2>1 DEF BehindTasks
<1>10. PartsInOrder'
  BY DEF ReplyInv, PartsInOrder, InOrder
<1> QED
  BY <1>6, <1>7, <1>8, <1>9, <1>10 DEF ReplyInv

\* The order of a chat goes on when the part is added that is due.
LEMMA PartAppended ==
  ASSUME NEW s, NEW now, NEW k \in Nat, NEW e \in Part,
         DOMAIN now = 1..k + 1, \A i \in 1..k : now[i] = s[i], now[k + 1] = e,
         \A i \in 1..k : InOrder(s, i),
         e.part # 1 => \E i \in 1..k : s[i] = [e EXCEPT !.part = @ - 1],
         \A i \in 1..k : /\ s[i].by = e.by => s[i].answer <= e.answer
                         /\ s[i].answer = e.answer => s[i].part < e.part
  PROVE  \A j \in DOMAIN now : InOrder(now, j)
<1>1. InOrder(now, k + 1)
  <2>1. 1..(k + 1) - 1 = 1..k
    OBVIOUS
  <2> QED
    BY <2>1 DEF InOrder
<1>2. ASSUME NEW j \in 1..k PROVE InOrder(now, j)
  <2>1. InOrder(s, j) /\ now[j] = s[j]
    OBVIOUS
  <2>2. \A i \in 1..j-1 : i \in 1..k /\ now[i] = s[i]
    OBVIOUS
  <2> QED
    BY <2>1, <2>2 DEF InOrder
<1>3. \A j \in DOMAIN now : j \in 1..k \/ j = k + 1
  OBVIOUS
<1> QED
  BY <1>1, <1>2, <1>3

\* A chat gets the part that is due, whatever the task makes of the reply.
LEMMA PartReplyInv ==
  ASSUME ReplyInv, NEW s \in Servers, NEW ok \in BOOLEAN, telegram[s].pc = "send",
         AfterPart(s, ok), UNCHANGED <<answers, given>>, Get(s)
  PROVE  ReplyInv'
<1>1. PICK n, part, t : n = telegram[s].cur /\ part = telegram[s].part /\ t = answers[n].thread
  OBVIOUS
<1>2. PICK old, now, k, e : /\ old = received[t] /\ now = received'[t] /\ k = Len(old)
                            /\ e = [answer |-> n, part |-> part, by |-> s]
  OBVIOUS
<1>3. /\ telegram \in [Servers -> Task] /\ received \in [Chats -> Seq(Part)]
      /\ given \in Nat /\ Len(answers) \in Nat /\ given <= Len(answers)
      /\ \A r \in Servers : telegram[r].cur \in Nat /\ telegram[r].cur <= given
  BY DEF ReplyInv, ReplyTypes, Task
<1>4. n \in Nat \ {0} /\ part \in Nat \ {0} /\ t \in Chats
  <2>1. telegram[s] \in Task
    BY <1>3
  <2> QED
    BY <1>1, <2>1 DEF ReplyInv, AtPart, Task
<1>5. e \in Part /\ e.answer = n /\ e.part = part /\ e.by = s
  BY <1>2, <1>4 DEF Part
<1>6. old \in Seq(Part) /\ k \in Nat /\ DOMAIN old = 1..k
  BY <1>2, <1>3, <1>4
<1>7. received' = [received EXCEPT ![t] = Append(old, e)]
  BY <1>1, <1>2 DEF Get
<1>8. /\ now \in Seq(Part) /\ DOMAIN now = 1..k + 1
      /\ \A i \in 1..k : now[i] = old[i]
      /\ now[k + 1] = e
  <2>1. now = Append(old, e)
    BY <1>2, <1>3, <1>4, <1>7
  <2> QED
    BY <1>2, <1>5, <1>6, <2>1, AppendProperties
<1>9. /\ received' \in [Chats -> Seq(Part)] /\ received'[t] = now
      /\ \A c \in Chats : c # t => received'[c] = received[c]
  BY <1>2, <1>3, <1>7, <1>8
\* Where the task is afterwards.
<1>10. PICK x \in Task : /\ telegram' = [telegram EXCEPT ![s] = x]
                         /\ x.cur = n /\ (x.pc = "send" => x.part = part + 1)
  <2>1. PICK y : y = [pc |-> "send", cur |-> n, part |-> part + 1]
    OBVIOUS
  <2>2. y \in Task /\ y.cur = n /\ y.part = part + 1
    BY <1>4, <2>1 DEF Task
  <2>3. PICK z : z = [pc |-> "wait", cur |-> n, part |-> 0]
    OBVIOUS
  <2>4. z \in Task /\ z.cur = n /\ z.pc = "wait"
    BY <1>4, <2>3 DEF Task
  <2>5. telegram' = [telegram EXCEPT ![s] = y] \/ telegram' = [telegram EXCEPT ![s] = z]
    BY <1>1, <2>1, <2>3 DEF AfterPart, Turn
  <2> QED
    BY <2>2, <2>4, <2>5
<1>11. /\ telegram' \in [Servers -> Task]
       /\ telegram'[s] = x /\ \A r \in Servers : r # s => telegram'[r] = telegram[r]
  BY <1>3, <1>10
<1>12. ASSUME NEW i \in 1..k
       PROVE  /\ old[i].by = s => old[i].answer <= n
              /\ old[i].answer = n => old[i].part < part
              /\ InOrder(old, i)
  <2>1. i \in DOMAIN received[t] /\ old[i] = received[t][i]
    BY <1>2, <1>6
  <2>2. Behind(old[i]) /\ old[i].by \in Servers /\ old[i].answer \in Nat
    BY <1>4, <2>1, ReceivedTypes DEF ReplyInv, BehindTasks
  <2>3. old[i].by = s => old[i].answer <= n
    BY <1>1, <1>4, <2>2 DEF Behind
  <2>4. ASSUME old[i].answer = n PROVE old[i].part < part
    <3>1. old[i].by = s
      BY <1>1, <2>2, <2>4 DEF Behind
    <3> QED
      BY <1>1, <2>2, <2>4, <3>1 DEF Behind
  <2>5. InOrder(old, i)
    BY <1>2, <1>4, <2>1 DEF ReplyInv, PartsInOrder
  <2> QED
    BY <2>3, <2>4, <2>5
<1>13. e.part # 1 => \E i \in 1..k : old[i] = [e EXCEPT !.part = @ - 1]
  <2>1. [e EXCEPT !.part = @ - 1] = [answer |-> n, part |-> part - 1, by |-> s]
    BY <1>2
  <2>2. part # 1 => \E i \in DOMAIN received[t] :
                      received[t][i] = [answer |-> n, part |-> part - 1, by |-> s]
    BY <1>1 DEF ReplyInv, AtPart
  <2> QED
    BY <1>2, <1>5, <1>6, <2>1, <2>2
<1>14. \A j \in DOMAIN now : InOrder(now, j)
  BY <1>5, <1>6, <1>8, <1>12, <1>13, PartAppended
<1>15. ReplyTypes'
  <2>1. \A r \in Servers : telegram'[r].cur <= given
    BY <1>1, <1>3, <1>10, <1>11
  <2> QED
    BY <1>3, <1>9, <1>11, <2>1 DEF ReplyInv, ReplyTypes
<1>16. AnswersDiffer'
  BY <1>1, <1>10, <1>11 DEF ReplyInv, AnswersDiffer
<1>17. AtPart'
  <2>1. ASSUME NEW r \in Servers, telegram'[r].pc = "send"
        PROVE  /\ telegram'[r].cur # 0 /\ telegram'[r].part # 0
               /\ answers[telegram'[r].cur].thread \in Chats
               /\ telegram'[r].part # 1 =>
                    \E i \in DOMAIN received'[answers[telegram'[r].cur].thread] :
                      received'[answers[telegram'[r].cur].thread][i] =
                        [answer |-> telegram'[r].cur, part |-> telegram'[r].part - 1, by |-> r]
    <3>1. CASE r = s
      <4>1. telegram'[r].cur = n /\ telegram'[r].part = part + 1
        BY <1>10, <1>11, <2>1, <3>1
      <4>2. (part + 1) - 1 = part /\ part + 1 # 0 /\ k + 1 \in 1..k + 1
        BY <1>4, <1>6
      <4>3. k + 1 \in DOMAIN received'[t] /\ received'[t][k + 1] = e
        BY <1>8, <1>9, <4>2
      <4>4. e = [answer |-> n, part |-> (part + 1) - 1, by |-> s]
        BY <1>2, <4>2
      <4> QED
        BY <1>1, <1>4, <3>1, <4>1, <4>2, <4>3, <4>4
    <3>2. CASE r # s
      <4>1. telegram'[r] = telegram[r]
        BY <1>11, <3>2
      <4>2. \A c \in Chats : \A i \in DOMAIN received[c] :
              i \in DOMAIN received'[c] /\ received'[c][i] = received[c][i]
        <5>1. ASSUME NEW c \in Chats, NEW i \in DOMAIN received[c]
              PROVE  i \in DOMAIN received'[c] /\ received'[c][i] = received[c][i]
          <6>1. CASE c = t
            BY <1>2, <1>6, <1>8, <1>9, <6>1
          <6>2. CASE c # t
            BY <1>9, <6>2
          <6> QED
            BY <6>1, <6>2
        <5> QED
          BY <5>1
      <4> QED
        BY <2>1, <4>1, <4>2 DEF ReplyInv, AtPart
    <3> QED
      BY <3>1, <3>2
  <2> QED
    BY <2>1 DEF AtPart
<1>18. BehindTasks'
  <2>1. ASSUME NEW d \in Part, Behind(d)
        PROVE  Behind(d)'
    <3>1. d.by \in Servers /\ d.part \in Nat
      BY DEF Part
    <3>2. CASE d.by = s
      BY <1>1, <1>4, <1>10, <1>11, <2>1, <3>1, <3>2 DEF Behind
    <3>3. CASE d.by # s
      BY <1>1, <1>10, <1>11, <2>1, <3>1, <3>3 DEF Behind
    <3> QED
      BY <3>2, <3>3
  <2>2. Behind(e)'
    <3>1. telegram'[s].cur = n /\ n \in 1..n /\ (telegram'[s].pc = "send" => part < telegram'[s].part)
      BY <1>4, <1>10, <1>11
    <3>2. \A r \in Servers \ {s} : telegram'[r].cur # n
      BY <1>1, <1>4, <1>11 DEF ReplyInv, AnswersDiffer
    <3> QED
      BY <1>5, <3>1, <3>2 DEF Behind
  <2>3. ASSUME NEW c \in Chats, NEW i \in DOMAIN received'[c]
        PROVE  Behind(received[c][i])'
    <3>1. \/ received'[c][i] = e
          \/ i \in DOMAIN received[c] /\ received'[c][i] = received[c][i]
      <4>1. CASE c = t
        <5>1. i \in 1..k \/ i = k + 1
          BY <1>6, <1>8, <1>9, <4>1
        <5> QED
          BY <1>2, <1>6, <1>8, <1>9, <4>1, <5>1
      <4>2. CASE c # t
        BY <1>9, <4>2
      <4> QED
        BY <4>1, <4>2
    <3>2. PICK d : d = received'[c][i]
      OBVIOUS
    <3>3. Behind(d)'
      <4>1. CASE d = e
        BY <2>2, <4>1 DEF Behind
      <4>2. CASE i \in DOMAIN received[c] /\ d = received[c][i]
        <5>1. d \in Part /\ Behind(d)
          BY <4>2, ReceivedTypes DEF ReplyInv, BehindTasks
        <5> QED
          BY <2>1, <5>1
      <4> QED
        BY <3>1, <3>2, <4>1, <4>2
    <3> QED
      BY <3>2, <3>3 DEF Behind
  <2> QED
    BY <2>3 DEF BehindTasks
<1>19. PartsInOrder'
  <2>1. ASSUME NEW c \in Chats, NEW i \in DOMAIN received'[c]
        PROVE  answers[received'[c][i].answer].thread = c /\ InOrder(received'[c], i)
    <3>1. CASE c = t
      <4>1. i \in DOMAIN now /\ received'[c] = now
        BY <1>9, <3>1
      <4>2. answers[now[i].answer].thread = t
        <5>1. CASE i \in 1..k
          BY <1>2, <1>4, <1>6, <1>8, <5>1 DEF ReplyInv, PartsInOrder
        <5>2. CASE i = k + 1
          BY <1>1, <1>5, <1>8, <5>2
        <5> QED
          BY <1>6, <1>8, <4>1, <5>1, <5>2
      <4> QED
        BY <1>14, <3>1, <4>1, <4>2
    <3>2. CASE c # t
      <4>1. received'[c] = received[c]
        BY <1>9, <3>2
      <4> QED
        BY <4>1 DEF ReplyInv, PartsInOrder
    <3> QED
      BY <3>1, <3>2
  <2> QED
    BY <2>1 DEF PartsInOrder, InOrder
<1> QED
  BY <1>15, <1>16, <1>17, <1>18, <1>19 DEF ReplyInv

LEMMA TaskReplyInv ==
  ASSUME ReplyInv, NEW s \in Servers, TelegramTask(s)
  PROVE  ReplyInv'
<1>1. /\ telegram[s].cur \in Nat /\ given \in Nat /\ given + 1 \in Nat
      /\ Len(answers) \in Nat
  BY DEF ReplyInv, ReplyTypes, Task
<1>2. CASE NextAnswer(s)
  <2>1. /\ given' = given + 1 /\ given + 1 <= Len(answers)
        /\ UNCHANGED <<answers, received>>
    BY <1>1, <1>2 DEF NextAnswer
  <2>2. CASE Turn(s, "send", given', 1) /\ answers[given'].thread \in Chats
    BY <1>1, <2>1, <2>2, TurnReplyInv
  <2>3. CASE Turn(s, "wait", given', 0)
    BY <1>1, <2>1, <2>3, TurnReplyInv
  <2> QED
    BY <1>2, <2>2, <2>3 DEF NextAnswer
<1>3. CASE SendPart(s)
  <2>1. CASE Get(s)
    BY <1>3, <2>1, PartReplyInv DEF SendPart
  <2>2. CASE AfterPart(s, FALSE) /\ UNCHANGED received
    <3>1. Turn(s, "wait", telegram[s].cur, 0)
      BY <2>2 DEF AfterPart
    <3> QED
      BY <1>1, <1>3, <2>2, <3>1, TurnReplyInv DEF SendPart
  <2> QED
    BY <1>3, <2>1, <2>2 DEF SendPart
<1>4. CASE ConsumerFails(s)
  BY <1>1, <1>4, TurnReplyInv DEF ConsumerFails
<1>5. CASE RestartServer(s)
  BY <1>1, <1>5, TurnReplyInv DEF RestartServer
<1> QED
  BY <1>2, <1>3, <1>4, <1>5 DEF TelegramTask

LEMMA NextReplyInv == ASSUME IInv, ReplyInv, [Next]_vars PROVE ReplyInv'
<1>1. ASSUME UNCHANGED replyVars PROVE ReplyInv'
  <2>1. UNCHANGED <<answers, given, telegram, received>>
    BY <1>1 DEF replyVars
  <2>2. ReplyTypes' /\ AnswersDiffer'
    BY <2>1 DEF ReplyInv, ReplyTypes, AnswersDiffer
  <2>3. AtPart'
    BY <2>1 DEF ReplyInv, AtPart
  <2>4. BehindTasks'
    BY <2>1 DEF ReplyInv, BehindTasks, Behind
  <2>5. PartsInOrder'
    BY <2>1 DEF ReplyInv, PartsInOrder, InOrder
  <2> QED
    BY <2>2, <2>3, <2>4, <2>5 DEF ReplyInv
<1> QED
  BY <1>1, AnswerReplyInv, TaskReplyInv
     DEF Next, Request, Write, Deliver, GiveUp, Handler, Find, Miss, Insert, InsertFails,
         Update, Delete, DbFails, PublishUser, PublishFails, vars

\* Whatever Telegram refuses and whatever fails or restarts, a chat receives the
\* answers of its own conversation, no part of a long one without those before it,
\* nothing twice, and those from one server in order.
THEOREM RepliesInOrderAlways == Spec => []RepliesInOrder
<1>1. Init => IInv /\ ReplyInv
  BY InitIInv, InitReplyInv
<1>2. IInv /\ ReplyInv /\ [Next]_vars => (IInv /\ ReplyInv)'
  BY NextIInv, NextReplyInv
<1>3. ReplyInv => RepliesInOrder
  BY DEF ReplyInv, PartsInOrder, InOrder, RepliesInOrder
<1> QED
  BY <1>1, <1>2, <1>3, PTL DEF Spec

(***************************************************************************)
(* The copies of a text                                                    *)
(***************************************************************************)

Active == {c \in Calls : call[c].pc # "closed"}
Copies(u) == {i \in DOMAIN published : published[i].update = u}
Handlers(u) == {c \in Active : call[c].update = u}
Due(u) == IF updates[u].state = "waiting" THEN 1 ELSE 0

\* Nobody knows of an update that was not written.
Bounded ==
  /\ faults \in Nat
  /\ IsFiniteSet(Active)
  /\ \A c \in Calls : call[c].update <= Len(updates)
  /\ \A i \in DOMAIN published : published[i].update <= Len(updates)

\* A text is published, about to be published by a handler, or to be posted
\* (again) by Telegram: once in all, and at most twice more for every fault.
Budget ==
  \A u \in DOMAIN updates :
    Cardinality(Copies(u)) + Cardinality(Handlers(u)) + Due(u) <= 1 + 2 * faults

\* The inductive invariant of the copies.
CopyInv == Bounded /\ Budget

LEMMA Finite ==
  ASSUME IInv, Bounded, NEW u
  PROVE  /\ IsFiniteSet(Copies(u)) /\ Cardinality(Copies(u)) \in Nat
         /\ IsFiniteSet(Handlers(u)) /\ Cardinality(Handlers(u)) \in Nat
<1>1. IsFiniteSet(DOMAIN published)
  <2>1. published \in Seq(User)
    BY DEF IInv, Types
  <2>2. DOMAIN published = 1..Len(published) /\ Len(published) \in Nat
    BY <2>1
  <2> QED
    BY <2>2, FS_Interval
<1>2. Copies(u) \in SUBSET (DOMAIN published) /\ Handlers(u) \in SUBSET Active
  BY DEF Copies, Handlers
<1> QED
  BY <1>1, <1>2, FS_Subset, FS_CardinalityType DEF Bounded

\* Copies are added for one update only, k of them.
LEMMA CopiesAdded ==
  ASSUME IInv, Bounded, IInv', NEW k \in Nat, NEW e \in User,
         published' = published \o [i \in 1..k |-> e], NEW u
  PROVE  /\ IsFiniteSet(Copies(u)')
         /\ Cardinality(Copies(u)') \in Nat
         /\ Cardinality(Copies(u)') <= Cardinality(Copies(u)) + IF u = e.update THEN k ELSE 0
<1> DEFINE n == Len(published)
           added == n + 1..n + k
<1>1. published \in Seq(User) /\ n \in Nat /\ DOMAIN published = 1..n
  BY DEF IInv, Types
<1>4. /\ DOMAIN published' = 1..n + k
      /\ \A i \in 1..n : published'[i] = published[i]
      /\ \A i \in added : published'[i] = e
  BY <1>1, Repeated
<1>5. IsFiniteSet(Copies(u)) /\ Cardinality(Copies(u)) \in Nat
  BY Finite
<1>6. CASE u # e.update
  <2>1. Copies(u)' = Copies(u)
    BY <1>1, <1>4, <1>6 DEF Copies
  <2> QED
    BY <1>5, <1>6, <2>1
<1>7. CASE u = e.update
  <2>1. Copies(u)' = Copies(u) \union added
    BY <1>1, <1>4, <1>7 DEF Copies
  <2>2. IsFiniteSet(added) /\ Cardinality(added) = k
    BY <1>1, FS_Interval
  <2>3. IsFiniteSet(Copies(u) \cap added) /\ Cardinality(Copies(u) \cap added) \in Nat
    BY <1>5, FS_Intersection, FS_CardinalityType
  <2>4. /\ IsFiniteSet(Copies(u)')
        /\ Cardinality(Copies(u)') = Cardinality(Copies(u)) + k
                                       - Cardinality(Copies(u) \cap added)
    BY <1>5, <2>1, <2>2, FS_Union
  <2>5. Cardinality(Copies(u)') \in Nat
    BY <2>4, FS_CardinalityType
  <2> QED
    BY <1>5, <1>7, <2>3, <2>4, <2>5
<1> QED
  BY <1>6, <1>7

\* A handler is done with its update.
LEMMA HandlerCloses ==
  ASSUME IInv, Bounded, NEW c \in Active, Close(c), NEW u
  PROVE  /\ IsFiniteSet(Active')
         /\ Cardinality(Handlers(u)') = Cardinality(Handlers(u))
                                          - IF u = call[c].update THEN 1 ELSE 0
<1>1. call' = [call EXCEPT ![c] = Closed] /\ c \in Calls /\ call \in [Calls -> Handling]
  BY DEF Close, IInv, Types, Active
<1>2. Active' = Active \ {c}
  BY <1>1 DEF Active, Closed
<1>3. Handlers(u)' = Handlers(u) \ {c}
  BY <1>1, <1>2 DEF Handlers, Active
<1>4. IsFiniteSet(Handlers(u))
  BY Finite
<1>5. c \in Handlers(u) <=> u = call[c].update
  BY DEF Handlers
<1>6. IsFiniteSet(Active')
  BY <1>2, FS_RemoveElement DEF Bounded
<1>7. Cardinality(Handlers(u)) \in Nat
  BY Finite
<1>8. CASE u = call[c].update
  BY <1>3, <1>4, <1>5, <1>6, <1>8, FS_RemoveElement
<1>9. CASE u # call[c].update
  <2>1. Handlers(u)' = Handlers(u)
    BY <1>3, <1>5, <1>9
  <2> QED
    BY <1>6, <1>7, <1>9, <2>1
<1> QED
  BY <1>8, <1>9

\* A handler goes on with its update.
LEMMA HandlersStay ==
  ASSUME IInv, Bounded, call' \in [Calls -> Handling],
         \A c \in Calls : /\ call'[c].update = call[c].update
                          /\ call'[c].pc = "closed" <=> call[c].pc = "closed"
  PROVE  /\ Active' = Active /\ IsFiniteSet(Active')
         /\ \A u : Handlers(u)' = Handlers(u)
<1>1. Active' = Active
  BY DEF Active
<1> QED
  BY <1>1 DEF Handlers, Active, Bounded

\* A handler is opened for an update.
LEMMA HandlerOpens ==
  ASSUME IInv, Bounded, NEW c \in Calls, call[c].pc = "closed",
         NEW route \in Routes, NEW t \in AllThreads, NEW n \in Nat,
         NEW q \in Nat, call' = [call EXCEPT ![c] = Opened(route, t, n, q)], NEW u
  PROVE  /\ IsFiniteSet(Active')
         /\ Cardinality(Handlers(u)') = Cardinality(Handlers(u)) + IF u = n THEN 1 ELSE 0
<1>1. call'[c].pc = "look" /\ call'[c].update = n /\ \A d \in Calls \ {c} : call'[d] = call[d]
  BY DEF IInv, Types, Opened, Closed
<1>2. Active' = Active \union {c} /\ c \notin Active
  BY <1>1 DEF Active
<1>3. IsFiniteSet(Active')
  BY <1>2, FS_AddElement DEF Bounded
<1>4. Handlers(u)' = IF u = n THEN Handlers(u) \union {c} ELSE Handlers(u)
  BY <1>1, <1>2 DEF Handlers, Active
<1>5. c \notin Handlers(u)
  BY <1>2 DEF Handlers
<1>6. IsFiniteSet(Handlers(u)) /\ Cardinality(Handlers(u)) \in Nat
  BY Finite
<1>7. CASE u = n
  BY <1>3, <1>4, <1>5, <1>6, <1>7, FS_AddElement
<1>8. CASE u # n
  BY <1>3, <1>4, <1>6, <1>8
<1> QED
  BY <1>7, <1>8

LEMMA DueType == \A u : Due(u) \in {0, 1}
  BY DEF Due

\* What Telegram hears concerns one update; a good reply makes none due.
LEMMA HeardDue ==
  ASSUME IInv, NEW c \in Calls, NEW how \in States, Heard(c, how) \/ UNCHANGED updates
  PROVE  /\ Len(updates') = Len(updates) /\ DOMAIN updates' = DOMAIN updates
         /\ \A u \in DOMAIN updates :
              /\ Due(u)' \in {0, 1}
              /\ u # call[c].update => Due(u)' = Due(u)
              /\ how # "waiting" => Due(u)' <= Due(u)
<1>1. updates \in Seq(Text)
  BY DEF IInv, Types
<1>2. CASE UNCHANGED updates
  BY <1>2 DEF Due
<1>3. CASE updates' = [updates EXCEPT ![call[c].update].state = how]
  <2>1. DOMAIN updates' = DOMAIN updates
    BY <1>3
  <2>2. Len(updates') = Len(updates)
    BY <1>1, <1>3
  <2>3. \A u \in DOMAIN updates : u # call[c].update => updates'[u] = updates[u]
    BY <1>3
  <2>4. \A u \in DOMAIN updates : updates[u] \in Text
    BY <1>1
  <2>5. \A u \in DOMAIN updates : u = call[c].update => updates'[u].state = how
    BY <1>3, <2>4 DEF Text
  <2> QED
    BY <2>1, <2>2, <2>3, <2>5 DEF Due
<1> QED
  BY <1>2, <1>3 DEF Heard

\* A handler replies, or goes without a word, after k copies were published.
LEMMA CloseCopyInv ==
  ASSUME IInv, CopyInv, IInv', NEW c \in Active, Close(c),
         NEW how \in States, Heard(c, how) \/ UNCHANGED updates,
         NEW k \in 0..2, NEW e \in User, e.update = call[c].update,
         published' = published \o [i \in 1..k |-> e],
         faults' \in Nat, faults <= faults',
         \/ k = 0
         \/ k = 1 /\ how # "waiting" 
         \/ faults' = faults + 1
  PROVE  CopyInv'
<1> DEFINE n == call[c].update
<1>1. Bounded /\ Budget /\ faults \in Nat /\ k \in Nat /\ c \in Calls
  BY DEF CopyInv, Bounded, Active
<1>2. /\ Len(updates') = Len(updates) /\ DOMAIN updates' = DOMAIN updates
      /\ \A u \in DOMAIN updates :
           /\ Due(u)' \in {0, 1}
           /\ u # n => Due(u)' = Due(u)
           /\ how # "waiting" => Due(u)' <= Due(u)
  BY <1>1, HeardDue
<1>3. Bounded'
  <2>1. IsFiniteSet(Active')
    BY <1>1, HandlerCloses
  <2>2. \A d \in Calls : call'[d].update <= Len(updates')
    <3>1. call' = [call EXCEPT ![c] = Closed] /\ Len(updates) \in Nat
      BY DEF Close, IInv, Types
    <3>2. \A d \in Calls : call'[d].update = IF d = c THEN 0 ELSE call[d].update
      BY <3>1 DEF Closed, IInv, Types
    <3> QED
      BY <1>1, <1>2, <3>1, <3>2 DEF Bounded
  <2>3. \A i \in DOMAIN published' : published'[i].update <= Len(updates')
    <3>1. ASSUME NEW i \in DOMAIN published'
          PROVE  \/ published'[i] = e
                 \/ i \in DOMAIN published /\ published'[i] = published[i]
      <4>1. published \in Seq(User) /\ DOMAIN published = 1..Len(published)
              /\ Len(published) \in Nat
        BY DEF IInv, Types
      <4>2. /\ DOMAIN published' = 1..Len(published) + k
            /\ \A j \in 1..Len(published) : published'[j] = published[j]
            /\ \A j \in Len(published) + 1..Len(published) + k : published'[j] = e
        BY <1>1, <4>1, Repeated
      <4>3. i \in 1..Len(published) \/ i \in Len(published) + 1..Len(published) + k
        BY <1>1, <4>1, <4>2
      <4> QED
        BY <4>1, <4>2, <4>3
    <3> QED
      BY <1>1, <1>2, <3>1 DEF Bounded
  <2> QED
    BY <2>1, <2>2, <2>3 DEF Bounded
<1>4. ASSUME NEW u \in DOMAIN updates
      PROVE  Cardinality(Copies(u)') + Cardinality(Handlers(u)') + Due(u)' <= 1 + 2 * faults'
  <2>1. Cardinality(Copies(u)) + Cardinality(Handlers(u)) + Due(u) <= 1 + 2 * faults
    BY <1>1 DEF Budget
  <2>2. /\ Cardinality(Copies(u)) \in Nat /\ Cardinality(Handlers(u)) \in Nat
        /\ Due(u) \in {0, 1} /\ Due(u)' \in {0, 1}
    BY <1>1, <1>2, Finite, DueType
  <2>3. /\ Cardinality(Copies(u)') \in Nat
        /\ Cardinality(Copies(u)') <= Cardinality(Copies(u)) + IF u = n THEN k ELSE 0
    BY <1>1, CopiesAdded
  <2>4. Cardinality(Handlers(u)') = Cardinality(Handlers(u)) - IF u = n THEN 1 ELSE 0
    BY <1>1, HandlerCloses
  <2>5. CASE u = n
    <3>1. /\ Cardinality(Copies(u)') <= Cardinality(Copies(u)) + k
          /\ Cardinality(Handlers(u)') = Cardinality(Handlers(u)) - 1
      BY <2>3, <2>4, <2>5
    <3>2. k = 1 /\ how # "waiting" => Due(u)' <= Due(u)
      BY <1>2
    <3>0. Cardinality(Copies(u)') \in Nat /\ Cardinality(Handlers(u)') \in Int
      BY <2>2, <2>3, <3>1
    <3>3. CASE k = 0
      <4>1. Cardinality(Copies(u)') <= Cardinality(Copies(u))
        BY <2>2, <3>0, <3>1, <3>3
      <4> QED
        BY <1>1, <2>1, <2>2, <3>0, <3>1, <4>1
    <3>4. CASE k = 1 /\ how # "waiting"
      <4>1. Cardinality(Copies(u)') <= Cardinality(Copies(u)) + 1
        BY <2>2, <3>0, <3>1, <3>4
      <4> QED
        <5>1. Due(u)' <= Due(u) /\ Due(u)' \in Int /\ Due(u) \in Int
          BY <2>2, <3>2, <3>4
        <5>2. Cardinality(Copies(u)') + Cardinality(Handlers(u)') + Due(u)'
                <= Cardinality(Copies(u)) + Cardinality(Handlers(u)) + Due(u)
          BY <2>2, <3>0, <3>1, <4>1, <5>1
        <5> QED
          BY <1>1, <2>1, <2>2, <3>0, <5>1, <5>2
    <3>5. CASE faults' = faults + 1
      <4>1. Cardinality(Copies(u)') <= Cardinality(Copies(u)) + 2
        BY <1>1, <2>2, <3>0, <3>1
      <4> QED
        BY <1>1, <2>1, <2>2, <3>0, <3>1, <3>5, <4>1
    <3> QED
      BY <3>3, <3>4, <3>5
  <2>6. CASE u # n
    <3>1. /\ Cardinality(Copies(u)') <= Cardinality(Copies(u))
          /\ Cardinality(Handlers(u)') = Cardinality(Handlers(u))
          /\ Due(u)' = Due(u)
      BY <1>2, <2>2, <2>3, <2>4, <2>6
    <3> QED
      BY <1>1, <2>1, <2>2, <2>3, <3>1
  <2> QED
    BY <2>5, <2>6
<1>5. Budget'
  BY <1>2, <1>4 DEF Budget
<1> QED
  BY <1>3, <1>5 DEF CopyInv

LEMMA NoCopies ==
  ASSUME IInv, NEW c \in Active, UNCHANGED published
  PROVE  /\ [thread |-> call[c].thread, update |-> call[c].update] \in User
         /\ published' = published \o [i \in 1..0 |-> [thread |-> call[c].thread,
                                                       update |-> call[c].update]]
<1>1. [thread |-> call[c].thread, update |-> call[c].update] \in User
  BY DEF Active, IInv, Types, Handling, CallsKnow, User
<1>2. \A e : [i \in 1..0 |-> e] = <<>>
  OBVIOUS
<1> QED
  BY <1>1, <1>2, ConcatEmptySeq DEF IInv, Types

\* A handler is over that has not published.
LEMMA EndCopyInv ==
  ASSUME IInv, CopyInv, IInv', NEW c \in Active, UNCHANGED published,
         Fails(c) \/ (Close(c) /\ UNCHANGED updates), faults' \in Nat, faults <= faults'
  PROVE  CopyInv'
<1> DEFINE e == [thread |-> call[c].thread, update |-> call[c].update]
<1>1. e \in User /\ published' = published \o [i \in 1..0 |-> e] /\ e.update = call[c].update
  BY NoCopies
<1> HIDE DEF e
<1>2. Close(c) /\ (Heard(c, "waiting") \/ UNCHANGED updates) /\ c \in Calls
  BY DEF Fails, Active
<1>3. PICK k \in 0..2 : k = 0
  OBVIOUS
<1>4. published' = published \o [i \in 1..k |-> e]
  BY <1>1, <1>3
<1> QED
  BY <1>1, <1>2, <1>3, <1>4, CloseCopyInv DEF States

LEMMA PublishUserCopyInv ==
  ASSUME IInv, CopyInv, IInv', NEW c \in Calls, PublishUser(c)
  PROVE  CopyInv'
<1> DEFINE e == [thread |-> call[c].thread, update |-> call[c].update]
<1>1. c \in Active /\ e \in User /\ e.update = call[c].update
  BY DEF PublishUser, Active, IInv, Types, Handling, CallsKnow, User
<1>2. published' = Append(published, e)
  BY DEF PublishUser
<1> HIDE DEF e
<1>3. [i \in 1..1 |-> e] = <<e>>
  OBVIOUS
<1>4. published' = published \o [i \in 1..1 |-> e]
  BY <1>1, <1>2, <1>3, AppendIsConcat DEF IInv, Types
<1>5. Close(c) /\ Heard(c, "done") /\ faults' = faults /\ faults \in Nat
  BY DEF PublishUser, Succeeds, CopyInv, Bounded
<1>6. PICK k \in 0..2 : k = 1
  OBVIOUS
<1>7. published' = published \o [i \in 1..k |-> e]
  BY <1>4, <1>6
<1>8. "done" \in States /\ "done" # "waiting" /\ faults' \in Nat /\ faults <= faults'
  BY <1>5 DEF States
<1> QED
  BY <1>1, <1>5, <1>6, <1>7, <1>8, CloseCopyInv

LEMMA PublishFailsCopyInv ==
  ASSUME IInv, CopyInv, IInv', NEW c \in Calls, PublishFails(c)
  PROVE  CopyInv'
<1> DEFINE e == [thread |-> call[c].thread, update |-> call[c].update]
<1>1. c \in Active /\ e \in User /\ e.update = call[c].update
  BY DEF PublishFails, Active, IInv, Types, Handling, CallsKnow, User
<1>2. PICK k \in 0..2 : published' = published \o [i \in 1..k |-> e]
  BY DEF PublishFails
<1> HIDE DEF e
<1>3. /\ Close(c) /\ Heard(c, "waiting")
      /\ faults' = faults + 1 /\ faults \in Nat /\ faults' \in Nat /\ faults <= faults'
  BY DEF PublishFails, Fails, Fault, CopyInv, Bounded
<1> QED
  BY <1>1, <1>2, <1>3, CloseCopyInv DEF States

\* A handler goes on, or nothing concerns the handlers.
LEMMA OnCopyInv ==
  ASSUME IInv, CopyInv, IInv', UNCHANGED <<updates, published>>, faults' \in Nat,
         faults <= faults',
         \A c \in Calls : /\ call'[c].update = call[c].update
                          /\ call'[c].pc = "closed" <=> call[c].pc = "closed"
  PROVE  CopyInv'
<1>1. Active' = Active /\ \A u : Handlers(u)' = Handlers(u)
  BY HandlersStay DEF CopyInv, IInv, Types
<1>2. \A u : Copies(u)' = Copies(u) /\ Due(u)' = Due(u)
  BY DEF Copies, Due
<1>3. Bounded'
  BY <1>1 DEF CopyInv, Bounded
<1>4. ASSUME NEW u \in DOMAIN updates
      PROVE  Cardinality(Copies(u)') + Cardinality(Handlers(u)') + Due(u)' <= 1 + 2 * faults'
  <2>1. Cardinality(Copies(u)) + Cardinality(Handlers(u)) + Due(u) <= 1 + 2 * faults
    BY DEF CopyInv, Budget
  <2>2. /\ Cardinality(Copies(u)) \in Nat /\ Cardinality(Handlers(u)) \in Nat
        /\ Due(u) \in {0, 1} /\ faults \in Nat
    BY Finite, DueType DEF CopyInv, Bounded
  <2> QED
    BY <1>1, <1>2, <2>1, <2>2
<1> QED
  BY <1>3, <1>4 DEF CopyInv, Budget

LEMMA GotoCopyInv ==
  ASSUME IInv, CopyInv, IInv', NEW c \in Active, NEW pc \in {"insert", "write", "publish"},
         NEW row, call' = [call EXCEPT ![c].pc = pc, ![c].row = row] \/ Goto(c, pc),
         UNCHANGED <<updates, published, faults>>
  PROVE  CopyInv'
<1>1. ASSUME NEW d \in Calls
      PROVE  /\ call'[d].update = call[d].update
             /\ call'[d].pc = "closed" <=> call[d].pc = "closed"
  <2>1. call \in [Calls -> Handling] /\ call[c].pc # "closed" /\ c \in Calls
    BY DEF IInv, Types, Active
  <2>2. call[d] \in Handling
    BY <2>1
  <2> QED
    BY <2>1, <2>2 DEF Goto, Handling
<1> QED
  BY <1>1, OnCopyInv DEF CopyInv, Bounded

\* Telegram does not wait any longer.
LEMMA GiveUpCopyInv ==
  ASSUME IInv, CopyInv, IInv', NEW c \in Calls, GiveUp(c)
  PROVE  CopyInv'
<1>1. Heard(c, "waiting")
  BY DEF GiveUp, Heard
<1>2. /\ Len(updates') = Len(updates) /\ DOMAIN updates' = DOMAIN updates
      /\ \A u \in DOMAIN updates : Due(u)' \in {0, 1}
  BY <1>1, HeardDue DEF States
<1>3. ASSUME NEW d \in Calls
      PROVE  /\ call'[d].update = call[d].update
             /\ call'[d].pc = "closed" <=> call[d].pc = "closed"
  BY DEF GiveUp, IInv, Types, Handling
<1>4. Active' = Active /\ \A u : Handlers(u)' = Handlers(u)
  BY <1>3, HandlersStay DEF CopyInv, IInv, Types
<1>5. \A u : Copies(u)' = Copies(u)
  BY DEF Copies, GiveUp
<1>6. faults \in Nat /\ faults' = faults + 1
  BY DEF GiveUp, Fault, CopyInv, Bounded
<1>7. Bounded'
  BY <1>2, <1>3, <1>4, <1>6 DEF CopyInv, Bounded, GiveUp
<1>8. ASSUME NEW u \in DOMAIN updates
      PROVE  Cardinality(Copies(u)') + Cardinality(Handlers(u)') + Due(u)' <= 1 + 2 * faults'
  <2>1. Cardinality(Copies(u)) + Cardinality(Handlers(u)) + Due(u) <= 1 + 2 * faults
    BY DEF CopyInv, Budget
  <2>2. /\ Cardinality(Copies(u)) \in Nat /\ Cardinality(Handlers(u)) \in Nat
        /\ Due(u) \in {0, 1} /\ Due(u)' \in {0, 1}
    BY <1>2, Finite, DueType DEF CopyInv
  <2> QED
    BY <1>4, <1>5, <1>6, <2>1, <2>2
<1> QED
  BY <1>2, <1>7, <1>8 DEF CopyInv, Budget

\* A handler is opened for a client, or for an update that was due.
LEMMA OpenCopyInv ==
  ASSUME IInv, CopyInv, IInv', NEW c \in Calls, call[c].pc = "closed",
         NEW route \in Routes, NEW t \in AllThreads, NEW n \in Nat, n <= Len(updates),
         NEW q \in Nat, call' = [call EXCEPT ![c] = Opened(route, t, n, q)],
         UNCHANGED <<published, faults>>,
         Len(updates') = Len(updates), DOMAIN updates' = DOMAIN updates,
         \A u \in DOMAIN updates : /\ u # n => Due(u)' = Due(u)
                                   /\ u = n => Due(u) = 1 /\ Due(u)' = 0
  PROVE  CopyInv'
<1>1. ASSUME NEW u
      PROVE  /\ IsFiniteSet(Active')
             /\ Cardinality(Handlers(u)') = Cardinality(Handlers(u)) + IF u = n THEN 1 ELSE 0
  BY HandlerOpens DEF CopyInv
<1>2. \A u : Copies(u)' = Copies(u)
  BY DEF Copies
<1>3. \A d \in Calls : call'[d].update = n \/ call'[d].update = call[d].update
  BY DEF Opened, Closed, IInv, Types
<1>4. Bounded'
  BY <1>1, <1>3 DEF CopyInv, Bounded
<1>5. ASSUME NEW u \in DOMAIN updates
      PROVE  Cardinality(Copies(u)') + Cardinality(Handlers(u)') + Due(u)' <= 1 + 2 * faults'
  <2>1. Cardinality(Copies(u)) + Cardinality(Handlers(u)) + Due(u) <= 1 + 2 * faults
    BY DEF CopyInv, Budget
  <2>2. /\ Cardinality(Copies(u)) \in Nat /\ Cardinality(Handlers(u)) \in Nat
        /\ Due(u) \in {0, 1} /\ faults \in Nat
    BY Finite, DueType DEF CopyInv, Bounded
  <2>3. CASE u = n
    <3>1. Due(u) = 1 /\ Due(u)' = 0 /\ Cardinality(Handlers(u)') = Cardinality(Handlers(u)) + 1
      BY <1>1, <2>3
    <3> QED
      BY <1>2, <2>1, <2>2, <3>1
  <2>4. CASE u # n
    <3>1. Due(u)' = Due(u) /\ Cardinality(Handlers(u)') = Cardinality(Handlers(u))
      BY <1>1, <2>2, <2>4
    <3> QED
      BY <1>2, <2>1, <2>2, <3>1
  <2> QED
    BY <2>3, <2>4
<1> QED
  BY <1>4, <1>5 DEF CopyInv, Budget

LEMMA RequestCopyInv ==
  ASSUME IInv, CopyInv, IInv', NEW c \in Calls, Request(c)
  PROVE  CopyInv'
<1>1. PICK route \in Routes, t \in AllThreads, q \in Nat :
        call' = [call EXCEPT ![c] = Opened(route, t, 0, q)]
  <2>1. Len(asks) + 1 \in Nat
    BY DEF IInv, Types
  <2> QED
    BY <2>1 DEF Request
<1>2. updates \in Seq(Text)
  BY DEF IInv, Types
<1>3. 0 <= Len(updates) /\ \A u \in DOMAIN updates : u # 0
  BY <1>2
<1>4. UNCHANGED <<updates, published, faults>> /\ call[c].pc = "closed"
  BY DEF Request
<1>5. \A u : Due(u)' = Due(u)
  BY <1>4 DEF Due
<1>6. PICK n \in Nat : n = 0
  OBVIOUS
<1>7. n <= Len(updates)
  BY <1>3, <1>6
<1>8. call' = [call EXCEPT ![c] = Opened(route, t, n, q)]
  BY <1>1, <1>6
<1>9. Len(updates') = Len(updates) /\ DOMAIN updates' = DOMAIN updates
  BY <1>4
<1>10. \A u \in DOMAIN updates : /\ u # n => Due(u)' = Due(u)
                                 /\ u = n => Due(u) = 1 /\ Due(u)' = 0
  BY <1>3, <1>5, <1>6
<1>11. UNCHANGED <<published, faults>> /\ call[c].pc = "closed"
  BY <1>4
<1>12. route \in Routes /\ t \in AllThreads /\ n \in Nat /\ q \in Nat
  OBVIOUS
<1> QED
  BY <1>7, <1>8, <1>9, <1>10, <1>11, <1>12, OpenCopyInv

\* A text is written: it is due once.
LEMMA WriteCopyInv ==
  ASSUME IInv, CopyInv, Write
  PROVE  CopyInv'
<1>1. PICK x \in Text : updates' = Append(updates, x)
  <2>1. PICK t \in Chats, text \in BOOLEAN :
          updates' = Append(updates, [thread |-> t, text |-> text, state |-> "waiting"])
    BY DEF Write
  <2>2. [thread |-> t, text |-> text, state |-> "waiting"] \in Text
    BY DEF Text, States
  <2> QED
    BY <2>1, <2>2
<1> DEFINE n == Len(updates)
<1>2. /\ n \in Nat /\ DOMAIN updates = 1..n
      /\ Len(updates') = n + 1 /\ DOMAIN updates' = 1..n + 1
      /\ \A u \in 1..n : updates'[u] = updates[u]
  BY <1>1, AppendProperties, LenProperties DEF IInv, Types
<1>3. UNCHANGED <<call, published, faults>>
  BY DEF Write
<1>4. Active' = Active /\ \A u : Handlers(u)' = Handlers(u) /\ Copies(u)' = Copies(u)
  BY <1>3 DEF Active, Handlers, Copies
<1>5. /\ \A c \in Calls : call[c].update \in Nat
      /\ \A i \in DOMAIN published : published[i].update \in Nat
  <2>1. \A i \in DOMAIN published : published[i] \in User
    BY DEF IInv, Types
  <2> QED
    BY <2>1 DEF IInv, Types, Handling, User
<1>6. Bounded'
  BY <1>2, <1>3, <1>4, <1>5 DEF CopyInv, Bounded
<1>7. ASSUME NEW u \in 1..n + 1
      PROVE  Cardinality(Copies(u)') + Cardinality(Handlers(u)') + Due(u)' <= 1 + 2 * faults'
  <2>1. faults' = faults /\ faults \in Nat
    BY <1>3 DEF CopyInv, Bounded
  <2>2. CASE u \in 1..n
    <3>1. Cardinality(Copies(u)) + Cardinality(Handlers(u)) + Due(u) <= 1 + 2 * faults
      BY <1>2, <2>2 DEF CopyInv, Budget
    <3>2. Due(u)' = Due(u)
      BY <1>2, <2>2 DEF Due
    <3> QED
      BY <1>4, <2>1, <3>1, <3>2
  <2>3. CASE u = n + 1
    <3>1. Copies(u) = {} /\ Handlers(u) = {}
      <4>1. \A c \in Calls : call[c].update # u
        BY <1>2, <1>5, <2>3 DEF CopyInv, Bounded
      <4>2. \A i \in DOMAIN published : published[i].update # u
        BY <1>2, <1>5, <2>3 DEF CopyInv, Bounded
      <4> QED
        BY <4>1, <4>2 DEF Copies, Handlers, Active
    <3>2. Due(u)' \in {0, 1}
      BY DEF Due
    <3>3. Cardinality(Copies(u)') = 0 /\ Cardinality(Handlers(u)') = 0
      BY <1>4, <3>1, FS_EmptySet
    <3> QED
      BY <2>1, <3>2, <3>3
  <2> QED
    BY <1>2, <2>2, <2>3
<1> QED
  BY <1>2, <1>6, <1>7 DEF CopyInv, Budget

LEMMA DeliverCopyInv ==
  ASSUME IInv, CopyInv, IInv', NEW c \in Calls, Deliver(c)
  PROVE  CopyInv'
<1>1. PICK n \in DOMAIN updates :
        /\ updates[n].state = "waiting"
        /\ \/ /\ updates[n].text
              /\ call' = [call EXCEPT ![c] = Opened("webhook", updates[n].thread, n, 0)]
              /\ updates' = [updates EXCEPT ![n].state = "posted"]
           \/ /\ ~updates[n].text
              /\ updates' = [updates EXCEPT ![n].state = "done"]
              /\ UNCHANGED call
  BY DEF Deliver
<1>2. /\ updates \in Seq(Text) /\ Len(updates) \in Nat /\ DOMAIN updates = 1..Len(updates)
      /\ updates[n] \in Text
  BY DEF IInv, Types
<1>3. /\ Len(updates') = Len(updates) /\ DOMAIN updates' = DOMAIN updates
      /\ \A u \in DOMAIN updates : u # n => updates'[u] = updates[u]
      /\ updates'[n].state # "waiting"
  <2>1. DOMAIN updates' = DOMAIN updates
    BY <1>1
  <2>2. updates' \in Seq(Text)
    BY DEF IInv, Types
  <2>3. Len(updates') = Len(updates)
    BY <1>2, <2>1, <2>2, LenProperties
  <2>4. updates'[n].state \in {"posted", "done"}
    BY <1>1, <1>2 DEF Text
  <2> QED
    BY <1>1, <2>1, <2>3, <2>4
<1>4. \A u \in DOMAIN updates : /\ u # n => Due(u)' = Due(u)
                                /\ u = n => Due(u) = 1 /\ Due(u)' = 0
  BY <1>1, <1>3 DEF Due
<1>5. UNCHANGED <<published, faults>> /\ call[c].pc = "closed"
  BY DEF Deliver
<1>6. CASE ~UNCHANGED call
  <2>1. n \in Nat /\ n <= Len(updates) /\ updates[n].thread \in AllThreads /\ "webhook" \in Routes
    BY <1>2 DEF Text, AllThreads, Routes
  <2>2. call' = [call EXCEPT ![c] = Opened("webhook", updates[n].thread, n, 0)]
    BY <1>1, <1>6
  <2> QED
    BY <1>3, <1>4, <1>5, <2>1, <2>2, OpenCopyInv
<1>7. CASE UNCHANGED call
  <2>1. Active' = Active /\ \A u : Handlers(u)' = Handlers(u) /\ Copies(u)' = Copies(u)
    BY <1>5, <1>7 DEF Active, Handlers, Copies
  <2>2. Bounded'
    BY <1>3, <1>5, <1>7, <2>1 DEF CopyInv, Bounded
  <2>3. ASSUME NEW u \in DOMAIN updates
        PROVE  Cardinality(Copies(u)') + Cardinality(Handlers(u)') + Due(u)' <= 1 + 2 * faults'
    <3>1. Cardinality(Copies(u)) + Cardinality(Handlers(u)) + Due(u) <= 1 + 2 * faults
      BY DEF CopyInv, Budget
    <3>2. /\ Cardinality(Copies(u)) \in Nat /\ Cardinality(Handlers(u)) \in Nat
          /\ Due(u) \in {0, 1} /\ faults \in Nat
      BY Finite, DueType DEF CopyInv, Bounded
    <3>3. Due(u)' <= Due(u) /\ Due(u)' \in Nat
      BY <1>4, <3>2
    <3> QED
      BY <1>5, <2>1, <3>1, <3>2, <3>3
  <2> QED
    BY <1>3, <2>2, <2>3 DEF CopyInv, Budget
<1> QED
  BY <1>6, <1>7

LEMMA HandlerCopyInv ==
  ASSUME IInv, CopyInv, IInv', NEW c \in Calls, Handler(c)
  PROVE  CopyInv'
<1>1. faults \in Nat
  BY DEF CopyInv, Bounded
<1>2. c \in Active
  BY DEF Active, Handler, Find, Miss, Insert, InsertFails, Update, Delete, PublishUser,
     PublishFails, DbFails
<1>3. CASE Find(c)
  <2>1. PICK r : call' = [call EXCEPT ![c].pc = "write", ![c].row = r]
    BY <1>3 DEF Find
  <2> QED
    BY <1>2, <1>3, <2>1, GotoCopyInv DEF Find
<1>4. CASE Miss(c)
  <2>1. CASE Close(c)
    BY <1>1, <1>2, <1>4, <2>1, EndCopyInv DEF Miss
  <2>2. CASE Goto(c, "insert")
    BY <1>2, <1>4, <2>2, GotoCopyInv DEF Miss
  <2> QED
    BY <1>4, <2>1, <2>2 DEF Miss
<1>5. CASE Insert(c)
  BY <1>2, <1>5, GotoCopyInv DEF Insert
<1>6. CASE InsertFails(c)
  BY <1>1, <1>2, <1>6, EndCopyInv DEF InsertFails
<1>7. CASE Update(c)
  <2>1. CASE Goto(c, "publish") /\ UNCHANGED updates
    BY <1>2, <1>7, <2>1, GotoCopyInv DEF Update
  <2>2. CASE Fails(c) \/ (Close(c) /\ UNCHANGED updates)
    BY <1>1, <1>2, <1>7, <2>2, EndCopyInv DEF Update
  <2> QED
    BY <1>7, <2>1, <2>2 DEF Update
<1>8. CASE Delete(c)
  BY <1>1, <1>2, <1>8, EndCopyInv DEF Delete
<1>9. CASE DbFails(c)
  BY <1>1, <1>2, <1>9, EndCopyInv DEF DbFails, Fault
<1> QED
  BY <1>3, <1>4, <1>5, <1>6, <1>7, <1>8, <1>9, PublishUserCopyInv, PublishFailsCopyInv
     DEF Handler

LEMMA InitCopyInv == ASSUME Init PROVE CopyInv
<1>1. Active = {}
  BY DEF Init, Active, Closed
<1>2. Bounded
  BY <1>1, FS_EmptySet DEF Init, Bounded, Closed
<1>3. Budget
  BY DEF Init, Budget
<1> QED
  BY <1>2, <1>3 DEF CopyInv

LEMMA NextCopyInv == ASSUME IInv, CopyInv, IInv', [Next]_vars PROVE CopyInv'
<1>1. faults \in Nat
  BY DEF CopyInv, Bounded
<1>2. CASE Answer \/ (\E s \in Servers : TelegramTask(s)) \/ UNCHANGED vars
  <2>1. UNCHANGED <<call, updates, published>> /\ faults' \in Nat /\ faults <= faults'
    <3>1. UNCHANGED <<call, updates, published>> /\ (UNCHANGED faults \/ Fault)
      BY <1>2 DEF Answer, TelegramTask, NextAnswer, SendPart, ConsumerFails, RestartServer, vars
    <3> QED
      BY <1>1, <3>1 DEF Fault
  <2> QED
    BY <2>1, OnCopyInv
<1> QED
  BY <1>2, RequestCopyInv, DeliverCopyInv, GiveUpCopyInv, HandlerCopyInv, WriteCopyInv DEF Next

\* However many requests run at a time, whatever race they lose and however often
\* Telegram posts an update, its text is published once, and at most twice more
\* for every fault.
THEOREM RepeatedForCauseAlways == Spec => []RepeatedForCause
<1>1. Init => IInv /\ CopyInv
  BY InitIInv, InitCopyInv
<1>2. IInv /\ CopyInv /\ [Next]_vars => (IInv /\ CopyInv)'
  BY NextIInv, NextCopyInv
<1>3. IInv /\ CopyInv => RepeatedForCause
  <2> SUFFICES ASSUME IInv, CopyInv, NEW u \in DOMAIN updates
               PROVE  Cardinality(Copies(u)) <= 1 + 2 * faults
    BY DEF RepeatedForCause, Copies
  <2>1. Cardinality(Copies(u)) + Cardinality(Handlers(u)) + Due(u) <= 1 + 2 * faults
    BY DEF CopyInv, Budget
  <2>2. /\ Cardinality(Copies(u)) \in Nat /\ Cardinality(Handlers(u)) \in Nat
        /\ Due(u) \in {0, 1} /\ faults \in Nat
    BY Finite, DueType DEF CopyInv, Bounded
  <2> QED
    BY <2>1, <2>2
<1> QED
  BY <1>1, <1>2, <1>3, PTL DEF Spec
=============================================================================
