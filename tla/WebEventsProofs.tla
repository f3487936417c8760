-------------------------- MODULE WebEventsProofs --------------------------
(***************************************************************************)
(* For any number of pages, connections, conversations and failures: no    *)
(* page is shown an event twice or out of order, and a page that is alone  *)
(* receives every event of its conversation but those that went with a     *)
(* broken connection, are pending or were trimmed.                         *)
(***************************************************************************)
EXTENDS WebEvents, SequenceTheorems, TLAPS

ECP == INSTANCE EventCenterProofs WITH Consumers <- Conns, Events <- Threads

-----------------------------------------------------------------------------

(***************************************************************************)
(* The connections are consumers                                           *)
(***************************************************************************)

\* A step of one connection's consume() is a step of the event center.
LEMMA ConsumerIsEC ==
  ASSUME NEW c \in Conns,
         \/ EC!Consume(c) \/ EC!CreateGroup(c) \/ EC!Deliver(c)
         \/ EC!DeliverAndHandle(c) \/ EC!LoseReply(c) \/ EC!HandlerDone(c)
         \/ EC!Ack(c) \/ EC!RedisFails(c) \/ EC!Abandoned(c)
  PROVE  EC!OpenNext
BY DEF EC!OpenNext

\* Every step of the pages and the server is one of the event center, or none.
LEMMA NextIsEC ==
  ASSUME DOMAIN conn \subseteq Conns, [Next]_vars
  PROVE  [EC!OpenNext]_(EC!vars)
<1>1. ASSUME UNCHANGED streamVars
      PROVE  [EC!OpenNext]_(EC!vars)
  BY <1>1 DEF streamVars, groupVars, EC!vars, EC!groupVars
<1>2. ASSUME NEW p \in Pages, PageStep(p)
      PROVE  [EC!OpenNext]_(EC!vars)
  BY <1>1, <1>2, ConsumerIsEC DEF PageStep, Connect, Receive, Cut, Leave, Abort
<1>3. ASSUME NEW c \in DOMAIN conn, Serve(c) \/ Mishap(c)
      PROVE  [EC!OpenNext]_(EC!vars)
  <2>1. c \in Conns
    OBVIOUS
  <2>2. CASE CreateGroup(c) \/ Push(c) \/ Skip(c) \/ Ack(c) \/ LoseReply(c)
               \/ RedisFails(c)
    BY <2>1, <2>2, ConsumerIsEC
       DEF CreateGroup, Push, Skip, Ack, LoseReply, RedisFails
  <2>3. CASE Sent(c)
    BY <2>1, <2>3, ConsumerIsEC DEF Sent, EC!HandlerDone
  <2>4. CASE Closed(c)
    BY <2>1, <2>4, ConsumerIsEC DEF Closed, EC!Abandoned
  <2> QED
    BY <1>3, <2>2, <2>3, <2>4 DEF Serve, Mishap
<1>4. ASSUME NEW t \in Threads, Publish(t)
      PROVE  EC!OpenNext
  BY <1>4 DEF Publish, EC!OpenNext, EC!Publish, EC!PublishSome, groupVars,
     EC!groupVars
<1>5. CASE UNCHANGED vars
  BY <1>5, <1>1 DEF vars
<1> QED
  BY <1>2, <1>3, <1>4, <1>5 DEF Next

\* The module this one cites its lemmas from has the same steps: there its
\* operators are instantiated a second time.
LEMMA SameSteps == [EC!OpenNext]_(EC!vars) <=> [ECP!OpenNext]_(ECP!vars)
<1>1. UNCHANGED EC!vars <=> UNCHANGED ECP!vars
  BY DEF EC!vars, ECP!vars, EC!groupVars, ECP!groupVars
<1>2. EC!PublishSome <=> ECP!PublishSome
  BY DEF EC!PublishSome, ECP!PublishSome, EC!PublishOK, ECP!PublishOK,
     EC!PublishRaises, ECP!PublishRaises, EC!PublishCancelled,
     ECP!PublishCancelled, EC!XAdd, ECP!XAdd, EC!Trim, ECP!Trim, EC!Fault,
     ECP!Fault
<1>3. EC!Publish <=> ECP!Publish
  BY <1>2 DEF EC!Publish, ECP!Publish, EC!groupVars, ECP!groupVars
<1>4. ASSUME NEW c \in Conns
      PROVE  /\ EC!Consume(c) <=> ECP!Consume(c)
             /\ EC!CreateGroup(c) <=> ECP!CreateGroup(c)
             /\ EC!Deliver(c) <=> ECP!Deliver(c)
             /\ EC!DeliverAndHandle(c) <=> ECP!DeliverAndHandle(c)
             /\ EC!LoseReply(c) <=> ECP!LoseReply(c)
             /\ EC!HandlerDone(c) <=> ECP!HandlerDone(c)
             /\ EC!Ack(c) <=> ECP!Ack(c)
             /\ EC!RedisFails(c) <=> ECP!RedisFails(c)
             /\ EC!Abandoned(c) <=> ECP!Abandoned(c)
  BY <1>2, Zenon DEF EC!Consume, ECP!Consume, EC!CreateGroup, ECP!CreateGroup,
     EC!Deliver, ECP!Deliver, EC!DeliverAndHandle, ECP!DeliverAndHandle,
     EC!LoseReply, ECP!LoseReply, EC!HandlerDone, ECP!HandlerDone, EC!Ack,
     ECP!Ack, EC!RedisFails, ECP!RedisFails, EC!Abandoned, ECP!Abandoned,
     EC!Goto, ECP!Goto, EC!XGroupCreate, ECP!XGroupCreate, EC!XReadGroup,
     ECP!XReadGroup, EC!XAck, ECP!XAck, EC!Handled, ECP!Handled, EC!Abandon,
     ECP!Abandon, EC!Fault, ECP!Fault, EC!NextId, ECP!NextId, EC!Quiet,
     ECP!Quiet, EC!groupVars, ECP!groupVars
<1>5. EC!OpenNext <=> ECP!OpenNext
  BY <1>3, <1>4, Zenon DEF EC!OpenNext, ECP!OpenNext
<1> QED
  BY <1>1, <1>5

(***************************************************************************)
(* The inductive invariant                                                 *)
(***************************************************************************)

RestTyped ==
  /\ conn \in [{c \in Conns : reader[c].pc \notin {"off", "ended"}} -> Conn]
  /\ view \in [Pages -> Threads]
  /\ wire \in [Pages -> Seq(Nat \ {0})]
  /\ shown \in Seq([id : Nat \ {0}, page : Pages])
  /\ lost \subseteq Nat
  /\ ends \in [leave : 0..MaxLeaves, cut : 0..MaxCuts]

\* A page reads one stream at a time; what it has left is not open any more.
OneStreamPerPage ==
  \A c, d \in DOMAIN conn :
    conn[c].open /\ conn[d].open /\ conn[c].page = conn[d].page => c = d

\* What a page was shown, or is on its way to one, has been handled, so it is
\* in nobody's hands.
WrittenWereHandled ==
  /\ \A i \in DOMAIN shown : shown[i].id \in handled
  /\ \A p \in Pages : \A i \in DOMAIN wire[p] : wire[p][i] \in handled

\* A wire carries newer and newer events, each to one page.
WiresInOrder ==
  \A p, q \in Pages : \A i \in DOMAIN wire[p], j \in DOMAIN wire[q] :
    /\ wire[p][i] = wire[q][j] => p = q
    /\ p = q /\ i < j => wire[p][i] < wire[q][j]

\* What is on the way to a page is newer than all that it was shown, and was
\* shown to nobody.
ComingNewer ==
  \A i \in DOMAIN shown, p \in Pages : \A j \in DOMAIN wire[p] :
    /\ shown[i].id # wire[p][j]
    /\ shown[i].page = p => shown[i].id < wire[p][j]

\* What a page is being sent is newer than all that it was shown, also by the
\* connections it has left, and than all that is on its way.
SendingNewer ==
  \A c \in DOMAIN conn : conn[c].open /\ reader[c].pc = "handle" =>
    /\ \A i \in DOMAIN shown :
         shown[i].page = conn[c].page => shown[i].id < reader[c].cur
    /\ \A j \in DOMAIN wire[conn[c].page] : wire[conn[c].page][j] < reader[c].cur

\* The history and the wires.
Written == WrittenWereHandled /\ WiresInOrder /\ ComingNewer /\ ShownOnceInOrder

\* The rest of the invariant, which the event center knows nothing of.
PagesInv == RestTyped /\ OneStreamPerPage /\ Written /\ SendingNewer

IInv == ECP!IInv /\ PagesInv

LEMMA IInvImpliesTypeOK == ASSUME IInv PROVE TypeOK
BY DEF IInv, PagesInv, RestTyped, TypeOK, EC!TypeOK, ECP!IInv, ECP!TypeOK,
   EC!ReaderPc, ECP!ReaderPc

-----------------------------------------------------------------------------

(***************************************************************************)
(* What the actions do to connections and to what is shown                 *)
(***************************************************************************)

\* consume() of one connection moves on, the others stay where they are.
LEMMA Moves ==
  ASSUME ECP!IInv, NEW c \in Conns, NEW pc, NEW cur, EC!Goto(c, pc, cur)
  PROVE  /\ reader'[c] = [pc |-> pc, cur |-> cur]
         /\ reader'[c].pc = pc /\ reader'[c].cur = cur
         /\ \A d \in Conns \ {c} : reader'[d] = reader[d]
BY DEF EC!Goto, ECP!IInv, ECP!TypeOK

Served == {c \in Conns : reader[c].pc \notin {"off", "ended"}}

\* A step keeps what the event center promises; ids and what was handled stay.
LEMMA CenterSteps ==
  ASSUME IInv, [Next]_vars
  PROVE  /\ ECP!IInv'
         /\ [ECP!OpenNext]_(ECP!vars)
         /\ last <= last' /\ last \in Nat /\ last' \in Nat
         /\ Len(stream) \in Nat /\ Len(stream) <= Len(stream')
         /\ \A i \in 1..Len(stream) : stream'[i] = stream[i]
         /\ handled \subseteq handled'
<1>1. ECP!ECAssumption
  BY WEAssumption DEF ECP!ECAssumption, WEAssumption
<1>2. DOMAIN conn \subseteq Conns
  BY DEF IInv, PagesInv, RestTyped
<1>3. [ECP!OpenNext]_(ECP!vars)
  BY <1>2, NextIsEC, SameSteps
<1>4. ECP!IInv
  BY DEF IInv
<1> QED
  BY <1>1, <1>3, <1>4, ECP!NextIInv, ECP!IdsAreStable, ECP!DeliveredGrow

\* No step but a request opens a stream: the others end one or leave it.
LEMMA NoneOpened ==
  ASSUME OneStreamPerPage,
         DOMAIN conn' \subseteq DOMAIN conn,
         \A c \in DOMAIN conn' : /\ conn'[c].page = conn[c].page
                                 /\ conn'[c].open => conn[c].open
  PROVE  OneStreamPerPage'
BY DEF OneStreamPerPage

\* Nothing more is shown, and a wire keeps what is on it or loses it all.
WiresKept == \A p \in Pages : wire'[p] = wire[p] \/ wire'[p] = <<>>

\* Nobody begins to send.
LEMMA NothingSent ==
  ASSUME RestTyped, SendingNewer, UNCHANGED shown, WiresKept,
         \A c \in DOMAIN conn' : conn'[c].open /\ reader'[c].pc = "handle" =>
           /\ c \in DOMAIN conn
           /\ conn[c].open
           /\ conn'[c].page = conn[c].page
           /\ reader'[c] = reader[c]
  PROVE  SendingNewer'
<1>1. SUFFICES ASSUME NEW c \in DOMAIN conn', conn'[c].open,
                      reader'[c].pc = "handle"
               PROVE  /\ \A i \in DOMAIN shown : shown[i].page = conn'[c].page
                           => shown[i].id < reader'[c].cur
                      /\ \A j \in DOMAIN wire'[conn'[c].page] :
                           wire'[conn'[c].page][j] < reader'[c].cur
  BY DEF SendingNewer
<1>2. /\ c \in DOMAIN conn /\ conn[c].open /\ reader'[c] = reader[c]
      /\ conn'[c].page = conn[c].page /\ conn[c].page \in Pages
  BY <1>1 DEF RestTyped, Conn
<1> QED
  BY <1>1, <1>2 DEF SendingNewer, WiresKept

\* Nothing is written or read.
LEMMA NothingWritten ==
  ASSUME Written, UNCHANGED shown, WiresKept, handled \subseteq handled'
  PROVE  Written'
<1>1. WrittenWereHandled'
  BY DEF Written, WrittenWereHandled, WiresKept
<1>2. WiresInOrder'
  BY DEF Written, WiresInOrder, WiresKept
<1>3. ComingNewer'
  BY DEF Written, ComingNewer, WiresKept
<1>4. ShownOnceInOrder'
  BY DEF Written, ShownOnceInOrder
<1> QED
  BY <1>1, <1>2, <1>3, <1>4 DEF Written

\* A connection is served while its consume() has not ended.
LEMMA ServedOrNot ==
  ASSUME IInv, NEW c \in Conns
  PROVE  c \in DOMAIN conn <=> reader[c].pc \notin {"off", "ended"}
BY DEF IInv, PagesInv, RestTyped

\* A connection that goes on keeps its record: the served ones stay the same.
LEMMA GoesOn ==
  ASSUME IInv, NEW c \in DOMAIN conn, NEW pc \in {"create", "read", "handle", "ack"},
         NEW cur, EC!Goto(c, pc, cur)
  PROVE  {d \in Conns : reader'[d].pc \notin {"off", "ended"}} = DOMAIN conn
<1>1. c \in Conns /\ DOMAIN conn \subseteq Conns
  BY DEF IInv, PagesInv, RestTyped
<1>2. ECP!IInv
  BY DEF IInv
<1>3. \A d \in Conns : reader'[d].pc \notin {"off", "ended"} <=> d \in DOMAIN conn
  BY <1>1, <1>2, Moves, ServedOrNot
<1> QED
  BY <1>1, <1>3

\* A loop that ends takes its connection with it.
LEMMA Leaves ==
  ASSUME IInv, NEW c \in DOMAIN conn, EC!Goto(c, "ended", 0), Ends(c)
  PROVE  /\ conn' \in [{d \in Conns : reader'[d].pc \notin {"off", "ended"}} -> Conn]
         /\ DOMAIN conn' = DOMAIN conn \ {c}
         /\ \A d \in DOMAIN conn' : conn'[d] = conn[d] /\ reader'[d] = reader[d]
<1>1. c \in Conns /\ DOMAIN conn \subseteq Conns
  BY DEF IInv, PagesInv, RestTyped
<1>2. ECP!IInv
  BY DEF IInv
<1>3. DOMAIN conn' = DOMAIN conn \ {c} /\ \A d \in DOMAIN conn' : conn'[d] = conn[d]
  BY DEF Ends
<1>4. \A d \in Conns : reader'[d].pc \notin {"off", "ended"} <=> d \in DOMAIN conn \ {c}
  <2>1. reader'[c].pc = "ended" /\ \A d \in Conns \ {c} : reader'[d] = reader[d]
    BY <1>1, <1>2, Moves
  <2>2. \A d \in Conns : d \in DOMAIN conn <=> reader[d].pc \notin {"off", "ended"}
    BY ServedOrNot
  <2> QED
    BY <2>1, <2>2
<1>5. {d \in Conns : reader'[d].pc \notin {"off", "ended"}} = DOMAIN conn \ {c}
  BY <1>1, <1>4
<1>6. conn' \in [DOMAIN conn \ {c} -> Conn]
  BY DEF Ends, IInv, PagesInv, RestTyped
<1> QED
  BY <1>1, <1>2, <1>3, <1>5, <1>6, Moves

-----------------------------------------------------------------------------

(***************************************************************************)
(* The parts of the invariant                                              *)
(***************************************************************************)

\* The parts that a step keeps which opens no stream, writes nothing and shows
\* nothing.
LEMMA CalmStep ==
  ASSUME IInv, [Next]_vars, UNCHANGED shown, WiresKept,
         DOMAIN conn' \subseteq DOMAIN conn,
         \A c \in DOMAIN conn' :
           /\ conn'[c].page = conn[c].page
           /\ conn'[c].open => conn[c].open
           /\ reader'[c].pc = "handle" => reader'[c] = reader[c],
         RestTyped'
  PROVE  PagesInv'
<1>1. OneStreamPerPage'
  BY NoneOpened DEF IInv, PagesInv
<1>2. SendingNewer'
  BY NothingSent DEF IInv, PagesInv
<1>3. Written'
  BY CenterSteps, NothingWritten DEF IInv, PagesInv
<1> QED
  BY <1>1, <1>2, <1>3 DEF PagesInv

\* The typing of the pages' variables, which most steps leave alone.
LEMMA SameTypes ==
  ASSUME IInv, UNCHANGED <<view, wire, shown, ends>>, lost' \subseteq Nat,
         conn' \in [{c \in Conns : reader'[c].pc \notin {"off", "ended"}} -> Conn]
  PROVE  RestTyped' /\ WiresKept
BY DEF IInv, PagesInv, RestTyped, WiresKept

\* A failing command, a connection whose page is gone.
LEMMA EndKeeps ==
  ASSUME IInv, [Next]_vars, NEW c \in DOMAIN conn,
         RedisFails(c) \/ Closed(c)
  PROVE  PagesInv'
<1>1. EC!Goto(c, "ended", 0) /\ Ends(c) /\ UNCHANGED <<pageVars, ends>>
  BY DEF RedisFails, Closed, EC!RedisFails, EC!Abandon
<1>2. RestTyped' /\ WiresKept
  BY <1>1, Leaves, SameTypes DEF pageVars, IInv, PagesInv, RestTyped
<1> QED
  BY <1>1, <1>2, Leaves, CalmStep DEF pageVars

\* A page's stream is gone: the server goes on serving it.
LEMMA AbortKeeps ==
  ASSUME IInv, [Next]_vars, NEW p \in Pages,
         Cut(p) \/ \E t \in Threads : Leave(p, t)
  PROVE  PagesInv'
<1>1. Abort(p) /\ UNCHANGED <<reader, shown>>
  BY DEF Leave, Cut, Abort, streamVars
<1>2. /\ conn \in [{d \in Conns : reader'[d].pc \notin {"off", "ended"}} -> Conn]
      /\ wire \in [Pages -> Seq(Nat \ {0})]
      /\ ends \in [leave : 0..MaxLeaves, cut : 0..MaxCuts]
      /\ view \in [Pages -> Threads] /\ lost \subseteq Nat
      /\ shown \in Seq([id : Nat \ {0}, page : Pages])
      /\ MaxLeaves \in Nat /\ MaxCuts \in Nat
  BY <1>1, WEAssumption DEF IInv, PagesInv, RestTyped, WEAssumption
<1>3. /\ DOMAIN conn' = DOMAIN conn
      /\ \A d \in DOMAIN conn' : /\ conn'[d] \in Conn
                                 /\ conn'[d].page = conn[d].page
                                 /\ conn'[d].open => conn[d].open
  <2>1. DOMAIN conn' = DOMAIN conn
    BY <1>1 DEF Abort
  <2>2. ASSUME NEW d \in DOMAIN conn
        PROVE  /\ conn'[d] \in Conn
               /\ conn'[d].page = conn[d].page
               /\ conn'[d].open => conn[d].open
    <3>1. PICK r : r = conn[d]
      OBVIOUS
    <3>2. r \in Conn
      BY <1>2, <3>1
    <3>3. conn'[d] = IF r.page = p THEN [r EXCEPT !.open = FALSE] ELSE r
      BY <1>1, <3>1 DEF Abort
    <3>4. CASE r.page = p
      <4>1. /\ [r EXCEPT !.open = FALSE] \in Conn
            /\ [r EXCEPT !.open = FALSE].page = r.page
            /\ [r EXCEPT !.open = FALSE].open = FALSE
        BY <3>2 DEF Conn
      <4> QED
        BY <3>1, <3>3, <3>4, <4>1
    <3>5. CASE r.page # p
      BY <3>1, <3>2, <3>3, <3>5
    <3> QED
      BY <3>4, <3>5
  <2> QED
    BY <2>1, <2>2
<1>4. conn' \in [{d \in Conns : reader'[d].pc \notin {"off", "ended"}} -> Conn]
  BY <1>1, <1>2, <1>3 DEF Abort
<1>5. wire' \in [Pages -> Seq(Nat \ {0})] /\ WiresKept
  BY <1>1, <1>2 DEF Abort, WiresKept
<1>6. lost' \subseteq Nat
  BY <1>1, <1>2 DEF Abort
<1>7. ends' \in [leave : 0..MaxLeaves, cut : 0..MaxCuts]
  <2>1. CASE Cut(p)
    <3>1. ends.cut + 1 \in 0..MaxCuts
      BY <1>2, <2>1 DEF Cut
    <3> QED
      BY <1>2, <2>1, <3>1 DEF Cut
  <2>2. CASE \E t \in Threads : Leave(p, t)
    <3>1. ends.leave + 1 \in 0..MaxLeaves
      BY <1>2, <2>2 DEF Leave
    <3> QED
      BY <1>2, <2>2, <3>1 DEF Leave
  <2> QED
    BY <2>1, <2>2
<1>8. view' \in [Pages -> Threads]
  BY <1>2 DEF Leave, Cut
<1>9. RestTyped'
  BY <1>1, <1>2, <1>4, <1>5, <1>6, <1>7, <1>8 DEF RestTyped
<1> QED
  BY <1>1, <1>3, <1>5, <1>9, CalmStep

\* The group is made sure of, an event of another conversation is passed over,
\* an event is acknowledged, a reply is lost, somebody publishes.
LEMMA NothingForThePage ==
  ASSUME IInv, [Next]_vars, UNCHANGED <<conn, pageVars, ends>>,
         \/ \E c \in DOMAIN conn : CreateGroup(c) \/ Skip(c) \/ Ack(c) \/ LoseReply(c)
         \/ \E t \in Threads : Publish(t)
  PROVE  PagesInv'
<1>0. /\ conn \in [{d \in Conns : reader[d].pc \notin {"off", "ended"}} -> Conn]
      /\ lost' \subseteq Nat
      /\ DOMAIN conn \subseteq Conns /\ ECP!IInv
  BY DEF IInv, PagesInv, RestTyped, pageVars
<1>1. ASSUME NEW c \in DOMAIN conn, CreateGroup(c) \/ Skip(c) \/ Ack(c)
      PROVE  PagesInv'
  <2>1. PICK pc \in {"read", "ack"} : \E cur : EC!Goto(c, pc, cur)
    BY <1>1 DEF CreateGroup, Skip, Ack, EC!CreateGroup, EC!DeliverAndHandle,
       EC!Ack
  <2>2. PICK cur : EC!Goto(c, pc, cur)
    BY <2>1
  <2>3. {d \in Conns : reader'[d].pc \notin {"off", "ended"}} = DOMAIN conn
    BY <2>1, <2>2, GoesOn
  <2>4. reader'[c].pc = pc /\ \A d \in Conns \ {c} : reader'[d] = reader[d]
    BY <1>0, <2>2, Moves
  <2>5. RestTyped' /\ WiresKept
    BY <1>0, <2>3, SameTypes DEF pageVars
  <2> QED
    BY <1>0, <2>1, <2>4, <2>5, CalmStep DEF pageVars
<1>2. ASSUME UNCHANGED reader
      PROVE  PagesInv'
  <2>1. RestTyped' /\ WiresKept
    BY <1>0, <1>2, SameTypes DEF pageVars
  <2> QED
    BY <1>2, <2>1, CalmStep DEF pageVars
<1> QED
  BY <1>1, <1>2 DEF LoseReply, EC!LoseReply, Publish

\* A page asks for its events, if it does not read a stream already.
LEMMA ConnectKeeps ==
  ASSUME IInv, [Next]_vars, NEW p \in Pages, NEW c \in Conns, Connect(p, c)
  PROVE  PagesInv'
<1>0. DOMAIN conn \subseteq Conns /\ ECP!IInv
  BY DEF IInv, PagesInv, RestTyped
<1>1. PICK r \in Conn :
        /\ r.page = p
        /\ conn' = [d \in DOMAIN conn \union {c} |-> IF d = c THEN r ELSE conn[d]]
  <2>1. [page |-> p, thread |-> view[p], open |-> TRUE] \in Conn
    BY DEF Conn, IInv, PagesInv, RestTyped
  <2> QED
    BY <2>1 DEF Connect
<1>2. /\ reader[c].pc \in {"off", "ended"} /\ EC!Goto(c, "create", 0)
      /\ UNCHANGED <<pageVars, ends>>
      /\ \A d \in DOMAIN conn : conn[d].open => conn[d].page # p
  BY DEF Connect, Reads, EC!Consume
<1>3. c \notin DOMAIN conn
  BY <1>2, ServedOrNot
<1>4. reader'[c].pc = "create" /\ \A d \in Conns \ {c} : reader'[d] = reader[d]
  BY <1>0, <1>2, Moves
<1>5. /\ DOMAIN conn' = DOMAIN conn \union {c}
      /\ conn'[c] = r
      /\ \A d \in DOMAIN conn : conn'[d] = conn[d]
  BY <1>1, <1>3
<1>6. {d \in Conns : reader'[d].pc \notin {"off", "ended"}} = DOMAIN conn \union {c}
  <2>1. \A d \in Conns : d \in DOMAIN conn <=> reader[d].pc \notin {"off", "ended"}
    BY ServedOrNot
  <2> QED
    BY <1>0, <1>4, <2>1
<1>7. RestTyped' /\ WiresKept
  <2>1. conn' \in [DOMAIN conn \union {c} -> Conn]
    BY <1>1 DEF IInv, PagesInv, RestTyped
  <2> QED
    BY <1>2, <1>6, <2>1, SameTypes DEF pageVars, IInv, PagesInv, RestTyped
<1>8. OneStreamPerPage'
  BY <1>1, <1>2, <1>5 DEF IInv, PagesInv, OneStreamPerPage
<1>9. SendingNewer'
  BY <1>0, <1>2, <1>3, <1>4, <1>5, <1>7, NothingSent DEF IInv, PagesInv, pageVars
<1>10. Written'
  BY <1>2, <1>7, CenterSteps, NothingWritten DEF IInv, PagesInv, pageVars
<1> QED
  BY <1>7, <1>8, <1>9, <1>10 DEF PagesInv

\* The next event is of the page's conversation: it is newer than all events
\* that were handled, and so than those the page was shown or will read.
LEMMA PushKeeps ==
  ASSUME IInv, [Next]_vars, NEW c \in DOMAIN conn, Push(c)
  PROVE  PagesInv'
<1>0. c \in Conns /\ DOMAIN conn \subseteq Conns /\ ECP!IInv
  BY DEF IInv, PagesInv, RestTyped
<1>1. EC!Goto(c, "handle", EC!NextId) /\ UNCHANGED <<conn, pageVars, ends>>
  BY DEF Push, EC!Deliver
<1>2. /\ reader'[c].cur = EC!NextId
      /\ \A d \in Conns \ {c} : reader'[d] = reader[d]
  BY <1>0, <1>1, Moves
<1>3. RestTyped' /\ WiresKept
  BY <1>1, GoesOn, SameTypes DEF IInv, PagesInv, RestTyped, pageVars
<1>4. OneStreamPerPage'
  BY <1>1, NoneOpened DEF IInv, PagesInv
<1>5. SendingNewer'
  <2>1. \A n \in handled : n < EC!NextId
    BY <1>0 DEF EC!NextId, ECP!IInv, ECP!TypeOK
  <2>2. /\ \A i \in DOMAIN shown : shown[i].id < EC!NextId
        /\ \A p \in Pages : \A j \in DOMAIN wire[p] : wire[p][j] < EC!NextId
    BY <2>1 DEF IInv, PagesInv, Written, WrittenWereHandled
  <2>3. \A d \in DOMAIN conn : conn[d].page \in Pages
    BY DEF IInv, PagesInv, RestTyped, Conn
  <2> QED
    BY <1>0, <1>1, <1>2, <2>2, <2>3 DEF IInv, PagesInv, SendingNewer, pageVars
<1>6. Written'
  BY <1>1, <1>3, CenterSteps, NothingWritten DEF IInv, PagesInv, pageVars
<1> QED
  BY <1>3, <1>4, <1>5, <1>6 DEF PagesInv

\* Appending to a history or a wire.
LEMMA Appended ==
  ASSUME NEW S, NEW s \in Seq(S), NEW x \in S
  PROVE  /\ Append(s, x) \in Seq(S)
         /\ DOMAIN Append(s, x) = 1..Len(s) + 1
         /\ DOMAIN s = 1..Len(s) /\ Len(s) \in Nat
         /\ Append(s, x)[Len(s) + 1] = x
         /\ \A i \in DOMAIN s : Append(s, x)[i] = s[i]
OBVIOUS

\* The event that was sent: it is on its way to the page, or to nobody.  No
\* other open stream is the page's, so nobody is sending it an older one.
LEMMA SentKeeps ==
  ASSUME IInv, [Next]_vars, NEW c \in DOMAIN conn, Sent(c)
  PROVE  PagesInv'
<1>0. /\ c \in Conns /\ DOMAIN conn \subseteq Conns /\ ECP!IInv
      /\ conn[c] \in Conn /\ conn[c].page \in Pages
      /\ wire \in [Pages -> Seq(Nat \ {0})]
      /\ lost \subseteq Nat
  BY DEF IInv, PagesInv, RestTyped, Conn
<1>1. /\ EC!Goto(c, "ack", reader[c].cur)
      /\ reader[c].pc = "handle"
      /\ UNCHANGED <<conn, view, shown, ends>>
      /\ handled' = handled \union {reader[c].cur}
  BY DEF Sent, EC!Handled
<1>2. /\ reader'[c].pc = "ack"
      /\ \A d \in Conns \ {c} : reader'[d] = reader[d]
  BY <1>0, <1>1, Moves
<1>3. {d \in Conns : reader'[d].pc \notin {"off", "ended"}} = DOMAIN conn
  BY <1>1, GoesOn
<1>4. OneStreamPerPage'
  BY <1>1, NoneOpened DEF IInv, PagesInv
<1>5. reader[c].cur \in Nat \ {0} /\ reader[c].cur \notin handled
  BY <1>0, <1>1 DEF ECP!IInv, ECP!HandsFull, ECP!HeldByOne, ECP!TypeOK
<1>6. CASE ~conn[c].open
  <2>1. UNCHANGED wire /\ lost' \subseteq Nat
    BY <1>0, <1>5, <1>6 DEF Sent
  <2>2. RestTyped' /\ WiresKept
    BY <1>1, <1>3, <2>1, SameTypes DEF IInv, PagesInv, RestTyped
  <2> QED
    BY <1>0, <1>1, <1>2, <2>2, CalmStep
<1>7. CASE conn[c].open
  <2>1. PICK n, p, s : n = reader[c].cur /\ p = conn[c].page /\ s = wire[p]
    OBVIOUS
  <2>2. /\ n \in Nat \ {0} /\ p \in Pages /\ s \in Seq(Nat \ {0})
        /\ wire' = [wire EXCEPT ![p] = Append(s, n)] /\ UNCHANGED lost
    BY <1>0, <1>5, <1>7, <2>1 DEF Sent
  <2>3. /\ Append(s, n) \in Seq(Nat \ {0})
        /\ DOMAIN Append(s, n) = 1..Len(s) + 1
        /\ DOMAIN s = 1..Len(s) /\ Len(s) \in Nat
        /\ Append(s, n)[Len(s) + 1] = n
        /\ \A i \in DOMAIN s : Append(s, n)[i] = s[i]
    BY <2>2, Appended
  <2>4. /\ wire' \in [Pages -> Seq(Nat \ {0})]
        /\ wire'[p] = Append(s, n)
        /\ \A q \in Pages \ {p} : wire'[q] = wire[q]
    BY <1>0, <2>2, <2>3
  \* What is on a wire after the step was there before, or is the event sent.
  <2>5. \A q \in Pages : \A j \in DOMAIN wire'[q] :
          \/ j \in DOMAIN wire[q] /\ wire'[q][j] = wire[q][j]
          \/ q = p /\ j = Len(s) + 1 /\ wire'[q][j] = n
    <3>1. ASSUME NEW q \in Pages, NEW j \in DOMAIN wire'[q], q # p
          PROVE  j \in DOMAIN wire[q] /\ wire'[q][j] = wire[q][j]
      BY <2>4, <3>1
    <3>2. ASSUME NEW j \in DOMAIN Append(s, n)
          PROVE  \/ j \in DOMAIN s /\ Append(s, n)[j] = s[j]
                 \/ j = Len(s) + 1 /\ Append(s, n)[j] = n
      BY <2>3
    <3> QED
      BY <2>1, <2>4, <3>1, <3>2
  <2>6. RestTyped'
    BY <1>1, <1>3, <2>2, <2>4 DEF IInv, PagesInv, RestTyped
  <2>7. WrittenWereHandled'
    BY <1>1, <2>1, <2>5 DEF IInv, PagesInv, Written, WrittenWereHandled
  <2>8. /\ \A i \in DOMAIN shown : /\ shown[i].id # n
                                   /\ shown[i].page = p => shown[i].id < n
        /\ \A q \in Pages : \A j \in DOMAIN wire[q] : wire[q][j] # n
        /\ \A j \in DOMAIN s : s[j] < n
    BY <1>1, <1>5, <1>7, <2>1
       DEF IInv, PagesInv, Written, WrittenWereHandled, SendingNewer
  <2>9. WiresInOrder'
    <3>1. SUFFICES ASSUME NEW q \in Pages, NEW x \in Pages,
                          NEW i \in DOMAIN wire'[q], NEW j \in DOMAIN wire'[x]
                   PROVE  /\ wire'[q][i] = wire'[x][j] => q = x
                          /\ q = x /\ i < j => wire'[q][i] < wire'[x][j]
      BY DEF WiresInOrder
    <3>2. WiresInOrder
      BY DEF IInv, PagesInv, Written
    <3>3. CASE i \in DOMAIN wire[q] /\ wire'[q][i] = wire[q][i]
      <4>1. CASE j \in DOMAIN wire[x] /\ wire'[x][j] = wire[x][j]
        BY <3>2, <3>3, <4>1 DEF WiresInOrder
      <4>2. CASE x = p /\ j = Len(s) + 1 /\ wire'[x][j] = n
        BY <2>1, <2>8, <3>3, <4>2
      <4> QED
        BY <2>5, <4>1, <4>2
    <3>4. CASE q = p /\ i = Len(s) + 1 /\ wire'[q][i] = n
      <4>1. CASE j \in DOMAIN wire[x] /\ wire'[x][j] = wire[x][j]
        <5>1. q = x => ~(i < j)
          BY <2>1, <2>3, <3>4, <4>1
        <5> QED
          BY <2>8, <3>4, <4>1, <5>1
      <4>2. CASE x = p /\ j = Len(s) + 1 /\ wire'[x][j] = n
        BY <2>3, <3>4, <4>2
      <4> QED
        BY <2>5, <4>1, <4>2
    <3> QED
      BY <2>5, <3>3, <3>4
  <2>10. ComingNewer'
    <3>1. ComingNewer
      BY DEF IInv, PagesInv, Written
    <3> QED
      BY <1>1, <2>5, <2>8, <3>1 DEF ComingNewer
  <2>11. SendingNewer'
    <3>1. SUFFICES ASSUME NEW d \in DOMAIN conn, conn[d].open,
                          reader'[d].pc = "handle"
                   PROVE  /\ \A i \in DOMAIN shown : shown[i].page = conn[d].page
                               => shown[i].id < reader'[d].cur
                          /\ \A j \in DOMAIN wire'[conn[d].page] :
                               wire'[conn[d].page][j] < reader'[d].cur
      BY <1>1 DEF SendingNewer
    <3>2. d # c /\ d \in Conns /\ reader'[d] = reader[d]
      BY <1>0, <1>2, <3>1
    <3>3. conn[d].page # p /\ conn[d].page \in Pages
      BY <1>7, <2>1, <3>1, <3>2 DEF IInv, PagesInv, OneStreamPerPage, RestTyped, Conn
    <3>4. wire'[conn[d].page] = wire[conn[d].page]
      BY <2>4, <3>3
    <3> QED
      BY <3>1, <3>2, <3>4 DEF IInv, PagesInv, SendingNewer
  <2>12. ShownOnceInOrder'
    BY <1>1 DEF IInv, PagesInv, Written, ShownOnceInOrder
  <2> QED
    BY <1>4, <2>6, <2>7, <2>9, <2>10, <2>11, <2>12 DEF PagesInv, Written
<1> QED
  BY <1>6, <1>7

\* A page reads the next event from its wire: it is newer than those it was
\* shown and older than those behind it.
LEMMA ReceiveKeeps ==
  ASSUME IInv, [Next]_vars, NEW p \in Pages, Receive(p)
  PROVE  PagesInv'
<1>1. /\ wire[p] # <<>> /\ UNCHANGED <<streamVars, conn, view, lost, ends>>
      /\ wire' = [wire EXCEPT ![p] = Tail(wire[p])]
  BY DEF Receive
<1>2. PICK x : x = [id |-> Head(wire[p]), page |-> p]
  OBVIOUS
<1>3. /\ wire \in [Pages -> Seq(Nat \ {0})] /\ wire[p] \in Seq(Nat \ {0})
      /\ shown \in Seq([id : Nat \ {0}, page : Pages])
      /\ Written /\ SendingNewer /\ OneStreamPerPage
  BY DEF IInv, PagesInv, RestTyped
<1>4. /\ Head(wire[p]) = wire[p][1] /\ 1 \in DOMAIN wire[p]
      /\ wire[p][1] \in Nat \ {0}
      /\ Tail(wire[p]) \in Seq(Nat \ {0})
      /\ \A j \in DOMAIN Tail(wire[p]) : /\ j + 1 \in DOMAIN wire[p] /\ j \in Nat \ {0}
                                         /\ Tail(wire[p])[j] = wire[p][j + 1]
  BY <1>1, <1>3
<1>5. x.id = wire[p][1] /\ x.page = p /\ x \in [id : Nat \ {0}, page : Pages]
  BY <1>2, <1>4
<1>6. shown' = Append(shown, x)
  BY <1>2 DEF Receive
<1>7. /\ shown' \in Seq([id : Nat \ {0}, page : Pages])
      /\ Len(shown) \in Nat
      /\ DOMAIN shown' = 1..Len(shown) + 1
      /\ DOMAIN shown = 1..Len(shown)
      /\ shown'[Len(shown) + 1] = x
      /\ \A i \in DOMAIN shown : shown'[i] = shown[i]
  BY <1>3, <1>5, <1>6, Appended
<1>8. /\ wire' \in [Pages -> Seq(Nat \ {0})]
      /\ wire'[p] = Tail(wire[p])
      /\ \A q \in Pages \ {p} : wire'[q] = wire[q]
  BY <1>1, <1>3, <1>4
\* What is on a wire after the step was there before, behind the event read.
<1>9. \A q \in Pages : \A j \in DOMAIN wire'[q] :
        \/ q # p /\ j \in DOMAIN wire[q] /\ wire'[q][j] = wire[q][j]
        \/ /\ q = p /\ j \in Nat \ {0} /\ j + 1 \in DOMAIN wire[p]
           /\ wire'[q][j] = wire[p][j + 1]
  BY <1>4, <1>8
<1>10. \A i \in DOMAIN shown' :
         \/ i \in DOMAIN shown /\ shown'[i] = shown[i]
         \/ i = Len(shown) + 1 /\ shown'[i] = x
  BY <1>7
<1>11. RestTyped'
  BY <1>1, <1>7, <1>8 DEF IInv, PagesInv, RestTyped, streamVars
<1>12. OneStreamPerPage'
  BY <1>1, <1>3 DEF OneStreamPerPage
<1>13. WrittenWereHandled'
  <2>1. WrittenWereHandled /\ UNCHANGED handled
    BY <1>1, <1>3 DEF Written, streamVars
  <2>2. ASSUME NEW i \in DOMAIN shown'
        PROVE  shown'[i].id \in handled
    <3>1. CASE i \in DOMAIN shown /\ shown'[i] = shown[i]
      BY <2>1, <3>1 DEF WrittenWereHandled
    <3>2. CASE shown'[i] = x
      BY <1>4, <1>5, <2>1, <3>2 DEF WrittenWereHandled
    <3> QED
      BY <1>10, <3>1, <3>2
  <2>3. ASSUME NEW q \in Pages, NEW j \in DOMAIN wire'[q]
        PROVE  wire'[q][j] \in handled
    BY <1>9, <2>1 DEF WrittenWereHandled
  <2> QED
    BY <2>1, <2>2, <2>3 DEF WrittenWereHandled
<1>14. WiresInOrder'
  <2>1. WiresInOrder
    BY <1>3 DEF Written
  <2>2. \A q, y \in Pages : \A i \in DOMAIN wire'[q], j \in DOMAIN wire'[y] :
          wire'[q][i] = wire'[y][j] => q = y
    BY <1>9, <2>1 DEF WiresInOrder
  <2>3. ASSUME NEW q \in Pages, NEW i \in DOMAIN wire'[q], NEW j \in DOMAIN wire'[q],
               i < j
        PROVE  wire'[q][i] < wire'[q][j]
    <3>1. CASE q # p
      BY <1>8, <2>1, <2>3, <3>1 DEF WiresInOrder
    <3>2. CASE q = p
      <4>1. i + 1 < j + 1 /\ i + 1 \in DOMAIN wire[p] /\ j + 1 \in DOMAIN wire[p]
        BY <1>9, <2>3, <3>2
      <4> QED
        BY <1>9, <2>1, <3>2, <4>1 DEF WiresInOrder
    <3> QED
      BY <3>1, <3>2
  <2> QED
    BY <2>2, <2>3 DEF WiresInOrder
<1>15. ComingNewer'
  <2>1. ComingNewer /\ WiresInOrder
    BY <1>3 DEF Written
  <2>2. SUFFICES ASSUME NEW i \in DOMAIN shown', NEW q \in Pages,
                        NEW j \in DOMAIN wire'[q]
                 PROVE  /\ shown'[i].id # wire'[q][j]
                        /\ shown'[i].page = q => shown'[i].id < wire'[q][j]
    BY DEF ComingNewer
  <2>3. CASE i \in DOMAIN shown /\ shown'[i] = shown[i]
    BY <1>9, <2>1, <2>3 DEF ComingNewer
  <2>4. CASE i = Len(shown) + 1 /\ shown'[i] = x
    <3>1. CASE q # p
      BY <1>4, <1>5, <1>9, <2>1, <2>4, <3>1 DEF WiresInOrder
    <3>2. CASE q = p
      <4>1. j \in Nat \ {0} /\ j + 1 \in DOMAIN wire[p] /\ wire'[q][j] = wire[p][j + 1]
        BY <1>9, <3>2
      <4>2. wire[p][1] < wire[p][j + 1]
        BY <1>4, <2>1, <4>1 DEF WiresInOrder
      <4>3. wire[p][j + 1] \in Nat
        BY <1>3, <4>1
      <4> QED
        BY <1>4, <1>5, <2>4, <3>2, <4>1, <4>2, <4>3
    <3> QED
      BY <3>1, <3>2
  <2> QED
    BY <1>10, <2>3, <2>4
<1>16. ShownOnceInOrder'
  <2>1. SUFFICES ASSUME NEW i \in DOMAIN shown', NEW j \in DOMAIN shown', i < j
                 PROVE  /\ shown'[i].id # shown'[j].id
                        /\ shown'[i].page = shown'[j].page =>
                             shown'[i].id < shown'[j].id
    BY DEF ShownOnceInOrder
  <2>2. i \in DOMAIN shown /\ shown'[i] = shown[i]
    BY <1>7, <2>1
  <2>3. CASE j \in DOMAIN shown
    BY <1>3, <1>7, <2>1, <2>2, <2>3 DEF Written, ShownOnceInOrder
  <2>4. CASE j = Len(shown) + 1
    BY <1>3, <1>4, <1>5, <1>7, <2>2, <2>4 DEF Written, ComingNewer
  <2> QED
    BY <1>7, <2>1, <2>3, <2>4
<1>17. SendingNewer'
  <2>1. SUFFICES ASSUME NEW d \in DOMAIN conn, conn[d].open, reader[d].pc = "handle"
                 PROVE  /\ \A i \in DOMAIN shown' : shown'[i].page = conn[d].page
                             => shown'[i].id < reader[d].cur
                        /\ \A j \in DOMAIN wire'[conn[d].page] :
                             wire'[conn[d].page][j] < reader[d].cur
    BY <1>1 DEF SendingNewer, streamVars
  <2>2. conn[d].page \in Pages
    BY DEF IInv, PagesInv, RestTyped, Conn
  <2>3. /\ \A i \in DOMAIN shown :
             shown[i].page = conn[d].page => shown[i].id < reader[d].cur
        /\ \A j \in DOMAIN wire[conn[d].page] :
             wire[conn[d].page][j] < reader[d].cur
    BY <1>3, <2>1 DEF SendingNewer
  <2>4. ASSUME NEW i \in DOMAIN shown', shown'[i].page = conn[d].page
        PROVE  shown'[i].id < reader[d].cur
    <3>1. CASE i \in DOMAIN shown /\ shown'[i] = shown[i]
      BY <2>3, <2>4, <3>1
    <3>2. CASE shown'[i] = x
      BY <1>4, <1>5, <2>3, <2>4, <3>2
    <3> QED
      BY <1>10, <3>1, <3>2
  <2>5. ASSUME NEW j \in DOMAIN wire'[conn[d].page]
        PROVE  wire'[conn[d].page][j] < reader[d].cur
    BY <1>9, <2>2, <2>3
  <2> QED
    BY <2>4, <2>5
<1> QED
  BY <1>11, <1>12, <1>13, <1>14, <1>15, <1>16, <1>17 DEF PagesInv, Written

LEMMA NextIInv == ASSUME IInv, [Next]_vars PROVE IInv'
<1>1. CASE UNCHANGED vars
  <2>1. RestTyped' /\ WiresKept
    BY <1>1, SameTypes DEF vars, pageVars, streamVars, IInv, PagesInv, RestTyped
  <2> QED
    BY <1>1, <2>1, CenterSteps, CalmStep DEF vars, pageVars, streamVars, IInv
<1>2. ASSUME NEW p \in Pages, PageStep(p)
      PROVE  PagesInv'
  BY <1>2, ConnectKeeps, ReceiveKeeps, AbortKeeps DEF PageStep
<1>3. ASSUME NEW c \in DOMAIN conn, Serve(c) \/ Mishap(c)
      PROVE  PagesInv'
  <2>1. CASE CreateGroup(c) \/ Skip(c) \/ Ack(c) \/ LoseReply(c)
    BY <2>1, NothingForThePage DEF CreateGroup, Skip, Ack, LoseReply
  <2> QED
    BY <1>3, <2>1, PushKeeps, SentKeeps, EndKeeps DEF Serve, Mishap
<1>4. CASE \E t \in Threads : Publish(t)
  BY <1>4, CenterSteps, NothingForThePage DEF Publish, IInv
<1> QED
  BY <1>1, <1>2, <1>3, <1>4, CenterSteps DEF Next, IInv

LEMMA InitIInv == ASSUME Init PROVE IInv
<1>1. ECP!ECAssumption
  BY WEAssumption DEF ECP!ECAssumption, WEAssumption
<1>2. ECP!Init
  BY DEF Init, EC!Init, ECP!Init
<1>3. ECP!IInv
  BY <1>1, <1>2, ECP!InitIInv
<1>4. /\ DOMAIN conn = {} /\ shown = <<>>
      /\ \A p \in Pages : wire[p] = <<>>
  BY DEF Init
<1>5. RestTyped
  <2>1. {c \in Conns : reader[c].pc \notin {"off", "ended"}} = {}
    BY DEF Init, EC!Init
  <2>2. conn \in [{} -> Conn]
    BY DEF Init
  <2>3. ends \in [leave : 0..MaxLeaves, cut : 0..MaxCuts]
    BY WEAssumption DEF Init, WEAssumption
  <2>4. wire \in [Pages -> Seq(Nat \ {0})]
    BY DEF Init
  <2> QED
    BY <1>4, <2>1, <2>2, <2>3, <2>4 DEF RestTyped, Init
<1> QED
  BY <1>3, <1>4, <1>5 DEF IInv, PagesInv, OneStreamPerPage, Written,
     WrittenWereHandled, WiresInOrder, ComingNewer, SendingNewer, ShownOnceInOrder

(***************************************************************************)
(* The theorems                                                            *)
(***************************************************************************)

\* The inductive invariant holds in every state of every instance.
THEOREM Invariant == Spec => []IInv
<1>1. Init => IInv
  BY InitIInv
<1>2. IInv /\ [Next]_vars => IInv'
  BY NextIInv
<1> QED
  BY <1>1, <1>2, PTL DEF Spec

\* Whatever connection reads an entry, however often pages leave, streams break
\* and Redis fails: no entry is shown twice, and a page shows them in order.
THEOREM ShownOnceInOrderAlways == Spec => []ShownOnceInOrder
BY Invariant, PTL DEF IInv, PagesInv, Written

(***************************************************************************)
(* One page that stays on its conversation                                 *)
(***************************************************************************)

\* There is one page, and it stays on its conversation.
Alone == /\ \A p, q \in Pages : p = q
         /\ MaxLeaves = 0

Reached(p, n) == ShownTo(p, n) \/ OnWire(p, n) \/ n \in lost

\* Every connection is for the conversation the page shows, and the events of it
\* that were handled were written to the page.
HandledWereWritten ==
  /\ \A c \in DOMAIN conn : conn[c].thread = view[conn[c].page]
  /\ \A p \in Pages : \A n \in handled : stream[n] = view[p] => Reached(p, n)

LEMMA HandledIds ==
  ASSUME IInv
  PROVE  /\ handled \subseteq 1..Len(stream)
         /\ DOMAIN conn \subseteq Conns
         /\ \A c \in DOMAIN conn : conn[c] \in Conn /\ conn[c].page \in Pages
         /\ wire \in [Pages -> Seq(Nat \ {0})]
         /\ shown \in Seq([id : Nat \ {0}, page : Pages])
BY DEF IInv, PagesInv, RestTyped, Conn, ECP!IInv, ECP!TypeOK

\* What reached a page stays so: it is shown, on its way or lost.
ReachedStays ==
  \A p \in Pages : \A n \in handled : Reached(p, n) => Reached(p, n)'

\* A step that handles nothing.
LEMMA NothingHandled ==
  ASSUME IInv, [Next]_vars, HandledWereWritten, UNCHANGED <<handled, view>>,
         ReachedStays,
         \A c \in DOMAIN conn' :
           \/ conn'[c].thread = view[conn'[c].page]
           \/ /\ c \in DOMAIN conn /\ conn'[c].thread = conn[c].thread
              /\ conn'[c].page = conn[c].page
  PROVE  HandledWereWritten'
<1>1. \A i \in 1..Len(stream) : stream'[i] = stream[i]
  BY CenterSteps
<1>2. \A p \in Pages : \A n \in handled' : stream'[n] = view'[p] => Reached(p, n)'
  BY <1>1, HandledIds DEF HandledWereWritten, ReachedStays
<1>3. \A c \in DOMAIN conn' : conn'[c].thread = view'[conn'[c].page]
  BY DEF HandledWereWritten
<1> QED
  BY <1>2, <1>3 DEF HandledWereWritten

LEMMA SameReached ==
  ASSUME UNCHANGED <<shown, wire, lost>>
  PROVE  ReachedStays
BY DEF ReachedStays, Reached, ShownTo, OnWire

\* The event that is read is shown; those behind it stay on the wire.
LEMMA ReceiveReaches ==
  ASSUME IInv, NEW p \in Pages, Receive(p)
  PROVE  ReachedStays
<1>1. PICK x : x = [id |-> Head(wire[p]), page |-> p]
  OBVIOUS
<1>2. /\ wire[p] \in Seq(Nat \ {0}) /\ wire[p] # <<>> /\ UNCHANGED lost
      /\ wire' = [wire EXCEPT ![p] = Tail(wire[p])]
      /\ shown' = Append(shown, x)
      /\ wire \in [Pages -> Seq(Nat \ {0})]
  BY <1>1, HandledIds DEF Receive
<1>3. x \in [id : Nat \ {0}, page : Pages]
  BY <1>1, <1>2
<1>4. /\ \A i \in DOMAIN shown : i \in DOMAIN shown' /\ shown'[i] = shown[i]
      /\ \E i \in DOMAIN shown' : shown'[i] = x
  <2>1. shown \in Seq([id : Nat \ {0}, page : Pages])
    BY HandledIds
  <2>2. /\ Len(shown) \in Nat
        /\ DOMAIN shown = 1..Len(shown) /\ DOMAIN shown' = 1..Len(shown) + 1
        /\ shown'[Len(shown) + 1] = x
        /\ \A i \in DOMAIN shown : shown'[i] = shown[i]
    BY <1>2, <1>3, <2>1, Appended
  <2> QED
    BY <2>2
<1>5. ASSUME NEW q \in Pages, NEW n, OnWire(q, n)
      PROVE  OnWire(q, n)' \/ ShownTo(q, n)'
  <2>1. PICK i \in DOMAIN wire[q] : wire[q][i] = n
    BY <1>5 DEF OnWire
  <2>2. CASE q # p
    BY <1>2, <2>1, <2>2 DEF OnWire
  <2>3. CASE q = p /\ i = 1
    <3>1. x = [id |-> n, page |-> q]
      BY <1>1, <1>2, <2>1, <2>3
    <3> QED
      BY <1>4, <3>1 DEF ShownTo
  <2>4. CASE q = p /\ i # 1
    <3>1. i - 1 \in DOMAIN Tail(wire[p]) /\ Tail(wire[p])[i - 1] = n
      BY <1>2, <2>1, <2>4
    <3>2. wire'[q] = Tail(wire[p])
      BY <1>2, <2>4
    <3> QED
      BY <3>1, <3>2 DEF OnWire
  <2> QED
    BY <2>2, <2>3, <2>4
<1> QED
  BY <1>2, <1>4, <1>5 DEF ReachedStays, Reached, ShownTo

\* What is on the wire of a stream that breaks is lost.
LEMMA AbortReaches ==
  ASSUME IInv, NEW p \in Pages, Abort(p)
  PROVE  ReachedStays
<1>1. /\ UNCHANGED shown
      /\ wire' = [wire EXCEPT ![p] = <<>>]
      /\ lost' = lost \union {wire[p][i] : i \in DOMAIN wire[p]}
      /\ wire \in [Pages -> Seq(Nat \ {0})]
  BY HandledIds DEF Abort
<1>2. ASSUME NEW q \in Pages, NEW n, OnWire(q, n)
      PROVE  OnWire(q, n)' \/ n \in lost'
  BY <1>1, <1>2 DEF OnWire
<1> QED
  BY <1>1, <1>2 DEF ReachedStays, Reached, ShownTo

\* An event that was sent is on the wire or lost.
LEMMA SentReaches ==
  ASSUME IInv, NEW c \in DOMAIN conn, Sent(c)
  PROVE  /\ ReachedStays
         /\ \A p, n : p = conn[c].page /\ n = reader[c].cur => Reached(p, n)'
         /\ handled' = handled \union {reader[c].cur}
         /\ UNCHANGED <<conn, view, stream>>
<1>1. /\ handled' = handled \union {reader[c].cur}
      /\ UNCHANGED <<conn, view, stream, shown>>
      /\ reader[c].pc = "handle"
  BY DEF Sent, EC!Handled, EC!Quiet
<1>2. CASE ~conn[c].open
  <2>1. UNCHANGED wire /\ lost' = lost \union {reader[c].cur}
    BY <1>2 DEF Sent
  <2>2. ReachedStays
    BY <1>1, <2>1 DEF ReachedStays, Reached, ShownTo, OnWire
  <2>3. \A p, n : n = reader[c].cur => Reached(p, n)'
    BY <2>1 DEF Reached
  <2> QED
    BY <1>1, <2>2, <2>3
<1>3. CASE conn[c].open
  <2>1. PICK n, p : n = reader[c].cur /\ p = conn[c].page
    OBVIOUS
  <2>2. /\ p \in Pages /\ wire \in [Pages -> Seq(Nat \ {0})]
        /\ wire' = [wire EXCEPT ![p] = Append(wire[p], n)] /\ UNCHANGED lost
    BY <1>3, <2>1, HandledIds DEF Sent
  <2>3. n \in Nat \ {0}
    <3>1. c \in Conns /\ ECP!IInv
      BY HandledIds DEF IInv
    <3> QED
      BY <1>1, <2>1, <3>1 DEF ECP!IInv, ECP!HandsFull, ECP!TypeOK
  <2>4. /\ \A i \in DOMAIN wire[p] : /\ i \in DOMAIN wire'[p]
                                     /\ wire'[p][i] = wire[p][i]
        /\ \E i \in DOMAIN wire'[p] : wire'[p][i] = n
        /\ \A q \in Pages \ {p} : wire'[q] = wire[q]
    <3>1. wire[p] \in Seq(Nat \ {0}) /\ wire'[p] = Append(wire[p], n)
      BY <2>2
    <3> QED
      BY <2>2, <2>3, <3>1, Appended
  <2>5. \A q \in Pages : \A m : OnWire(q, m) => OnWire(q, m)'
    BY <2>4 DEF OnWire
  <2>6. OnWire(p, n)'
    BY <1>1, <2>4 DEF OnWire
  <2>7. \A q \in Pages : \A m : ShownTo(q, m) => ShownTo(q, m)'
    BY <1>1 DEF ShownTo
  <2>8. ReachedStays
    BY <2>2, <2>5, <2>7 DEF ReachedStays, Reached
  <2>9. Reached(p, n)'
    BY <2>6 DEF Reached
  <2> QED
    BY <1>1, <2>1, <2>8, <2>9
<1> QED
  BY <1>1, <1>2, <1>3

LEMMA HandledWereWrittenKeeps ==
  ASSUME Alone, IInv, HandledWereWritten, [Next]_vars
  PROVE  HandledWereWritten'
<1>1. ASSUME UNCHANGED <<handled, conn, pageVars>>
      PROVE  HandledWereWritten'
  BY <1>1, SameReached, NothingHandled DEF pageVars
<1>2. ASSUME NEW p \in Pages, NEW c \in Conns, Connect(p, c)
      PROVE  HandledWereWritten'
  <2>1. UNCHANGED <<handled, pageVars>>
    BY <1>2 DEF Connect, EC!Consume
  <2>2. PICK r : r = [page |-> p, thread |-> view[p], open |-> TRUE]
    OBVIOUS
  <2>3. r.thread = view[r.page]
    BY <2>2
  <2>4. conn' = [d \in DOMAIN conn \union {c} |-> IF d = c THEN r ELSE conn[d]]
    BY <1>2, <2>2 DEF Connect
  <2>5. \A d \in DOMAIN conn' : \/ conn'[d] = r
                                \/ d \in DOMAIN conn /\ conn'[d] = conn[d]
    BY <2>4
  <2>6. \A d \in DOMAIN conn' :
           \/ conn'[d].thread = view[conn'[d].page]
           \/ /\ d \in DOMAIN conn /\ conn'[d].thread = conn[d].thread
              /\ conn'[d].page = conn[d].page
    BY <2>3, <2>5
  <2> QED
    BY <2>1, <2>6, SameReached, NothingHandled DEF pageVars
<1>3. ASSUME NEW p \in Pages, Receive(p)
      PROVE  HandledWereWritten'
  BY <1>3, ReceiveReaches, NothingHandled DEF Receive, streamVars
<1>4. ASSUME NEW p \in Pages, Cut(p)
      PROVE  HandledWereWritten'
  <2>1. \A c \in DOMAIN conn' :
          /\ c \in DOMAIN conn /\ conn'[c].thread = conn[c].thread
          /\ conn'[c].page = conn[c].page
    BY <1>4, HandledIds DEF Cut, Abort, Conn
  <2>2. UNCHANGED <<handled, view>> /\ Abort(p)
    BY <1>4 DEF Cut, Abort, streamVars
  <2> QED
    BY <2>1, <2>2, AbortReaches, NothingHandled
<1>5. ASSUME NEW p \in Pages, NEW t \in Threads, Leave(p, t)
      PROVE  FALSE
  <2>1. ends.leave \in Nat
    BY WEAssumption DEF IInv, PagesInv, RestTyped, WEAssumption
  <2> QED
    BY <1>5, <2>1 DEF Leave, Alone
<1>6. ASSUME NEW c \in DOMAIN conn, Serve(c) \/ Mishap(c)
      PROVE  HandledWereWritten'
  <2>0. conn[c].page \in Pages /\ conn[c].thread = view[conn[c].page]
    BY HandledIds DEF HandledWereWritten
  <2>1. CASE CreateGroup(c) \/ Push(c) \/ Ack(c) \/ LoseReply(c)
    BY <1>1, <2>1 DEF CreateGroup, Push, Ack, LoseReply, EC!CreateGroup,
       EC!Deliver, EC!Ack, EC!LoseReply
  <2>2. CASE Skip(c)
    <3>1. /\ handled' = handled \union {EC!NextId}
          /\ stream[EC!NextId] # conn[c].thread
          /\ UNCHANGED <<conn, pageVars, stream>>
      BY <2>2 DEF Skip, ThreadOfNext, EC!DeliverAndHandle
    <3>2. \A p \in Pages : stream[EC!NextId] # view[p]
      BY <2>0, <3>1 DEF Alone
    <3>3. \A p, n : Reached(p, n) <=> Reached(p, n)'
      BY <3>1 DEF Reached, ShownTo, OnWire, pageVars
    <3> QED
      BY <3>1, <3>2, <3>3 DEF HandledWereWritten, pageVars
  <2>3. CASE Sent(c)
    <3>1. \A p \in Pages : p = conn[c].page
      BY <2>0 DEF Alone
    <3>2. ASSUME NEW p \in Pages, NEW n \in handled', stream'[n] = view'[p]
          PROVE  Reached(p, n)'
      <4>1. CASE n = reader[c].cur
        BY <2>3, <3>1, <4>1, SentReaches
      <4>2. CASE n \in handled
        <5>1. Reached(p, n)
          BY <2>3, <3>2, <4>2, SentReaches DEF HandledWereWritten
        <5> QED
          BY <2>3, <4>2, <5>1, SentReaches DEF ReachedStays
      <4> QED
        BY <2>3, <3>2, <4>1, <4>2, SentReaches
    <3>3. \A d \in DOMAIN conn' : conn'[d].thread = view'[conn'[d].page]
      BY <2>3, SentReaches DEF HandledWereWritten
    <3> QED
      BY <3>2, <3>3 DEF HandledWereWritten
  <2>4. CASE RedisFails(c) \/ Closed(c)
    <3>1. UNCHANGED <<handled, pageVars>>
      BY <2>4 DEF RedisFails, Closed, EC!RedisFails, EC!Abandon
    <3>2. \A d \in DOMAIN conn' : d \in DOMAIN conn /\ conn'[d] = conn[d]
      BY <2>4 DEF RedisFails, Closed, Ends
    <3> QED
      BY <3>1, <3>2, SameReached, NothingHandled DEF pageVars
  <2> QED
    BY <1>6, <2>1, <2>2, <2>3, <2>4 DEF Serve, Mishap
<1>7. CASE \E t \in Threads : Publish(t)
  BY <1>1, <1>7 DEF Publish
<1>8. CASE UNCHANGED vars
  BY <1>1, <1>8 DEF vars, streamVars
<1> QED
  BY <1>2, <1>3, <1>4, <1>5, <1>6, <1>7, <1>8 DEF Next, PageStep

\* An event that was delivered and not handled is in the hands of one of the
\* page's connections, or of nobody.
LEMMA HandledWereWrittenSuffices ==
  ASSUME Alone, IInv, HandledWereWritten
  PROVE  EventsReachTheirPage
<1>1. SUFFICES ASSUME NEW p \in Pages, NEW n \in born+1..last, stream[n] = view[p]
               PROVE  \/ ShownTo(p, n)
                      \/ OnWire(p, n)
                      \/ InHands(p, n)
                      \/ n \in lost
                      \/ LeftPending(n)
                      \/ TrimmedUnread(n)
  BY DEF EventsReachTheirPage
<1>2. ECP!IInv /\ born \in Nat /\ last \in Nat
  BY DEF IInv, ECP!IInv, ECP!TypeOK
<1>3. n # 0
  BY <1>2
<1>4. CASE n \in handled
  BY <1>1, <1>4 DEF HandledWereWritten, Reached
<1>5. CASE n \in pel /\ n \notin handled
  <2>1. CASE \A d \in Conns : reader[d].cur # n
    BY <1>5, <2>1 DEF LeftPending
  <2>2. ASSUME NEW d \in Conns, reader[d].cur = n
        PROVE  InHands(p, n)
    <3>1. reader[d].pc = "handle"
      BY <1>2, <1>3, <1>5, <2>2 DEF ECP!IInv, ECP!HandsFull
    <3>2. d \in DOMAIN conn
      BY <3>1, ServedOrNot
    <3>3. conn[d].page = p
      BY <3>2, HandledIds DEF Alone
    <3> QED
      BY <2>2, <3>1, <3>2, <3>3 DEF InHands
  <2> QED
    BY <2>1, <2>2
<1>6. CASE n \notin handled \union pel
  BY <1>1, <1>2, <1>6 DEF ECP!IInv, ECP!LossIsPending, TrimmedUnread
<1> QED
  BY <1>4, <1>5, <1>6

\* A page that is alone and stays on its conversation receives every event of it
\* from the group's beginning on, through any number of broken streams, second
\* connections and Redis failures: what it does not receive went with a broken
\* connection, is in the pending list, or was trimmed unread.
THEOREM EventsReachTheirPageAlways ==
  ASSUME Alone
  PROVE  Spec => []EventsReachTheirPage
<1>1. Init => HandledWereWritten
  BY DEF Init, EC!Init, HandledWereWritten
<1>2. IInv /\ HandledWereWritten /\ [Next]_vars => HandledWereWritten'
  BY HandledWereWrittenKeeps
<1>3. IInv /\ HandledWereWritten => EventsReachTheirPage
  BY HandledWereWrittenSuffices
<1> QED
  BY <1>1, <1>2, <1>3, Invariant, PTL DEF Spec
=============================================================================
