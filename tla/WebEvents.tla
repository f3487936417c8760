----------------------------- MODULE WebEvents -----------------------------
(***************************************************************************)
(* routes/events.py, POST /events/web-ui: the event stream of the chat     *)
(* page.  Every connection of every page runs consume("web-ui"), so all of *)
(* them are consumers of ONE group; a connection sends on the events of    *)
(* the conversation its page shows and drops the others.  The page's side  *)
(* is web/hooks/useSSE.ts: it reconnects when the stream ends, and leaves  *)
(* the connection for a new one when the conversation changes.             *)
(*                                                                         *)
(* Of an event only its conversation (thread_id) matters here.             *)
(***************************************************************************)
EXTENDS Naturals, Sequences, FiniteSets

CONSTANTS
  Pages,      \* browser tabs with a chat page
  Conns,      \* connections that can be alive on the server at a time
  Threads,    \* conversations
  MaxLen,     \* XADD's MAXLEN
  MaxEvents,  \* bound on the stream's length
  MaxFaults,  \* bound: Redis failures
  MaxLeaves,  \* bound: connections that their page leaves
  MaxCuts     \* bound: connections that break, or that die with the server

ASSUME WEAssumption ==
  /\ MaxLen \in Nat \ {0}
  /\ {MaxEvents, MaxFaults, MaxLeaves, MaxCuts} \subseteq Nat

VARIABLES
  stream, trimmed, created, born, last, pel, reader, handled, faults,
  conn,    \* the connections the server serves: the page and the thread_id of
           \* each, and whether the page still reads it
  view,    \* per page: the conversation it shows
  wire,    \* per page: ids the server has written and the page has yet to read
  shown,   \* history: [id, page] of every event a page received, in this order
  lost,    \* history: ids written to a connection that its page does not read
           \* any more, or on the wire of one when it broke or was left
  ends     \* connections ended from outside so far: [leave, cut]

EC == INSTANCE EventCenter WITH Consumers <- Conns, Events <- Threads

groupVars == <<created, born, last, pel>>
streamVars == <<stream, trimmed, groupVars, reader, handled, faults>>
pageVars == <<view, wire, shown, lost>>
vars == <<streamVars, conn, pageVars, ends>>

Conn == [page : Pages, thread : Threads, open : BOOLEAN]

Init ==
  /\ EC!Init
  /\ conn = [c \in {} |-> {}]
  /\ view \in [Pages -> Threads]
  /\ wire = [p \in Pages |-> <<>>]
  /\ shown = <<>>
  /\ lost = {}
  /\ ends = [leave |-> 0, cut |-> 0]

(***************************************************************************)
(* The page                                                                *)
(***************************************************************************)

Reads(p) == \E c \in DOMAIN conn : conn[c].open /\ conn[c].page = p

\* The page asks for the events of the conversation it shows: it never reads
\* two streams at a time and reads one to its end, but the server may still
\* serve one that broke or was left.
Connect(p, c) ==
  /\ ~Reads(p)
  /\ wire[p] = <<>>
  /\ EC!Consume(c)
  /\ conn' = [d \in DOMAIN conn \union {c} |->
                IF d = c THEN [page |-> p, thread |-> view[p], open |-> TRUE]
                ELSE conn[d]]
  /\ UNCHANGED <<pageVars, ends>>

\* The page reads an event.
Receive(p) ==
  /\ wire[p] # <<>>
  /\ shown' = Append(shown, [id |-> Head(wire[p]), page |-> p])
  /\ wire' = [wire EXCEPT ![p] = Tail(@)]
  /\ UNCHANGED <<streamVars, conn, view, lost, ends>>

\* The page's stream is gone, with what was on its way; the server has yet to
\* notice.
Abort(p) ==
  /\ conn' = [c \in DOMAIN conn |->
                IF conn[c].page = p THEN [conn[c] EXCEPT !.open = FALSE] ELSE conn[c]]
  /\ wire' = [wire EXCEPT ![p] = <<>>]
  /\ lost' = lost \union {wire[p][i] : i \in DOMAIN wire[p]}
  /\ UNCHANGED <<streamVars, shown>>

\* The page is closed or turns to conversation t: it aborts its request.
Leave(p, t) ==
  /\ ends.leave < MaxLeaves
  /\ ends' = [ends EXCEPT !.leave = @ + 1]
  /\ view' = [view EXCEPT ![p] = t]
  /\ Abort(p)

\* The page's connection breaks.  (The server process dies: its connections
\* break and, without another step of theirs, are Closed.)
Cut(p) ==
  /\ Reads(p) \/ wire[p] # <<>>
  /\ ends.cut < MaxCuts
  /\ ends' = [ends EXCEPT !.cut = @ + 1]
  /\ Abort(p)
  /\ UNCHANGED view

(***************************************************************************)
(* event_stream                                                            *)
(***************************************************************************)

\* consume() has made sure that the group exists.
CreateGroup(c) == EC!CreateGroup(c) /\ UNCHANGED <<conn, pageVars, ends>>

ThreadOfNext == stream[EC!NextId]

\* An event of the page's conversation: yield it, and suspend in the send.
Push(c) ==
  /\ EC!Deliver(c)
  /\ ThreadOfNext = conn[c].thread
  /\ UNCHANGED <<conn, pageVars, ends>>

\* Variant to be refuted: the filter may drop the page's own events, too.
SkipAny(c) == EC!DeliverAndHandle(c) /\ UNCHANGED <<conn, pageVars, ends>>

\* An event of another conversation: the `continue' in line 96.
Skip(c) ==
  /\ EC!DeliverAndHandle(c)
  /\ ThreadOfNext # conn[c].thread
  /\ UNCHANGED <<conn, pageVars, ends>>

\* send() returns: the event is in the socket's buffer.  A socket whose page is
\* gone takes it all the same.
Sent(c) ==
  /\ EC!Handled(c)
  /\ EC!Quiet
  /\ \/ /\ conn[c].open
        /\ wire' = [wire EXCEPT ![conn[c].page] = Append(@, reader[c].cur)]
        /\ UNCHANGED lost
     \/ /\ ~conn[c].open
        /\ lost' = lost \union {reader[c].cur}
        /\ UNCHANGED wire
  /\ UNCHANGED <<conn, view, shown, ends>>

Ack(c) == EC!Ack(c) /\ UNCHANGED <<conn, pageVars, ends>>

LoseReply(c) == EC!LoseReply(c) /\ UNCHANGED <<conn, pageVars, ends>>

\* event_stream is over.
Ends(c) == conn' = [d \in DOMAIN conn \ {c} |-> conn[d]]

\* A Redis error: an error event is sent and the stream ends; the page reads
\* what is on the wire before it sees the end.
RedisFails(c) ==
  /\ EC!RedisFails(c)
  /\ Ends(c)
  /\ UNCHANGED <<pageVars, ends>>

\* The server has noticed that the page is gone and cancels event_stream.
Closed(c) ==
  /\ ~conn[c].open
  /\ EC!Abandon(c)
  /\ EC!Quiet
  /\ Ends(c)
  /\ UNCHANGED <<pageVars, ends>>

\* The worker and the agent publish.
Publish(t) ==
  /\ EC!PublishOK(t) \/ EC!PublishRaises(t)
  /\ Len(stream') <= MaxEvents
  /\ UNCHANGED <<groupVars, reader, handled, conn, pageVars, ends>>

Serve(c) ==
  \/ CreateGroup(c)
  \/ Push(c)
  \/ Skip(c)
  \/ Sent(c)
  \/ Ack(c)
  \/ Closed(c)

Mishap(c) == LoseReply(c) \/ RedisFails(c)

PageStep(p) ==
  \/ \E c \in Conns : Connect(p, c)
  \/ Receive(p)
  \/ Cut(p)
  \/ \E t \in Threads : Leave(p, t)

Next ==
  \/ \E p \in Pages : PageStep(p)
  \/ \E c \in DOMAIN conn : Serve(c) \/ Mishap(c)
  \/ \E t \in Threads : Publish(t)

Spec == Init /\ [][Next]_vars

(***************************************************************************)
(* What the pages may count on                                             *)
(***************************************************************************)

TypeOK ==
  /\ EC!TypeOK
  /\ conn \in [{c \in Conns : reader[c].pc \notin {"off", "ended"}} -> Conn]
  /\ view \in [Pages -> Threads]
  /\ wire \in [Pages -> Seq(Nat \ {0})]
  /\ shown \in Seq([id : Nat \ {0}, page : Pages])
  /\ lost \subseteq Nat
  /\ ends \in [leave : 0..MaxLeaves, cut : 0..MaxCuts]

\* However many connections a page goes through, and however many pages an
\* event could go to: no entry of the stream is shown twice (what XADD appended
\* twice is two entries), and a page shows its events in the stream's order.
ShownOnceInOrder ==
  \A i, j \in DOMAIN shown : i < j =>
    /\ shown[i].id # shown[j].id
    /\ shown[i].page = shown[j].page => shown[i].id < shown[j].id

\* Event n was delivered to a loop that broke off: an operator finds it in the
\* pending list.
LeftPending(n) == n \in pel /\ \A c \in Conns : reader[c].cur # n

\* Event n was trimmed from the stream before its delivery.
TrimmedUnread(n) == n <= trimmed /\ n \notin handled \union pel

ShownTo(p, n) == \E i \in DOMAIN shown : shown[i] = [id |-> n, page |-> p]

OnWire(p, n) == \E i \in DOMAIN wire[p] : wire[p][i] = n

\* The send of event n to page p is under way.
InHands(p, n) ==
  \E c \in DOMAIN conn :
    conn[c].page = p /\ reader[c].pc = "handle" /\ reader[c].cur = n

\* A page receives every event of its conversation that the group has reached,
\* through broken streams, reconnections beside a connection that is still
\* served, and Redis failures: what it does not get went with a connection that
\* broke, stays in the pending list, or was trimmed unread.  (It holds of a page
\* that is alone and stays; SharedGroup.cfg shows what two pages do.)
EventsReachTheirPage ==
  \A p \in Pages : \A n \in born+1..last : stream[n] = view[p] =>
    \/ ShownTo(p, n)
    \/ OnWire(p, n)
    \/ InHands(p, n)
    \/ n \in lost
    \/ LeftPending(n)
    \/ TrimmedUnread(n)

\* No event is dropped by, or sent to, one page while a connection waits whose
\* page shows the event's conversation.
EventsReachTheirReaders ==
  [][\A n \in handled' \ handled : \A c \in DOMAIN conn :
       ~(conn[c].open /\ reader[c].pc = "read" /\ conn[c].thread = stream[n])]_vars

(***************************************************************************)
(* Liveness                                                                *)
(***************************************************************************)

\* The server serves every connection, Redis answers, and a page reads what
\* comes and connects again when it reads no stream (scheduleReconnect, for
\* ever, 30 s apart at most).
Fairness ==
  /\ \A c \in Conns : WF_vars(c \in DOMAIN conn /\ Serve(c))
  /\ \A p \in Pages : WF_vars(Receive(p) \/ \E c \in Conns : Connect(p, c))

FairSpec == Spec /\ Fairness

\* However often the stream breaks, a page catches up with all that was
\* published meanwhile; what was under way when it broke is not shown.
\* (Checked with one page that stays.)
PageCatchesUp ==
  <>[](\A p \in Pages : \A n \in born+1..Len(stream) : stream[n] = view[p] =>
         ShownTo(p, n) \/ n \in lost \/ LeftPending(n))

=============================================================================
