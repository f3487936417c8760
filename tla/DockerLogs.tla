----------------------------- MODULE DockerLogs -----------------------------
(***************************************************************************)
(* POST /events/docker-logs (routes/events.py): the raw log of the         *)
(* monitored container as server-sent events.  A thread reads Docker's     *)
(* blocking stream and hands every line to the event loop as a coroutine   *)
(* that puts it into an unbounded asyncio queue; the generator of the      *)
(* response takes them out.  A heartbeat every 15 s changes nothing.       *)
(***************************************************************************)
EXTENDS Naturals, Sequences, SequencesExt

CONSTANTS
  Clients,   \* responses
  MaxLines,  \* bound: lines the container writes
  MaxFaults  \* bound: failures of the Docker daemon

ASSUME DLAssumption == {MaxLines, MaxFaults} \subseteq Nat

VARIABLES
  log,       \* the container's lines: can the handler parse them?
  ended,     \* the container has stopped
  thread,    \* per response: what log_producer does
  from, pos, \*   the lines it leaves out (since, tail), and those it has read
  scheduled, \*   coroutines handed to the event loop and not run yet
  log_queue, \*   what they put into the queue
  response,  \*   what the generator does
  stop_event,
  shown,     \*   the lines the client got
  finished,  \*   history: did it end with "eof"?
  faults

threadVars == <<thread, from, pos>>
queueVars == <<scheduled, log_queue>>
responseVars == <<response, stop_event, shown, finished>>
vars == <<log, ended, threadVars, queueVars, responseVars, faults>>

Item(type, line) == [type |-> type, line |-> line]

Init ==
  /\ log = <<>> /\ ended = FALSE
  /\ thread = [c \in Clients |-> "none"]
  /\ from = [c \in Clients |-> 0] /\ pos = [c \in Clients |-> 0]
  /\ scheduled = [c \in Clients |-> <<>>] /\ log_queue = [c \in Clients |-> <<>>]
  /\ response = [c \in Clients |-> "none"]
  /\ stop_event = [c \in Clients |-> FALSE]
  /\ shown = [c \in Clients |-> <<>>]
  /\ finished = [c \in Clients |-> FALSE]
  /\ faults = 0

\* The container writes a line.
WriteLine ==
  /\ Len(log) < MaxLines
  /\ ~ended
  /\ \E parses \in BOOLEAN : log' = Append(log, parses)
  /\ UNCHANGED <<ended, threadVars, queueVars, responseVars, faults>>

\* It stops: Docker closes the stream.
EndContainer ==
  /\ ~ended
  /\ ended' = TRUE
  /\ UNCHANGED <<log, threadVars, queueVars, responseVars, faults>>

\* A request comes: the generator starts the thread.
Open(c) ==
  /\ response[c] = "none"
  /\ response' = [response EXCEPT ![c] = "open"]
  /\ thread' = [thread EXCEPT ![c] = "get"]
  /\ UNCHANGED <<log, ended, from, pos, queueVars, stop_event, shown, finished, faults>>

(***************************************************************************)
(* log_producer                                                            *)
(***************************************************************************)

Goto(c, pc) == thread' = [thread EXCEPT ![c] = pc]
Schedule(c, item) == scheduled' = [scheduled EXCEPT ![c] = Append(@, item)]

\* The stream starts where `since' or `tail' says; a `since' that cannot be
\* parsed, or none, is the whole log.
GetContainer(c) ==
  /\ thread[c] = "get"
  /\ \E n \in 0..Len(log) :
       from' = [from EXCEPT ![c] = n] /\ pos' = [pos EXCEPT ![c] = n]
  /\ Goto(c, "read")
  /\ UNCHANGED <<log, ended, queueVars, responseVars, faults>>

\* The container is missing, or the daemon fails before or during the stream.
DockerFails(c) ==
  /\ thread[c] \in {"get", "read"}
  /\ faults < MaxFaults
  /\ faults' = faults + 1
  /\ Schedule(c, Item("error", 0))
  /\ Goto(c, "finally")
  /\ UNCHANGED <<log, ended, from, pos, log_queue, responseVars>>

\* The next line is there.  The thread looks at stop_event only now.
ReadLine(c) ==
  /\ thread[c] = "read"
  /\ pos[c] < Len(log)
  /\ pos' = [pos EXCEPT ![c] = @ + 1]
  /\ Goto(c, IF stop_event[c] THEN "finally" ELSE "hand")
  /\ UNCHANGED <<log, ended, from, queueVars, responseVars, faults>>

HandLine(c) ==
  /\ thread[c] = "hand"
  /\ Schedule(c, Item("log", pos[c]))
  /\ Goto(c, "read")
  /\ UNCHANGED <<log, ended, from, pos, log_queue, responseVars, faults>>

\* The stream is over.
EndOfStream(c) ==
  /\ thread[c] = "read"
  /\ ended /\ pos[c] = Len(log)
  /\ Goto(c, "finally")
  /\ UNCHANGED <<log, ended, from, pos, queueVars, responseVars, faults>>

\* Variant to be refuted: the thread ends without "eof".
Variant_Finally(c) ==
  /\ thread[c] = "finally"
  /\ Goto(c, "over")
  /\ UNCHANGED <<log, ended, from, pos, queueVars, responseVars, faults>>

Finally(c) ==
  /\ thread[c] = "finally"
  /\ Schedule(c, Item("eof", 0))
  /\ Goto(c, "over")
  /\ UNCHANGED <<log, ended, from, pos, log_queue, responseVars, faults>>

(***************************************************************************)
(* The event loop and the generator                                        *)
(***************************************************************************)

\* Variant to be refuted: the newest coroutine runs first.
Variant_Put(c) ==
  /\ scheduled[c] # <<>>
  /\ log_queue' = [log_queue EXCEPT ![c] = Append(@, Last(scheduled[c]))]
  /\ scheduled' = [scheduled EXCEPT ![c] = Front(@)]
  /\ UNCHANGED <<log, ended, threadVars, responseVars, faults>>

\* call_soon_threadsafe keeps the order, and put on an unbounded queue does not
\* suspend.
Put(c) ==
  /\ scheduled[c] # <<>>
  /\ log_queue' = [log_queue EXCEPT ![c] = Append(@, Head(scheduled[c]))]
  /\ scheduled' = [scheduled EXCEPT ![c] = Tail(@)]
  /\ UNCHANGED <<log, ended, threadVars, responseVars, faults>>

\* The finally of the generator.
Close(c) ==
  /\ response' = [response EXCEPT ![c] = "closed"]
  /\ stop_event' = [stop_event EXCEPT ![c] = TRUE]

\* The generator takes an item: a line is sent, or only logged if it cannot be
\* parsed; an error is sent and ends the response, "eof" ends it.
Serve(c) ==
  /\ response[c] = "open"
  /\ log_queue[c] # <<>>
  /\ LET item == Head(log_queue[c])
     IN  \/ /\ item.type = "log" /\ log[item.line]
            /\ shown' = [shown EXCEPT ![c] = Append(@, item.line)]
            /\ UNCHANGED <<response, stop_event, finished>>
         \/ /\ item.type = "log" /\ ~log[item.line]
            /\ UNCHANGED responseVars
         \/ /\ item.type \in {"error", "eof"}
            /\ Close(c)
            /\ finished' = [finished EXCEPT ![c] = item.type = "eof"]
            /\ UNCHANGED shown
  /\ log_queue' = [log_queue EXCEPT ![c] = Tail(@)]
  /\ UNCHANGED <<log, ended, threadVars, scheduled, faults>>

\* The client goes away and the generator is cancelled; the thread may be
\* waiting for a line.
Leave(c) ==
  /\ response[c] = "open"
  /\ Close(c)
  /\ UNCHANGED <<log, ended, threadVars, queueVars, shown, finished, faults>>

Producer(c) ==
  GetContainer(c) \/ ReadLine(c) \/ HandLine(c) \/ EndOfStream(c) \/ Finally(c)

Next ==
  \/ WriteLine \/ EndContainer
  \/ \E c \in Clients :
       \/ Open(c) \/ Producer(c) \/ DockerFails(c)
       \/ Put(c) \/ Serve(c) \/ Leave(c)

Spec == Init /\ [][Next]_vars

\* Threads and the event loop go on; the container need not write or stop, and
\* nobody need leave.
Fairness ==
  \A c \in Clients : WF_vars(Producer(c)) /\ WF_vars(Put(c)) /\ WF_vars(Serve(c))

FairSpec == Spec /\ Fairness

(***************************************************************************)
(* Properties                                                              *)
(***************************************************************************)

\* The client got the lines from where its stream starts up to the n-th, each
\* once and in their order, but for those that cannot be parsed.
SentUpTo(c, n) ==
  /\ ToSet(shown[c]) = {i \in from[c] + 1..n : log[i]}
  /\ \A i, j \in DOMAIN shown[c] : i < j => shown[c][i] < shown[c][j]

\* Lines go from the thread to the client over two queues, and "eof" or an
\* error over the same two: the client gets the lines in their order, from the
\* one the thread started with and without a gap but for those that cannot be
\* parsed, and a response that ends with "eof" has sent them all.
LinesInOrder ==
  \A c \in Clients :
    /\ \E n \in from[c]..Len(log) : SentUpTo(c, n)
    /\ finished[c] => SentUpTo(c, Len(log))

\* The response ends when the container does.  The thread of a response that is
\* closed ends too, unless the container is silent: then it waits for a line
\* that need not come, and nothing wakes it.
EverythingEnds ==
  \A c \in Clients :
    /\ (response[c] = "open" /\ ended) ~> (response[c] = "closed")
    /\ (response[c] = "closed") ~> (\/ thread[c] = "over"
                                    \/ thread[c] = "read" /\ pos[c] = Len(log) /\ ~ended)
=============================================================================
