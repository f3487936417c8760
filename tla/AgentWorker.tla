---------------------------- MODULE AgentWorker ----------------------------
(***************************************************************************)
(* deepagents/worker.py: the background worker that reads the stream in    *)
(* the group "agent-worker" and runs the agent on the USER events, one     *)
(* queue and one asyncio task per conversation (thread_id).  Each server   *)
(* process has its own AgentWorker; `auperator server --workers N' starts  *)
(* N of them, all in the one group.                                        *)
(*                                                                         *)
(* Inside a process everything runs on one event loop, so a step of this   *)
(* module is what happens between two awaits that really suspend.  Taking  *)
(* the uncontended asyncio.Lock and putting into an unbounded Queue do not *)
(* suspend; Redis commands, the agent's run and queue.get() do.            *)
(*                                                                         *)
(* A queue and the task that serves it are made together and are one       *)
(* record of `tasks', under the id of the USER event they were made for.   *)
(***************************************************************************)
EXTENDS Naturals, Sequences, FiniteSets

CONSTANTS
  Workers,     \* server processes
  Threads,     \* conversations
  MaxLen,      \* XADD's MAXLEN
  SlowRedis,   \* one publish_event can outlast the 10 s a queue task waits idle
  MaxUsers,    \* bound: calls that publish a USER event
  MaxStops,    \* bound: calls that publish a STOP event
  MaxFaults,   \* bound: Redis failures
  MaxCrashes   \* bound: deaths of a server process

ASSUME AWAssumption ==
  /\ MaxLen \in Nat \ {0}
  /\ SlowRedis \in BOOLEAN
  /\ {MaxUsers, MaxStops, MaxFaults, MaxCrashes} \subseteq Nat

VARIABLES
  stream, trimmed, created, born, last, pel, reader, handled, faults,
  tasks,         \* id -> the queue made for that USER event, and its task
  event_queues,  \* per worker, thread -> queue (its id), 0 if there is none
  queue_tasks,   \* per worker, thread -> task (its queue's id), 0 if none
  queue,         \* per worker: the local `queue' of _handle_user_event
  phase,         \* per worker: "down", "up", "stopping" (cleanup), "stopped"
  started,       \* history: the runs of the agent, in the order they began
  announced,     \* history: messages a QUEUED event was published for
  answered,      \* history: messages whose run published its [Done]
  calls          \* calls made by the outside: [user, stop, crash]

EventTypes == {"USER", "STOP", "QUEUED", "DONE"}
Events == [type : EventTypes, thread : Threads]

\* This group's view of the stream.
EC == INSTANCE EventCenter WITH Consumers <- Workers, MaxEvents <- 0

groupVars == <<created, born, last, pel>>
streamVars == <<stream, trimmed, groupVars, reader, handled, faults>>
taskVars == <<tasks, event_queues, queue_tasks>>
histVars == <<started, announced, answered>>
workerVars == <<taskVars, queue, phase, histVars>>
vars == <<streamVars, workerVars, calls>>

\* "get": in the loop of _process_queue, up to queue.get(); "run": in
\* agent.ainvoke; "cancelling": the same with the CancelledError on its way
\* out; "done", "doneCancelled": in the await of _run_agent's finally that
\* publishes [Done], after the run ended or after it was cancelled;
\* "interrupted": cancelled in that await.
TaskPc == {"get", "run", "cancelling", "done", "doneCancelled", "interrupted"}

Init ==
  /\ EC!Init
  /\ tasks = [q \in {} |-> {}]
  /\ event_queues = [w \in Workers |-> [t \in Threads |-> 0]]
  /\ queue_tasks = [w \in Workers |-> [t \in Threads |-> 0]]
  /\ queue = [w \in Workers |-> 0]
  /\ phase = [w \in Workers |-> "down"]
  /\ started = <<>>
  /\ announced = {}
  /\ answered = {}
  /\ calls = [user |-> 0, stop |-> 0, crash |-> 0]

(***************************************************************************)
(* The queue tasks                                                         *)
(***************************************************************************)

Idle(q) == tasks[q].pc = "get" /\ tasks[q].items = <<>>

\* The agent starts on message n in task q of worker w.
Run(q, w, n) ==
  /\ tasks' = [tasks EXCEPT ![q].pc = "run", ![q].cur = n]
  /\ started' = Append(started, [msg |-> n, worker |-> w])

\* queue.put(event).  A task that waits in queue.get() is woken and starts the
\* agent before the event loop looks at a socket again, so that is one step.
\* A queue whose task is gone is an object that nobody will ever read.
Put(q, w, n) ==
  \/ q \notin DOMAIN tasks /\ UNCHANGED <<tasks, started>>
  \/ q \in DOMAIN tasks /\ Idle(q) /\ Run(q, w, n)
  \/ /\ q \in DOMAIN tasks
     /\ ~Idle(q)
     /\ tasks' = [tasks EXCEPT ![q].items = Append(@, n)]
     /\ UNCHANGED started

\* The finally of _process_queue pops its thread from both dictionaries and
\* the task is over; what is left in the queue goes with it.
Finish(q) ==
  LET w == tasks[q].worker
      t == tasks[q].thread
  IN  /\ tasks' = [p \in DOMAIN tasks \ {q} |-> tasks[p]]
      /\ event_queues' = [event_queues EXCEPT ![w][t] = 0]
      /\ queue_tasks' = [queue_tasks EXCEPT ![w][t] = 0]

\* Back at the top of the loop: the task stops if its queue is no longer in
\* event_queues (line 242: cleanup emptied it), else it waits for a message.
NextRound(q) ==
  \/ /\ event_queues[tasks[q].worker][tasks[q].thread] # 0
     /\ tasks' = [tasks EXCEPT ![q].pc = "get", ![q].cur = 0]
     /\ UNCHANGED <<event_queues, queue_tasks>>
  \/ /\ event_queues[tasks[q].worker][tasks[q].thread] = 0
     /\ Finish(q)

\* Variant to be refuted: the queue is a LifoQueue.
TakeNewest(q) ==
  LET k == Len(tasks[q].items)
  IN  /\ tasks[q].pc = "get"
      /\ k > 0
      /\ tasks' = [tasks EXCEPT ![q].pc = "run", ![q].cur = tasks[q].items[k],
                                ![q].items = SubSeq(@, 1, k - 1)]
      /\ started' = Append(started, [msg |-> tasks[q].items[k],
                                     worker |-> tasks[q].worker])
      /\ UNCHANGED <<streamVars, event_queues, queue_tasks, queue, phase,
                     announced, answered, calls>>

\* queue.get() returns a message that was already there.
Take(q) ==
  /\ tasks[q].pc = "get"
  /\ tasks[q].items # <<>>
  /\ tasks' = [tasks EXCEPT ![q].pc = "run", ![q].cur = Head(tasks[q].items),
                            ![q].items = Tail(@)]
  /\ started' = Append(started, [msg |-> Head(tasks[q].items),
                                 worker |-> tasks[q].worker])
  /\ UNCHANGED <<streamVars, event_queues, queue_tasks, queue, phase, announced,
                 answered, calls>>

\* Variants to be refuted: the timeout does not look whether the queue is empty
\* (line 248), or looks the wrong way round.
IdleTimeoutUnchecked(q) ==
  /\ tasks[q].pc = "get"
  /\ SlowRedis \/ queue[tasks[q].worker] # q
  /\ Finish(q)
  /\ UNCHANGED <<streamVars, queue, phase, histVars, calls>>

IdleTimeoutInverted(q) ==
  /\ tasks[q].pc = "get"
  /\ tasks[q].items # <<>>
  /\ Finish(q)
  /\ UNCHANGED <<streamVars, queue, phase, histVars, calls>>

\* Ten seconds without a message, and none has come with the timeout.
IdleTimeout(q) ==
  /\ Idle(q)
  /\ SlowRedis \/ queue[tasks[q].worker] # q
  /\ Finish(q)
  /\ UNCHANGED <<streamVars, queue, phase, histVars, calls>>

\* Variant to be refuted: only an agent that raises gets its [Done].
AgentReturnsSilently(q) ==
  /\ tasks[q].pc = "run"
  /\ tasks' = [tasks EXCEPT ![q].pc = "get", ![q].cur = 0]
  /\ UNCHANGED <<streamVars, event_queues, queue_tasks, queue, phase, histVars,
                 calls>>

\* agent.ainvoke returns, or raises and the exception is logged.
AgentReturns(q) ==
  /\ tasks[q].pc = "run"
  /\ tasks' = [tasks EXCEPT ![q].pc = "done"]
  /\ UNCHANGED <<streamVars, event_queues, queue_tasks, queue, phase, histVars,
                 calls>>

\* Variant to be refuted: _run_agent catches the CancelledError.
AgentCancelledCaught(q) ==
  /\ tasks[q].pc = "cancelling"
  /\ tasks' = [tasks EXCEPT ![q].pc = "done"]
  /\ UNCHANGED <<streamVars, event_queues, queue_tasks, queue, phase, histVars,
                 calls>>

\* agent.ainvoke has unwound after the task's cancellation.
AgentCancelled(q) ==
  /\ tasks[q].pc = "cancelling"
  /\ tasks' = [tasks EXCEPT ![q].pc = "doneCancelled"]
  /\ UNCHANGED <<streamVars, event_queues, queue_tasks, queue, phase, histVars,
                 calls>>

Done(q) == [type |-> "DONE", thread |-> tasks[q].thread]

\* The finally of _run_agent publishes [Done].  After a cancellation the
\* CancelledError goes on and ends the task.
PublishDone(q) ==
  /\ EC!PublishOK(Done(q))
  /\ answered' = answered \union {tasks[q].cur}
  /\ \/ tasks[q].pc = "done" /\ NextRound(q)
     \/ tasks[q].pc = "doneCancelled" /\ Finish(q)
  /\ UNCHANGED <<groupVars, reader, handled, queue, phase, started,
                 announced, calls>>

\* Variant to be refuted: a [Done] that could not be published is sent again.
DoneRetries(q) ==
  /\ tasks[q].pc \in {"done", "doneCancelled"}
  /\ EC!PublishRaises(Done(q))
  /\ answered' = answered \union {tasks[q].cur}
  /\ UNCHANGED <<groupVars, reader, handled, taskVars, queue, phase, started,
                 announced, calls>>

\* Publishing [Done] raises.  The exception replaces the CancelledError that a
\* cancelled run is unwinding with, and _process_queue logs it (line 260) and
\* goes on to the next message.
DoneRaises(q) ==
  /\ tasks[q].pc \in {"done", "doneCancelled"}
  /\ EC!PublishRaises(Done(q))
  /\ NextRound(q)
  /\ UNCHANGED <<groupVars, reader, handled, queue, phase, histVars, calls>>

\* Publishing [Done] was cancelled: the CancelledError ends the task.
DoneInterrupted(q) ==
  /\ tasks[q].pc = "interrupted"
  /\ EC!PublishCancelled(Done(q))
  /\ answered' = IF stream' = stream THEN answered
                 ELSE answered \union {tasks[q].cur}
  /\ Finish(q)
  /\ UNCHANGED <<groupVars, reader, handled, queue, phase, started,
                 announced, calls>>

\* Variant to be refuted: the agent runs under asyncio.shield.
CancelledShielded(r) ==
  IF r.pc \in {"get", "run"} THEN r ELSE [r EXCEPT !.pc = "interrupted"]

\* Where task.cancel() leaves a task that does not wait for a message.  In the
\* agent or in [Done] the CancelledError comes out of the await.  Between two
\* messages the inner get() of wait_for (line 246) has its message by the time
\* the task is resumed, and Python 3.11 (.python-version) then returns the
\* message and drops the CancelledError: the cancellation is lost.
Cancelled(r) ==
  [r EXCEPT !.pc = CASE r.pc \in {"run", "cancelling"} -> "cancelling"
                     [] r.pc = "get" -> "get"
                     [] OTHER -> "interrupted"]

(***************************************************************************)
(* The main loop, _run                                                     *)
(***************************************************************************)

\* server.py's lifespan: initialize() and start().
Start(w) ==
  /\ phase[w] = "down"
  /\ EC!Consume(w)
  /\ phase' = [phase EXCEPT ![w] = "up"]
  /\ UNCHANGED <<taskVars, queue, histVars, calls>>

CreateGroup(w) == EC!CreateGroup(w) /\ UNCHANGED <<workerVars, calls>>

\* What the next entry is.  A task cancelled in an await gets its exception
\* before the event loop looks at a socket again, so no such task is left when
\* an entry arrives.
Arrives(w, type) ==
  /\ EC!NextId <= Len(stream)
  /\ stream[EC!NextId].type = type
  /\ \A q \in DOMAIN tasks :
       tasks[q].worker = w => tasks[q].pc # "interrupted"

ThreadOfNext == stream[EC!NextId].thread

\* _handle_user_event, no queue for the thread: make one, with its task, and
\* put the message; the new task starts the agent on it.
UserNewQueue(w) ==
  LET n == EC!NextId
  IN  /\ Arrives(w, "USER")
      /\ event_queues[w][ThreadOfNext] = 0
      /\ EC!DeliverAndHandle(w)
      /\ tasks' = [q \in DOMAIN tasks \union {n} |->
                     IF q = n THEN [worker |-> w, thread |-> ThreadOfNext,
                                    items |-> <<>>, pc |-> "run", cur |-> n]
                     ELSE tasks[q]]
      /\ started' = Append(started, [msg |-> n, worker |-> w])
      /\ event_queues' = [event_queues EXCEPT ![w][ThreadOfNext] = n]
      /\ queue_tasks' = [queue_tasks EXCEPT ![w][ThreadOfNext] = n]
      /\ UNCHANGED <<queue, phase, announced, answered, calls>>

\* _handle_user_event, nothing waits in the thread's queue: put at once.
UserPut(w) ==
  LET q == event_queues[w][ThreadOfNext]
  IN  /\ Arrives(w, "USER")
      /\ q # 0
      /\ tasks[q].items = <<>>
      /\ EC!DeliverAndHandle(w)
      /\ Put(q, w, EC!NextId)
      /\ UNCHANGED <<event_queues, queue_tasks, queue, phase, announced,
                     answered, calls>>

\* _handle_user_event, messages wait: publish QUEUED first, and suspend.
UserQueued(w) ==
  LET q == event_queues[w][ThreadOfNext]
  IN  /\ Arrives(w, "USER")
      /\ q # 0
      /\ tasks[q].items # <<>>
      /\ EC!Deliver(w)
      /\ queue' = [queue EXCEPT ![w] = q]
      /\ UNCHANGED <<taskVars, phase, histVars, calls>>

Queued(w) == [type |-> "QUEUED", thread |-> stream[reader[w].cur].thread]

\* QUEUED is published: put the message in the queue looked up before.
PublishQueued(w) ==
  /\ EC!Handled(w)
  /\ EC!PublishOK(Queued(w))
  /\ announced' = announced \union {reader[w].cur}
  /\ Put(queue[w], w, reader[w].cur)
  /\ queue' = [queue EXCEPT ![w] = 0]
  /\ UNCHANGED <<event_queues, queue_tasks, phase, answered, calls>>

\* Publishing QUEUED raises: _run logs the exception and is over (line 196).
\* self.task is not None, so start() would not start it again.
QueuedRaises(w) ==
  /\ reader[w].pc = "handle"
  /\ EC!PublishRaises(Queued(w))
  /\ EC!Abandon(w)
  /\ queue' = [queue EXCEPT ![w] = 0]
  /\ UNCHANGED <<taskVars, phase, histVars, calls>>

\* Variant to be refuted: STOP forgets the thread's queue and task at once,
\* instead of leaving that to the task's own finally.
StopPops(w) ==
  LET q == queue_tasks[w][ThreadOfNext]
  IN  /\ Arrives(w, "STOP")
      /\ EC!DeliverAndHandle(w)
      /\ \/ q = 0 /\ UNCHANGED taskVars
         \/ q # 0 /\ Idle(q) /\ Finish(q)
         \/ /\ q # 0
            /\ ~Idle(q)
            /\ tasks' = [tasks EXCEPT ![q] = Cancelled(@)]
            /\ event_queues' = [event_queues EXCEPT ![w][ThreadOfNext] = 0]
            /\ queue_tasks' = [queue_tasks EXCEPT ![w][ThreadOfNext] = 0]
      /\ UNCHANGED <<queue, phase, histVars, calls>>

\* _handle_stop_event: cancel the thread's task, if this worker has one.
Stop(w) ==
  LET q == queue_tasks[w][ThreadOfNext]
  IN  /\ Arrives(w, "STOP")
      /\ EC!DeliverAndHandle(w)
      /\ \/ q = 0 /\ UNCHANGED taskVars
         \/ q # 0 /\ Idle(q) /\ Finish(q)
         \/ /\ q # 0
            /\ ~Idle(q)
            /\ tasks' = [tasks EXCEPT ![q] = Cancelled(@)]
            /\ UNCHANGED <<event_queues, queue_tasks>>
      /\ UNCHANGED <<queue, phase, histVars, calls>>

\* Any other event matches neither branch of _run.
Ignore(w) ==
  /\ Arrives(w, "QUEUED") \/ Arrives(w, "DONE")
  /\ EC!DeliverAndHandle(w)
  /\ UNCHANGED <<workerVars, calls>>

Ack(w) == EC!Ack(w) /\ UNCHANGED <<workerVars, calls>>

LoseReply(w) == EC!LoseReply(w) /\ UNCHANGED <<workerVars, calls>>

\* A Redis error in consume() ends _run in the same way.
RedisFails(w) == EC!RedisFails(w) /\ UNCHANGED <<workerVars, calls>>

(***************************************************************************)
(* Shutdown and crash                                                      *)
(***************************************************************************)

\* cleanup(), first part: cancel the main task and wait for it.
CancelMain(w) ==
  /\ phase[w] = "up"
  /\ calls.crash < MaxCrashes
  /\ calls' = [calls EXCEPT !.crash = @ + 1]
  /\ EC!Abandon(w)
  /\ \/ reader[w].pc = "handle" /\ EC!PublishCancelled(Queued(w))
     \/ reader[w].pc # "handle" /\ EC!Quiet
  /\ queue' = [queue EXCEPT ![w] = 0]
  /\ phase' = [phase EXCEPT ![w] = "stopping"]
  /\ UNCHANGED <<taskVars, histVars>>

Clear(dict, w) == [dict EXCEPT ![w] = [t \in Threads |-> 0]]

\* cleanup(), second part: cancel every queue task, without waiting for any,
\* and empty the dictionaries.  A task whose cancellation is lost runs one more
\* message and ends when it looks for its queue (line 242).
CancelQueues(w) ==
  /\ phase[w] = "stopping"
  /\ tasks' =
       [q \in {p \in DOMAIN tasks : tasks[p].worker = w => ~Idle(p)} |->
           IF tasks[q].worker = w THEN Cancelled(tasks[q]) ELSE tasks[q]]
  /\ event_queues' = Clear(event_queues, w)
  /\ queue_tasks' = Clear(queue_tasks, w)
  /\ phase' = [phase EXCEPT ![w] = "stopped"]
  /\ UNCHANGED <<streamVars, queue, histVars, calls>>

\* The process ends, after cleanup or by dying.
Exit(w) ==
  /\ \/ phase[w] = "stopped" /\ UNCHANGED calls
     \/ /\ phase[w] \in {"up", "stopping"}
        /\ calls.crash < MaxCrashes
        /\ calls' = [calls EXCEPT !.crash = @ + 1]
  /\ EC!Abandon(w)
  /\ EC!Quiet
  /\ tasks' = [q \in {p \in DOMAIN tasks : tasks[p].worker # w} |-> tasks[q]]
  /\ event_queues' = Clear(event_queues, w)
  /\ queue_tasks' = Clear(queue_tasks, w)
  /\ queue' = [queue EXCEPT ![w] = 0]
  /\ phase' = [phase EXCEPT ![w] = "down"]
  /\ UNCHANGED histVars

(***************************************************************************)
(* The routes and webhooks                                                 *)
(***************************************************************************)

Publish(type, t) ==
  /\ EC!PublishOK([type |-> type, thread |-> t])
     \/ EC!PublishRaises([type |-> type, thread |-> t])
  /\ UNCHANGED <<groupVars, reader, handled, workerVars>>

SendMessage(t) ==
  /\ calls.user < MaxUsers
  /\ calls' = [calls EXCEPT !.user = @ + 1]
  /\ Publish("USER", t)

StopConversation(t) ==
  /\ calls.stop < MaxStops
  /\ calls' = [calls EXCEPT !.stop = @ + 1]
  /\ Publish("STOP", t)

-----------------------------------------------------------------------------

\* Steps that the event loop takes when nothing goes wrong...
TaskStep(q) ==
  \/ Take(q)
  \/ IdleTimeout(q)
  \/ AgentReturns(q)
  \/ AgentCancelled(q)
  \/ PublishDone(q)
  \/ DoneInterrupted(q)

MainStep(w) ==
  \/ Start(w)
  \/ CreateGroup(w)
  \/ UserNewQueue(w)
  \/ UserPut(w)
  \/ UserQueued(w)
  \/ PublishQueued(w)
  \/ Stop(w)
  \/ Ignore(w)
  \/ Ack(w)

\* ... and the failures and shutdowns.
Mishap(w) ==
  \/ LoseReply(w)
  \/ RedisFails(w)
  \/ QueuedRaises(w)
  \/ CancelMain(w)
  \/ CancelQueues(w)
  \/ Exit(w)

Next ==
  \/ \E q \in DOMAIN tasks : TaskStep(q) \/ DoneRaises(q)
  \/ \E w \in Workers : MainStep(w) \/ Mishap(w)
  \/ \E t \in Threads : SendMessage(t) \/ StopConversation(t)

Spec == Init /\ [][Next]_vars

(***************************************************************************)
(* What the worker promises                                                *)
(***************************************************************************)

Task == [worker : Workers, thread : Threads, items : Seq(Nat \ {0}),
         pc : TaskPc, cur : Nat]

TypeOK ==
  /\ EC!TypeOK
  /\ DOMAIN tasks \subseteq Nat \ {0}
  /\ \A q \in DOMAIN tasks : tasks[q] \in Task
  /\ event_queues \in [Workers -> [Threads -> Nat]]
  /\ queue_tasks \in [Workers -> [Threads -> Nat]]
  /\ queue \in [Workers -> Nat]
  /\ phase \in [Workers -> {"down", "up", "stopping", "stopped"}]
  /\ started \in Seq([msg : Nat \ {0}, worker : Workers])
  /\ announced \subseteq Nat
  /\ answered \subseteq Nat
  /\ calls \in [user : 0..MaxUsers, stop : 0..MaxStops, crash : 0..MaxCrashes]

Ids == 1..Len(stream)
IsUser(n) == n \in Ids /\ stream[n].type = "USER"
ItemsOf(q) == {tasks[q].items[i] : i \in DOMAIN tasks[q].items}
Running(q) == tasks[q].pc # "get"
StartedMsgs == {started[i].msg : i \in DOMAIN started}

\* n was delivered, nobody holds or queues it, and no run began on it.
Lost(n) ==
  /\ IsUser(n)
  /\ n \in handled \union pel
  /\ n \notin StartedMsgs
  /\ \A q \in DOMAIN tasks : n \notin ItemsOf(q)
  /\ \A w \in Workers : reader[w].pc = "handle" => reader[w].cur # n

\* A worker has at most one task per thread, so two runs of the agent never
\* work on one conversation's checkpoint at a time in one process, and the
\* dictionaries know every task of a worker that is not shutting down.
OneTaskPerThread ==
  \A p, q \in DOMAIN tasks :
    /\ tasks[p].worker = tasks[q].worker /\ tasks[p].thread = tasks[q].thread
         => p = q
    /\ phase[tasks[q].worker] \in {"up", "stopping"} =>
         /\ event_queues[tasks[q].worker][tasks[q].thread] = q
         /\ queue_tasks[tasks[q].worker][tasks[q].thread] = q

\* No message is run twice, by one worker or by two, before a crash and after
\* it; and a worker runs the messages of a thread in the order of the stream.
RunsInOrder ==
  \A i, j \in DOMAIN started : i < j =>
    /\ started[i].msg # started[j].msg
    /\ /\ started[i].worker = started[j].worker
       /\ stream[started[i].msg].thread = stream[started[j].msg].thread
       => started[i].msg < started[j].msg

StopHandledFor(t) ==
  \E s \in handled : stream[s].type = "STOP" /\ stream[s].thread = t

\* A message that was delivered and will never be run was thrown away by a
\* STOP for its thread, or by a failure: the timeouts, the queue's lookup
\* before the await and the pop after it lose nothing by themselves.
LossHasCause ==
  faults = 0 /\ calls.crash = 0 =>
    \A n \in Ids : Lost(n) => StopHandledFor(stream[n].thread)

\* Every run is followed by a [Done] for its thread, none comes before the
\* run is over, and only a STOP or a failure makes one go missing or doubles
\* it: the web page takes [Done] as the end of the answer.
DoneMatchesRuns ==
  /\ \A q \in DOMAIN tasks : Running(q) => tasks[q].cur \notin answered
  /\ answered \subseteq StartedMsgs
  /\ faults = 0 =>
       \A t \in Threads :
         /\ Cardinality({n \in Ids : stream[n] = [type |-> "DONE", thread |-> t]})
              = Cardinality({m \in answered : stream[m].thread = t})
         /\ calls.crash = 0 /\ ~StopHandledFor(t) =>
              \A m \in StartedMsgs : stream[m].thread = t =>
                m \in answered \/ \E q \in DOMAIN tasks : tasks[q].cur = m

Unwinding == {"cancelling", "doneCancelled", "interrupted"}

\* A task that was cancelled runs nothing any more, wherever a STOP or a
\* shutdown met it and whatever comes after: it can only unwind, unless Redis
\* fails in that very step.
StopIsFinal ==
  [][\A q \in DOMAIN tasks \intersect DOMAIN tasks' :
       tasks[q].pc \in Unwinding =>
         tasks'[q].pc \in Unwinding \/ faults' > faults]_vars

\* The same without the exception: a task that was cancelled stays so.
StopIsFinalEvenThen ==
  [][\A q \in DOMAIN tasks \intersect DOMAIN tasks' :
       tasks[q].pc \in Unwinding => tasks'[q].pc \in Unwinding]_vars

\* When a process has handled a STOP, no run of the thread goes on undisturbed
\* in it, however many tasks the thread has had there: one that still runs is
\* in another process.
StopReachesRun ==
  [][\A s \in handled' \ handled : stream[s].type = "STOP" =>
       \A q \in DOMAIN tasks' :
         /\ tasks'[q].thread = stream[s].thread
         /\ tasks'[q].pc = "run"
         => reader'[tasks'[q].worker].cur # s]_vars

\* When a STOP has been handled no run of its thread goes on in any process.
StopReachesEveryRun ==
  [][\A s \in handled' \ handled : stream[s].type = "STOP" =>
       \A q \in DOMAIN tasks' :
         tasks'[q].thread = stream[s].thread => tasks'[q].pc # "run"]_vars

\* No run begins on a message that a STOP handled before it was to stop.
StoppedBeforeRun ==
  [][\A i \in DOMAIN started' \ DOMAIN started :
       LET n == started'[i].msg
       IN  \A s \in handled : stream[s].type = "STOP"
             /\ stream[s].thread = stream[n].thread => s < n]_vars

\* A message is thrown away only by a STOP that was sent after it.
LossByLaterStop ==
  faults = 0 /\ calls.crash = 0 =>
    \A n \in Ids : Lost(n) =>
      \E s \in Ids : s > n /\ stream[s] = [type |-> "STOP",
                                           thread |-> stream[n].thread]

\* A message that has to wait is announced by a QUEUED event.
WaitingIsAnnounced ==
  \A q \in DOMAIN tasks : Running(q) => ItemsOf(q) \subseteq announced

(***************************************************************************)
(* Refinement                                                              *)
(***************************************************************************)

\* A message may still be run while it is in the stream ahead of the group,
\* in the hands of a main loop, or in the queue of a task.
Waiting(n) ==
  \/ last < n /\ trimmed < n
  \/ \E w \in Workers : reader[w].pc = "handle" /\ reader[w].cur = n
  \/ \E q \in DOMAIN tasks : n \in ItemsOf(q)

RunningNow == {[msg |-> tasks[q].cur, worker |-> tasks[q].worker] :
                 q \in {p \in DOMAIN tasks : Running(p)}}

RunsBegun == {started[i] : i \in DOMAIN started}

\* The worker is a mailbox: nothing the queues, the timeouts, STOP, failures
\* and restarts do runs a message twice, out of order or beside another one.
MB == INSTANCE Mailbox WITH
        sent <- [n \in {m \in Ids : IsUser(m)} |-> stream[n].thread],
        waiting <- {n \in Ids : IsUser(n) /\ Waiting(n)},
        running <- RunningNow,
        over <- RunsBegun \ RunningNow

MailboxSpec == MB!Spec

(***************************************************************************)
(* Liveness                                                                *)
(***************************************************************************)

\* No run of this module makes the stream longer: each USER entry brings at
\* most one QUEUED and one [Done], and a fault at most one more entry.
MaxId == 3 * (MaxUsers + MaxFaults) + MaxStops + MaxFaults

\* The event loop runs every task that can run; Redis answers; the agent's
\* run ends, as its model calls and tools have timeouts.
Fairness ==
  /\ \A w \in Workers : WF_vars(MainStep(w))
  /\ \A q \in 1..MaxId : WF_vars(q \in DOMAIN tasks /\ TaskStep(q))

FairSpec == Spec /\ Fairness

\* Nobody has stopped thread t, and nothing has failed.
Undisturbed(t) ==
  /\ faults = 0 /\ calls.crash = 0
  /\ [type |-> "STOP", thread |-> t] \notin {stream[n] : n \in Ids}

\* A message published once the group exists is run and gets its [Done], unless
\* somebody stops its own thread or something fails.
EveryMessageAnswered ==
  \A n \in 1..MaxId :
    created /\ n > born /\ IsUser(n)
      ~> n \in answered \/ (n \in Ids /\ ~Undisturbed(stream[n].thread))

\* Queues do not leak: whatever was stopped or failed, every queue and every
\* task is gone once its thread has been quiet for long enough.
QueuesDrain ==
  <>[](/\ DOMAIN tasks = {}
       /\ \A w \in Workers, t \in Threads :
            event_queues[w][t] = 0 /\ queue_tasks[w][t] = 0)

=============================================================================
