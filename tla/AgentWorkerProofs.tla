------------------------- MODULE AgentWorkerProofs -------------------------
(***************************************************************************)
(* For any number of processes, conversations, messages, STOPs, Redis      *)
(* failures and crashes: the worker keeps at most one task per             *)
(* conversation.                                                           *)
(* The second part: it runs the messages of a conversation in order.  The  *)
(* third: with the stream and the queues it implements Mailbox - a message *)
(* waits, one worker runs it, at most once and in order, and then it is    *)
(* over - and which messages are lost, and to what.                        *)
(***************************************************************************)
EXTENDS AgentWorker, SequenceTheorems, FiniteSetTheorems, TLAPS

ECP == INSTANCE EventCenterProofs WITH Consumers <- Workers, MaxEvents <- 0

-----------------------------------------------------------------------------

LEMMA QuietIsEC ==
  ASSUME UNCHANGED streamVars
  PROVE  [EC!OpenNext]_(EC!vars)
BY DEF streamVars, groupVars, EC!vars, EC!groupVars

\* Publishing without touching the group is a step of the event center.
LEMMA PublishIsEC ==
  ASSUME NEW e \in Events, UNCHANGED <<groupVars, reader, handled>>,
         EC!PublishOK(e) \/ EC!PublishRaises(e) \/ EC!PublishCancelled(e)
  PROVE  EC!OpenNext
BY DEF EC!OpenNext, EC!Publish, EC!PublishSome, groupVars, EC!groupVars

\* A step of one consumer is a step of the event center.
LEMMA ConsumerIsEC ==
  ASSUME NEW w \in Workers,
         \/ EC!Consume(w) \/ EC!CreateGroup(w) \/ EC!Deliver(w)
         \/ EC!DeliverAndHandle(w) \/ EC!LoseReply(w) \/ EC!HandlerDone(w)
         \/ EC!Ack(w) \/ EC!RedisFails(w) \/ EC!Abandoned(w)
  PROVE  EC!OpenNext
BY DEF EC!OpenNext

\* Every step of the worker is a step of the event center, or none.
LEMMA NextIsEC ==
  ASSUME TypeOK, ECP!IInv, [Next]_vars
  PROVE  [EC!OpenNext]_(EC!vars)
<1>1. CASE UNCHANGED vars
  BY <1>1, QuietIsEC DEF vars
<1>2. ASSUME NEW q \in DOMAIN tasks, TaskStep(q) \/ DoneRaises(q)
      PROVE  [EC!OpenNext]_(EC!vars)
  <2>1. CASE Take(q) \/ IdleTimeout(q) \/ AgentReturns(q) \/ AgentCancelled(q)
    BY <2>1, QuietIsEC DEF Take, IdleTimeout, AgentReturns, AgentCancelled
  <2>2. CASE PublishDone(q) \/ DoneRaises(q) \/ DoneInterrupted(q)
    <3>1. Done(q) \in Events
      BY DEF Done, Events, EventTypes, TypeOK, Task
    <3> QED
      BY <2>2, <3>1, PublishIsEC DEF PublishDone, DoneRaises, DoneInterrupted
  <2> QED
    BY <1>2, <2>1, <2>2 DEF TaskStep
<1>3. ASSUME NEW w \in Workers, MainStep(w) \/ Mishap(w)
      PROVE  [EC!OpenNext]_(EC!vars)
  <2>0. reader[w].pc = "handle" => Queued(w) \in Events
    <3>1. SUFFICES ASSUME reader[w].pc = "handle" PROVE Queued(w) \in Events
      OBVIOUS
    <3>2. reader[w].cur \in 1..Len(stream)
      BY <3>1 DEF ECP!IInv, ECP!HandsFull, ECP!TypeOK
    <3>3. stream[reader[w].cur] \in Events
      BY <3>2 DEF ECP!IInv, ECP!TypeOK
    <3> QED
      BY <3>3 DEF Queued, Events, EventTypes
  <2>1. CASE Start(w) \/ CreateGroup(w) \/ UserNewQueue(w) \/ UserPut(w)
             \/ UserQueued(w) \/ Stop(w) \/ Ignore(w) \/ Ack(w)
             \/ LoseReply(w) \/ RedisFails(w)
    BY <2>1, ConsumerIsEC DEF Start, CreateGroup, UserNewQueue, UserPut,
       UserQueued, Stop, Ignore, Ack, LoseReply, RedisFails
  <2>2. CASE PublishQueued(w)
    <3>1. EC!HandlerDone(w)
      BY <2>0, <2>2 DEF PublishQueued, EC!Handled, EC!HandlerDone,
         EC!PublishSome
    <3> QED
      BY <3>1, ConsumerIsEC
  <2>3. CASE QueuedRaises(w)
    <3>1. EC!Abandoned(w)
      BY <2>0, <2>3 DEF QueuedRaises, EC!Abandoned, EC!PublishSome
    <3> QED
      BY <3>1, ConsumerIsEC
  <2>4. CASE CancelMain(w)
    <3>1. EC!Abandoned(w)
      BY <2>0, <2>4 DEF CancelMain, EC!Abandoned, EC!PublishSome
    <3> QED
      BY <3>1, ConsumerIsEC
  <2>5. CASE CancelQueues(w)
    BY <2>5, QuietIsEC DEF CancelQueues
  <2>6. CASE Exit(w)
    BY <2>6, ConsumerIsEC DEF Exit, EC!Abandoned
  <2> QED
    BY <1>3, <2>1, <2>2, <2>3, <2>4, <2>5, <2>6 DEF MainStep, Mishap
<1>4. ASSUME NEW t \in Threads, SendMessage(t) \/ StopConversation(t)
      PROVE  [EC!OpenNext]_(EC!vars)
  BY <1>4, PublishIsEC DEF SendMessage, StopConversation, Publish, Events,
     EventTypes
<1> QED
  BY <1>1, <1>2, <1>3, <1>4 DEF Next

\* The module this one cites its lemmas from has the same steps: there its
\* operators are instantiated a second time.
LEMMA SameSteps == [EC!OpenNext]_(EC!vars) <=> [ECP!OpenNext]_(ECP!vars)
<1>1. UNCHANGED EC!vars <=> UNCHANGED ECP!vars
  BY DEF EC!vars, ECP!vars, EC!groupVars, ECP!groupVars
<1>2. EC!PublishSome <=> ECP!PublishSome
  BY DEF EC!PublishSome, ECP!PublishSome, EC!PublishOK, ECP!PublishOK, EC!PublishRaises, ECP!PublishRaises, EC!PublishCancelled, ECP!PublishCancelled,
  EC!XAdd, ECP!XAdd, EC!Trim, ECP!Trim, EC!Fault, ECP!Fault
<1>3. EC!Publish <=> ECP!Publish
  BY <1>2 DEF EC!Publish, ECP!Publish, EC!groupVars, ECP!groupVars
<1>4. ASSUME NEW c \in Workers
      PROVE /\ EC!Consume(c) <=> ECP!Consume(c)
            /\ EC!CreateGroup(c) <=> ECP!CreateGroup(c)
            /\ EC!Deliver(c) <=> ECP!Deliver(c)
            /\ EC!DeliverAndHandle(c) <=> ECP!DeliverAndHandle(c)
            /\ EC!LoseReply(c) <=> ECP!LoseReply(c)
            /\ EC!HandlerDone(c) <=> ECP!HandlerDone(c)
            /\ EC!Ack(c) <=> ECP!Ack(c)
            /\ EC!RedisFails(c) <=> ECP!RedisFails(c)
            /\ EC!Abandoned(c) <=> ECP!Abandoned(c)
  BY <1>2, Zenon DEF EC!Consume, ECP!Consume, EC!CreateGroup, ECP!CreateGroup, EC!Deliver, ECP!Deliver, EC!DeliverAndHandle, ECP!DeliverAndHandle, EC!LoseReply, ECP!LoseReply, EC!HandlerDone, ECP!HandlerDone, EC!Ack, ECP!Ack, EC!RedisFails, ECP!RedisFails, EC!Abandoned, ECP!Abandoned,
   EC!Goto, ECP!Goto, EC!XGroupCreate, ECP!XGroupCreate, EC!XReadGroup, ECP!XReadGroup, EC!XAck, ECP!XAck, EC!Handled, ECP!Handled, EC!Abandon, ECP!Abandon, EC!Fault, ECP!Fault, EC!NextId, ECP!NextId, EC!Quiet, ECP!Quiet, EC!groupVars, ECP!groupVars
<1>5. EC!OpenNext <=> ECP!OpenNext
  BY <1>3, <1>4, Zenon DEF EC!OpenNext, ECP!OpenNext
<1> QED
  BY <1>1, <1>5

(***************************************************************************)
(* The inductive invariant                                                 *)
(***************************************************************************)

TasksTyped ==
  /\ DOMAIN tasks \subseteq Nat \ {0}
  /\ \A q \in DOMAIN tasks : tasks[q] \in Task
  /\ event_queues \in [Workers -> [Threads -> Nat]]
  /\ queue_tasks \in [Workers -> [Threads -> Nat]]

RestTyped ==
  /\ queue \in [Workers -> Nat]
  /\ phase \in [Workers -> {"down", "up", "stopping", "stopped"}]
  /\ started \in Seq([msg : Nat \ {0}, worker : Workers])
  /\ announced \subseteq Nat
  /\ answered \subseteq Nat
  /\ calls \in [user : 0..MaxUsers, stop : 0..MaxStops, crash : 0..MaxCrashes]

\* The two dictionaries agree, and name tasks that are alive.
DictsAgree ==
  /\ event_queues = queue_tasks
  /\ \A w \in Workers, t \in Threads : event_queues[w][t] # 0 =>
       /\ event_queues[w][t] \in DOMAIN tasks
       /\ tasks[event_queues[w][t]].worker = w
       /\ tasks[event_queues[w][t]].thread = t

\* A server that is down has no task.
DownIsEmpty ==
  \A q \in DOMAIN tasks : phase[tasks[q].worker] # "down"

\* A queue bears the id of an entry that was delivered, so the id of the next
\* entry names no queue.
DeliveredIds == \A q \in DOMAIN tasks : q <= last

TasksInv ==
  /\ TasksTyped
  /\ DictsAgree
  /\ DownIsEmpty
  /\ DeliveredIds
  /\ OneTaskPerThread

\* A main loop runs only in a server that is up.
LoopsWhenUp ==
  \A w \in Workers : phase[w] # "up" => reader[w].pc \in {"off", "ended"}

\* The queue a main loop looked up before it published QUEUED is, if its task
\* is still alive, the queue of the message's thread.
LookedUp ==
  \A w \in Workers :
    /\ queue[w] <= last
    /\ reader[w].pc = "handle" /\ queue[w] \in DOMAIN tasks =>
         /\ tasks[queue[w]].worker = w
         /\ tasks[queue[w]].thread = stream[reader[w].cur].thread

\* The inductive invariant.
IInv == ECP!IInv /\ TasksInv /\ RestTyped /\ LoopsWhenUp /\ LookedUp

LEMMA IInvImpliesTypeOK == IInv => TypeOK
BY DEF IInv, TasksInv, TasksTyped, RestTyped, TypeOK, EC!TypeOK, ECP!IInv,
       ECP!TypeOK, EC!ReaderPc, ECP!ReaderPc

\* What every step leaves intact: the event center's invariant, the ids, and
\* what the ids stand for.
Stable ==
  /\ ECP!IInv'
  /\ last <= last' /\ last \in Nat /\ last' \in Nat
  /\ Len(stream) \in Nat /\ Len(stream') \in Nat
  /\ Len(stream) <= Len(stream')
  /\ \A i \in 1..Len(stream) : stream'[i] = stream[i]

LEMMA NextStable == ASSUME IInv, [Next]_vars PROVE Stable
<1>1. ECP!ECAssumption
  BY AWAssumption DEF ECP!ECAssumption, AWAssumption
<1>2. TypeOK /\ ECP!IInv
  BY IInvImpliesTypeOK DEF IInv
<1>3. [ECP!OpenNext]_(ECP!vars)
  BY <1>2, NextIsEC, SameSteps
<1> QED
  BY <1>1, <1>2, <1>3, ECP!NextIInv, ECP!IdsAreStable DEF Stable

-----------------------------------------------------------------------------

\* Whatever happens inside the tasks, as long as none comes or goes.
SameTasks ==
  /\ DOMAIN tasks' = DOMAIN tasks
  /\ \A q \in DOMAIN tasks : /\ tasks'[q] \in Task
                             /\ tasks'[q].worker = tasks[q].worker
                             /\ tasks'[q].thread = tasks[q].thread

LEMMA SameTasksKeep ==
  ASSUME TasksInv, Stable, SameTasks,
         UNCHANGED <<event_queues, queue_tasks, phase>>
  PROVE  TasksInv'
<1> USE DEF TasksInv, TasksTyped, Stable, SameTasks
<1>1. TasksTyped' /\ DeliveredIds'
  BY DEF DeliveredIds
<1>2. DictsAgree' /\ DownIsEmpty'
  BY DEF DictsAgree, DownIsEmpty
<1>3. OneTaskPerThread'
  BY DEF OneTaskPerThread
<1> QED
  BY <1>1, <1>2, <1>3

\* One task ends and clears its thread's entries in both dictionaries.
LEMMA FinishKeeps ==
  ASSUME TasksInv, Stable, NEW q \in DOMAIN tasks, Finish(q), UNCHANGED phase
  PROVE  TasksInv'
<1> USE DEF TasksInv, TasksTyped, Stable
<1> DEFINE v == tasks[q].worker
           s == tasks[q].thread
<1>1. v \in Workers /\ s \in Threads
  BY DEF Task
<1>2. /\ DOMAIN tasks' = DOMAIN tasks \ {q}
      /\ \A p \in DOMAIN tasks' : tasks'[p] = tasks[p]
  BY DEF Finish
<1>3. /\ event_queues' = [event_queues EXCEPT ![v][s] = 0]
      /\ queue_tasks' = [queue_tasks EXCEPT ![v][s] = 0]
  BY DEF Finish
<1> HIDE DEF v, s
<1>4. \A w \in Workers, t \in Threads :
        event_queues'[w][t] = IF w = v /\ t = s THEN 0 ELSE event_queues[w][t]
  BY <1>1, <1>3
<1>5. event_queues' = queue_tasks'
  BY <1>3 DEF DictsAgree
<1>6. \A p \in DOMAIN tasks' : ~ (tasks[p].worker = v /\ tasks[p].thread = s)
  BY <1>2 DEF OneTaskPerThread, v, s
<1>7. TasksTyped' /\ DeliveredIds'
  BY <1>1, <1>2, <1>3 DEF DeliveredIds
<1>8. DictsAgree' /\ DownIsEmpty'
  BY <1>2, <1>4, <1>5 DEF DictsAgree, DownIsEmpty, v, s
<1>9. OneTaskPerThread'
  <2>1. ASSUME NEW p \in DOMAIN tasks'
        PROVE  /\ tasks'[p] = tasks[p] /\ p \in DOMAIN tasks
               /\ event_queues'[tasks[p].worker][tasks[p].thread]
                    = event_queues[tasks[p].worker][tasks[p].thread]
    BY <1>2, <1>4, <1>6 DEF Task
  <2> QED
    BY <1>5, <2>1 DEF OneTaskPerThread, DictsAgree
<1> QED
  BY <1>7, <1>8, <1>9

\* The only new task there can be is one with a new id.
OldTasksSame ==
  \A q \in DOMAIN tasks' : q <= last =>
    /\ q \in DOMAIN tasks
    /\ tasks'[q].worker = tasks[q].worker
    /\ tasks'[q].thread = tasks[q].thread

\* A main loop in _handle_user_event keeps what it looked up until it is done.
LEMMA LookedUpKeeps ==
  ASSUME IInv, Stable, OldTasksSame, TasksInv',
         \A w \in Workers :
           \/ queue'[w] = 0
           \/ /\ queue'[w] = queue[w]
              /\ reader'[w].pc = "handle" => reader'[w] = reader[w]
  PROVE  LookedUp'
<1> SUFFICES ASSUME NEW w \in Workers
             PROVE  /\ queue'[w] <= last'
                    /\ reader'[w].pc = "handle" /\ queue'[w] \in DOMAIN tasks' =>
                         /\ tasks'[queue'[w]].worker = w
                         /\ tasks'[queue'[w]].thread = stream'[reader'[w].cur].thread
  BY DEF LookedUp
<1>0. queue[w] <= last /\ queue[w] \in Nat
  BY DEF IInv, LookedUp, RestTyped
<1>1. CASE queue'[w] = 0
  BY <1>1 DEF Stable, TasksInv, TasksTyped
<1>2. CASE queue'[w] = queue[w] /\ reader'[w].pc # "handle"
  BY <1>0, <1>2 DEF Stable
<1>3. CASE queue'[w] = queue[w] /\ reader'[w] = reader[w] /\ reader[w].pc = "handle"
  <2>1. reader[w].cur \in 1..Len(stream)
    BY <1>3 DEF IInv, ECP!IInv, ECP!HandsFull, ECP!TypeOK
  <2>2. stream'[reader[w].cur] = stream[reader[w].cur]
    BY <2>1 DEF Stable
  <2>3. queue[w] \in DOMAIN tasks' =>
          /\ tasks'[queue[w]].worker = w
          /\ tasks'[queue[w]].thread = stream[reader[w].cur].thread
    BY <1>0, <1>3 DEF OldTasksSame, IInv, LookedUp
  <2> QED
    BY <1>0, <1>3, <2>2, <2>3 DEF Stable
<1> QED
  BY <1>1, <1>2, <1>3

\* queue.put: no task comes or goes, and a run that begins is recorded.
LEMMA PutKeeps ==
  ASSUME TasksInv, RestTyped, NEW w \in Workers, NEW n \in Nat \ {0}, NEW q,
         Put(q, w, n)
  PROVE  /\ SameTasks
         /\ started' \in Seq([msg : Nat \ {0}, worker : Workers])
<1> USE DEF TasksInv, TasksTyped, RestTyped
<1>1. CASE q \notin DOMAIN tasks /\ UNCHANGED <<tasks, started>>
  BY <1>1 DEF SameTasks
<1>2. CASE q \in DOMAIN tasks /\ Run(q, w, n)
  <2>1. [msg |-> n, worker |-> w] \in [msg : Nat \ {0}, worker : Workers]
    OBVIOUS
  <2>2. SameTasks
    BY <1>2 DEF Run, SameTasks, Task, TaskPc
  <2> QED
    BY <1>2, <2>1, <2>2 DEF Run
<1>3. CASE /\ q \in DOMAIN tasks
           /\ tasks' = [tasks EXCEPT ![q].items = Append(@, n)]
           /\ UNCHANGED started
  <2>1. Append(tasks[q].items, n) \in Seq(Nat \ {0})
    BY <1>3 DEF Task
  <2> QED
    BY <1>3, <2>1 DEF SameTasks, Task
<1> QED
  BY <1>1, <1>2, <1>3 DEF Put

-----------------------------------------------------------------------------

\* The steps of the queue tasks.
LEMMA TaskStepIInv ==
  ASSUME IInv, Stable, NEW q \in DOMAIN tasks, TaskStep(q) \/ DoneRaises(q)
  PROVE  IInv'
<1> USE DEF IInv
<1>0. /\ tasks[q] \in Task /\ tasks[q].worker \in Workers
      /\ tasks[q].thread \in Threads /\ tasks[q].cur \in Nat
  BY DEF TasksInv, TasksTyped, Task
<1>1. UNCHANGED <<queue, phase, announced, calls, reader>>
  BY DEF TaskStep, Take, IdleTimeout, AgentReturns, AgentCancelled, PublishDone,
     DoneRaises, DoneInterrupted, streamVars, histVars
<1>2. ASSUME NEW r \in Task, tasks' = [tasks EXCEPT ![q] = r],
             r.worker = tasks[q].worker, r.thread = tasks[q].thread
      PROVE  SameTasks
  BY <1>2 DEF SameTasks, TasksInv, TasksTyped
<1>3. \/ Finish(q)
      \/ SameTasks /\ UNCHANGED <<event_queues, queue_tasks>>
  <2>1. ASSUME NextRound(q)
        PROVE  \/ Finish(q)
               \/ SameTasks /\ UNCHANGED <<event_queues, queue_tasks>>
    <3> DEFINE r == [tasks[q] EXCEPT !.pc = "get", !.cur = 0]
    <3>1. /\ r \in Task
          /\ r.worker = tasks[q].worker /\ r.thread = tasks[q].thread
      BY <1>0 DEF Task, TaskPc
    <3>2. \/ Finish(q)
          \/ /\ tasks' = [tasks EXCEPT ![q] = r]
             /\ UNCHANGED <<event_queues, queue_tasks>>
      BY <2>1 DEF NextRound
    <3> HIDE DEF r
    <3> QED
      BY <1>2, <3>1, <3>2
  <2>2. CASE Take(q)
    <3>1. /\ Head(tasks[q].items) \in Nat \ {0}
          /\ Tail(tasks[q].items) \in Seq(Nat \ {0})
      BY <1>0, <2>2 DEF Take, Task
    <3> DEFINE r == [tasks[q] EXCEPT !.pc = "run", !.cur = Head(tasks[q].items),
                                     !.items = Tail(@)]
    <3>2. /\ r \in Task
          /\ r.worker = tasks[q].worker /\ r.thread = tasks[q].thread
      BY <1>0, <3>1 DEF Task, TaskPc
    <3>3. /\ tasks' = [tasks EXCEPT ![q] = r]
          /\ UNCHANGED <<event_queues, queue_tasks>>
      BY <2>2 DEF Take
    <3> HIDE DEF r
    <3> QED
      BY <1>2, <3>2, <3>3
  <2>3. CASE AgentReturns(q) \/ AgentCancelled(q)
    <3>1. PICK pc \in TaskPc : tasks' = [tasks EXCEPT ![q].pc = pc]
      BY <2>3 DEF AgentReturns, AgentCancelled, TaskPc
    <3>2. /\ [tasks[q] EXCEPT !.pc = pc] \in Task
          /\ [tasks[q] EXCEPT !.pc = pc].worker = tasks[q].worker
          /\ [tasks[q] EXCEPT !.pc = pc].thread = tasks[q].thread
      BY <1>0 DEF Task
    <3> QED
      BY <1>2, <2>3, <3>1, <3>2 DEF AgentReturns, AgentCancelled
  <2> QED
    BY <2>1, <2>2, <2>3 DEF TaskStep, IdleTimeout, PublishDone, DoneRaises,
       DoneInterrupted
<1>4. TasksInv'
  BY <1>1, <1>3, FinishKeeps, SameTasksKeep
<1>5. RestTyped'
  <2>1. started' \in Seq([msg : Nat \ {0}, worker : Workers])
    <3>1. CASE Take(q)
      <4>1. Head(tasks[q].items) \in Nat \ {0}
        BY <1>0, <3>1 DEF Take, Task
      <4> QED
        BY <1>0, <3>1, <4>1 DEF Take, RestTyped
    <3>2. CASE started' = started
      BY <3>2 DEF RestTyped
    <3> QED
      BY <3>1, <3>2 DEF TaskStep, IdleTimeout, AgentReturns, AgentCancelled,
         PublishDone, DoneRaises, DoneInterrupted, histVars
  <2>2. answered' \subseteq Nat
    BY <1>0 DEF TaskStep, Take, IdleTimeout, AgentReturns, AgentCancelled,
       PublishDone, DoneRaises, DoneInterrupted, histVars, RestTyped
  <2> QED
    BY <1>1, <2>1, <2>2 DEF RestTyped
<1>6. LoopsWhenUp'
  BY <1>1 DEF LoopsWhenUp
<1>7. OldTasksSame
  BY <1>3 DEF OldTasksSame, SameTasks, Finish
<1> QED
  BY <1>1, <1>4, <1>5, <1>6, <1>7, LookedUpKeeps DEF Stable

\* A step of a main loop that neither starts it nor makes a queue.
LEMMA LoopsKeep ==
  ASSUME LoopsWhenUp, NEW w \in Workers,
         phase[w] = "up" \/ reader'[w] = reader[w] \/ reader'[w].pc = "ended",
         \A v \in Workers \ {w} : reader'[v] = reader[v],
         UNCHANGED phase
  PROVE  LoopsWhenUp'
BY DEF LoopsWhenUp

\* Only the main loop's own place changes.
LEMMA GotoFrame ==
  ASSUME ECP!IInv, NEW w \in Workers, NEW pc, NEW cur, EC!Goto(w, pc, cur)
  PROVE  /\ reader'[w] = [pc |-> pc, cur |-> cur]
         /\ \A v \in Workers \ {w} : reader'[v] = reader[v]
BY DEF EC!Goto, ECP!IInv, ECP!TypeOK

\* Steps of a main loop that touch no task.
LEMMA LoopStepIInv ==
  ASSUME IInv, Stable, NEW w \in Workers,
         \/ CreateGroup(w) \/ Ack(w) \/ Ignore(w)
         \/ LoseReply(w) \/ RedisFails(w) \/ QueuedRaises(w)
  PROVE  IInv'
<1> USE DEF IInv
<1>1. UNCHANGED <<taskVars, phase, histVars, calls>>
  BY DEF CreateGroup, Ack, Ignore, LoseReply, RedisFails, QueuedRaises,
     workerVars
<1>2. queue' = queue \/ queue' = [queue EXCEPT ![w] = 0]
  BY DEF CreateGroup, Ack, Ignore, LoseReply, RedisFails, QueuedRaises,
     workerVars
<1>3. /\ \A v \in Workers \ {w} : reader'[v] = reader[v]
      /\ reader'[w] = reader[w] \/ reader'[w].pc \in {"read", "ack", "ended"}
      /\ \/ reader'[w] = reader[w] \/ reader'[w].pc = "ended"
         \/ reader[w].pc \in {"create", "read", "ack"}
  <2>1. \/ UNCHANGED reader
        \/ \E pc \in {"read", "ack", "ended"}, cur \in {0, EC!NextId} :
             /\ EC!Goto(w, pc, cur)
             /\ pc = "ended" \/ reader[w].pc \in {"create", "read", "ack"}
    BY DEF CreateGroup, Ack, Ignore, LoseReply, RedisFails, QueuedRaises,
       EC!CreateGroup, EC!Ack, EC!DeliverAndHandle, EC!LoseReply,
       EC!RedisFails, EC!Abandon
  <2>2. ASSUME NEW pc \in {"read", "ack", "ended"}, NEW cur, EC!Goto(w, pc, cur)
        PROVE  /\ reader'[w].pc = pc
               /\ \A v \in Workers \ {w} : reader'[v] = reader[v]
    BY <2>2 DEF EC!Goto, ECP!IInv, ECP!TypeOK
  <2> QED
    BY <2>1, <2>2
<1>4. TasksInv'
  <2>1. SameTasks
    BY <1>1 DEF taskVars, SameTasks, TasksInv, TasksTyped
  <2> QED
    BY <1>1, <2>1, SameTasksKeep DEF taskVars
<1>5. RestTyped'
  BY <1>1, <1>2 DEF RestTyped, histVars
<1>6. LoopsWhenUp'
  BY <1>1, <1>3, LoopsKeep DEF LoopsWhenUp
<1>7. OldTasksSame
  BY <1>1 DEF OldTasksSame, taskVars
<1>8. LookedUp'
  <2>1. ASSUME NEW v \in Workers
        PROVE  \/ queue'[v] = 0
               \/ /\ queue'[v] = queue[v]
                  /\ reader'[v].pc = "handle" => reader'[v] = reader[v]
    BY <1>2, <1>3 DEF RestTyped
  <2> QED
    BY <1>4, <1>7, <2>1, LookedUpKeeps
<1> QED
  BY <1>4, <1>5, <1>6, <1>8 DEF Stable

LEMMA StartIInv == ASSUME IInv, Stable, NEW w \in Workers, Start(w) PROVE IInv'
<1> USE DEF IInv
<1>1. /\ phase[w] = "down" /\ phase' = [phase EXCEPT ![w] = "up"]
      /\ UNCHANGED <<taskVars, queue, histVars, calls>>
  BY DEF Start
<1>2. /\ reader'[w] = [pc |-> "create", cur |-> 0]
      /\ \A v \in Workers \ {w} : reader'[v] = reader[v]
  BY GotoFrame DEF Start, EC!Consume
<1>3. \A q \in DOMAIN tasks : tasks[q].worker \in Workers \ {w}
  BY <1>1 DEF TasksInv, TasksTyped, DownIsEmpty, Task
<1>4. TasksInv'
  <2>1. TasksTyped' /\ DeliveredIds'
    BY <1>1 DEF taskVars, TasksInv, TasksTyped, DeliveredIds, Stable
  <2>2. DictsAgree'
    BY <1>1 DEF taskVars, TasksInv, DictsAgree
  <2>3. \A q \in DOMAIN tasks : phase'[tasks[q].worker] = phase[tasks[q].worker]
    BY <1>1, <1>3 DEF RestTyped
  <2>4. DownIsEmpty' /\ OneTaskPerThread'
    BY <1>1, <2>3 DEF taskVars, TasksInv, DownIsEmpty, OneTaskPerThread
  <2> QED
    BY <2>1, <2>2, <2>4 DEF TasksInv
<1>5. RestTyped'
  BY <1>1 DEF RestTyped, histVars
<1>6. LoopsWhenUp'
  BY <1>1, <1>2 DEF LoopsWhenUp, RestTyped
<1>7. OldTasksSame
  BY <1>1 DEF OldTasksSame, taskVars
<1>8. \A v \in Workers : reader'[v].pc = "handle" => reader'[v] = reader[v]
  BY <1>2
<1> QED
  BY <1>1, <1>4, <1>5, <1>6, <1>7, <1>8, LookedUpKeeps DEF Stable

\* The next entry is in the stream, and its thread is one of Threads.
LEMMA NextEntry ==
  ASSUME ECP!IInv, EC!NextId <= Len(stream)
  PROVE  /\ EC!NextId \in Nat \ {0} /\ EC!NextId > last
         /\ EC!NextId \in 1..Len(stream)
         /\ ThreadOfNext \in Threads
<1>1. /\ last \in Nat /\ trimmed \in Nat /\ Len(stream) \in Nat
      /\ stream \in Seq(Events)
  BY DEF ECP!IInv, ECP!TypeOK
<1>2. EC!NextId \in 1..Len(stream) /\ EC!NextId > last
  BY <1>1 DEF EC!NextId
<1>3. stream[EC!NextId] \in Events
  BY <1>1, <1>2
<1> QED
  BY <1>2, <1>3 DEF ThreadOfNext, Events

\* A message for a thread without a queue: a new queue, a new task.
LEMMA UserNewQueueIInv ==
  ASSUME IInv, Stable, NEW w \in Workers, UserNewQueue(w) PROVE IInv'
<1> USE DEF IInv
<1> DEFINE n == EC!NextId
           t == ThreadOfNext
           new == [worker |-> w, thread |-> t, items |-> <<>>, pc |-> "run",
                   cur |-> n]
<1>1. /\ event_queues[w][t] = 0
      /\ EC!DeliverAndHandle(w)
      /\ tasks' = [q \in DOMAIN tasks \union {n} |->
                     IF q = n THEN new ELSE tasks[q]]
      /\ started' = Append(started, [msg |-> n, worker |-> w])
      /\ event_queues' = [event_queues EXCEPT ![w][t] = n]
      /\ queue_tasks' = [queue_tasks EXCEPT ![w][t] = n]
      /\ UNCHANGED <<queue, phase, announced, answered, calls>>
  BY DEF UserNewQueue
<1>2. n \in Nat \ {0} /\ n > last /\ t \in Threads
  BY NextEntry DEF UserNewQueue, Arrives
<1>3. last' = n
  BY <1>1 DEF EC!DeliverAndHandle, EC!XReadGroup
<1>4. phase[w] = "up"
  BY <1>1 DEF EC!DeliverAndHandle, LoopsWhenUp
<1>5. new \in Task
  BY <1>2 DEF Task, TaskPc
<1>6. /\ reader'[w].pc = "ack"
      /\ \A v \in Workers \ {w} : reader'[v] = reader[v]
  BY <1>1 DEF EC!DeliverAndHandle, EC!Goto, ECP!IInv, ECP!TypeOK
<1> HIDE DEF n, t, new
<1>7. n \notin DOMAIN tasks
  BY <1>2 DEF TasksInv, DeliveredIds, TasksTyped, Stable
<1>8. /\ DOMAIN tasks' = DOMAIN tasks \union {n}
      /\ tasks'[n] = new /\ new.worker = w /\ new.thread = t
      /\ \A q \in DOMAIN tasks : tasks'[q] = tasks[q] /\ q # n
  BY <1>1, <1>7 DEF new
<1>9. \A v \in Workers, s \in Threads :
        event_queues'[v][s] = IF v = w /\ s = t THEN n ELSE event_queues[v][s]
  BY <1>1, <1>2 DEF TasksInv, TasksTyped
<1>10. \A q \in DOMAIN tasks : ~ (tasks[q].worker = w /\ tasks[q].thread = t)
  BY <1>1, <1>4 DEF TasksInv, TasksTyped, OneTaskPerThread
<1>11. TasksInv'
  <2>1. TasksTyped' /\ DeliveredIds'
    BY <1>1, <1>2, <1>3, <1>5, <1>8 DEF TasksInv, TasksTyped, DeliveredIds, Stable
  <2>2. event_queues' = queue_tasks'
    BY <1>1 DEF TasksInv, DictsAgree
  <2>3. DictsAgree'
    BY <1>8, <1>9, <2>2 DEF TasksInv, DictsAgree
  <2>4. DownIsEmpty'
    BY <1>1, <1>4, <1>8 DEF TasksInv, DownIsEmpty
  <2>5. ASSUME NEW q \in DOMAIN tasks
        PROVE  event_queues'[tasks[q].worker][tasks[q].thread]
                 = event_queues[tasks[q].worker][tasks[q].thread]
    BY <1>9, <1>10 DEF TasksInv, TasksTyped, Task
  <2>6. ASSUME NEW q \in DOMAIN tasks',
               phase'[tasks'[q].worker] \in {"up", "stopping"}
        PROVE  event_queues'[tasks'[q].worker][tasks'[q].thread] = q
    BY <1>1, <1>2, <1>8, <1>9, <2>5, <2>6 DEF TasksInv, OneTaskPerThread
  <2>7. ASSUME NEW p \in DOMAIN tasks', NEW q \in DOMAIN tasks',
               tasks'[p].worker = tasks'[q].worker,
               tasks'[p].thread = tasks'[q].thread
        PROVE  p = q
    BY <1>8, <1>10, <2>7 DEF TasksInv, OneTaskPerThread
  <2>8. OneTaskPerThread'
    BY <2>2, <2>6, <2>7 DEF OneTaskPerThread
  <2> QED
    BY <2>1, <2>3, <2>4, <2>8 DEF TasksInv
<1>12. RestTyped'
  BY <1>1, <1>2 DEF RestTyped
<1>13. LoopsWhenUp'
  BY <1>1, <1>4, <1>6, LoopsKeep
<1>14. LookedUp'
  <2>1. OldTasksSame
    BY <1>2, <1>8 DEF OldTasksSame, Stable
  <2> QED
    BY <1>1, <1>6, <1>11, <2>1, LookedUpKeeps
<1> QED
  BY <1>11, <1>12, <1>13, <1>14 DEF Stable

\* A message for a thread whose queue is empty, or after QUEUED is published.
LEMMA PutIInv ==
  ASSUME IInv, Stable, NEW w \in Workers, UserPut(w) \/ PublishQueued(w)
  PROVE  IInv'
<1> USE DEF IInv
<1>1. /\ UNCHANGED <<event_queues, queue_tasks, phase, answered, calls>>
      /\ queue' = queue \/ queue' = [queue EXCEPT ![w] = 0]
      /\ announced' = announced \/ announced' = announced \union {reader[w].cur}
  BY DEF UserPut, PublishQueued
<1>2. PICK q \in Nat, n \in Nat \ {0} : Put(q, w, n)
  <2>1. CASE UserPut(w)
    <3>1. ThreadOfNext \in Threads /\ EC!NextId \in Nat \ {0}
      BY <2>1, NextEntry DEF UserPut, Arrives
    <3>2. event_queues[w][ThreadOfNext] \in Nat
      BY <3>1 DEF TasksInv, TasksTyped
    <3> QED
      BY <2>1, <3>1, <3>2 DEF UserPut
  <2>2. CASE PublishQueued(w)
    <3>1. reader[w].cur \in Nat \ {0}
      BY <2>2 DEF PublishQueued, EC!Handled, ECP!IInv, ECP!HandsFull, ECP!TypeOK
    <3>2. queue[w] \in Nat
      BY DEF RestTyped
    <3> QED
      BY <2>2, <3>1, <3>2 DEF PublishQueued
  <2> QED
    BY <2>1, <2>2
<1>3. SameTasks /\ started' \in Seq([msg : Nat \ {0}, worker : Workers])
  BY <1>2, PutKeeps
<1>4. /\ reader[w].pc \in {"read", "handle"}
      /\ \A v \in Workers \ {w} : reader'[v] = reader[v]
      /\ reader'[w].pc = "ack"
  BY DEF UserPut, PublishQueued, EC!DeliverAndHandle, EC!Handled, EC!Goto,
     ECP!IInv, ECP!TypeOK
<1>5. TasksInv'
  BY <1>1, <1>3, SameTasksKeep
<1>6. RestTyped'
  <2>1. reader[w].cur \in Nat
    BY DEF ECP!IInv, ECP!TypeOK, Stable
  <2>2. announced' \subseteq Nat
    BY <1>1, <2>1 DEF RestTyped
  <2>3. queue' \in [Workers -> Nat]
    BY <1>1 DEF RestTyped
  <2>4. /\ phase' = phase /\ answered' = answered /\ calls' = calls
        /\ started' \in Seq([msg : Nat \ {0}, worker : Workers])
    BY <1>1, <1>3
  <2> QED
    BY <2>2, <2>3, <2>4 DEF RestTyped
<1>7. LoopsWhenUp'
  BY <1>1, <1>4, LoopsKeep DEF LoopsWhenUp
<1>8. OldTasksSame
  BY <1>3 DEF OldTasksSame, SameTasks
<1>9. \A v \in Workers :
        \/ queue'[v] = 0
        \/ /\ queue'[v] = queue[v]
           /\ reader'[v].pc = "handle" => reader'[v] = reader[v]
  BY <1>1, <1>4 DEF RestTyped
<1> QED
  BY <1>5, <1>6, <1>7, <1>8, <1>9, LookedUpKeeps DEF Stable

\* A message that has to wait: its queue is looked up before QUEUED is published.
LEMMA UserQueuedIInv ==
  ASSUME IInv, Stable, NEW w \in Workers, UserQueued(w) PROVE IInv'
<1> USE DEF IInv
<1> DEFINE n == EC!NextId
           q == event_queues[w][ThreadOfNext]
<1>1. /\ q # 0
      /\ queue' = [queue EXCEPT ![w] = q]
      /\ UNCHANGED <<taskVars, phase, histVars, calls>>
      /\ reader[w].pc = "read"
      /\ last' = n
  BY DEF UserQueued, EC!Deliver, EC!XReadGroup
<1>2. n \in 1..Len(stream) /\ ThreadOfNext \in Threads
  BY NextEntry DEF UserQueued, Arrives
<1>3. /\ reader'[w] = [pc |-> "handle", cur |-> n]
      /\ \A v \in Workers \ {w} : reader'[v] = reader[v]
  BY DEF UserQueued, EC!Deliver, EC!Goto, ECP!IInv, ECP!TypeOK
<1>4. /\ q \in DOMAIN tasks /\ q \in Nat /\ q <= last
      /\ tasks[q].worker = w /\ tasks[q].thread = stream'[n].thread
  BY <1>1, <1>2 DEF TasksInv, TasksTyped, DictsAgree, DeliveredIds,
     ThreadOfNext, Stable
<1> HIDE DEF n, q
<1>5. TasksInv'
  <2>1. SameTasks
    BY <1>1 DEF taskVars, SameTasks, TasksInv, TasksTyped
  <2> QED
    BY <1>1, <2>1, SameTasksKeep DEF taskVars
<1>6. RestTyped'
  BY <1>1, <1>4 DEF RestTyped, histVars
<1>7. LoopsWhenUp'
  BY <1>1, <1>3, LoopsKeep DEF LoopsWhenUp
<1>8. LookedUp'
  <2>1. \A v \in Workers \ {w} :
          /\ queue'[v] = queue[v] /\ queue[v] \in Nat
          /\ reader'[v] = reader[v]
          /\ reader[v].pc = "handle" => reader[v].cur \in 1..Len(stream)
    BY <1>1, <1>3 DEF RestTyped, ECP!IInv, ECP!HandsFull, ECP!TypeOK
  <2>2. ASSUME NEW v \in Workers \ {w}
        PROVE  /\ queue'[v] <= last'
               /\ reader'[v].pc = "handle" /\ queue'[v] \in DOMAIN tasks' =>
                    /\ tasks'[queue'[v]].worker = v
                    /\ tasks'[queue'[v]].thread = stream'[reader'[v].cur].thread
    BY <1>1, <2>1 DEF LookedUp, Stable, taskVars
  <2>3. /\ queue'[w] <= last'
        /\ tasks'[queue'[w]].worker = w
        /\ tasks'[queue'[w]].thread = stream'[reader'[w].cur].thread
    BY <1>1, <1>3, <1>4 DEF RestTyped, taskVars, Stable
  <2> QED
    BY <2>2, <2>3 DEF LookedUp
<1> QED
  BY <1>5, <1>6, <1>7, <1>8 DEF Stable

\* STOP ends a task that waits and marks one that runs; the task stays.
LEMMA StopIInv == ASSUME IInv, Stable, NEW w \in Workers, Stop(w) PROVE IInv'
<1> USE DEF IInv
<1>1. UNCHANGED <<queue, phase, histVars, calls>>
  BY DEF Stop
<1>2. /\ reader[w].pc = "read" /\ reader'[w].pc = "ack"
      /\ \A v \in Workers \ {w} : reader'[v] = reader[v]
  BY DEF Stop, EC!DeliverAndHandle, EC!Goto, ECP!IInv, ECP!TypeOK
<1> DEFINE q == queue_tasks[w][ThreadOfNext]
<1>3. ThreadOfNext \in Threads
  BY NextEntry DEF Stop, Arrives
<1>4. q # 0 => q \in DOMAIN tasks
  BY <1>3 DEF TasksInv, DictsAgree
<1>5. \/ UNCHANGED taskVars
      \/ q \in DOMAIN tasks /\ Finish(q)
      \/ /\ q \in DOMAIN tasks
         /\ tasks' = [tasks EXCEPT ![q] = Cancelled(tasks[q])]
         /\ UNCHANGED <<event_queues, queue_tasks>>
  BY <1>4 DEF Stop
<1> HIDE DEF q
<1>6. TasksInv' /\ OldTasksSame
  <2>1. CASE q \in DOMAIN tasks /\ Finish(q)
    BY <1>1, <2>1, FinishKeeps DEF OldTasksSame, Finish
  <2>2. ASSUME SameTasks, UNCHANGED <<event_queues, queue_tasks>>
        PROVE  TasksInv' /\ OldTasksSame
    BY <1>1, <2>2, SameTasksKeep DEF OldTasksSame, SameTasks
  <2>3. CASE UNCHANGED taskVars
    BY <2>2, <2>3 DEF SameTasks, taskVars, TasksInv, TasksTyped
  <2>4. CASE /\ q \in DOMAIN tasks
             /\ tasks' = [tasks EXCEPT ![q] = Cancelled(tasks[q])]
             /\ UNCHANGED <<event_queues, queue_tasks>>
    <3>1. /\ Cancelled(tasks[q]) \in Task
          /\ Cancelled(tasks[q]).worker = tasks[q].worker
          /\ Cancelled(tasks[q]).thread = tasks[q].thread
      BY <2>4 DEF Cancelled, TasksInv, TasksTyped, Task, TaskPc
    <3>2. SameTasks
      BY <2>4, <3>1 DEF SameTasks, TasksInv, TasksTyped
    <3> QED
      BY <2>2, <2>4, <3>2
  <2> QED
    BY <1>5, <2>1, <2>3, <2>4
<1>7. RestTyped'
  BY <1>1 DEF RestTyped, histVars
<1>8. LoopsWhenUp'
  BY <1>1, <1>2, LoopsKeep DEF LoopsWhenUp
<1>9. \A v \in Workers : reader'[v].pc = "handle" => reader'[v] = reader[v]
  BY <1>2
<1> QED
  BY <1>1, <1>6, <1>7, <1>8, <1>9, LookedUpKeeps DEF Stable

-----------------------------------------------------------------------------

\* The outside is counted within its bounds.
LEMMA CallsKeep ==
  ASSUME RestTyped,
         \/ UNCHANGED calls
         \/ calls.user < MaxUsers /\ calls' = [calls EXCEPT !.user = @ + 1]
         \/ calls.stop < MaxStops /\ calls' = [calls EXCEPT !.stop = @ + 1]
         \/ calls.crash < MaxCrashes /\ calls' = [calls EXCEPT !.crash = @ + 1]
  PROVE  calls' \in [user : 0..MaxUsers, stop : 0..MaxStops,
                     crash : 0..MaxCrashes]
<1>1. MaxUsers \in Nat /\ MaxStops \in Nat /\ MaxCrashes \in Nat
  BY AWAssumption DEF AWAssumption
<1>2. /\ calls = [user |-> calls.user, stop |-> calls.stop, crash |-> calls.crash]
      /\ calls.user \in 0..MaxUsers /\ calls.stop \in 0..MaxStops
      /\ calls.crash \in 0..MaxCrashes
  BY DEF RestTyped
<1>3. \/ UNCHANGED calls
      \/ /\ calls.user < MaxUsers
         /\ calls' = [user |-> calls.user + 1, stop |-> calls.stop,
                      crash |-> calls.crash]
      \/ /\ calls.stop < MaxStops
         /\ calls' = [user |-> calls.user, stop |-> calls.stop + 1,
                      crash |-> calls.crash]
      \/ /\ calls.crash < MaxCrashes
         /\ calls' = [user |-> calls.user, stop |-> calls.stop,
                      crash |-> calls.crash + 1]
  BY <1>2
<1> QED
  BY <1>1, <1>2, <1>3

LEMMA CancelMainIInv ==
  ASSUME IInv, Stable, NEW w \in Workers, CancelMain(w) PROVE IInv'
<1> USE DEF IInv
<1>1. /\ phase[w] = "up" /\ phase' = [phase EXCEPT ![w] = "stopping"]
      /\ calls' = [calls EXCEPT !.crash = @ + 1] /\ calls.crash < MaxCrashes
      /\ queue' = [queue EXCEPT ![w] = 0]
      /\ UNCHANGED <<taskVars, histVars>>
  BY DEF CancelMain
<1>2. /\ reader'[w].pc = "ended"
      /\ \A v \in Workers \ {w} : reader'[v] = reader[v]
  BY DEF CancelMain, EC!Abandon, EC!Goto, ECP!IInv, ECP!TypeOK
<1>3. TasksInv'
  <2>1. TasksTyped' /\ DeliveredIds'
    BY <1>1 DEF taskVars, TasksInv, TasksTyped, DeliveredIds, Stable
  <2>2. DictsAgree'
    BY <1>1 DEF taskVars, TasksInv, DictsAgree
  <2>3. \A v \in Workers :
          /\ phase'[v] = "down" => phase[v] = "down"
          /\ phase'[v] \in {"up", "stopping"} => phase[v] \in {"up", "stopping"}
    BY <1>1 DEF RestTyped
  <2>4. \A q \in DOMAIN tasks : tasks[q].worker \in Workers
    BY DEF TasksInv, TasksTyped, Task
  <2>5. DownIsEmpty' /\ OneTaskPerThread'
    BY <1>1, <2>3, <2>4 DEF taskVars, TasksInv, DownIsEmpty, OneTaskPerThread
  <2> QED
    BY <2>1, <2>2, <2>5 DEF TasksInv
<1>4. RestTyped'
  <2>1. calls' \in [user : 0..MaxUsers, stop : 0..MaxStops, crash : 0..MaxCrashes]
    BY <1>1, CallsKeep
  <2> QED
    BY <1>1, <2>1 DEF RestTyped, histVars
<1>5. LoopsWhenUp'
  BY <1>1, <1>2 DEF LoopsWhenUp, RestTyped
<1>6. OldTasksSame
  BY <1>1 DEF OldTasksSame, taskVars
<1>7. \A v \in Workers :
        \/ queue'[v] = 0
        \/ /\ queue'[v] = queue[v]
           /\ reader'[v].pc = "handle" => reader'[v] = reader[v]
  BY <1>1, <1>2 DEF RestTyped
<1> QED
  BY <1>3, <1>4, <1>5, <1>6, <1>7, LookedUpKeeps DEF Stable

\* What is left of the tasks and dictionaries when a worker's are cleared, in
\* a process that is not up any more.
LEMMA ClearKeeps ==
  ASSUME TasksInv, Stable, NEW w \in Workers, NEW S \in SUBSET DOMAIN tasks,
         DOMAIN tasks' = S,
         \A q \in S : /\ tasks'[q] \in Task
                      /\ tasks'[q].worker = tasks[q].worker
                      /\ tasks'[q].thread = tasks[q].thread,
         \A q \in DOMAIN tasks : tasks[q].worker # w => q \in S,
         event_queues' = Clear(event_queues, w),
         queue_tasks' = Clear(queue_tasks, w),
         phase'[w] \notin {"up", "stopping"},
         phase'[w] = "down" => \A q \in S : tasks[q].worker # w,
         \A v \in Workers \ {w} : phase'[v] = phase[v]
  PROVE  TasksInv' /\ OldTasksSame
<1> USE DEF TasksInv, TasksTyped
<1>1. \A v \in Workers, t \in Threads :
        event_queues'[v][t] = IF v = w THEN 0 ELSE event_queues[v][t]
  BY DEF Clear
<1>2. event_queues' = queue_tasks'
  BY DEF DictsAgree
<1>3. TasksTyped' /\ DeliveredIds'
  BY DEF Clear, DeliveredIds, Stable
<1>4. \A q \in S : /\ tasks[q].worker \in Workers
                   /\ tasks[q].thread \in Threads
  BY DEF Task
<1>5. DictsAgree'
  BY <1>1, <1>2 DEF DictsAgree
<1>6. DownIsEmpty'
  BY <1>4 DEF DownIsEmpty
<1>7. OneTaskPerThread'
  <2>1. ASSUME NEW q \in S, phase'[tasks[q].worker] \in {"up", "stopping"}
        PROVE  event_queues'[tasks[q].worker][tasks[q].thread] = q
    <3>1. tasks[q].worker # w /\ phase'[tasks[q].worker] = phase[tasks[q].worker]
      BY <1>4, <2>1
    <3>2. event_queues[tasks[q].worker][tasks[q].thread] = q
      BY <2>1, <3>1 DEF OneTaskPerThread
    <3> QED
      BY <1>1, <1>4, <3>1, <3>2
  <2>2. ASSUME NEW a \in S, NEW b \in S,
               tasks[a].worker = tasks[b].worker,
               tasks[a].thread = tasks[b].thread
        PROVE  a = b
    BY <2>2 DEF OneTaskPerThread
  <2> QED
    BY <1>2, <2>1, <2>2 DEF OneTaskPerThread
<1>8. OldTasksSame
  BY DEF OldTasksSame
<1> QED
  BY <1>3, <1>5, <1>6, <1>7, <1>8

LEMMA CancelQueuesIInv ==
  ASSUME IInv, Stable, NEW w \in Workers, CancelQueues(w) PROVE IInv'
<1> USE DEF IInv
<1> DEFINE S == {p \in DOMAIN tasks : tasks[p].worker = w => ~Idle(p)}
<1>1. /\ phase[w] = "stopping" /\ phase' = [phase EXCEPT ![w] = "stopped"]
      /\ UNCHANGED <<streamVars, queue, histVars, calls>>
      /\ tasks' = [q \in S |-> IF tasks[q].worker = w THEN Cancelled(tasks[q])
                                                      ELSE tasks[q]]
      /\ event_queues' = Clear(event_queues, w)
      /\ queue_tasks' = Clear(queue_tasks, w)
  BY DEF CancelQueues
<1>2. \A q \in S : /\ tasks'[q] \in Task
                   /\ tasks'[q].worker = tasks[q].worker
                   /\ tasks'[q].thread = tasks[q].thread
  BY <1>1 DEF Cancelled, TasksInv, TasksTyped, Task, TaskPc
<1>3. /\ phase'[w] = "stopped"
      /\ \A v \in Workers \ {w} : phase'[v] = phase[v]
  BY <1>1 DEF RestTyped
<1>4. S \in SUBSET DOMAIN tasks /\ DOMAIN tasks' = S
  BY <1>1
<1>5. \A q \in DOMAIN tasks : tasks[q].worker # w => q \in S
  OBVIOUS
<1> HIDE DEF S
<1>6. TasksInv' /\ OldTasksSame
  BY <1>1, <1>2, <1>3, <1>4, <1>5, ClearKeeps
<1>7. RestTyped'
  BY <1>1 DEF RestTyped, histVars
<1>8. LoopsWhenUp'
  BY <1>1, <1>3 DEF LoopsWhenUp, streamVars
<1> QED
  BY <1>1, <1>6, <1>7, <1>8, LookedUpKeeps DEF Stable, streamVars

LEMMA ExitIInv == ASSUME IInv, Stable, NEW w \in Workers, Exit(w) PROVE IInv'
<1> USE DEF IInv
<1> DEFINE S == {p \in DOMAIN tasks : tasks[p].worker # w}
<1>1. /\ phase' = [phase EXCEPT ![w] = "down"]
      /\ queue' = [queue EXCEPT ![w] = 0]
      /\ \/ UNCHANGED calls
         \/ calls.crash < MaxCrashes /\ calls' = [calls EXCEPT !.crash = @ + 1]
      /\ tasks' = [q \in S |-> tasks[q]]
      /\ event_queues' = Clear(event_queues, w)
      /\ queue_tasks' = Clear(queue_tasks, w)
      /\ UNCHANGED histVars
  BY DEF Exit
<1>2. /\ reader'[w].pc = "ended"
      /\ \A v \in Workers \ {w} : reader'[v] = reader[v]
  BY DEF Exit, EC!Abandon, EC!Goto, ECP!IInv, ECP!TypeOK
<1>3. /\ phase'[w] = "down"
      /\ \A v \in Workers \ {w} : phase'[v] = phase[v]
  BY <1>1 DEF RestTyped
<1>4. /\ S \in SUBSET DOMAIN tasks /\ DOMAIN tasks' = S
      /\ \A q \in DOMAIN tasks : tasks[q].worker # w => q \in S
      /\ \A q \in S : tasks[q].worker # w /\ tasks'[q] = tasks[q]
      /\ \A q \in S : tasks[q] \in Task
  BY <1>1 DEF TasksInv, TasksTyped
<1> HIDE DEF S
<1>5. TasksInv' /\ OldTasksSame
  BY <1>1, <1>3, <1>4, ClearKeeps
<1>6. RestTyped'
  <2>1. calls' \in [user : 0..MaxUsers, stop : 0..MaxStops, crash : 0..MaxCrashes]
    BY <1>1, CallsKeep
  <2> QED
    BY <1>1, <2>1 DEF RestTyped, histVars
<1>7. LoopsWhenUp'
  BY <1>2, <1>3 DEF LoopsWhenUp
<1>8. \A v \in Workers :
        \/ queue'[v] = 0
        \/ /\ queue'[v] = queue[v]
           /\ reader'[v].pc = "handle" => reader'[v] = reader[v]
  BY <1>1, <1>2 DEF RestTyped
<1> QED
  BY <1>5, <1>6, <1>7, <1>8, LookedUpKeeps DEF Stable

LEMMA RouteIInv ==
  ASSUME IInv, Stable, NEW t \in Threads, SendMessage(t) \/ StopConversation(t)
  PROVE  IInv'
<1> USE DEF IInv
<1>1. UNCHANGED <<workerVars, reader>>
  BY DEF SendMessage, StopConversation, Publish
<1>2. calls' \in [user : 0..MaxUsers, stop : 0..MaxStops, crash : 0..MaxCrashes]
  BY CallsKeep DEF SendMessage, StopConversation
<1>3. TasksInv'
  <2>1. SameTasks
    BY <1>1 DEF workerVars, taskVars, SameTasks, TasksInv, TasksTyped
  <2> QED
    BY <1>1, <2>1, SameTasksKeep DEF workerVars, taskVars
<1>4. RestTyped'
  BY <1>1, <1>2 DEF RestTyped, workerVars, histVars
<1>5. LoopsWhenUp'
  BY <1>1 DEF LoopsWhenUp, workerVars
<1>6. OldTasksSame
  BY <1>1 DEF OldTasksSame, workerVars, taskVars
<1> QED
  BY <1>1, <1>3, <1>4, <1>5, <1>6, LookedUpKeeps DEF Stable, workerVars

-----------------------------------------------------------------------------

LEMMA InitIInv == ASSUME Init PROVE IInv
<1>1. ECP!ECAssumption
  BY AWAssumption DEF ECP!ECAssumption, AWAssumption
<1>2. ECP!Init
  BY DEF Init, EC!Init, ECP!Init
<1>3. ECP!IInv
  BY <1>1, <1>2, ECP!InitIInv
<1>4. TasksInv
  BY DEF Init, TasksInv, TasksTyped, DictsAgree, DownIsEmpty, DeliveredIds,
     OneTaskPerThread
<1>5. RestTyped
  BY AWAssumption DEF Init, RestTyped, AWAssumption
<1>6. LoopsWhenUp /\ LookedUp
  BY DEF Init, EC!Init, LoopsWhenUp, LookedUp
<1> QED
  BY <1>3, <1>4, <1>5, <1>6 DEF IInv

LEMMA NextIInv == ASSUME IInv, [Next]_vars PROVE IInv'
<1>1. Stable
  BY NextStable
<1>2. CASE UNCHANGED vars
  <2>1. UNCHANGED <<workerVars, reader, calls>>
    BY <1>2 DEF vars, streamVars
  <2>2. TasksInv'
    <3>1. SameTasks
      BY <2>1 DEF workerVars, taskVars, SameTasks, IInv, TasksInv, TasksTyped
    <3> QED
      BY <1>1, <2>1, <3>1, SameTasksKeep DEF workerVars, taskVars, IInv
  <2>3. RestTyped' /\ LoopsWhenUp'
    BY <2>1 DEF IInv, RestTyped, LoopsWhenUp, workerVars, histVars
  <2>4. OldTasksSame
    BY <2>1 DEF OldTasksSame, workerVars, taskVars
  <2> QED
    BY <1>1, <2>1, <2>2, <2>3, <2>4, LookedUpKeeps
       DEF Stable, workerVars, IInv
<1>3. ASSUME NEW q \in DOMAIN tasks, TaskStep(q) \/ DoneRaises(q)
      PROVE  IInv'
  BY <1>1, <1>3, TaskStepIInv
<1>4. ASSUME NEW w \in Workers, MainStep(w) \/ Mishap(w)
      PROVE  IInv'
  BY <1>1, <1>4, StartIInv, LoopStepIInv, UserNewQueueIInv, PutIInv,
     UserQueuedIInv, StopIInv, CancelMainIInv, CancelQueuesIInv, ExitIInv
     DEF MainStep, Mishap
<1>5. ASSUME NEW t \in Threads, SendMessage(t) \/ StopConversation(t)
      PROVE  IInv'
  BY <1>1, <1>5, RouteIInv
<1> QED
  BY <1>2, <1>3, <1>4, <1>5 DEF Next

(***************************************************************************)
(* The theorems                                                            *)
(***************************************************************************)

\* The inductive invariant holds in every state of every instance.
THEOREM Invariant == Spec => []IInv
<1>1. Init => IInv
  BY InitIInv
<1>2. IInv /\ [Next]_vars => IInv'
  BY NextIInv
<1> QED
  BY <1>1, <1>2, PTL DEF Spec

\* Every variable keeps its type, whatever fails and in whichever order.
THEOREM TypeCorrect == Spec => []TypeOK
BY Invariant, IInvImpliesTypeOK, PTL

\* A process never has two tasks for a conversation, and its dictionaries name
\* every task it may have to reach, whatever times out, is stopped or fails.
THEOREM OneTaskPerThreadAlways == Spec => []OneTaskPerThread
<1>1. IInv => OneTaskPerThread
  BY DEF IInv, TasksInv
<1> QED
  BY <1>1, Invariant, PTL

-----------------------------------------------------------------------------
(***************************************************************************)
(* No message is run twice, and a worker runs the messages of a thread in  *)
(* the order of the stream: for any number of processes, conversations,    *)
(* STOPs, Redis failures, timeouts and crashes.                            *)
(*                                                                         *)
(* The argument follows a message from the stream to its run.  The next    *)
(* entry is newer than everything delivered.  A main loop that suspends to *)
(* publish QUEUED holds a message newer than all that its worker has run   *)
(* or queued for the thread, and no later one can overtake it, as the loop *)
(* delivers nothing meanwhile.  A queue is sorted, and newer than the runs *)
(* of its thread, so the run of its head keeps all of this.                *)
(***************************************************************************)

\* Every run so far, with the thread it was for.
Runs == {[msg |-> started[i].msg, worker |-> started[i].worker,
          thread |-> stream[started[i].msg].thread] : i \in DOMAIN started}

\* A run of n by worker w on thread t would come after the runs R.
After(n, w, t, R) ==
  \A r \in R : r.msg # n /\ (r.worker = w /\ r.thread = t => r.msg < n)

RunsDelivered == \A i \in DOMAIN started : started[i].msg \in 1..last

QueuesOrdered ==
  \A q \in DOMAIN tasks : \A k \in DOMAIN tasks[q].items :
    /\ tasks[q].items[k] \in 1..last
    /\ stream[tasks[q].items[k]].thread = tasks[q].thread
    /\ After(tasks[q].items[k], tasks[q].worker, tasks[q].thread, Runs)
    /\ \A j \in DOMAIN tasks[q].items :
         j < k => tasks[q].items[j] < tasks[q].items[k]

QueuesApart ==
  \A p, q \in DOMAIN tasks :
    p # q => \A j \in DOMAIN tasks[p].items, k \in DOMAIN tasks[q].items :
               tasks[p].items[j] # tasks[q].items[k]

\* n is newer than what is queued on worker w for thread t, and queued nowhere.
NewerThanQueued(n, w, t) ==
  \A q \in DOMAIN tasks : \A k \in DOMAIN tasks[q].items :
    /\ tasks[q].items[k] # n
    /\ tasks[q].worker = w /\ tasks[q].thread = t => tasks[q].items[k] < n

HandsOrdered ==
  \A w \in Workers : reader[w].pc = "handle" =>
    /\ After(reader[w].cur, w, stream[reader[w].cur].thread, Runs)
    /\ NewerThanQueued(reader[w].cur, w, stream[reader[w].cur].thread)

\* The inductive invariant, on top of IInv.
OrderInv ==
  /\ RunsDelivered
  /\ QueuesOrdered
  /\ QueuesApart
  /\ HandsOrdered
  /\ RunsInOrder

-----------------------------------------------------------------------------

\* Typing facts that every step below needs.
LEMMA Basics ==
  ASSUME IInv
  PROVE  /\ last \in Nat /\ last <= Len(stream) /\ Len(stream) \in Nat
         /\ started \in Seq([msg : Nat \ {0}, worker : Workers])
         /\ \A q \in DOMAIN tasks : /\ tasks[q] \in Task
                                    /\ tasks[q].items \in Seq(Nat \ {0})
         /\ \A w \in Workers :
              /\ reader[w].cur \in 0..last
              /\ reader[w].pc = "handle" => reader[w].cur \in 1..last
BY DEF IInv, RestTyped, TasksInv, TasksTyped, Task, ECP!IInv, ECP!TypeOK,
       ECP!HandsFull

\* The threads of old entries stay what they are.
LEMMA SameEntries ==
  ASSUME IInv, Stable, NEW n \in 1..last
  PROVE  stream'[n] = stream[n] /\ n \in 1..last'
BY Basics DEF Stable

\* No run begins.
LEMMA RunsKeep ==
  ASSUME IInv, Stable, RunsDelivered, RunsInOrder, UNCHANGED started
  PROVE  Runs' = Runs /\ RunsDelivered' /\ RunsInOrder'
<1>1. \A i \in DOMAIN started : /\ started[i].msg \in 1..last'
                                /\ stream'[started[i].msg] = stream[started[i].msg]
  BY SameEntries DEF RunsDelivered
<1>2. Runs' = Runs
  BY <1>1 DEF Runs
<1>3. RunsDelivered'
  BY <1>1, <1>2 DEF RunsDelivered
<1>4. RunsInOrder'
  BY <1>1 DEF RunsInOrder
<1> QED
  BY <1>2, <1>3, <1>4

\* A run of m by v begins, after those it has to follow.
LEMMA RunsAppend ==
  ASSUME IInv, Stable, RunsDelivered, RunsInOrder,
         NEW m \in 1..last', NEW v \in Workers,
         started' = Append(started, [msg |-> m, worker |-> v]),
         After(m, v, stream'[m].thread, Runs)
  PROVE  /\ Runs' = Runs \union {[msg |-> m, worker |-> v,
                                  thread |-> stream'[m].thread]}
         /\ RunsDelivered' /\ RunsInOrder'
<1>1. /\ DOMAIN started' = DOMAIN started \union {Len(started) + 1}
      /\ DOMAIN started = 1..Len(started) /\ Len(started) \in Nat
  BY Basics
<1>2. /\ \A i \in DOMAIN started : started'[i] = started[i]
      /\ started'[Len(started)+1] = [msg |-> m, worker |-> v]
  BY Basics
<1>3. \A i \in DOMAIN started :
        /\ stream'[started[i].msg] = stream[started[i].msg]
        /\ started[i].msg \in 1..last'
  BY SameEntries DEF RunsDelivered
<1>4. Runs' = Runs \union {[msg |-> m, worker |-> v, thread |-> stream'[m].thread]}
  BY <1>1, <1>2, <1>3 DEF Runs
<1>5. RunsDelivered'
  BY <1>1, <1>2, <1>3 DEF RunsDelivered
<1>6. ASSUME NEW i \in DOMAIN started', NEW j \in DOMAIN started', i < j
      PROVE  /\ started'[i].msg # started'[j].msg
             /\ /\ started'[i].worker = started'[j].worker
                /\ stream'[started'[i].msg].thread = stream'[started'[j].msg].thread
                => started'[i].msg < started'[j].msg
  <2>1. i \in DOMAIN started
    BY <1>1, <1>6
  <2>2. CASE j \in DOMAIN started
    BY <1>2, <1>3, <1>6, <2>1, <2>2 DEF RunsInOrder
  <2>3. CASE j = Len(started) + 1
    <3>1. [msg |-> started[i].msg, worker |-> started[i].worker,
           thread |-> stream[started[i].msg].thread] \in Runs
      BY <2>1 DEF Runs
    <3> QED
      BY <1>2, <1>3, <2>1, <2>3, <3>1 DEF After
  <2> QED
    BY <1>1, <2>2, <2>3
<1> QED
  BY <1>4, <1>5, <1>6 DEF RunsInOrder

-----------------------------------------------------------------------------

\* The queues that are left are as they were.
SameItems ==
  \A q \in DOMAIN tasks' :
    /\ q \in DOMAIN tasks
    /\ tasks'[q].worker = tasks[q].worker
    /\ tasks'[q].thread = tasks[q].thread
    /\ tasks'[q].items = tasks[q].items

\* A step that begins no run, queues nothing and hands nothing to a main loop.
LEMMA NothingMoves ==
  ASSUME IInv, Stable, OrderInv, UNCHANGED started, SameItems,
         \A w \in Workers : reader'[w].pc = "handle" => reader'[w] = reader[w]
  PROVE  OrderInv'
<1> USE DEF OrderInv
<1>1. Runs' = Runs /\ RunsDelivered' /\ RunsInOrder'
  BY RunsKeep
<1>2. QueuesOrdered'
  BY <1>1, SameEntries DEF QueuesOrdered, SameItems
<1>3. QueuesApart'
  BY DEF QueuesApart, SameItems
<1>4. HandsOrdered'
  <2>1. \A w \in Workers : reader'[w].pc = "handle" =>
          /\ reader'[w] = reader[w]
          /\ stream'[reader[w].cur] = stream[reader[w].cur]
    BY Basics, SameEntries
  <2> QED
    BY <1>1, <2>1 DEF HandsOrdered, NewerThanQueued, SameItems
<1> QED
  BY <1>1, <1>2, <1>3, <1>4

\* The queues that are left are as they were but for a head that is gone, and
\* what they hold is not m and, on v for t, is newer than m.
QueuesBehind(m, v, t) ==
  \A q \in DOMAIN tasks' :
    \/ tasks'[q].items = <<>>
    \/ /\ q \in DOMAIN tasks
       /\ tasks'[q].worker = tasks[q].worker
       /\ tasks'[q].thread = tasks[q].thread
       /\ \/ tasks'[q].items = tasks[q].items
          \/ /\ tasks[q].items # <<>>
             /\ tasks'[q].items = Tail(tasks[q].items)
       /\ \A k \in DOMAIN tasks'[q].items :
            /\ tasks'[q].items[k] # m
            /\ tasks[q].worker = v /\ tasks[q].thread = t
                 => m < tasks'[q].items[k]

\* So do the main loops that are suspended with a message.
HandsBehind(m, v, t) ==
  \A w \in Workers : reader'[w].pc = "handle" =>
    /\ reader'[w] = reader[w]
    /\ reader[w].cur # m
    /\ w = v /\ stream[reader[w].cur].thread = t => m < reader[w].cur

\* What a queue holds after its head was taken.
LEMMA TailIndices ==
  ASSUME NEW S, NEW s \in Seq(S), s # <<>>
  PROVE  \A k \in DOMAIN Tail(s) :
           k \in Nat /\ k + 1 \in DOMAIN s /\ Tail(s)[k] = s[k + 1]
OBVIOUS

\* A run of m begins: m has left its queue, or never was in one.
LEMMA RunBegins ==
  ASSUME IInv, Stable, OrderInv, NEW m \in 1..last', NEW v \in Workers, NEW t,
         stream'[m].thread = t,
         started' = Append(started, [msg |-> m, worker |-> v]),
         After(m, v, t, Runs), QueuesBehind(m, v, t), HandsBehind(m, v, t)
  PROVE  OrderInv'
<1> USE DEF OrderInv, QueuesBehind, HandsBehind
<1>1. /\ Runs' = Runs \union {[msg |-> m, worker |-> v, thread |-> t]}
      /\ RunsDelivered' /\ RunsInOrder'
  BY RunsAppend
\* What is still queued was queued before, in the same order.
<1>2. ASSUME NEW q \in DOMAIN tasks', tasks'[q].items # <<>>
      PROVE  /\ q \in DOMAIN tasks
             /\ tasks'[q].worker = tasks[q].worker
             /\ tasks'[q].thread = tasks[q].thread
             /\ \E d \in {0, 1} : \A k \in DOMAIN tasks'[q].items :
                  /\ k \in Nat /\ k + d \in DOMAIN tasks[q].items
                  /\ tasks'[q].items[k] = tasks[q].items[k + d]
  <2>1. q \in DOMAIN tasks
    BY <1>2
  <2>2. CASE tasks'[q].items = tasks[q].items
    <3>1. \A k \in DOMAIN tasks'[q].items :
            /\ k \in Nat /\ k + 0 \in DOMAIN tasks[q].items
            /\ tasks'[q].items[k] = tasks[q].items[k + 0]
      BY <2>1, <2>2, Basics
    <3> QED
      BY <1>2, <3>1
  <2>3. CASE /\ tasks[q].items # <<>>
             /\ tasks'[q].items = Tail(tasks[q].items)
    <3>1. \A k \in DOMAIN tasks'[q].items :
            /\ k \in Nat /\ k + 1 \in DOMAIN tasks[q].items
            /\ tasks'[q].items[k] = tasks[q].items[k + 1]
      <4> DEFINE s == tasks[q].items
      <4>1. s \in Seq(Nat \ {0})
        BY <2>1, Basics
      <4>2. s # <<>>
        BY <2>3
      <4> HIDE DEF s
      <4>3. \A k \in DOMAIN Tail(s) :
              k \in Nat /\ k + 1 \in DOMAIN s /\ Tail(s)[k] = s[k + 1]
        BY <4>1, <4>2, TailIndices
      <4> QED
        BY <2>3, <4>3 DEF s
    <3> QED
      BY <1>2, <3>1
  <2> QED
    BY <1>2, <2>2, <2>3
<1>3. \A q \in DOMAIN tasks' : \A k \in DOMAIN tasks'[q].items :
        tasks'[q].items # <<>>
  OBVIOUS
<1>4. QueuesOrdered'
  <2> SUFFICES ASSUME NEW q \in DOMAIN tasks', NEW k \in DOMAIN tasks'[q].items
               PROVE  /\ tasks'[q].items[k] \in 1..last'
                      /\ stream'[tasks'[q].items[k]].thread = tasks'[q].thread
                      /\ After(tasks'[q].items[k], tasks'[q].worker,
                               tasks'[q].thread, Runs')
                      /\ \A j \in DOMAIN tasks'[q].items :
                           j < k => tasks'[q].items[j] < tasks'[q].items[k]
    BY DEF QueuesOrdered
  <2>1. tasks'[q].items # <<>>
    BY <1>3
  <2>2. PICK d \in {0, 1} : \A i \in DOMAIN tasks'[q].items :
          /\ i \in Nat /\ i + d \in DOMAIN tasks[q].items
          /\ tasks'[q].items[i] = tasks[q].items[i + d]
    BY <1>2, <2>1
  <2>3. /\ q \in DOMAIN tasks
        /\ tasks'[q].worker = tasks[q].worker
        /\ tasks'[q].thread = tasks[q].thread
        /\ tasks'[q].items[k] # m
        /\ tasks[q].worker = v /\ tasks[q].thread = t => m < tasks'[q].items[k]
    BY <2>1
  <2>4. /\ tasks'[q].items[k] \in 1..last
        /\ stream[tasks'[q].items[k]].thread = tasks[q].thread
        /\ After(tasks'[q].items[k], tasks[q].worker, tasks[q].thread, Runs)
        /\ \A j \in DOMAIN tasks'[q].items :
             j < k => tasks'[q].items[j] < tasks'[q].items[k]
    BY <2>2, <2>3 DEF QueuesOrdered
  <2>5. After(tasks'[q].items[k], tasks[q].worker, tasks[q].thread, Runs')
    BY <1>1, <2>3, <2>4 DEF After
  <2> QED
    BY <2>3, <2>4, <2>5, SameEntries
<1>5. QueuesApart'
  <2> SUFFICES ASSUME NEW p \in DOMAIN tasks', NEW q \in DOMAIN tasks', p # q,
                      NEW j \in DOMAIN tasks'[p].items,
                      NEW k \in DOMAIN tasks'[q].items
               PROVE  tasks'[p].items[j] # tasks'[q].items[k]
    BY DEF QueuesApart
  <2>1. /\ p \in DOMAIN tasks
        /\ \E i \in DOMAIN tasks[p].items : tasks'[p].items[j] = tasks[p].items[i]
    BY <1>2, <1>3
  <2>2. /\ q \in DOMAIN tasks
        /\ \E i \in DOMAIN tasks[q].items : tasks'[q].items[k] = tasks[q].items[i]
    BY <1>2, <1>3
  <2> QED
    BY <2>1, <2>2 DEF QueuesApart
<1>6. HandsOrdered'
  <2> SUFFICES ASSUME NEW w \in Workers, reader'[w].pc = "handle"
               PROVE  /\ After(reader'[w].cur, w, stream'[reader'[w].cur].thread,
                               Runs')
                      /\ \A q \in DOMAIN tasks' : \A k \in DOMAIN tasks'[q].items :
                           /\ tasks'[q].items[k] # reader'[w].cur
                           /\ tasks'[q].worker = w /\ tasks'[q].thread
                                = stream'[reader'[w].cur].thread
                              => tasks'[q].items[k] < reader'[w].cur
    BY DEF HandsOrdered, NewerThanQueued
  <2>1. /\ reader'[w] = reader[w] /\ reader[w].pc = "handle"
        /\ stream'[reader[w].cur] = stream[reader[w].cur]
    BY Basics, SameEntries
  <2>2. After(reader[w].cur, w, stream[reader[w].cur].thread, Runs')
    BY <1>1, <2>1 DEF HandsOrdered, After
  <2>3. ASSUME NEW q \in DOMAIN tasks', NEW k \in DOMAIN tasks'[q].items
        PROVE  /\ tasks'[q].items[k] # reader[w].cur
               /\ tasks'[q].worker = w /\ tasks'[q].thread
                    = stream[reader[w].cur].thread
                  => tasks'[q].items[k] < reader[w].cur
    <3>1. /\ q \in DOMAIN tasks
          /\ tasks'[q].worker = tasks[q].worker
          /\ tasks'[q].thread = tasks[q].thread
          /\ \E i \in DOMAIN tasks[q].items : tasks'[q].items[k] = tasks[q].items[i]
      BY <1>2, <1>3
    <3> QED
      BY <2>1, <3>1 DEF HandsOrdered, NewerThanQueued
  <2> QED
    BY <2>1, <2>2, <2>3
<1> QED
  BY <1>1, <1>4, <1>5, <1>6

LEMMA AppendIndices ==
  ASSUME NEW S, NEW s \in Seq(S), NEW m \in S
  PROVE  /\ DOMAIN Append(s, m) = DOMAIN s \union {Len(s) + 1}
         /\ DOMAIN s = 1..Len(s) /\ Len(s) \in Nat
         /\ \A k \in DOMAIN s : Append(s, m)[k] = s[k]
         /\ Append(s, m)[Len(s) + 1] = m
BY AppendProperties

\* m is put at the end of the queue q.
LEMMA Queues ==
  ASSUME IInv, Stable, OrderInv, NEW m \in 1..last', NEW q \in DOMAIN tasks,
         UNCHANGED started,
         tasks' = [tasks EXCEPT ![q].items = Append(@, m)],
         stream'[m].thread = tasks[q].thread,
         After(m, tasks[q].worker, tasks[q].thread, Runs),
         NewerThanQueued(m, tasks[q].worker, tasks[q].thread),
         \A w \in Workers : reader'[w].pc = "handle" =>
           /\ reader'[w] = reader[w]
           /\ reader[w].cur # m
           /\ w # tasks[q].worker
  PROVE  OrderInv'
<1> USE DEF OrderInv
<1>1. Runs' = Runs /\ RunsDelivered' /\ RunsInOrder'
  BY RunsKeep
<1>2. tasks[q].items \in Seq(Nat \ {0}) /\ tasks[q] \in Task
  BY Basics
<1> DEFINE s == tasks[q].items
           l == Len(s) + 1
<1>3. /\ DOMAIN tasks' = DOMAIN tasks
      /\ \A p \in DOMAIN tasks : /\ tasks'[p].worker = tasks[p].worker
                                 /\ tasks'[p].thread = tasks[p].thread
                                 /\ p # q => tasks'[p].items = tasks[p].items
      /\ tasks'[q].items = Append(tasks[q].items, m)
  BY <1>2, Basics DEF Task
<1>4. /\ DOMAIN tasks'[q].items = DOMAIN tasks[q].items \union {l}
      /\ l \in Nat /\ \A k \in DOMAIN tasks[q].items : k \in Nat /\ k < l
      /\ \A k \in DOMAIN tasks[q].items : tasks'[q].items[k] = tasks[q].items[k]
      /\ tasks'[q].items[l] = m
  <2>1. m \in Nat \ {0}
    BY DEF Stable
  <2>2. s \in Seq(Nat \ {0})
    BY <1>2
  <2> HIDE DEF s
  <2>3. /\ DOMAIN Append(s, m) = DOMAIN s \union {l}
        /\ l \in Nat /\ \A k \in DOMAIN s : k \in Nat /\ k < l
        /\ \A k \in DOMAIN s : Append(s, m)[k] = s[k]
        /\ Append(s, m)[l] = m
    BY <2>1, <2>2, AppendIndices
  <2> QED
    BY <1>3, <2>3 DEF s
<1> HIDE DEF l, s
\* What is queued was queued before, or is m, in q.
<1>5. \A p \in DOMAIN tasks' : \A k \in DOMAIN tasks'[p].items :
        \/ /\ k \in DOMAIN tasks[p].items
           /\ tasks'[p].items[k] = tasks[p].items[k]
        \/ p = q /\ k = l
  <2> SUFFICES ASSUME NEW p \in DOMAIN tasks', NEW k \in DOMAIN tasks'[p].items
               PROVE  \/ /\ k \in DOMAIN tasks[p].items
                         /\ tasks'[p].items[k] = tasks[p].items[k]
                      \/ p = q /\ k = l
    OBVIOUS
  <2>1. CASE p = q
    <3>1. k \in DOMAIN tasks[q].items \/ k = l
      BY <1>4, <2>1
    <3> QED
      BY <1>4, <2>1, <3>1
  <2>2. CASE p # q
    BY <1>3, <2>2
  <2> QED
    BY <2>1, <2>2
<1>6. QueuesOrdered'
  <2> SUFFICES ASSUME NEW p \in DOMAIN tasks', NEW k \in DOMAIN tasks'[p].items
               PROVE  /\ tasks'[p].items[k] \in 1..last'
                      /\ stream'[tasks'[p].items[k]].thread = tasks'[p].thread
                      /\ After(tasks'[p].items[k], tasks'[p].worker,
                               tasks'[p].thread, Runs')
                      /\ \A j \in DOMAIN tasks'[p].items :
                           j < k => tasks'[p].items[j] < tasks'[p].items[k]
    BY DEF QueuesOrdered
  <2>1. CASE p = q /\ k = l
    <3>1. \A j \in DOMAIN tasks'[q].items : j < l => tasks'[q].items[j] < m
      <4>1. \A j \in DOMAIN tasks[q].items : tasks[q].items[j] < m
        BY DEF NewerThanQueued
      <4>2. \A j \in DOMAIN tasks'[q].items : j < l => j \in DOMAIN tasks[q].items
        BY <1>4
      <4> QED
        BY <1>4, <4>1, <4>2
    <3>2. /\ tasks'[p].items[k] = m
          /\ tasks'[p].worker = tasks[q].worker
          /\ tasks'[p].thread = tasks[q].thread
      BY <1>3, <1>4, <2>1
    <3>3. After(m, tasks[q].worker, tasks[q].thread, Runs')
      BY <1>1
    <3> QED
      BY <2>1, <3>1, <3>2, <3>3
  <2>2. CASE /\ k \in DOMAIN tasks[p].items
             /\ tasks'[p].items[k] = tasks[p].items[k]
    <3>1. /\ tasks[p].items[k] \in 1..last
          /\ stream[tasks[p].items[k]].thread = tasks[p].thread
          /\ After(tasks[p].items[k], tasks[p].worker, tasks[p].thread, Runs)
          /\ \A j \in DOMAIN tasks[p].items :
               j < k => tasks[p].items[j] < tasks[p].items[k]
      BY <1>3, <2>2 DEF QueuesOrdered
    <3>2. \A j \in DOMAIN tasks'[p].items : j < k => j \in DOMAIN tasks[p].items
      BY <1>4, <1>5, <2>2
    <3>3. \A j \in DOMAIN tasks'[p].items :
            j < k => tasks'[p].items[j] = tasks[p].items[j]
      BY <1>3, <1>4, <3>2
    <3>4. /\ stream'[tasks[p].items[k]] = stream[tasks[p].items[k]]
          /\ tasks[p].items[k] \in 1..last'
      BY <3>1, SameEntries
    <3> QED
      BY <1>1, <1>3, <2>2, <3>1, <3>2, <3>3, <3>4
  <2> QED
    BY <1>5, <2>1, <2>2
<1>7. QueuesApart'
  <2> SUFFICES ASSUME NEW p \in DOMAIN tasks, NEW r \in DOMAIN tasks, p # r,
                      NEW j \in DOMAIN tasks'[p].items,
                      NEW k \in DOMAIN tasks'[r].items
               PROVE  tasks'[p].items[j] # tasks'[r].items[k]
    BY <1>3 DEF QueuesApart
  <2>1. ASSUME NEW x \in DOMAIN tasks, NEW i \in DOMAIN tasks[x].items
        PROVE  tasks[x].items[i] # m
    BY DEF NewerThanQueued
  <2>2. CASE p = q
    <3>1. r # q /\ k \in DOMAIN tasks[r].items
             /\ tasks'[r].items[k] = tasks[r].items[k]
      BY <1>3, <2>2
    <3>2. CASE j = l
      <4>1. tasks'[p].items[j] = m
        BY <1>4, <2>2, <3>2
      <4>2. tasks[r].items[k] # m
        BY <2>1, <3>1
      <4> QED
        BY <3>1, <4>1, <4>2
    <3>3. CASE j # l
      <4>1. j \in DOMAIN tasks[p].items /\ tasks'[p].items[j] = tasks[p].items[j]
        BY <1>4, <2>2, <3>3
      <4> QED
        BY <3>1, <4>1 DEF QueuesApart
    <3> QED
      BY <3>2, <3>3
  <2>3. CASE p # q
    <3>1. j \in DOMAIN tasks[p].items /\ tasks'[p].items[j] = tasks[p].items[j]
      BY <1>3, <2>3
    <3>2. CASE r = q /\ k = l
      <4>1. tasks'[r].items[k] = m
        BY <1>4, <3>2
      <4>2. tasks[p].items[j] # m
        BY <2>1, <3>1
      <4> QED
        BY <3>1, <4>1, <4>2
    <3>3. CASE ~(r = q /\ k = l)
      <4>1. k \in DOMAIN tasks[r].items /\ tasks'[r].items[k] = tasks[r].items[k]
        BY <1>3, <1>5, <3>3
      <4> QED
        BY <3>1, <4>1 DEF QueuesApart
    <3> QED
      BY <3>2, <3>3
  <2> QED
    BY <2>2, <2>3
<1>8. HandsOrdered'
  <2>1. ASSUME NEW w \in Workers, reader'[w].pc = "handle"
        PROVE  /\ After(reader'[w].cur, w, stream'[reader'[w].cur].thread, Runs')
               /\ NewerThanQueued(reader[w].cur, w, stream'[reader'[w].cur].thread)
    BY <1>1, <2>1, Basics, SameEntries DEF HandsOrdered
  <2>2. ASSUME NEW w \in Workers, NEW n, NEW t, n # m, w # tasks[q].worker,
               NewerThanQueued(n, w, t)
        PROVE  NewerThanQueued(n, w, t)'
    <3> SUFFICES ASSUME NEW p \in DOMAIN tasks', NEW k \in DOMAIN tasks'[p].items
                 PROVE  /\ tasks'[p].items[k] # n
                        /\ tasks'[p].worker = w /\ tasks'[p].thread = t =>
                             tasks'[p].items[k] < n
      BY DEF NewerThanQueued
    <3>1. CASE k \in DOMAIN tasks[p].items /\ tasks'[p].items[k] = tasks[p].items[k]
      BY <1>3, <2>2, <3>1 DEF NewerThanQueued
    <3>2. CASE p = q /\ k = l
      <4>1. tasks'[p].items[k] = m
        BY <1>4, <3>2
      <4>2. tasks'[p].worker = tasks[q].worker
        BY <1>3, <3>2
      <4> QED
        BY <2>2, <4>1, <4>2
    <3> QED
      BY <1>5, <3>1, <3>2
  <2>3. ASSUME NEW w \in Workers, reader'[w].pc = "handle"
        PROVE  /\ reader'[w].cur = reader[w].cur
               /\ reader[w].cur # m /\ w # tasks[q].worker
    BY <2>3
  <2> QED
    BY <2>1, <2>2, <2>3 DEF HandsOrdered
<1> QED
  BY <1>1, <1>6, <1>7, <1>8

\* A main loop takes n to publish QUEUED for it: nothing is newer than n.
LEMMA HandedOver ==
  ASSUME IInv, Stable, OrderInv, NEW w \in Workers, NEW n,
         n > last, n \in Nat, UNCHANGED <<started, tasks>>,
         reader'[w] = [pc |-> "handle", cur |-> n],
         \A v \in Workers \ {w} : reader'[v] = reader[v]
  PROVE  OrderInv'
<1> USE DEF OrderInv
<1>1. Runs' = Runs /\ RunsDelivered' /\ RunsInOrder'
  BY RunsKeep
<1>2. QueuesOrdered' /\ QueuesApart'
  BY <1>1, SameEntries DEF QueuesOrdered, QueuesApart
<1>3. \A r \in Runs : r.msg \in 1..last
  BY DEF Runs, RunsDelivered
<1>4. \A q \in DOMAIN tasks : \A k \in DOMAIN tasks[q].items :
        tasks[q].items[k] \in 1..last
  BY DEF QueuesOrdered
<1>5. \A v \in Workers \ {w} : reader[v].pc = "handle" =>
        stream'[reader[v].cur] = stream[reader[v].cur]
  BY Basics, SameEntries
<1>6. \A t : After(n, w, t, Runs) /\ NewerThanQueued(n, w, t)
  BY <1>3, <1>4, Basics DEF After, NewerThanQueued
<1>7. HandsOrdered'
  BY <1>1, <1>5, <1>6 DEF HandsOrdered, NewerThanQueued
<1> QED
  BY <1>1, <1>2, <1>7

-----------------------------------------------------------------------------

\* Nothing that is queued or was run is as new as the next entry.
LEMMA NextIsNewest ==
  ASSUME IInv, OrderInv, NEW n \in Nat, n > last, NEW w, NEW t
  PROVE  After(n, w, t, Runs) /\ NewerThanQueued(n, w, t)
<1>1. \A r \in Runs : r.msg \in 1..last
  BY DEF Runs, OrderInv, RunsDelivered
<1>2. \A q \in DOMAIN tasks : \A k \in DOMAIN tasks[q].items :
        tasks[q].items[k] \in 1..last
  BY DEF OrderInv, QueuesOrdered
<1> QED
  BY <1>1, <1>2, Basics DEF After, NewerThanQueued

\* A task runs the head of its queue.
LEMMA TakeKeepsOrder ==
  ASSUME IInv, Stable, OrderInv, NEW q \in DOMAIN tasks, Take(q)
  PROVE  OrderInv'
<1> DEFINE m == Head(tasks[q].items)
           v == tasks[q].worker
           t == tasks[q].thread
<1>1. /\ tasks[q].items # <<>>
      /\ started' = Append(started, [msg |-> m, worker |-> v])
      /\ UNCHANGED reader
  BY DEF Take, streamVars
<1>2. /\ DOMAIN tasks' = DOMAIN tasks
      /\ \A p \in DOMAIN tasks \ {q} : tasks'[p] = tasks[p]
      /\ tasks'[q].worker = v /\ tasks'[q].thread = t
      /\ tasks'[q].items = Tail(tasks[q].items)
  BY Basics DEF Take, Task
<1>3. /\ tasks[q].items \in Seq(Nat \ {0}) /\ v \in Workers
      /\ 1 \in DOMAIN tasks[q].items /\ m = tasks[q].items[1]
      /\ \A k \in DOMAIN Tail(tasks[q].items) :
           /\ k + 1 \in DOMAIN tasks[q].items /\ 1 < k + 1
           /\ Tail(tasks[q].items)[k] = tasks[q].items[k + 1]
  BY <1>1, Basics DEF Task
<1>4. /\ m \in 1..last /\ stream[m].thread = t /\ After(m, v, t, Runs)
      /\ \A k \in DOMAIN tasks[q].items : 1 < k => m < tasks[q].items[k]
  BY <1>3 DEF OrderInv, QueuesOrdered
<1>5. m \in 1..last' /\ stream'[m].thread = t
  BY <1>4, SameEntries
<1>6. \A k \in DOMAIN tasks'[q].items :
        m < tasks'[q].items[k] /\ tasks'[q].items[k] # m
  <2> SUFFICES ASSUME NEW k \in DOMAIN tasks'[q].items
               PROVE  /\ m < tasks'[q].items[k]
                      /\ tasks'[q].items[k] # m
    OBVIOUS
  <2>1. /\ k + 1 \in DOMAIN tasks[q].items /\ 1 < k + 1
        /\ tasks'[q].items[k] = tasks[q].items[k + 1]
    BY <1>2, <1>3
  <2>2. m < tasks[q].items[k + 1] /\ tasks[q].items[k + 1] \in Nat
    BY <1>4, <2>1, <1>3
  <2> QED
    BY <1>4, <2>1, <2>2
<1>7. ASSUME NEW p \in DOMAIN tasks \ {q}
      PROVE  /\ \A k \in DOMAIN tasks[p].items : tasks[p].items[k] # m
             /\ ~ (tasks[p].worker = v /\ tasks[p].thread = t)
  <2>1. \A k \in DOMAIN tasks[p].items : tasks[p].items[k] # m
    BY <1>3, <1>7 DEF OrderInv, QueuesApart
  <2>2. ~ (tasks[p].worker = v /\ tasks[p].thread = t)
    BY <1>7 DEF IInv, TasksInv, OneTaskPerThread
  <2> QED
    BY <2>1, <2>2
<1>8. HandsBehind(m, v, t)
  BY <1>1, <1>3 DEF OrderInv, HandsOrdered, NewerThanQueued, HandsBehind
<1>9. QueuesBehind(m, v, t)
  <2> SUFFICES ASSUME NEW p \in DOMAIN tasks'
               PROVE  /\ p \in DOMAIN tasks
                      /\ tasks'[p].worker = tasks[p].worker
                      /\ tasks'[p].thread = tasks[p].thread
                      /\ \/ tasks'[p].items = tasks[p].items
                         \/ /\ tasks[p].items # <<>>
                            /\ tasks'[p].items = Tail(tasks[p].items)
                      /\ \A k \in DOMAIN tasks'[p].items :
                           /\ tasks'[p].items[k] # m
                           /\ tasks[p].worker = v /\ tasks[p].thread = t
                                => m < tasks'[p].items[k]
    BY DEF QueuesBehind
  <2> HIDE DEF m
  <2>1. CASE p = q
    BY <1>1, <1>2, <1>6, <2>1
  <2>2. CASE p # q
    BY <1>2, <1>7, <2>2
  <2> QED
    BY <2>1, <2>2
<1> QED
  BY <1>1, <1>3, <1>4, <1>5, <1>8, <1>9, RunBegins

\* A message for a thread without a queue is run at once.
LEMMA UserNewQueueKeepsOrder ==
  ASSUME IInv, Stable, OrderInv, NEW w \in Workers, UserNewQueue(w)
  PROVE  OrderInv'
<1> DEFINE n == EC!NextId
           t == ThreadOfNext
<1>1. ECP!IInv
  BY DEF IInv
<1>2. n \in 1..Len(stream) /\ n > last /\ n \in Nat
  BY <1>1, NextEntry DEF UserNewQueue, Arrives
<1>3. n \in 1..last' /\ stream'[n].thread = t
  BY <1>2 DEF UserNewQueue, EC!DeliverAndHandle, EC!XReadGroup, ThreadOfNext, Stable
<1>4. /\ started' = Append(started, [msg |-> n, worker |-> w])
      /\ DOMAIN tasks' = DOMAIN tasks \union {n}
      /\ tasks'[n].items = <<>>
      /\ \A q \in DOMAIN tasks \ {n} : tasks'[q] = tasks[q]
  BY DEF UserNewQueue
<1>5. /\ reader'[w].pc = "ack"
      /\ \A v \in Workers \ {w} : reader'[v] = reader[v]
  BY <1>1 DEF UserNewQueue, EC!DeliverAndHandle, EC!Goto, ECP!IInv, ECP!TypeOK
<1>6. \A q \in DOMAIN tasks : ~ (tasks[q].worker = w /\ tasks[q].thread = t)
  <2>1. phase[w] = "up"
    BY DEF UserNewQueue, EC!DeliverAndHandle, IInv, LoopsWhenUp
  <2> QED
    BY <2>1 DEF UserNewQueue, IInv, TasksInv, TasksTyped, OneTaskPerThread
<1> HIDE DEF n, t
<1>7. After(n, w, t, Runs) /\ NewerThanQueued(n, w, t)
  BY <1>2, NextIsNewest
<1>8. HandsBehind(n, w, t)
  BY <1>2, <1>5, Basics DEF HandsBehind
<1>9. QueuesBehind(n, w, t)
  BY <1>4, <1>6, <1>7 DEF NewerThanQueued, QueuesBehind
<1> QED
  BY <1>3, <1>4, <1>7, <1>8, <1>9, RunBegins

\* queue.put: the message is run at once, queued, or lost with its queue.
LEMMA PutKeepsOrder ==
  ASSUME IInv, Stable, OrderInv, NEW w \in Workers, NEW n \in 1..last', NEW t,
         stream'[n].thread = t, NEW q, Put(q, w, n),
         q \in DOMAIN tasks => tasks[q].worker = w /\ tasks[q].thread = t,
         After(n, w, t, Runs), NewerThanQueued(n, w, t),
         \A v \in Workers : reader'[v].pc = "handle" =>
           v # w /\ reader'[v] = reader[v] /\ reader[v].cur # n
  PROVE  OrderInv'
<1>1. CASE q \notin DOMAIN tasks /\ UNCHANGED <<tasks, started>>
  BY <1>1, NothingMoves DEF SameItems
<1>2. CASE q \in DOMAIN tasks /\ Idle(q) /\ Run(q, w, n)
  <2>1. /\ DOMAIN tasks' = DOMAIN tasks
        /\ \A p \in DOMAIN tasks \ {q} : tasks'[p] = tasks[p]
        /\ tasks[q].items = <<>> /\ tasks'[q].items = <<>>
        /\ started' = Append(started, [msg |-> n, worker |-> w])
    BY <1>2, Basics DEF Run, Idle, Task
  <2>2. \A p \in DOMAIN tasks \ {q} :
          ~ (tasks[p].worker = w /\ tasks[p].thread = t)
    BY <1>2 DEF IInv, TasksInv, OneTaskPerThread
  <2>3. QueuesBehind(n, w, t)
    BY <2>1, <2>2 DEF QueuesBehind, NewerThanQueued
  <2>4. HandsBehind(n, w, t)
    BY DEF HandsBehind
  <2> QED
    BY <2>1, <2>3, <2>4, RunBegins
<1>3. CASE /\ q \in DOMAIN tasks
           /\ tasks' = [tasks EXCEPT ![q].items = Append(@, n)]
           /\ UNCHANGED started
  BY <1>3, Queues
<1> QED
  BY <1>1, <1>2, <1>3 DEF Put

LEMMA UserPutKeepsOrder ==
  ASSUME IInv, Stable, OrderInv, NEW w \in Workers, UserPut(w)
  PROVE  OrderInv'
<1> DEFINE n == EC!NextId
           t == ThreadOfNext
           q == event_queues[w][t]
<1>1. ECP!IInv
  BY DEF IInv
<1>2. n \in 1..Len(stream) /\ n > last /\ n \in Nat /\ t \in Threads
  BY <1>1, NextEntry DEF UserPut, Arrives
<1>3. n \in 1..last' /\ stream'[n].thread = t
  BY <1>2 DEF UserPut, EC!DeliverAndHandle, EC!XReadGroup, ThreadOfNext, Stable
<1>4. /\ Put(q, w, n) /\ UNCHANGED <<event_queues, queue_tasks>>
      /\ tasks[q].worker = w /\ tasks[q].thread = t
  BY <1>2 DEF UserPut, IInv, TasksInv, DictsAgree
<1>5. /\ reader'[w].pc = "ack"
      /\ \A v \in Workers \ {w} : reader'[v] = reader[v]
  BY <1>1 DEF UserPut, EC!DeliverAndHandle, EC!Goto, ECP!IInv, ECP!TypeOK
<1> HIDE DEF n, t, q
<1>6. After(n, w, t, Runs) /\ NewerThanQueued(n, w, t)
  BY <1>2, NextIsNewest
<1>7. \A v \in Workers : reader'[v].pc = "handle" =>
        v # w /\ reader'[v] = reader[v] /\ reader[v].cur # n
  BY <1>2, <1>5, Basics
<1> QED
  BY <1>3, <1>4, <1>6, <1>7, PutKeepsOrder

\* The queue was looked up before QUEUED was published; it is still the queue
\* of the message's thread, or it is gone.
LEMMA PublishQueuedKeepsOrder ==
  ASSUME IInv, Stable, OrderInv, NEW w \in Workers, PublishQueued(w)
  PROVE  OrderInv'
<1> DEFINE n == reader[w].cur
           t == stream[n].thread
           q == queue[w]
<1>1. ECP!IInv
  BY DEF IInv
<1>2. reader[w].pc = "handle" /\ n \in 1..last
  BY Basics DEF PublishQueued, EC!Handled
<1>3. n \in 1..last' /\ stream'[n].thread = t
  BY <1>2, SameEntries
<1>4. /\ Put(q, w, n)
      /\ q \in DOMAIN tasks => tasks[q].worker = w /\ tasks[q].thread = t
  BY <1>2 DEF PublishQueued, IInv, LookedUp
<1>5. /\ reader'[w].pc = "ack"
      /\ \A v \in Workers \ {w} : reader'[v] = reader[v] /\ reader[v].cur # n
  BY <1>1, <1>2 DEF PublishQueued, EC!Handled, EC!Goto, ECP!IInv, ECP!TypeOK,
     ECP!HeldByOne
<1>6. After(n, w, t, Runs) /\ NewerThanQueued(n, w, t)
  BY <1>2 DEF OrderInv, HandsOrdered
<1> HIDE DEF n, t, q
<1>7. \A v \in Workers : reader'[v].pc = "handle" =>
        v # w /\ reader'[v] = reader[v] /\ reader[v].cur # n
  BY <1>5
<1> QED
  BY <1>3, <1>4, <1>6, <1>7, PutKeepsOrder

LEMMA UserQueuedKeepsOrder ==
  ASSUME IInv, Stable, OrderInv, NEW w \in Workers, UserQueued(w)
  PROVE  OrderInv'
<1> DEFINE n == EC!NextId
<1>1. ECP!IInv
  BY DEF IInv
<1>2. n > last /\ n \in Nat
  BY <1>1, NextEntry DEF UserQueued, Arrives
<1>3. /\ reader'[w] = [pc |-> "handle", cur |-> n]
      /\ \A v \in Workers \ {w} : reader'[v] = reader[v]
      /\ UNCHANGED <<started, tasks>>
  BY <1>1 DEF UserQueued, EC!Deliver, EC!Goto, ECP!IInv, ECP!TypeOK, taskVars,
     histVars
<1> HIDE DEF n
<1> QED
  BY <1>2, <1>3, HandedOver

\* A task that changes its state in place, or ends, leaves the other queues
\* alone and its own if it stays.
LEMMA EndOfRoundKeepsItems ==
  ASSUME IInv, NEW q \in DOMAIN tasks,
         \/ Finish(q) \/ NextRound(q)
         \/ AgentReturns(q) \/ AgentCancelled(q)
         \/ tasks' = [tasks EXCEPT ![q] = Cancelled(@)]
  PROVE  SameItems
<1>1. CASE Finish(q)
  BY <1>1 DEF Finish, SameItems
<1>2. CASE tasks' = [tasks EXCEPT ![q].pc = "get", ![q].cur = 0]
  <2>1. tasks' = [tasks EXCEPT ![q] = [@ EXCEPT !.pc = "get", !.cur = 0]]
    BY <1>2
  <2>2. /\ [tasks[q] EXCEPT !.pc = "get", !.cur = 0].worker = tasks[q].worker
        /\ [tasks[q] EXCEPT !.pc = "get", !.cur = 0].thread = tasks[q].thread
        /\ [tasks[q] EXCEPT !.pc = "get", !.cur = 0].items = tasks[q].items
    BY Basics DEF Task
  <2> QED
    BY <2>1, <2>2 DEF SameItems
<1>3. CASE AgentReturns(q) \/ AgentCancelled(q)
  <2>1. PICK pc \in TaskPc : tasks' = [tasks EXCEPT ![q].pc = pc]
    BY <1>3 DEF AgentReturns, AgentCancelled, TaskPc
  <2> QED
    BY <2>1, Basics DEF SameItems, Task
<1>4. CASE tasks' = [tasks EXCEPT ![q] = Cancelled(@)]
  BY <1>4, Basics DEF Cancelled, SameItems, Task
<1> QED
  BY <1>1, <1>2, <1>3, <1>4 DEF NextRound

-----------------------------------------------------------------------------

LEMMA InitOrder == ASSUME Init PROVE OrderInv
BY DEF Init, EC!Init, OrderInv, RunsDelivered, QueuesOrdered, QueuesApart,
       HandsOrdered, RunsInOrder

LEMMA NextOrder ==
  ASSUME IInv, OrderInv, [Next]_vars
  PROVE  OrderInv'
<1>0. Stable /\ ECP!IInv
  BY NextStable DEF IInv
<1>1. ASSUME UNCHANGED <<started, reader>>, UNCHANGED tasks \/ SameItems
      PROVE  OrderInv'
  <2>1. UNCHANGED tasks => SameItems
    BY DEF SameItems
  <2> QED
    BY <1>0, <1>1, <2>1, NothingMoves
<1>2. CASE UNCHANGED vars
  BY <1>1, <1>2 DEF vars, streamVars, workerVars, taskVars, histVars
<1>3. ASSUME NEW q \in DOMAIN tasks, TaskStep(q) \/ DoneRaises(q)
      PROVE  OrderInv'
  <2>1. CASE Take(q)
    BY <1>0, <2>1, TakeKeepsOrder
  <2>2. CASE IdleTimeout(q) \/ AgentReturns(q) \/ AgentCancelled(q)
    <3>1. SameItems
      BY <2>2, EndOfRoundKeepsItems DEF IdleTimeout
    <3> QED
      BY <1>1, <2>2, <3>1 DEF IdleTimeout, AgentReturns, AgentCancelled,
         streamVars, histVars
  <2>3. CASE PublishDone(q) \/ DoneInterrupted(q) \/ DoneRaises(q)
    <3>1. SameItems
      BY <2>3, EndOfRoundKeepsItems DEF PublishDone, DoneInterrupted, DoneRaises
    <3> QED
      BY <1>1, <2>3, <3>1 DEF PublishDone, DoneInterrupted, DoneRaises, histVars
  <2> QED
    BY <1>3, <2>1, <2>2, <2>3 DEF TaskStep
\* A main loop that goes anywhere but into _handle_user_event's await.
<1>4. ASSUME NEW w \in Workers, NEW pc \in {"create", "read", "ack", "ended"},
             NEW cur, EC!Goto(w, pc, cur), UNCHANGED started,
             UNCHANGED tasks \/ SameItems
      PROVE  OrderInv'
  <2>1. UNCHANGED tasks => SameItems
    BY DEF SameItems
  <2>2. \A v \in Workers : reader'[v].pc = "handle" => reader'[v] = reader[v]
    BY <1>0, <1>4 DEF EC!Goto, ECP!IInv, ECP!TypeOK
  <2> QED
    BY <1>0, <1>4, <2>1, <2>2, NothingMoves
<1>5. ASSUME NEW w \in Workers, MainStep(w)
      PROVE  OrderInv'
  <2>1. CASE UserNewQueue(w) \/ UserPut(w) \/ UserQueued(w) \/ PublishQueued(w)
    BY <1>0, <2>1, UserNewQueueKeepsOrder, UserPutKeepsOrder,
       UserQueuedKeepsOrder, PublishQueuedKeepsOrder
  <2>2. CASE Start(w) \/ CreateGroup(w) \/ Ignore(w) \/ Ack(w)
    BY <1>4, <2>2 DEF Start, CreateGroup, Ignore, Ack, EC!Consume,
       EC!CreateGroup, EC!DeliverAndHandle, EC!Ack, workerVars, taskVars,
       histVars
  <2>3. CASE Stop(w)
    <3>1. ThreadOfNext \in Threads
      BY <1>0, <2>3, NextEntry DEF Stop, Arrives
    <3>2. \A q : q = queue_tasks[w][ThreadOfNext] /\ q # 0 => q \in DOMAIN tasks
      BY <3>1 DEF IInv, TasksInv, DictsAgree
    <3>3. UNCHANGED tasks \/ SameItems
      BY <2>3, <3>2, EndOfRoundKeepsItems DEF Stop, taskVars
    <3> QED
      BY <1>4, <2>3, <3>3 DEF Stop, EC!DeliverAndHandle, histVars
  <2> QED
    BY <1>5, <2>1, <2>2, <2>3 DEF MainStep
<1>6. ASSUME NEW w \in Workers, Mishap(w)
      PROVE  OrderInv'
  <2>1. CASE LoseReply(w)
    BY <1>1, <2>1 DEF LoseReply, EC!LoseReply, workerVars, taskVars, histVars
  <2>2. CASE RedisFails(w) \/ QueuedRaises(w) \/ CancelMain(w)
    BY <1>4, <2>2 DEF RedisFails, QueuedRaises, CancelMain, EC!RedisFails,
       EC!Abandon, workerVars, taskVars, histVars
  <2>3. CASE CancelQueues(w)
    <3>1. SameItems
      BY <2>3, Basics DEF CancelQueues, Cancelled, SameItems, Task
    <3> QED
      BY <1>1, <2>3, <3>1 DEF CancelQueues, streamVars, histVars
  <2>4. CASE Exit(w)
    <3>1. SameItems
      BY <2>4 DEF Exit, SameItems
    <3> QED
      BY <1>4, <2>4, <3>1 DEF Exit, EC!Abandon, histVars
  <2> QED
    BY <1>6, <2>1, <2>2, <2>3, <2>4 DEF Mishap
<1>7. ASSUME NEW t \in Threads, SendMessage(t) \/ StopConversation(t)
      PROVE  OrderInv'
  BY <1>1, <1>7 DEF SendMessage, StopConversation, Publish, workerVars,
     taskVars, histVars
<1> QED
  BY <1>2, <1>3, <1>5, <1>6, <1>7 DEF Next

\* No message is run twice, by one process or by two, before a crash and after
\* it, and a process runs the messages of a thread in the order of the stream.
THEOREM RunsInOrderAlways == Spec => []RunsInOrder
<1>1. Init => OrderInv
  BY InitOrder
<1>2. IInv /\ OrderInv /\ [Next]_vars => OrderInv'
  BY NextOrder
<1>3. OrderInv => RunsInOrder
  BY DEF OrderInv
<1> QED
  BY <1>1, <1>2, <1>3, Invariant, PTL DEF Spec

(***************************************************************************)
(* The mailbox.  Every step of the workers is mapped to a step of the      *)
(* mailbox: it begins the run of one message that may still be run, or of  *)
(* none; and what may be run after the step could be run before, or is new *)
(* in the stream.                                                          *)
(***************************************************************************)

\* Only messages of users are run, queued or held by a main loop.
UsersOnly ==
  /\ \A i \in DOMAIN started : IsUser(started[i].msg)
  /\ \A q \in DOMAIN tasks : \A k \in DOMAIN tasks[q].items :
       IsUser(tasks[q].items[k])
  /\ \A w \in Workers : reader[w].pc = "handle" => IsUser(reader[w].cur)

\* A task that is not waiting is in a run that was begun, of a message of its
\* own thread.
RunningBegun ==
  \A q \in DOMAIN tasks :
    IF Running(q)
    THEN /\ [msg |-> tasks[q].cur, worker |-> tasks[q].worker] \in RunsBegun
         /\ stream[tasks[q].cur].thread = tasks[q].thread
    ELSE tasks[q].cur = 0

\* The inductive invariant, on top of IInv and OrderInv.
MailInv == UsersOnly /\ RunningBegun

-----------------------------------------------------------------------------

\* A message that may still be run.
Alive(n) == IsUser(n) /\ Waiting(n)

\* Whatever waits in a queue or a main loop after the step could be run before.
NothingRevives ==
  /\ trimmed \in Nat /\ trimmed <= trimmed'
  /\ \A q \in DOMAIN tasks' : \A k \in DOMAIN tasks'[q].items :
       Alive(tasks'[q].items[k])
  /\ \A w \in Workers : reader'[w].pc = "handle" => Alive(reader'[w].cur)

\* Task q waits after the step, or goes on with its run.
GoesOn(q) ==
  \/ tasks'[q].pc = "get" /\ tasks'[q].cur = 0
  \/ /\ q \in DOMAIN tasks /\ tasks[q].pc # "get" /\ tasks'[q].pc # "get"
     /\ tasks'[q].cur = tasks[q].cur
     /\ tasks'[q].worker = tasks[q].worker
     /\ tasks'[q].thread = tasks[q].thread

NoneBegins == UNCHANGED started /\ \A q \in DOMAIN tasks' : GoesOn(q)

\* The step begins the run of m in task q.
Begins(m, q) ==
  /\ Alive(m)
  /\ q \in DOMAIN tasks' /\ tasks'[q].pc # "get" /\ tasks'[q].cur = m
  /\ tasks'[q].worker \in Workers
  /\ tasks'[q].thread = stream[m].thread
  /\ started' = Append(started, [msg |-> m, worker |-> tasks'[q].worker])
  /\ After(m, tasks'[q].worker, tasks'[q].thread, Runs)
  /\ \A p \in DOMAIN tasks' \ {q} : GoesOn(p)

AtMostOneBegins == NoneBegins \/ \E m, q : Begins(m, q)

\* What was a user's message is one for good.
LEMMA UsersStay ==
  ASSUME Stable, NEW n, IsUser(n)
  PROVE  /\ n \in 1..Len(stream) /\ n \in 1..Len(stream')
         /\ stream'[n] = stream[n] /\ stream'[n].type = "USER"
BY DEF Stable, IsUser, Ids

\* The next entry, if a user sent it, may be run.
LEMMA NextIsAlive ==
  ASSUME ECP!IInv, NEW w \in Workers, Arrives(w, "USER")
  PROVE  /\ Alive(EC!NextId) /\ stream[EC!NextId].thread = ThreadOfNext
         /\ EC!NextId \in 1..Len(stream) /\ EC!NextId > last /\ EC!NextId \in Nat
<1>1. /\ EC!NextId \in 1..Len(stream) /\ EC!NextId > last
      /\ EC!NextId \in Nat
  BY NextEntry DEF Arrives
<1>2. last \in Nat /\ trimmed \in Nat
  BY DEF ECP!IInv, ECP!TypeOK
<1>3. trimmed < EC!NextId
  BY <1>2 DEF EC!NextId
<1> QED
  BY <1>1, <1>3 DEF Alive, IsUser, Waiting, Arrives, Ids, ThreadOfNext

\* What is queued or held may be run.
LEMMA QueuedIsAlive ==
  ASSUME MailInv
  PROVE  /\ \A q \in DOMAIN tasks : \A k \in DOMAIN tasks[q].items :
              Alive(tasks[q].items[k])
         /\ \A w \in Workers : reader[w].pc = "handle" => Alive(reader[w].cur)
<1>1. ASSUME NEW q \in DOMAIN tasks, NEW k \in DOMAIN tasks[q].items
      PROVE  Alive(tasks[q].items[k])
  <2>1. tasks[q].items[k] \in ItemsOf(q)
    BY DEF ItemsOf
  <2> QED
    BY <2>1 DEF Alive, Waiting, MailInv, UsersOnly
<1>2. ASSUME NEW w \in Workers, reader[w].pc = "handle"
      PROVE  Alive(reader[w].cur)
  BY <1>2 DEF Alive, Waiting, MailInv, UsersOnly
<1> QED
  BY <1>1, <1>2

LEMMA NextTrims ==
  ASSUME IInv, [Next]_vars
  PROVE  /\ trimmed \in Nat /\ trimmed <= trimmed'
         /\ handled \subseteq handled'
         /\ handled' \union pel' \subseteq handled \union pel \union {ECP!NextId}
<1>1. ECP!ECAssumption
  BY AWAssumption DEF ECP!ECAssumption, AWAssumption
<1>2. TypeOK /\ ECP!IInv
  BY IInvImpliesTypeOK DEF IInv
<1>3. [ECP!OpenNext]_(ECP!vars)
  BY <1>2, NextIsEC, SameSteps
<1> QED
  BY <1>1, <1>2, <1>3, ECP!DeliveredGrow

\* A step that queues nothing and hands nothing to a main loop.
LEMMA NothingNewWaits ==
  ASSUME IInv, MailInv, [Next]_vars, SameItems,
         \A w \in Workers : reader'[w].pc = "handle" => reader'[w] = reader[w]
  PROVE  NothingRevives
BY NextTrims, QueuedIsAlive DEF NothingRevives, SameItems

\* A task that is not touched goes on.
LEMMA UntouchedGoesOn ==
  ASSUME MailInv, NEW p \in DOMAIN tasks, tasks'[p] = tasks[p]
  PROVE  GoesOn(p)
BY DEF MailInv, RunningBegun, Running, GoesOn

\* The task takes the head of its queue.
LEMMA TakeBegins ==
  ASSUME IInv, OrderInv, MailInv, [Next]_vars, NEW q \in DOMAIN tasks, Take(q)
  PROVE  NothingRevives /\ AtMostOneBegins
<1> DEFINE m == Head(tasks[q].items)
<1>1. /\ tasks[q].items # <<>> /\ UNCHANGED reader
      /\ started' = Append(started, [msg |-> m, worker |-> tasks[q].worker])
  BY DEF Take, streamVars
<1>2. /\ tasks[q] \in Task /\ tasks[q].items \in Seq(Nat \ {0})
      /\ 1 \in DOMAIN tasks[q].items /\ m = tasks[q].items[1]
      /\ \A k \in DOMAIN Tail(tasks[q].items) :
           /\ k + 1 \in DOMAIN tasks[q].items
           /\ Tail(tasks[q].items)[k] = tasks[q].items[k + 1]
  BY <1>1, Basics
<1>3. /\ DOMAIN tasks' = DOMAIN tasks
      /\ \A p \in DOMAIN tasks \ {q} : tasks'[p] = tasks[p]
      /\ tasks'[q].worker = tasks[q].worker /\ tasks'[q].thread = tasks[q].thread
      /\ tasks'[q].items = Tail(tasks[q].items)
      /\ tasks'[q].pc = "run" /\ tasks'[q].cur = m
  BY <1>2 DEF Take, Task
<1>4. Alive(m) /\ \A p \in DOMAIN tasks' : \A k \in DOMAIN tasks'[p].items :
                     Alive(tasks'[p].items[k])
  <2> HIDE DEF m
  <2>1. ASSUME NEW p \in DOMAIN tasks', NEW k \in DOMAIN tasks'[p].items
        PROVE  Alive(tasks'[p].items[k])
    <3>1. CASE p = q
      BY <1>2, <1>3, <2>1, <3>1, QueuedIsAlive
    <3>2. CASE p # q
      BY <1>3, <2>1, <3>2, QueuedIsAlive
    <3> QED
      BY <3>1, <3>2
  <2> QED
    BY <1>2, <2>1, QueuedIsAlive
<1>5. NothingRevives
  BY <1>1, <1>4, NextTrims, QueuedIsAlive DEF NothingRevives
<1>6. /\ stream[m].thread = tasks[q].thread
      /\ After(m, tasks[q].worker, tasks[q].thread, Runs)
  BY <1>2 DEF OrderInv, QueuesOrdered
<1>7. \A p \in DOMAIN tasks' \ {q} : GoesOn(p)
  BY <1>3, UntouchedGoesOn
<1>8. tasks[q].worker \in Workers
  BY <1>2 DEF Task
<1> HIDE DEF m
<1>9. Begins(m, q)
  BY <1>1, <1>3, <1>4, <1>6, <1>7, <1>8 DEF Begins
<1> QED
  BY <1>5, <1>9 DEF AtMostOneBegins

\* A message for a thread without a queue is run at once.
LEMMA UserNewQueueBegins ==
  ASSUME IInv, OrderInv, MailInv, [Next]_vars, NEW w \in Workers, UserNewQueue(w)
  PROVE  NothingRevives /\ AtMostOneBegins
<1>0. PICK n : n = EC!NextId
  OBVIOUS
<1>1. ECP!IInv
  BY DEF IInv
<1>2. /\ Alive(n) /\ stream[n].thread = ThreadOfNext
      /\ n > last /\ n \in Nat
  BY <1>0, <1>1, NextIsAlive DEF UserNewQueue
<1>3. /\ started' = Append(started, [msg |-> n, worker |-> w])
      /\ DOMAIN tasks' = DOMAIN tasks \union {n}
      /\ tasks'[n] = [worker |-> w, thread |-> ThreadOfNext, items |-> <<>>,
                      pc |-> "run", cur |-> n]
      /\ \A q \in DOMAIN tasks \ {n} : tasks'[q] = tasks[q]
  BY <1>0 DEF UserNewQueue
<1>4. /\ reader'[w].pc = "ack"
      /\ \A v \in Workers \ {w} : reader'[v] = reader[v]
  BY <1>1 DEF UserNewQueue, EC!DeliverAndHandle, EC!Goto, ECP!IInv, ECP!TypeOK
<1>5. /\ tasks'[n].worker = w /\ tasks'[n].thread = ThreadOfNext
      /\ tasks'[n].items = <<>> /\ tasks'[n].pc = "run" /\ tasks'[n].cur = n
  BY <1>3
<1>6. NothingRevives
  BY <1>3, <1>4, <1>5, NextTrims, QueuedIsAlive DEF NothingRevives
<1>7. After(n, w, ThreadOfNext, Runs)
  BY <1>2, NextIsNewest
<1>8. \A q \in DOMAIN tasks' \ {n} : GoesOn(q)
  BY <1>3, UntouchedGoesOn
<1>9. Begins(n, n)
  BY <1>2, <1>3, <1>5, <1>7, <1>8 DEF Begins
<1> QED
  BY <1>6, <1>9 DEF AtMostOneBegins

\* queue.put: the message is run at once, queued, or lost with its queue.
LEMMA PutBegins ==
  ASSUME IInv, MailInv, [Next]_vars, NEW w \in Workers, NEW n \in Nat \ {0},
         Alive(n), NEW q, Put(q, w, n),
         q \in DOMAIN tasks =>
           tasks[q].worker = w /\ tasks[q].thread = stream[n].thread,
         After(n, w, stream[n].thread, Runs),
         \A v \in Workers : reader'[v].pc = "handle" => reader'[v] = reader[v]
  PROVE  NothingRevives /\ AtMostOneBegins
<1>1. CASE q \notin DOMAIN tasks /\ UNCHANGED <<tasks, started>>
  <2>1. \A p \in DOMAIN tasks' : GoesOn(p)
    BY <1>1, UntouchedGoesOn
  <2>2. SameItems
    BY <1>1 DEF SameItems
  <2> QED
    BY <1>1, <2>1, <2>2, NothingNewWaits DEF AtMostOneBegins, NoneBegins
<1>2. CASE q \in DOMAIN tasks /\ Idle(q) /\ Run(q, w, n)
  <2>1. /\ DOMAIN tasks' = DOMAIN tasks
        /\ \A p \in DOMAIN tasks \ {q} : tasks'[p] = tasks[p]
        /\ tasks'[q].worker = tasks[q].worker /\ tasks'[q].thread = tasks[q].thread
        /\ tasks'[q].items = tasks[q].items
        /\ tasks'[q].pc = "run" /\ tasks'[q].cur = n
        /\ started' = Append(started, [msg |-> n, worker |-> w])
    BY <1>2, Basics DEF Run, Idle, Task
  <2>2. SameItems
    BY <2>1 DEF SameItems
  <2>3. \A p \in DOMAIN tasks' \ {q} : GoesOn(p)
    BY <2>1, UntouchedGoesOn
  <2>4. Begins(n, q)
    BY <1>2, <2>1, <2>3 DEF Begins
  <2> QED
    BY <2>2, <2>4, NothingNewWaits DEF AtMostOneBegins
<1>3. CASE /\ q \in DOMAIN tasks
           /\ tasks' = [tasks EXCEPT ![q].items = Append(@, n)]
           /\ UNCHANGED started
  <2>1. tasks[q] \in Task /\ tasks[q].items \in Seq(Nat \ {0})
    BY <1>3, Basics
  <2>2. /\ DOMAIN tasks' = DOMAIN tasks
        /\ \A p \in DOMAIN tasks \ {q} : tasks'[p] = tasks[p]
        /\ tasks'[q].worker = tasks[q].worker /\ tasks'[q].thread = tasks[q].thread
        /\ tasks'[q].pc = tasks[q].pc /\ tasks'[q].cur = tasks[q].cur
        /\ tasks'[q].items = Append(tasks[q].items, n)
    BY <1>3, <2>1 DEF Task
  <2>3. \A p \in DOMAIN tasks' : GoesOn(p)
    <3>1. GoesOn(q)
      BY <1>3, <2>2 DEF MailInv, RunningBegun, Running, GoesOn
    <3> QED
      BY <2>2, <3>1, UntouchedGoesOn
  <2>4. \A k \in DOMAIN tasks'[q].items :
          \/ k \in DOMAIN tasks[q].items /\ tasks'[q].items[k] = tasks[q].items[k]
          \/ tasks'[q].items[k] = n
    <3> DEFINE s == tasks[q].items
    <3>1. s \in Seq(Nat \ {0})
      BY <2>1
    <3> HIDE DEF s
    <3>2. \A k \in DOMAIN Append(s, n) :
            \/ k \in DOMAIN s /\ Append(s, n)[k] = s[k]
            \/ Append(s, n)[k] = n
      BY <3>1, AppendIndices
    <3> QED
      BY <2>2, <3>2 DEF s
  <2>5. NothingRevives
    <3>1. \A k \in DOMAIN tasks'[q].items : Alive(tasks'[q].items[k])
      BY <1>3, <2>4, QueuedIsAlive
    <3>2. \A p \in DOMAIN tasks' : \A k \in DOMAIN tasks'[p].items :
            Alive(tasks'[p].items[k])
      BY <2>2, <3>1, QueuedIsAlive
    <3> QED
      BY <3>2, NextTrims, QueuedIsAlive DEF NothingRevives
  <2> QED
    BY <1>3, <2>3, <2>5 DEF AtMostOneBegins, NoneBegins
<1> QED
  BY <1>1, <1>2, <1>3 DEF Put

LEMMA UserPutBegins ==
  ASSUME IInv, OrderInv, MailInv, [Next]_vars, NEW w \in Workers, UserPut(w)
  PROVE  NothingRevives /\ AtMostOneBegins
<1>0. PICK n, q : n = EC!NextId /\ q = event_queues[w][ThreadOfNext]
  OBVIOUS
<1>1. ECP!IInv
  BY DEF IInv
<1>2. /\ Alive(n) /\ stream[n].thread = ThreadOfNext
      /\ n > last /\ n \in Nat \ {0} /\ ThreadOfNext \in Threads
  BY <1>0, <1>1, NextIsAlive, NextEntry DEF UserPut, Arrives
<1>3. /\ Put(q, w, n)
      /\ tasks[q].worker = w /\ tasks[q].thread = ThreadOfNext
  BY <1>0, <1>2 DEF UserPut, IInv, TasksInv, DictsAgree
<1>4. /\ reader'[w].pc = "ack"
      /\ \A v \in Workers \ {w} : reader'[v] = reader[v]
  BY <1>1 DEF UserPut, EC!DeliverAndHandle, EC!Goto, ECP!IInv, ECP!TypeOK
<1>5. After(n, w, ThreadOfNext, Runs)
  BY <1>2, NextIsNewest
<1> QED
  BY <1>2, <1>3, <1>4, <1>5, PutBegins

\* The queue that was looked up before QUEUED was published.
LEMMA PublishQueuedBegins ==
  ASSUME IInv, OrderInv, MailInv, [Next]_vars, NEW w \in Workers,
         PublishQueued(w)
  PROVE  NothingRevives /\ AtMostOneBegins
<1>0. PICK n, q : n = reader[w].cur /\ q = queue[w]
  OBVIOUS
<1>1. ECP!IInv
  BY DEF IInv
<1>2. reader[w].pc = "handle" /\ n \in Nat \ {0} /\ Alive(n)
  BY <1>0, Basics, QueuedIsAlive DEF PublishQueued, EC!Handled
<1>3. /\ Put(q, w, n)
      /\ q \in DOMAIN tasks =>
           tasks[q].worker = w /\ tasks[q].thread = stream[n].thread
  BY <1>0, <1>2 DEF PublishQueued, IInv, LookedUp
<1>4. /\ reader'[w].pc = "ack"
      /\ \A v \in Workers \ {w} : reader'[v] = reader[v]
  BY <1>1, <1>2 DEF PublishQueued, EC!Handled, EC!Goto, ECP!IInv, ECP!TypeOK
<1>5. After(n, w, stream[n].thread, Runs)
  BY <1>0, <1>2 DEF OrderInv, HandsOrdered
<1> QED
  BY <1>2, <1>3, <1>4, <1>5, PutBegins

\* A main loop takes the next entry and suspends.
LEMMA UserQueuedWaits ==
  ASSUME IInv, MailInv, [Next]_vars, NEW w \in Workers, UserQueued(w)
  PROVE  NothingRevives /\ AtMostOneBegins
<1>0. PICK n : n = EC!NextId
  OBVIOUS
<1>1. ECP!IInv
  BY DEF IInv
<1>2. Alive(n)
  BY <1>0, <1>1, NextIsAlive DEF UserQueued
<1>3. /\ reader'[w] = [pc |-> "handle", cur |-> n]
      /\ \A v \in Workers \ {w} : reader'[v] = reader[v]
      /\ UNCHANGED <<started, tasks>>
  BY <1>0, <1>1 DEF UserQueued, EC!Deliver, EC!Goto, ECP!IInv, ECP!TypeOK,
     taskVars, histVars
<1>4. NothingRevives
  BY <1>2, <1>3, NextTrims, QueuedIsAlive DEF NothingRevives
<1>5. \A p \in DOMAIN tasks' : GoesOn(p)
  BY <1>3, UntouchedGoesOn
<1> QED
  BY <1>3, <1>4, <1>5 DEF AtMostOneBegins, NoneBegins

\* A step that touches one task, which then waits, goes on or is over.
LEMMA RoundGoesOn ==
  ASSUME IInv, MailInv, NEW q \in DOMAIN tasks,
         \/ Finish(q) \/ NextRound(q)
         \/ AgentReturns(q) \/ AgentCancelled(q)
         \/ tasks' = [tasks EXCEPT ![q] = Cancelled(@)]
  PROVE  SameItems /\ \A p \in DOMAIN tasks' : GoesOn(p)
<1>1. SameItems
  BY EndOfRoundKeepsItems
<1>2. CASE Finish(q)
  <2>1. \A p \in DOMAIN tasks' : p \in DOMAIN tasks /\ tasks'[p] = tasks[p]
    BY <1>2 DEF Finish
  <2> QED
    BY <1>1, <2>1, UntouchedGoesOn
<1>3. ASSUME DOMAIN tasks' = DOMAIN tasks,
             \A p \in DOMAIN tasks \ {q} : tasks'[p] = tasks[p],
             \/ tasks'[q].pc = "get" /\ tasks'[q].cur = 0
             \/ /\ tasks[q].pc # "get" /\ tasks'[q].pc # "get"
                /\ tasks'[q].cur = tasks[q].cur
      PROVE  \A p \in DOMAIN tasks' : GoesOn(p)
  <2>1. GoesOn(q)
    BY <1>1, <1>3 DEF GoesOn, SameItems
  <2> QED
    BY <1>3, <2>1, UntouchedGoesOn
<1>4. CASE tasks' = [tasks EXCEPT ![q].pc = "get", ![q].cur = 0]
  <2>1. tasks' = [tasks EXCEPT ![q] = [@ EXCEPT !.pc = "get", !.cur = 0]]
    BY <1>4
  <2>2. /\ [tasks[q] EXCEPT !.pc = "get", !.cur = 0].pc = "get"
        /\ [tasks[q] EXCEPT !.pc = "get", !.cur = 0].cur = 0
    BY Basics DEF Task
  <2> QED
    BY <1>1, <1>3, <2>1, <2>2
<1>5. CASE AgentReturns(q) \/ AgentCancelled(q)
  <2>1. PICK pc \in {"done", "doneCancelled"} :
          tasks[q].pc # "get" /\ tasks' = [tasks EXCEPT ![q].pc = pc]
    BY <1>5 DEF AgentReturns, AgentCancelled
  <2> QED
    BY <1>1, <1>3, <2>1, Basics DEF Task
<1>6. CASE tasks' = [tasks EXCEPT ![q] = Cancelled(@)]
  <2>1. CASE tasks[q].pc # "get"
    BY <1>1, <1>3, <1>6, <2>1, Basics DEF Task, Cancelled
  <2>2. CASE tasks[q].pc = "get"
    <3>0. tasks[q] \in Task /\ tasks[q].cur = 0
      BY <2>2 DEF IInv, TasksInv, TasksTyped, MailInv, RunningBegun, Running
    <3>1. Cancelled(tasks[q]).pc = "get" /\ Cancelled(tasks[q]).cur = 0
      BY <2>2, <3>0 DEF Task, Cancelled
    <3> QED
      BY <1>1, <1>3, <1>6, <3>1
  <2> QED
    BY <2>1, <2>2
<1> QED
  BY <1>1, <1>2, <1>4, <1>5, <1>6 DEF NextRound

\* Every step begins one run at most, and revives nothing.
LEMMA NextBegins ==
  ASSUME IInv, OrderInv, MailInv, [Next]_vars
  PROVE  NothingRevives /\ AtMostOneBegins
<1>0. ECP!IInv
  BY DEF IInv
<1>1. ASSUME SameItems, UNCHANGED started, \A p \in DOMAIN tasks' : GoesOn(p),
             \A w \in Workers : reader'[w].pc = "handle" => reader'[w] = reader[w]
      PROVE  NothingRevives /\ AtMostOneBegins
  BY <1>1, NothingNewWaits DEF AtMostOneBegins, NoneBegins
<1>2. UNCHANGED tasks => SameItems /\ \A p \in DOMAIN tasks' : GoesOn(p)
  BY UntouchedGoesOn DEF SameItems
<1>3. CASE UNCHANGED vars
  BY <1>1, <1>2, <1>3 DEF vars, streamVars, workerVars, taskVars, histVars
<1>4. ASSUME NEW q \in DOMAIN tasks, TaskStep(q) \/ DoneRaises(q)
      PROVE  NothingRevives /\ AtMostOneBegins
  <2>1. CASE Take(q)
    BY <2>1, TakeBegins
  <2>2. CASE IdleTimeout(q) \/ AgentReturns(q) \/ AgentCancelled(q)
    <3>1. SameItems /\ \A p \in DOMAIN tasks' : GoesOn(p)
      BY <2>2, RoundGoesOn DEF IdleTimeout
    <3> QED
      BY <1>1, <2>2, <3>1 DEF IdleTimeout, AgentReturns, AgentCancelled,
         streamVars, histVars
  <2>3. CASE PublishDone(q) \/ DoneInterrupted(q) \/ DoneRaises(q)
    <3>1. SameItems /\ \A p \in DOMAIN tasks' : GoesOn(p)
      BY <2>3, RoundGoesOn DEF PublishDone, DoneInterrupted, DoneRaises
    <3> QED
      BY <1>1, <2>3, <3>1 DEF PublishDone, DoneInterrupted, DoneRaises, histVars
  <2> QED
    BY <1>4, <2>1, <2>2, <2>3 DEF TaskStep
\* A main loop that goes anywhere but into _handle_user_event's await.
<1>5. ASSUME NEW w \in Workers, NEW pc \in {"create", "read", "ack", "ended"},
             NEW cur, EC!Goto(w, pc, cur), UNCHANGED started,
             SameItems, \A p \in DOMAIN tasks' : GoesOn(p)
      PROVE  NothingRevives /\ AtMostOneBegins
  <2>1. \A v \in Workers : reader'[v].pc = "handle" => reader'[v] = reader[v]
    BY <1>0, <1>5 DEF EC!Goto, ECP!IInv, ECP!TypeOK
  <2> QED
    BY <1>1, <1>5, <2>1
<1>6. ASSUME NEW w \in Workers, MainStep(w)
      PROVE  NothingRevives /\ AtMostOneBegins
  <2>1. CASE UserNewQueue(w) \/ UserPut(w) \/ UserQueued(w) \/ PublishQueued(w)
    BY <2>1, UserNewQueueBegins, UserPutBegins, UserQueuedWaits,
       PublishQueuedBegins
  <2>2. CASE Start(w) \/ CreateGroup(w) \/ Ignore(w) \/ Ack(w)
    BY <1>2, <1>5, <2>2 DEF Start, CreateGroup, Ignore, Ack, EC!Consume,
       EC!CreateGroup, EC!DeliverAndHandle, EC!Ack, workerVars, taskVars,
       histVars
  <2>3. CASE Stop(w)
    <3>1. ThreadOfNext \in Threads
      BY <1>0, <2>3, NextEntry DEF Stop, Arrives
    <3>2. \A q : q = queue_tasks[w][ThreadOfNext] /\ q # 0 => q \in DOMAIN tasks
      BY <3>1 DEF IInv, TasksInv, DictsAgree
    <3>3. SameItems /\ \A p \in DOMAIN tasks' : GoesOn(p)
      BY <1>2, <2>3, <3>2, RoundGoesOn DEF Stop, taskVars
    <3> QED
      BY <1>5, <2>3, <3>3 DEF Stop, EC!DeliverAndHandle, histVars
  <2> QED
    BY <1>6, <2>1, <2>2, <2>3 DEF MainStep
<1>7. ASSUME NEW w \in Workers, Mishap(w)
      PROVE  NothingRevives /\ AtMostOneBegins
  <2>1. CASE LoseReply(w)
    BY <1>1, <1>2, <2>1 DEF LoseReply, EC!LoseReply, workerVars, taskVars,
       histVars
  <2>2. CASE RedisFails(w) \/ QueuedRaises(w) \/ CancelMain(w)
    BY <1>2, <1>5, <2>2 DEF RedisFails, QueuedRaises, CancelMain, EC!RedisFails,
       EC!Abandon, workerVars, taskVars, histVars
  <2>3. CASE CancelQueues(w)
    <3>1. /\ SameItems
          /\ \A p \in DOMAIN tasks' : /\ p \in DOMAIN tasks
                                      /\ \/ tasks'[p] = tasks[p]
                                         \/ /\ tasks[p].pc # "get"
                                            /\ tasks'[p].pc # "get"
                                            /\ tasks'[p].cur = tasks[p].cur
      BY <2>3, Basics DEF CancelQueues, Cancelled, SameItems, Task
    <3>2. \A p \in DOMAIN tasks' : GoesOn(p)
      BY <3>1, UntouchedGoesOn DEF GoesOn, SameItems
    <3> QED
      BY <1>1, <2>3, <3>1, <3>2 DEF CancelQueues, streamVars, histVars
  <2>4. CASE Exit(w)
    <3>1. SameItems /\ \A p \in DOMAIN tasks' : GoesOn(p)
      BY <2>4, UntouchedGoesOn DEF Exit, SameItems
    <3> QED
      BY <1>5, <2>4, <3>1 DEF Exit, EC!Abandon, histVars
  <2> QED
    BY <1>7, <2>1, <2>2, <2>3, <2>4 DEF Mishap
<1>8. ASSUME NEW t \in Threads, SendMessage(t) \/ StopConversation(t)
      PROVE  NothingRevives /\ AtMostOneBegins
  BY <1>1, <1>2, <1>8 DEF SendMessage, StopConversation, Publish, workerVars,
     taskVars, histVars
<1> QED
  BY <1>3, <1>4, <1>6, <1>7, <1>8 DEF Next

-----------------------------------------------------------------------------

\* The runs that were begun, after one more.
LEMMA BegunAppend ==
  ASSUME IInv, NEW r, r \in [msg : Nat \ {0}, worker : Workers],
         started' = Append(started, r)
  PROVE  /\ RunsBegun' = RunsBegun \union {r}
         /\ DOMAIN started' = DOMAIN started \union {Len(started) + 1}
         /\ \A i \in DOMAIN started : started'[i] = started[i]
         /\ started'[Len(started) + 1] = r
<1>1. /\ DOMAIN started' = DOMAIN started \union {Len(started) + 1}
      /\ \A i \in DOMAIN started : started'[i] = started[i]
      /\ started'[Len(started) + 1] = r
  BY Basics, AppendIndices
<1> QED
  BY <1>1 DEF RunsBegun

LEMMA AliveId == ASSUME IInv, NEW n, Alive(n) PROVE n \in Nat \ {0}
BY Basics DEF Alive, IsUser, Ids

LEMMA MailKept ==
  ASSUME IInv, Stable, MailInv, NothingRevives, AtMostOneBegins
  PROVE  MailInv'
<1> DEFINE User(n) == n \in 1..Len(stream') /\ stream'[n].type = "USER"
<1>1. /\ \A q \in DOMAIN tasks' : \A k \in DOMAIN tasks'[q].items :
           User(tasks'[q].items[k])
      /\ \A w \in Workers : reader'[w].pc = "handle" => User(reader'[w].cur)
  BY UsersStay DEF NothingRevives, Alive
\* What holds of the tasks that go on.
<1>2. ASSUME NEW p \in DOMAIN tasks', GoesOn(p), RunsBegun \subseteq RunsBegun'
      PROVE  IF Running(p)'
             THEN /\ [msg |-> tasks'[p].cur, worker |-> tasks'[p].worker]
                       \in RunsBegun'
                  /\ stream'[tasks'[p].cur].thread = tasks'[p].thread
             ELSE tasks'[p].cur = 0
  <2>1. CASE tasks'[p].pc = "get" /\ tasks'[p].cur = 0
    BY <2>1 DEF Running
  <2>2. CASE /\ p \in DOMAIN tasks /\ tasks[p].pc # "get" /\ tasks'[p].pc # "get"
             /\ tasks'[p].cur = tasks[p].cur
             /\ tasks'[p].worker = tasks[p].worker
             /\ tasks'[p].thread = tasks[p].thread
    <3>1. /\ [msg |-> tasks[p].cur, worker |-> tasks[p].worker] \in RunsBegun
          /\ stream[tasks[p].cur].thread = tasks[p].thread
      BY <2>2 DEF MailInv, RunningBegun, Running
    <3>2. IsUser(tasks[p].cur)
      BY <3>1 DEF RunsBegun, MailInv, UsersOnly
    <3>3. stream'[tasks[p].cur] = stream[tasks[p].cur]
      BY <3>2, UsersStay
    <3> QED
      BY <1>2, <2>2, <3>1, <3>3 DEF Running
  <2> QED
    BY <1>2, <2>1, <2>2 DEF GoesOn
<1>3. CASE NoneBegins
  <2>1. RunsBegun' = RunsBegun
    BY <1>3 DEF NoneBegins, RunsBegun
  <2>2. RunningBegun'
    BY <1>2, <1>3, <2>1 DEF NoneBegins, RunningBegun
  <2>3. \A i \in DOMAIN started' : User(started'[i].msg)
    BY <1>3, UsersStay DEF NoneBegins, MailInv, UsersOnly
  <2> QED
    BY <1>1, <2>2, <2>3 DEF MailInv, UsersOnly, IsUser, Ids
<1>4. ASSUME NEW m, NEW q, Begins(m, q)
      PROVE  MailInv'
  <2>1. PICK v \in Workers : v = tasks'[q].worker
    BY <1>4 DEF Begins
  <2>2. [msg |-> m, worker |-> v] \in [msg : Nat \ {0}, worker : Workers]
    BY <1>4, AliveId DEF Begins
  <2>3. started' = Append(started, [msg |-> m, worker |-> v])
    BY <1>4, <2>1 DEF Begins
  <2>4. /\ RunsBegun' = RunsBegun \union {[msg |-> m, worker |-> v]}
        /\ DOMAIN started' = DOMAIN started \union {Len(started) + 1}
        /\ \A i \in DOMAIN started : started'[i] = started[i]
        /\ started'[Len(started) + 1] = [msg |-> m, worker |-> v]
    BY <2>2, <2>3, BegunAppend
  <2>5. User(m) /\ stream'[m] = stream[m]
    BY <1>4, UsersStay DEF Begins, Alive
  <2>6. \A i \in DOMAIN started' : User(started'[i].msg)
    BY <2>4, <2>5, UsersStay DEF MailInv, UsersOnly
  <2>7. RunningBegun'
    <3>1. /\ [msg |-> tasks'[q].cur, worker |-> tasks'[q].worker] \in RunsBegun'
          /\ stream'[tasks'[q].cur].thread = tasks'[q].thread
          /\ tasks'[q].pc # "get"
      BY <1>4, <2>1, <2>4, <2>5 DEF Begins
    <3>2. \A p \in DOMAIN tasks' \ {q} : GoesOn(p)
      BY <1>4 DEF Begins
    <3> QED
      BY <1>2, <2>4, <3>1, <3>2 DEF RunningBegun, Running
  <2> QED
    BY <1>1, <2>6, <2>7 DEF MailInv, UsersOnly, IsUser, Ids
<1> QED
  BY <1>3, <1>4 DEF AtMostOneBegins

LEMMA InitMail == ASSUME Init PROVE MailInv
BY DEF Init, EC!Init, MailInv, UsersOnly, RunningBegun

LEMMA NextMail ==
  ASSUME IInv, OrderInv, MailInv, [Next]_vars
  PROVE  MailInv'
BY NextStable, NextBegins, MailKept

LEMMA MailInvariant == Spec => [](IInv /\ OrderInv /\ MailInv)
<1>1. Init => OrderInv /\ MailInv
  BY InitOrder, InitMail
<1>2. IInv /\ OrderInv /\ MailInv /\ [Next]_vars => OrderInv' /\ MailInv'
  BY NextOrder, NextMail
<1> QED
  BY <1>1, <1>2, Invariant, PTL DEF Spec

-----------------------------------------------------------------------------
(***************************************************************************)
(* The refinement, one conjunct of Mailbox!Next at a time                  *)
(***************************************************************************)

Users == {n \in Ids : IsUser(n)}
Sent == [n \in Users |-> stream[n].thread]
StillWaiting == {n \in Ids : IsUser(n) /\ Waiting(n)}
Over == RunsBegun \ RunningNow

\* New messages come after the old ones.
LEMMA SendStep ==
  ASSUME IInv, Stable
  PROVE  /\ Users \subseteq Users'
         /\ \A n \in Users : Sent'[n] = Sent[n]
         /\ \A n \in Users' \ Users, m \in Users : m < n
<1>1. \A n \in Users : /\ n \in Users' /\ stream'[n] = stream[n]
                       /\ n \in 1..Len(stream)
  BY UsersStay DEF Users, IsUser, Ids
<1>2. \A n \in Users' \ Users : n \in Nat /\ n > Len(stream)
  BY DEF Users, IsUser, Ids, Stable
<1>3. \A n \in Users' \ Users, m \in Users : m < n
  BY <1>1, <1>2 DEF Stable
<1>4. \A n \in Users : Sent'[n] = Sent[n]
  BY <1>1 DEF Sent
<1> QED
  BY <1>1, <1>3, <1>4

\* What may be run after the step could be run before, or is new.
LEMMA DropStep ==
  ASSUME IInv, Stable, NothingRevives
  PROVE  StillWaiting' \subseteq StillWaiting \union (Users' \ Users)
<1> SUFFICES ASSUME NEW n \in StillWaiting', n \in Users
             PROVE  Waiting(n)
  BY DEF StillWaiting, Users
<1>1. n \in Nat
  BY DEF Users, Ids, Stable
<1>2. CASE last' < n /\ trimmed' < n
  <2>1. trimmed \in Nat /\ trimmed' \in Nat /\ last \in Nat /\ last' \in Nat
    BY DEF Stable, ECP!IInv, ECP!TypeOK, NothingRevives
  <2> QED
    BY <1>1, <1>2, <2>1 DEF Waiting, NothingRevives, Stable
<1>3. CASE \E w \in Workers : reader'[w].pc = "handle" /\ reader'[w].cur = n
  BY <1>3 DEF NothingRevives, Alive
<1>4. CASE \E q \in DOMAIN tasks' : n \in ItemsOf(q)'
  BY <1>4 DEF NothingRevives, Alive, ItemsOf
<1> QED
  BY <1>2, <1>3, <1>4 DEF StillWaiting, Waiting

\* Runs in progress were begun.
LEMMA RunningWereBegun ==
  ASSUME RunningBegun
  PROVE  RunningNow \subseteq RunsBegun
BY DEF RunningBegun, RunningNow

LEMMA EndStep ==
  ASSUME IInv, MailInv, RunningBegun', AtMostOneBegins
  PROVE  /\ Over \subseteq Over' /\ Over' \subseteq Over \union RunningNow
         /\ RunningNow \subseteq RunningNow' \union Over'
         /\ RunningNow' \intersect Over' = {}
<1>1. ASSUME NEW q \in DOMAIN tasks', GoesOn(q), tasks'[q].pc # "get"
      PROVE  [msg |-> tasks'[q].cur, worker |-> tasks'[q].worker] \in RunningNow
  BY <1>1 DEF GoesOn, RunningNow, Running
<1>2. RunningNow' \subseteq RunsBegun'
  BY DEF RunningBegun, RunningNow
<1>3. CASE NoneBegins
  <2>1. RunningNow' \subseteq RunningNow
    BY <1>1, <1>3 DEF NoneBegins, RunningNow, Running
  <2>2. RunsBegun' = RunsBegun
    BY <1>3 DEF NoneBegins, RunsBegun
  <2>3. RunningNow \subseteq RunsBegun
    BY RunningWereBegun DEF MailInv
  <2> QED
    BY <2>1, <2>2, <2>3 DEF Over
<1>4. ASSUME NEW m, NEW q, Begins(m, q)
      PROVE  /\ Over \subseteq Over' /\ Over' \subseteq Over \union RunningNow
             /\ RunningNow \subseteq RunningNow' \union Over'
             /\ RunningNow' \intersect Over' = {}
  <2>1. PICK v \in Workers : v = tasks'[q].worker
    BY <1>4 DEF Begins
  <2>2. PICK r : r = [msg |-> m, worker |-> v]
    OBVIOUS
  <2>3. r \in [msg : Nat \ {0}, worker : Workers] /\ started' = Append(started, r)
    BY <1>4, <2>1, <2>2, AliveId DEF Begins
  <2>4. RunsBegun' = RunsBegun \union {r}
    BY <2>3, BegunAppend
  <2>5. r \in RunningNow'
    BY <1>4, <2>1, <2>2 DEF Begins, RunningNow, Running
  <2>6. RunningNow' \subseteq RunningNow \union {r}
    <3>1. \A p \in DOMAIN tasks' : p # q => GoesOn(p)
      BY <1>4 DEF Begins
    <3>2. [msg |-> tasks'[q].cur, worker |-> tasks'[q].worker] = r
      BY <1>4, <2>1, <2>2 DEF Begins
    <3> QED
      BY <1>1, <3>1, <3>2 DEF RunningNow, Running
  <2>7. r \notin RunsBegun
    <3>1. ASSUME NEW i \in DOMAIN started PROVE started[i].msg # m
      <4>1. [msg |-> started[i].msg, worker |-> started[i].worker,
             thread |-> stream[started[i].msg].thread] \in Runs
        BY DEF Runs
      <4> QED
        BY <1>4, <4>1 DEF Begins, After
    <3> QED
      BY <2>2, <3>1 DEF RunsBegun
  <2>8. RunningNow \subseteq RunsBegun
    BY RunningWereBegun DEF MailInv
  <2> QED
    BY <2>4, <2>5, <2>6, <2>7, <2>8 DEF Over
<1> QED
  BY <1>3, <1>4 DEF AtMostOneBegins

\* The message of a run that begins waited, waits no longer, and follows the
\* runs of its thread, all of which are over.
LEMMA StartStep ==
  ASSUME IInv, Stable, OrderInv, MailInv, AtMostOneBegins,
         IInv', OrderInv', MailInv'
  PROVE  \A r \in RunningNow' \ RunningNow :
           /\ r.msg \in StillWaiting \union (Users' \ Users)
           /\ r.msg \notin StillWaiting'
           /\ \A p \in (RunningNow' \union Over') \ {r} :
                /\ p.msg # r.msg
                /\ p.worker = r.worker /\ Sent'[p.msg] = Sent'[r.msg] =>
                     p.msg < r.msg /\ p \in Over'
<1> SUFFICES ASSUME NEW r \in RunningNow', r \notin RunningNow
             PROVE  /\ r.msg \in StillWaiting
                    /\ r.msg \notin StillWaiting'
                    /\ \A p \in (RunningNow' \union Over') \ {r} :
                         /\ p.msg # r.msg
                         /\ p.worker = r.worker /\ Sent'[p.msg] = Sent'[r.msg] =>
                              p.msg < r.msg /\ p \in Over'
  OBVIOUS
<1>1. PICK q \in DOMAIN tasks' :
        /\ tasks'[q].pc # "get"
        /\ r = [msg |-> tasks'[q].cur, worker |-> tasks'[q].worker]
  BY DEF RunningNow, Running
<1>2. ~ GoesOn(q)
  BY <1>1 DEF GoesOn, RunningNow, Running
<1>3. PICK m : Begins(m, q)
  <2>1. PICK m, p : Begins(m, p)
    BY <1>2 DEF AtMostOneBegins, NoneBegins
  <2> QED
    BY <1>2, <2>1 DEF Begins
<1>4. PICK v, t : v = tasks'[q].worker /\ t = tasks'[q].thread
  OBVIOUS
<1>5. /\ Alive(m) /\ tasks'[q].cur = m /\ v \in Workers /\ t = stream[m].thread
      /\ started' = Append(started, [msg |-> m, worker |-> v])
      /\ After(m, v, t, Runs)
  BY <1>3, <1>4 DEF Begins
<1>6. r = [msg |-> m, worker |-> v] /\ r.msg = m /\ r.worker = v
  BY <1>1, <1>4, <1>5
<1>7. r \in [msg : Nat \ {0}, worker : Workers]
  BY <1>5, <1>6, AliveId
<1>8. RunsBegun' = RunsBegun \union {r}
  BY <1>5, <1>6, <1>7, BegunAppend
<1>9. m \in StillWaiting
  BY <1>5 DEF Alive, StillWaiting, IsUser
\* In the next state m was started, so it is behind the cursor and, as queues
\* and main loops hold nothing that was, nowhere.
<1>10. m \notin StillWaiting'
  <2>1. PICK i \in DOMAIN started' : started'[i] = r
    BY <1>8 DEF RunsBegun
  <2>2. m \in 1..last'
    BY <1>6, <2>1 DEF OrderInv, RunsDelivered
  <2>3. [msg |-> m, worker |-> v, thread |-> stream'[m].thread] \in Runs'
    BY <1>6, <2>1 DEF Runs
  <2>4. \A w \in Workers : reader'[w].pc = "handle" => reader'[w].cur # m
    BY <2>3 DEF OrderInv, HandsOrdered, After
  <2>5. \A p \in DOMAIN tasks' : \A k \in DOMAIN tasks'[p].items :
          tasks'[p].items[k] # m
    BY <2>3 DEF OrderInv, QueuesOrdered, After
  <2>6. \A p \in DOMAIN tasks' : m \notin ItemsOf(p)'
    BY <2>5 DEF ItemsOf
  <2>7. ~ (last' < m)
    BY <2>2 DEF Stable
  <2> QED
    BY <2>4, <2>6, <2>7 DEF StillWaiting, Waiting
<1>11. ASSUME NEW p \in (RunningNow' \union Over') \ {r}
       PROVE  /\ p.msg # r.msg
              /\ p.worker = r.worker /\ Sent'[p.msg] = Sent'[r.msg] =>
                   p.msg < r.msg /\ p \in Over'
  <2>1. p \in RunsBegun
    <3>1. RunningNow' \subseteq RunsBegun'
      BY DEF MailInv, RunningBegun, RunningNow
    <3> QED
      BY <1>8, <1>11, <3>1 DEF Over
  <2>2. PICK i \in DOMAIN started : started[i] = p
    BY <2>1 DEF RunsBegun
  <2>3. [msg |-> p.msg, worker |-> p.worker, thread |-> stream[p.msg].thread]
          \in Runs
    BY <2>2 DEF Runs
  <2>4. /\ p.msg # m
        /\ p.worker = v /\ stream[p.msg].thread = t => p.msg < m
    BY <1>5, <2>3 DEF After
  <2>5. /\ p.msg \in Users' /\ stream'[p.msg] = stream[p.msg]
        /\ m \in Users' /\ stream'[m] = stream[m]
    <3>1. IsUser(p.msg) /\ IsUser(m)
      BY <1>5, <2>2 DEF MailInv, UsersOnly, Alive
    <3> QED
      BY <3>1, UsersStay DEF Users, IsUser, Ids
  <2>6. Sent'[p.msg] = stream[p.msg].thread /\ Sent'[m] = t
    BY <1>5, <2>5 DEF Sent
  <2>7. ASSUME p.worker = v, stream[p.msg].thread = t PROVE p \notin RunningNow'
    <3>1. SUFFICES ASSUME p \in RunningNow' PROVE FALSE
      OBVIOUS
    <3>2. PICK x \in DOMAIN tasks' :
            /\ tasks'[x].pc # "get"
            /\ p = [msg |-> tasks'[x].cur, worker |-> tasks'[x].worker]
      BY <3>1 DEF RunningNow, Running
    <3>3. p.msg = tasks'[x].cur /\ p.worker = tasks'[x].worker
      BY <3>2
    <3>4. stream'[p.msg].thread = tasks'[x].thread
      BY <3>2, <3>3 DEF MailInv, RunningBegun, Running
    <3>5. tasks'[x].worker = tasks'[q].worker /\ tasks'[x].thread = tasks'[q].thread
      BY <1>4, <2>5, <2>7, <3>3, <3>4
    <3>6. x = q
      BY <3>5 DEF IInv, TasksInv, OneTaskPerThread
    <3> QED
      BY <1>5, <2>4, <3>3, <3>6
  <2> QED
    BY <1>6, <1>11, <2>4, <2>6, <2>7
<1> QED
  BY <1>6, <1>9, <1>10, <1>11

\* The worker is a mailbox: every step of the workers, the queues and the
\* stream is a step of Mailbox or leaves it alone, so nothing the timeouts,
\* STOP, failures and restarts do runs a message twice, out of order or beside
\* another one of its conversation in the same process.
THEOREM WorkersAreMailbox == Spec => MailboxSpec
<1>1. Init => MB!Init
  BY DEF Init, EC!Init, MB!Init, Ids, IsUser, RunningNow, RunsBegun
<1>2. ASSUME IInv, OrderInv, MailInv, IInv', OrderInv', MailInv', [Next]_vars
      PROVE  MB!Next
  <2>1. Stable /\ NothingRevives /\ AtMostOneBegins
    BY <1>2, NextStable, NextBegins
  <2>2. MB!Send
    BY <1>2, <2>1, SendStep DEF MB!Send, Sent, Users
  <2>3. MB!Drop
    BY <1>2, <2>1, DropStep DEF MB!Drop, StillWaiting, Sent, Users
  <2>4. MB!Start
    BY <1>2, <2>1, StartStep DEF MB!Start, StillWaiting, Sent, Users, Over
  <2>5. MB!End
    BY <1>2, <2>1, EndStep DEF MB!End, Over, MailInv
  <2> QED
    BY <2>2, <2>3, <2>4, <2>5 DEF MB!Next
<1> QED
  BY <1>1, <1>2, MailInvariant, PTL DEF Spec, MailboxSpec, MB!Spec

-----------------------------------------------------------------------------
(***************************************************************************)
(* What is lost, and to what                                               *)
(***************************************************************************)

\* A task that was cancelled and has not ended.
NoFailure == faults = 0 /\ calls.crash = 0

\* As long as nothing fails: no worker shuts down, and only a STOP cancels.
OnlyStopsCancel ==
  NoFailure =>
    /\ \A w \in Workers : phase[w] \in {"down", "up"}
    /\ \A q \in DOMAIN tasks :
         tasks[q].pc \in Unwinding => StopHandledFor(tasks[q].thread)

\* The queue a main loop looked up before it published QUEUED is still served
\* after it, unless a STOP came between.
QueueIsServed ==
  NoFailure =>
    \A w \in Workers : reader[w].pc = "handle" =>
      \/ queue[w] \in DOMAIN tasks
      \/ StopHandledFor(stream[reader[w].cur].thread)

LossInv == OnlyStopsCancel /\ QueueIsServed /\ LossHasCause

\* After the step a STOP for t was handled.
StoppedNext(t) ==
  \E s \in handled' : stream'[s].type = "STOP" /\ stream'[s].thread = t

\* After the step n was run, is queued or held, or its thread was stopped.
Kept(n) ==
  \/ n \in StartedMsgs'
  \/ \E q \in DOMAIN tasks' : \E k \in DOMAIN tasks'[q].items :
       tasks'[q].items[k] = n
  \/ \E w \in Workers : reader'[w].pc = "handle" /\ reader'[w].cur = n
  \/ StoppedNext(stream[n].thread)

\* The step loses no message that was queued, held or delivered by it, and
\* what cancels and what is remembered is accounted for.
Accounts ==
  /\ \A q \in DOMAIN tasks : \A k \in DOMAIN tasks[q].items :
       Kept(tasks[q].items[k])
  /\ \A w \in Workers : reader[w].pc = "handle" => Kept(reader[w].cur)
  /\ \/ handled' \union pel' \subseteq handled \union pel
     \/ EC!NextId <= Len(stream) /\ (IsUser(EC!NextId) => Kept(EC!NextId))
  /\ \A w \in Workers : phase'[w] \in {"down", "up"}
  /\ \A q \in DOMAIN tasks' :
       tasks'[q].pc \in Unwinding => StoppedNext(tasks'[q].thread)
  /\ \A w \in Workers : reader'[w].pc = "handle" =>
       \/ queue'[w] \in DOMAIN tasks'
       \/ StoppedNext(stream[reader'[w].cur].thread)

LEMMA StopsStay ==
  ASSUME IInv, Stable, handled \subseteq handled', NEW t, StopHandledFor(t)
  PROVE  StoppedNext(t)
<1>1. PICK s \in handled : stream[s].type = "STOP" /\ stream[s].thread = t
  BY DEF StopHandledFor
<1>2. s \in 1..Len(stream)
  BY DEF IInv, ECP!IInv, ECP!TypeOK
<1>3. stream'[s] = stream[s]
  BY <1>2 DEF Stable
<1> QED
  BY <1>1, <1>3 DEF StoppedNext

\* The same for the thread of an entry, which stays what it is.
LEMMA StopsReach ==
  ASSUME Stable, NEW n \in 1..Len(stream), StoppedNext(stream[n].thread)
  PROVE  StopHandledFor(stream[n].thread)'
BY DEF Stable, StoppedNext, StopHandledFor

\* A message is kept where it is.
LEMMA StaysKept ==
  /\ \A p \in DOMAIN tasks :
       p \in DOMAIN tasks' /\ tasks'[p].items = tasks[p].items =>
         \A k \in DOMAIN tasks[p].items : Kept(tasks[p].items[k])
  /\ \A w \in Workers :
       reader[w].pc = "handle" /\ reader'[w] = reader[w] => Kept(reader[w].cur)
BY DEF Kept

\* Runs that were begun stay begun.
LEMMA StartedGrow ==
  ASSUME IInv, AtMostOneBegins
  PROVE  StartedMsgs \subseteq StartedMsgs'
<1>1. CASE NoneBegins
  BY <1>1 DEF NoneBegins, StartedMsgs
<1>2. ASSUME NEW m, NEW q, Begins(m, q)
      PROVE  StartedMsgs \subseteq StartedMsgs'
  <2>1. PICK r : r = [msg |-> m, worker |-> tasks'[q].worker]
    OBVIOUS
  <2>2. r \in [msg : Nat \ {0}, worker : Workers] /\ started' = Append(started, r)
    BY <1>2, <2>1, AliveId DEF Begins
  <2> QED
    BY <2>2, BegunAppend DEF StartedMsgs
<1> QED
  BY <1>1, <1>2 DEF AtMostOneBegins

\* A step that accounts for the messages keeps the invariant.
LEMMA AccountsKeeps ==
  ASSUME IInv, IInv', Stable, LossInv, NoFailure, AtMostOneBegins,
         NothingRevives, Accounts, handled \subseteq handled',
         handled' \union pel' \subseteq handled \union pel \union {ECP!NextId}
  PROVE  LossInv'
<1>0. ECP!NextId = EC!NextId
  BY DEF ECP!NextId, EC!NextId
<1>1. \A t : StoppedNext(t) <=> StopHandledFor(t)'
  BY DEF StoppedNext, StopHandledFor
<1>2. OnlyStopsCancel'
  BY <1>1 DEF OnlyStopsCancel, Accounts, StoppedNext, StopHandledFor
<1>3. QueueIsServed'
  <2>1. ASSUME NEW w \in Workers, reader'[w].pc = "handle"
        PROVE  \/ queue'[w] \in DOMAIN tasks'
               \/ StoppedNext(stream'[reader'[w].cur].thread)
    <3>1. reader'[w].cur \in 1..Len(stream)
      BY <2>1 DEF NothingRevives, Alive, IsUser, Ids
    <3> QED
      BY <2>1, <3>1 DEF Accounts, Stable
  <2> QED
    BY <2>1 DEF QueueIsServed, StoppedNext, StopHandledFor
<1>4. LossHasCause'
  <2> SUFFICES ASSUME NEW n \in handled' \union pel', n \in Ids',
                      stream'[n].type = "USER"
               PROVE  Kept(n) /\ stream'[n] = stream[n]
    BY <1>1 DEF LossHasCause, Lost, IsUser, Kept, ItemsOf
  <2>1. CASE n \in handled \union pel
    <3>1. n \in 1..Len(stream)
      <4>1. /\ born \in Nat /\ last \in Nat /\ last <= Len(stream)
            /\ n \in born+1..last
        BY <2>1, Basics DEF IInv, ECP!IInv, ECP!TypeOK
      <4> QED
        BY <4>1, Basics
    <3>2. stream'[n] = stream[n] /\ IsUser(n)
      BY <3>1 DEF Stable, IsUser, Ids
    <3>3. \/ n \in StartedMsgs
          \/ \E q \in DOMAIN tasks : n \in ItemsOf(q)
          \/ \E w \in Workers : reader[w].pc = "handle" /\ reader[w].cur = n
          \/ StopHandledFor(stream[n].thread)
      BY <2>1, <3>2 DEF LossInv, LossHasCause, Lost, NoFailure, IsUser
    <3>4. StartedMsgs \subseteq StartedMsgs'
      BY StartedGrow
    <3> QED
      BY <3>2, <3>3, <3>4, StopsStay DEF Accounts, ItemsOf, Kept
  <2>2. CASE n = EC!NextId /\ n \notin handled \union pel
    <3>1. n <= Len(stream) /\ (IsUser(n) => Kept(n))
      BY <2>2 DEF Accounts
    <3>2. n \in 1..Len(stream)
      BY <3>1 DEF Ids
    <3> QED
      BY <3>1, <3>2 DEF Stable, IsUser, Ids
  <2> QED
    BY <1>0, <2>1, <2>2
<1> QED
  BY <1>2, <1>3, <1>4 DEF LossInv

\* The queues are as they were, and so are the main loops with a message in
\* their hands; a task that was cancelled in the step was so by a STOP.
LEMMA StandingAccounts ==
  ASSUME IInv, Stable, LossInv, NoFailure, handled \subseteq handled',
         DOMAIN tasks' = DOMAIN tasks, SameItems,
         \A q \in DOMAIN tasks : tasks'[q].pc \in Unwinding =>
           tasks[q].pc \in Unwinding \/ StoppedNext(tasks[q].thread),
         \A w \in Workers :
           reader[w].pc = "handle" \/ reader'[w].pc = "handle" =>
             reader'[w] = reader[w],
         UNCHANGED queue,
         \A w \in Workers : phase'[w] \in {"down", "up"},
         \/ handled' \union pel' \subseteq handled \union pel
         \/ EC!NextId <= Len(stream) /\ (IsUser(EC!NextId) => Kept(EC!NextId))
  PROVE  Accounts
<1>1. \A q \in DOMAIN tasks : \A k \in DOMAIN tasks[q].items :
        Kept(tasks[q].items[k])
  BY StaysKept DEF SameItems
<1>2. \A w \in Workers : reader[w].pc = "handle" => Kept(reader[w].cur)
  BY StaysKept
<1>3. \A q \in DOMAIN tasks' :
        tasks'[q].pc \in Unwinding => StoppedNext(tasks'[q].thread)
  BY StopsStay DEF SameItems, LossInv, OnlyStopsCancel
<1>4. \A w \in Workers : reader'[w].pc = "handle" =>
       \/ queue'[w] \in DOMAIN tasks'
       \/ StoppedNext(stream[reader'[w].cur].thread)
  BY StopsStay DEF LossInv, QueueIsServed
<1> QED
  BY <1>1, <1>2, <1>3, <1>4 DEF Accounts

\* A task ends because it waited in vain, with nothing queued or looked up, or
\* because its thread was stopped.
LEMMA FinishAccounts ==
  ASSUME IInv, OrderInv, Stable, LossInv, NoFailure, handled \subseteq handled',
         NEW q \in DOMAIN tasks, Finish(q), UNCHANGED <<queue, phase>>,
         \A w \in Workers :
           reader[w].pc = "handle" \/ reader'[w].pc = "handle" =>
             reader'[w] = reader[w],
         \/ StoppedNext(tasks[q].thread)
         \/ tasks[q].items = <<>> /\ queue[tasks[q].worker] # q,
         \/ handled' \union pel' \subseteq handled \union pel
         \/ EC!NextId <= Len(stream) /\ (IsUser(EC!NextId) => Kept(EC!NextId))
  PROVE  Accounts
<1>1. /\ DOMAIN tasks' = DOMAIN tasks \ {q}
      /\ \A p \in DOMAIN tasks' : tasks'[p] = tasks[p]
  BY DEF Finish
<1>2. \A k \in DOMAIN tasks[q].items : Kept(tasks[q].items[k])
  <2>1. \A k \in DOMAIN tasks[q].items :
          stream[tasks[q].items[k]].thread = tasks[q].thread
    BY DEF OrderInv, QueuesOrdered
  <2>2. CASE StoppedNext(tasks[q].thread)
    BY <2>1, <2>2 DEF Kept
  <2>3. CASE tasks[q].items = <<>>
    BY <2>3
  <2> QED
    BY <2>2, <2>3
<1>3. \A p \in DOMAIN tasks : \A k \in DOMAIN tasks[p].items :
        Kept(tasks[p].items[k])
  <2>1. \A p \in DOMAIN tasks : p # q => p \in DOMAIN tasks'
                                         /\ tasks'[p].items = tasks[p].items
    BY <1>1
  <2> QED
    BY <1>2, <2>1, StaysKept
<1>4. \A w \in Workers : reader[w].pc = "handle" => Kept(reader[w].cur)
  BY StaysKept
<1>5. \A p \in DOMAIN tasks' :
        tasks'[p].pc \in Unwinding => StoppedNext(tasks'[p].thread)
  BY <1>1, StopsStay DEF LossInv, OnlyStopsCancel
<1>6. ASSUME NEW w \in Workers, reader'[w].pc = "handle"
      PROVE  \/ queue'[w] \in DOMAIN tasks'
             \/ StoppedNext(stream[reader'[w].cur].thread)
  <2>1. reader[w].pc = "handle" /\ reader'[w] = reader[w] /\ queue'[w] = queue[w]
    BY <1>6
  <2>2. CASE StopHandledFor(stream[reader[w].cur].thread)
    BY <2>1, <2>2, StopsStay
  <2>3. CASE queue[w] \in DOMAIN tasks /\ queue[w] # q
    BY <1>1, <2>1, <2>3
  <2>4. CASE queue[w] = q
    <3>1. /\ tasks[q].worker = w
          /\ tasks[q].thread = stream[reader[w].cur].thread
      BY <2>1, <2>4 DEF IInv, LookedUp
    <3> QED
      BY <2>1, <2>4, <3>1
  <2> QED
    BY <2>1, <2>2, <2>3, <2>4 DEF LossInv, QueueIsServed
<1>7. \A w \in Workers : phase'[w] \in {"down", "up"}
  BY DEF LossInv, OnlyStopsCancel
<1> QED
  BY <1>3, <1>4, <1>5, <1>6, <1>7 DEF Accounts

\* A step of a task.
LEMMA TaskAccounts ==
  ASSUME IInv, OrderInv, Stable, LossInv, NoFailure, NoFailure', ~SlowRedis,
         handled \subseteq handled', AtMostOneBegins,
         NEW q \in DOMAIN tasks, TaskStep(q) \/ DoneRaises(q)
  PROVE  Accounts
<1>0. /\ tasks[q] \in Task /\ tasks[q].items \in Seq(Nat \ {0})
      /\ faults \in Nat
      /\ \A w \in Workers : phase[w] \in {"down", "up"}
  BY Basics DEF LossInv, OnlyStopsCancel, NoFailure, IInv, ECP!IInv, ECP!TypeOK
<1>1. CASE Take(q)
  <2>1. /\ tasks[q].items # <<>>
        /\ started' = Append(started, [msg |-> Head(tasks[q].items),
                                       worker |-> tasks[q].worker])
        /\ UNCHANGED <<reader, queue, phase, handled, pel>>
    BY <1>1 DEF Take, streamVars, groupVars
  <2>2. /\ DOMAIN tasks' = DOMAIN tasks
        /\ \A p \in DOMAIN tasks \ {q} : tasks'[p] = tasks[p]
        /\ tasks'[q].items = Tail(tasks[q].items)
        /\ tasks'[q].pc = "run"
    BY <1>0, <1>1 DEF Take, Task
  <2>3. Kept(Head(tasks[q].items))
    <3> DEFINE r == [msg |-> Head(tasks[q].items), worker |-> tasks[q].worker]
    <3>1. r \in [msg : Nat \ {0}, worker : Workers]
      BY <1>0, <2>1 DEF Task
    <3> HIDE DEF r
    <3>2. r \in RunsBegun'
      BY <2>1, <3>1, BegunAppend DEF r
    <3> QED
      BY <3>2 DEF RunsBegun, Kept, StartedMsgs, r
  <2>4. ASSUME NEW k \in DOMAIN tasks[q].items
        PROVE  Kept(tasks[q].items[k])
    <3>1. CASE k = 1
      BY <1>0, <2>1, <2>3, <3>1
    <3>2. CASE k # 1
      <4>1. /\ k - 1 \in DOMAIN Tail(tasks[q].items)
            /\ Tail(tasks[q].items)[k - 1] = tasks[q].items[k]
        BY <1>0, <2>1, <3>2
      <4> QED
        BY <2>2, <4>1 DEF Kept
    <3> QED
      BY <3>1, <3>2
  <2>5. \A p \in DOMAIN tasks : \A k \in DOMAIN tasks[p].items :
          Kept(tasks[p].items[k])
    BY <2>2, <2>4, StaysKept
  <2>6. \A p \in DOMAIN tasks' :
          tasks'[p].pc \in Unwinding => StoppedNext(tasks'[p].thread)
    BY <2>2, StopsStay DEF LossInv, OnlyStopsCancel, Unwinding
  <2>7. \A w \in Workers : reader'[w].pc = "handle" =>
         \/ queue'[w] \in DOMAIN tasks'
         \/ StoppedNext(stream[reader'[w].cur].thread)
    BY <2>1, <2>2, StopsStay DEF LossInv, QueueIsServed
  <2>8. \A w \in Workers : reader[w].pc = "handle" => Kept(reader[w].cur)
    BY <2>1, StaysKept
  <2> QED
    BY <1>0, <2>1, <2>5, <2>6, <2>7, <2>8 DEF Accounts
<1>2. CASE IdleTimeout(q)
  BY <1>2, FinishAccounts DEF IdleTimeout, Idle, streamVars, groupVars
<1>3. CASE AgentReturns(q) \/ AgentCancelled(q)
  <2>1. SameItems
    BY <1>3, EndOfRoundKeepsItems
  <2>2. /\ DOMAIN tasks' = DOMAIN tasks
        /\ \A p \in DOMAIN tasks : tasks'[p].pc \in Unwinding =>
             tasks[p].pc \in Unwinding
    BY <1>0, <1>3 DEF AgentReturns, AgentCancelled, Unwinding, Task
  <2> QED
    BY <1>0, <1>3, <2>1, <2>2, StandingAccounts DEF AgentReturns,
       AgentCancelled, streamVars, groupVars
<1>4. ASSUME NextRound(q), tasks[q].pc = "done",
             UNCHANGED <<groupVars, reader, handled, queue, phase>>
      PROVE  Accounts
  <2>1. event_queues[tasks[q].worker][tasks[q].thread] = q
    <3>1. phase[tasks[q].worker] = "up"
      BY <1>0 DEF IInv, TasksInv, DownIsEmpty, Task
    <3> QED
      BY <3>1 DEF IInv, TasksInv, OneTaskPerThread
  <2>2. tasks' = [tasks EXCEPT ![q].pc = "get", ![q].cur = 0]
    BY <1>4, <2>1 DEF NextRound, IInv, TasksInv, TasksTyped
  <2>3. SameItems
    BY <1>4, EndOfRoundKeepsItems
  <2>4. /\ DOMAIN tasks' = DOMAIN tasks
        /\ \A p \in DOMAIN tasks : tasks'[p].pc \in Unwinding =>
             tasks[p].pc \in Unwinding
    <3>1. tasks' = [tasks EXCEPT ![q] = [@ EXCEPT !.pc = "get", !.cur = 0]]
      BY <2>2
    <3>2. [tasks[q] EXCEPT !.pc = "get", !.cur = 0].pc = "get"
      BY <1>0 DEF Task
    <3> QED
      BY <3>1, <3>2 DEF Unwinding
  <2> QED
    BY <1>0, <1>4, <2>3, <2>4, StandingAccounts DEF groupVars
<1>5. ASSUME Finish(q), tasks[q].pc \in Unwinding,
             UNCHANGED <<groupVars, reader, handled, queue, phase>>
      PROVE  Accounts
  <2>1. StoppedNext(tasks[q].thread)
    BY <1>5, StopsStay DEF LossInv, OnlyStopsCancel
  <2> QED
    BY <1>5, <2>1, FinishAccounts DEF groupVars
<1>6. CASE PublishDone(q) \/ DoneInterrupted(q)
  BY <1>4, <1>5, <1>6 DEF PublishDone, DoneInterrupted, Unwinding
<1>7. CASE DoneRaises(q)
  BY <1>0, <1>7 DEF DoneRaises, EC!PublishRaises, EC!Fault, NoFailure
<1> QED
  BY <1>1, <1>2, <1>3, <1>6, <1>7 DEF TaskStep

\* The next entry, delivered to a main loop that looks after it.
LEMMA NextDelivered ==
  ASSUME ECP!IInv, NEW w \in Workers, NEW type, Arrives(w, type)
  PROVE  EC!NextId <= Len(stream) /\ (IsUser(EC!NextId) => type = "USER")
BY DEF Arrives, IsUser

\* queue.put: the message is run or queued, unless its thread was stopped.
LEMMA PutAccounts ==
  ASSUME IInv, Stable, LossInv, NoFailure, handled \subseteq handled',
         NEW w \in Workers, NEW n \in Nat \ {0}, NEW q, Put(q, w, n),
         q \notin DOMAIN tasks => StoppedNext(stream[n].thread),
         \A v \in Workers \ {w} : reader'[v] = reader[v] /\ queue'[v] = queue[v],
         reader'[w].pc # "handle",
         reader[w].pc = "handle" => reader[w].cur = n,
         UNCHANGED phase,
         \/ handled' \union pel' \subseteq handled \union pel
         \/ n = EC!NextId /\ n <= Len(stream)
  PROVE  Accounts
<1>1. /\ Kept(n)
      /\ DOMAIN tasks' = DOMAIN tasks
      /\ \A p \in DOMAIN tasks : /\ tasks'[p].thread = tasks[p].thread
                                 /\ tasks'[p].pc \in Unwinding =>
                                      tasks[p].pc \in Unwinding
      /\ \A p \in DOMAIN tasks : \A k \in DOMAIN tasks[p].items :
           Kept(tasks[p].items[k])
  <2>1. CASE q \notin DOMAIN tasks /\ UNCHANGED <<tasks, started>>
    BY <2>1, StaysKept DEF Kept
  <2>2. CASE q \in DOMAIN tasks /\ Idle(q) /\ Run(q, w, n)
    <3>1. /\ DOMAIN tasks' = DOMAIN tasks
          /\ \A p \in DOMAIN tasks : /\ tasks'[p].thread = tasks[p].thread
                                     /\ tasks'[p].items = tasks[p].items
                                     /\ tasks'[p].pc \in {tasks[p].pc, "run"}
      BY <2>2, Basics DEF Run, Task
    <3>2. Kept(n)
      <4> DEFINE r == [msg |-> n, worker |-> w]
      <4>1. r \in [msg : Nat \ {0}, worker : Workers] /\ r.msg = n
        OBVIOUS
      <4>2. started' = Append(started, r)
        BY <2>2 DEF Run
      <4> HIDE DEF r
      <4>3. r \in RunsBegun'
        BY <4>1, <4>2, BegunAppend
      <4> QED
        BY <4>1, <4>3 DEF RunsBegun, Kept, StartedMsgs
    <3>3. \A p \in DOMAIN tasks : \A k \in DOMAIN tasks[p].items :
            Kept(tasks[p].items[k])
      BY <3>1, StaysKept
    <3>4. \A p \in DOMAIN tasks : tasks'[p].pc \in Unwinding =>
            tasks[p].pc \in Unwinding
      BY <3>1 DEF Unwinding
    <3> QED
      BY <3>1, <3>2, <3>3, <3>4
  <2>3. CASE /\ q \in DOMAIN tasks
             /\ tasks' = [tasks EXCEPT ![q].items = Append(@, n)]
    <3>1. tasks[q] \in Task /\ tasks[q].items \in Seq(Nat \ {0})
      BY <2>3, Basics
    <3>2. /\ DOMAIN tasks' = DOMAIN tasks
          /\ \A p \in DOMAIN tasks \ {q} : tasks'[p] = tasks[p]
          /\ tasks'[q].thread = tasks[q].thread /\ tasks'[q].pc = tasks[q].pc
          /\ tasks'[q].items = Append(tasks[q].items, n)
      BY <2>3, <3>1 DEF Task
    <3>3. Kept(n) /\ \A k \in DOMAIN tasks[q].items : Kept(tasks[q].items[k])
      <4> DEFINE s == tasks[q].items
      <4>1. s \in Seq(Nat \ {0})
        BY <3>1
      <4> HIDE DEF s
      <4>2. /\ \A k \in DOMAIN s : /\ k \in DOMAIN Append(s, n)
                                   /\ Append(s, n)[k] = s[k]
            /\ Len(s) + 1 \in DOMAIN Append(s, n)
            /\ Append(s, n)[Len(s) + 1] = n
        BY <4>1, AppendIndices
      <4> QED
        BY <2>3, <3>2, <4>2 DEF Kept, s
    <3>4. \A p \in DOMAIN tasks : \A k \in DOMAIN tasks[p].items :
            Kept(tasks[p].items[k])
      BY <3>2, <3>3, StaysKept
    <3>5. \A p \in DOMAIN tasks : /\ tasks'[p].thread = tasks[p].thread
                                  /\ tasks'[p].pc \in Unwinding =>
                                       tasks[p].pc \in Unwinding
      BY <3>2
    <3> QED
      BY <3>2, <3>3, <3>4, <3>5
  <2> QED
    BY <2>1, <2>2, <2>3 DEF Put
<1>2. \A v \in Workers : reader[v].pc = "handle" => Kept(reader[v].cur)
  BY <1>1, StaysKept
<1>3. \A p \in DOMAIN tasks' :
        tasks'[p].pc \in Unwinding => StoppedNext(tasks'[p].thread)
  BY <1>1, StopsStay DEF LossInv, OnlyStopsCancel
<1>4. \A v \in Workers : reader'[v].pc = "handle" =>
         \/ queue'[v] \in DOMAIN tasks'
         \/ StoppedNext(stream[reader'[v].cur].thread)
  BY <1>1, StopsStay DEF LossInv, QueueIsServed
<1>5. \A v \in Workers : phase'[v] \in {"down", "up"}
  BY DEF LossInv, OnlyStopsCancel
<1>6. \/ handled' \union pel' \subseteq handled \union pel
      \/ EC!NextId <= Len(stream) /\ (IsUser(EC!NextId) => Kept(EC!NextId))
  BY <1>1
<1> QED
  BY <1>1, <1>2, <1>3, <1>4, <1>5, <1>6 DEF Accounts

LEMMA UserNewQueueAccounts ==
  ASSUME IInv, Stable, LossInv, NoFailure, handled \subseteq handled',
         NEW w \in Workers, UserNewQueue(w)
  PROVE  Accounts
<1>0. PICK n : n = EC!NextId
  OBVIOUS
<1>1. ECP!IInv
  BY DEF IInv
<1>2. n > last /\ n \in Nat \ {0} /\ n <= Len(stream) /\ last \in Nat
  BY <1>0, <1>1, NextEntry, Basics DEF UserNewQueue, Arrives
<1>3. /\ started' = Append(started, [msg |-> n, worker |-> w])
      /\ DOMAIN tasks' = DOMAIN tasks \union {n}
      /\ tasks'[n] = [worker |-> w, thread |-> ThreadOfNext, items |-> <<>>,
                      pc |-> "run", cur |-> n]
      /\ \A q \in DOMAIN tasks \ {n} : tasks'[q] = tasks[q]
      /\ UNCHANGED <<queue, phase>>
  BY <1>0 DEF UserNewQueue
<1>4. /\ reader[w].pc = "read" /\ reader'[w].pc = "ack"
      /\ \A v \in Workers \ {w} : reader'[v] = reader[v]
  BY <1>1 DEF UserNewQueue, EC!DeliverAndHandle, EC!Goto, ECP!IInv, ECP!TypeOK
<1>5. n \notin DOMAIN tasks
  BY <1>2 DEF IInv, TasksInv, DeliveredIds, TasksTyped
<1>6. Kept(n)
  <2> DEFINE r == [msg |-> n, worker |-> w]
  <2>1. r \in [msg : Nat \ {0}, worker : Workers] /\ r.msg = n
    BY <1>2
  <2>2. started' = Append(started, r)
    BY <1>3
  <2> HIDE DEF r
  <2>3. r \in RunsBegun'
    BY <2>1, <2>2, BegunAppend
  <2> QED
    BY <2>1, <2>3 DEF RunsBegun, Kept, StartedMsgs
<1>7. \A p \in DOMAIN tasks : \A k \in DOMAIN tasks[p].items :
        Kept(tasks[p].items[k])
  BY <1>3, <1>5, StaysKept
<1>8. \A v \in Workers : reader[v].pc = "handle" => Kept(reader[v].cur)
  BY <1>4, StaysKept
<1>9. \A p \in DOMAIN tasks' :
        tasks'[p].pc \in Unwinding => StoppedNext(tasks'[p].thread)
  BY <1>3, StopsStay DEF LossInv, OnlyStopsCancel, Unwinding
<1>10. \A v \in Workers : reader'[v].pc = "handle" =>
         \/ queue'[v] \in DOMAIN tasks'
         \/ StoppedNext(stream[reader'[v].cur].thread)
  BY <1>3, <1>4, StopsStay DEF LossInv, QueueIsServed
<1>11. \A v \in Workers : phase'[v] \in {"down", "up"}
  BY <1>3 DEF LossInv, OnlyStopsCancel
<1> QED
  BY <1>0, <1>2, <1>6, <1>7, <1>8, <1>9, <1>10, <1>11 DEF Accounts

LEMMA UserPutAccounts ==
  ASSUME IInv, Stable, LossInv, NoFailure, handled \subseteq handled',
         NEW w \in Workers, UserPut(w)
  PROVE  Accounts
<1>0. PICK n, q : n = EC!NextId /\ q = event_queues[w][ThreadOfNext]
  OBVIOUS
<1>1. ECP!IInv
  BY DEF IInv
<1>2. n \in Nat \ {0} /\ n <= Len(stream) /\ ThreadOfNext \in Threads
  BY <1>0, <1>1, NextEntry DEF UserPut, Arrives
<1>3. Put(q, w, n) /\ q \in DOMAIN tasks /\ UNCHANGED <<queue, phase>>
  BY <1>0, <1>2 DEF UserPut, IInv, TasksInv, DictsAgree
<1>4. /\ reader[w].pc = "read" /\ reader'[w].pc = "ack"
      /\ \A v \in Workers \ {w} : reader'[v] = reader[v]
  BY <1>1 DEF UserPut, EC!DeliverAndHandle, EC!Goto, ECP!IInv, ECP!TypeOK
<1> QED
  BY <1>0, <1>2, <1>3, <1>4, PutAccounts

LEMMA PublishQueuedAccounts ==
  ASSUME IInv, Stable, LossInv, NoFailure, handled \subseteq handled',
         NEW w \in Workers, PublishQueued(w)
  PROVE  Accounts
<1>0. PICK n, q : n = reader[w].cur /\ q = queue[w]
  OBVIOUS
<1>1. ECP!IInv
  BY DEF IInv
<1>2. reader[w].pc = "handle" /\ n \in Nat \ {0}
  BY <1>0, Basics DEF PublishQueued, EC!Handled
<1>3. /\ Put(q, w, n) /\ UNCHANGED phase /\ queue' = [queue EXCEPT ![w] = 0]
      /\ UNCHANGED pel /\ handled' = handled \union {n}
  BY <1>0 DEF PublishQueued, EC!Handled, EC!groupVars
<1>4. /\ reader'[w].pc = "ack"
      /\ \A v \in Workers \ {w} : reader'[v] = reader[v] /\ queue'[v] = queue[v]
  BY <1>1, <1>3 DEF PublishQueued, EC!Handled, EC!Goto, ECP!IInv, ECP!TypeOK,
     IInv, RestTyped
<1>5. n \in pel
  BY <1>0, <1>1, <1>2 DEF ECP!IInv, ECP!HeldByOne
<1>6. q \notin DOMAIN tasks => StoppedNext(stream[n].thread)
  BY <1>0, <1>2, StopsStay DEF LossInv, QueueIsServed
<1> QED
  BY <1>0, <1>2, <1>3, <1>4, <1>5, <1>6, PutAccounts

LEMMA UserQueuedAccounts ==
  ASSUME IInv, Stable, LossInv, NoFailure, handled \subseteq handled',
         NEW w \in Workers, UserQueued(w)
  PROVE  Accounts
<1>0. PICK n, q : n = EC!NextId /\ q = event_queues[w][ThreadOfNext]
  OBVIOUS
<1>1. ECP!IInv
  BY DEF IInv
<1>2. n <= Len(stream) /\ ThreadOfNext \in Threads
  BY <1>0, <1>1, NextEntry DEF UserQueued, Arrives
<1>3. q \in DOMAIN tasks
  BY <1>0, <1>2 DEF UserQueued, IInv, TasksInv, DictsAgree
<1>4. /\ queue' = [queue EXCEPT ![w] = q] /\ UNCHANGED <<tasks, phase>>
      /\ queue \in [Workers -> Nat]
  BY <1>0 DEF UserQueued, taskVars, IInv, RestTyped
<1>5. /\ reader[w].pc = "read" /\ reader'[w] = [pc |-> "handle", cur |-> n]
      /\ \A v \in Workers \ {w} : reader'[v] = reader[v]
  BY <1>0, <1>1 DEF UserQueued, EC!Deliver, EC!Goto, ECP!IInv, ECP!TypeOK
<1>6. Kept(n)
  BY <1>5 DEF Kept
<1>7. /\ \A p \in DOMAIN tasks : \A k \in DOMAIN tasks[p].items :
           Kept(tasks[p].items[k])
      /\ \A v \in Workers : reader[v].pc = "handle" => Kept(reader[v].cur)
  BY <1>4, <1>5, StaysKept
<1>8. \A p \in DOMAIN tasks' :
        tasks'[p].pc \in Unwinding => StoppedNext(tasks'[p].thread)
  BY <1>4, StopsStay DEF LossInv, OnlyStopsCancel
<1>9. \A v \in Workers : reader'[v].pc = "handle" =>
        \/ queue'[v] \in DOMAIN tasks'
        \/ StoppedNext(stream[reader'[v].cur].thread)
  BY <1>3, <1>4, <1>5, StopsStay DEF LossInv, QueueIsServed
<1>10. \A v \in Workers : phase'[v] \in {"down", "up"}
  BY <1>4 DEF LossInv, OnlyStopsCancel
<1> QED
  BY <1>0, <1>2, <1>6, <1>7, <1>8, <1>9, <1>10 DEF Accounts

\* STOP: what the task of its thread had queued goes, and the STOP is why.
LEMMA StopAccounts ==
  ASSUME IInv, OrderInv, Stable, LossInv, NoFailure, handled \subseteq handled',
         NEW w \in Workers, Stop(w)
  PROVE  Accounts
<1>0. PICK n, q, t : /\ n = EC!NextId /\ t = ThreadOfNext
                     /\ q = queue_tasks[w][t]
  OBVIOUS
<1>1. ECP!IInv
  BY DEF IInv
<1>2. /\ n \in 1..Len(stream) /\ n <= Len(stream) /\ ~IsUser(n)
      /\ stream[n].type = "STOP" /\ stream[n].thread = t /\ t \in Threads
  BY <1>0, <1>1, NextEntry DEF Stop, Arrives, IsUser, ThreadOfNext
<1>3. n \in handled' /\ StoppedNext(t)
  <2>1. n \in handled'
    BY <1>0 DEF Stop, EC!DeliverAndHandle
  <2> QED
    BY <1>2, <2>1 DEF StoppedNext, Stable
<1>4. /\ reader[w].pc = "read" /\ reader'[w].pc = "ack"
      /\ \A v \in Workers \ {w} : reader'[v] = reader[v]
      /\ UNCHANGED <<queue, phase>>
  BY <1>1 DEF Stop, EC!DeliverAndHandle, EC!Goto, ECP!IInv, ECP!TypeOK
<1>5. \A v \in Workers : phase'[v] \in {"down", "up"}
  BY <1>4 DEF LossInv, OnlyStopsCancel
<1>6. CASE UNCHANGED taskVars
  <2>1. SameItems /\ UNCHANGED tasks
    BY <1>6 DEF SameItems, taskVars
  <2> QED
    BY <1>0, <1>2, <1>4, <1>5, <2>1, StandingAccounts
<1>7. ASSUME q # 0 PROVE q \in DOMAIN tasks /\ tasks[q].thread = t
  BY <1>0, <1>2, <1>7 DEF IInv, TasksInv, DictsAgree
<1>8. CASE q # 0 /\ Finish(q)
  BY <1>0, <1>2, <1>3, <1>4, <1>7, <1>8, FinishAccounts
<1>9. CASE q # 0 /\ tasks' = [tasks EXCEPT ![q] = Cancelled(@)]
  <2>1. SameItems
    BY <1>7, <1>9, EndOfRoundKeepsItems
  <2>2. /\ DOMAIN tasks' = DOMAIN tasks
        /\ \A p \in DOMAIN tasks : tasks'[p].pc \in Unwinding =>
             tasks[p].pc \in Unwinding \/ StoppedNext(tasks[p].thread)
    BY <1>3, <1>7, <1>9
  <2> QED
    BY <1>0, <1>2, <1>4, <1>5, <2>1, <2>2, StandingAccounts
<1> QED
  BY <1>0, <1>6, <1>8, <1>9 DEF Stop

\* A failure or the death of a process is never forgotten.
LEMMA NoFailureBefore ==
  ASSUME IInv, [Next]_vars, NoFailure'
  PROVE  NoFailure
<1>1. TypeOK /\ ECP!IInv
  BY IInvImpliesTypeOK DEF IInv
<1>2. [ECP!OpenNext]_(ECP!vars)
  BY <1>1, NextIsEC, SameSteps
<1>3. UNCHANGED faults \/ faults' = faults + 1
  <2>1. ECP!ECAssumption
    BY AWAssumption DEF ECP!ECAssumption, AWAssumption
  <2> QED
    BY <1>2, <2>1, ECP!FaultsGrow
<1>4. calls'.crash = calls.crash \/ calls'.crash = calls.crash + 1
  <2>1. calls \in [user : 0..MaxUsers, stop : 0..MaxStops, crash : 0..MaxCrashes]
    BY DEF IInv, RestTyped
  <2>2. ASSUME NEW q \in DOMAIN tasks, TaskStep(q) \/ DoneRaises(q)
        PROVE  UNCHANGED calls
    BY <2>2 DEF TaskStep, DoneRaises, Take, IdleTimeout, AgentReturns,
       AgentCancelled, PublishDone, DoneInterrupted
  <2>3. ASSUME NEW w \in Workers, MainStep(w)
        PROVE  UNCHANGED calls
    BY <2>3 DEF MainStep, Start, CreateGroup, UserNewQueue, UserPut,
       UserQueued, PublishQueued, Stop, Ignore, Ack
  <2>4. ASSUME NEW w \in Workers, Mishap(w)
        PROVE  \/ UNCHANGED calls
               \/ calls' = [calls EXCEPT !.crash = @ + 1]
    BY <2>4 DEF Mishap, LoseReply, RedisFails, QueuedRaises, CancelMain,
       CancelQueues, Exit
  <2>5. ASSUME NEW t \in Threads, SendMessage(t) \/ StopConversation(t)
        PROVE  \/ calls' = [calls EXCEPT !.user = @ + 1]
               \/ calls' = [calls EXCEPT !.stop = @ + 1]
    BY <2>5 DEF SendMessage, StopConversation
  <2> QED
    BY <2>1, <2>2, <2>3, <2>4, <2>5 DEF Next, vars
<1>5. faults \in Nat /\ calls.crash \in Nat
  BY <1>1 DEF IInv, RestTyped, ECP!IInv, ECP!TypeOK
<1> QED
  BY <1>3, <1>4, <1>5 DEF NoFailure

\* Every step accounts for the messages, as long as nothing fails.
LEMMA NextAccounts ==
  ASSUME IInv, OrderInv, MailInv, LossInv, [Next]_vars, NoFailure', ~SlowRedis
  PROVE  Accounts
<1>0. /\ ECP!IInv /\ Stable /\ NoFailure /\ AtMostOneBegins
      /\ handled \subseteq handled'
  BY NextStable, NoFailureBefore, NextBegins, NextTrims DEF IInv
<1>1. /\ \A w \in Workers : phase[w] \in {"down", "up"}
      /\ faults \in Nat
      /\ calls \in [user : 0..MaxUsers, stop : 0..MaxStops, crash : 0..MaxCrashes]
  BY <1>0 DEF LossInv, OnlyStopsCancel, IInv, RestTyped, ECP!IInv, ECP!TypeOK
<1>2. UNCHANGED tasks => /\ DOMAIN tasks' = DOMAIN tasks /\ SameItems
                         /\ \A q \in DOMAIN tasks : tasks'[q].pc = tasks[q].pc
  BY DEF SameItems
\* A step that is no step of a task and leaves the messages alone.
<1>3. ASSUME UNCHANGED <<tasks, queue>>,
             \A w \in Workers : phase'[w] \in {"down", "up"},
             \A w \in Workers :
               reader[w].pc = "handle" \/ reader'[w].pc = "handle" =>
                 reader'[w] = reader[w],
             \/ handled' \union pel' \subseteq handled \union pel
             \/ EC!NextId <= Len(stream) /\ ~IsUser(EC!NextId)
      PROVE  Accounts
  BY <1>0, <1>2, <1>3, StandingAccounts
<1>4. CASE UNCHANGED vars
  BY <1>1, <1>3, <1>4 DEF vars, streamVars, groupVars, workerVars, taskVars
<1>5. ASSUME NEW q \in DOMAIN tasks, TaskStep(q) \/ DoneRaises(q)
      PROVE  Accounts
  BY <1>0, <1>5, TaskAccounts
<1>6. ASSUME NEW w \in Workers, NEW pc \in {"create", "read", "ack"}, NEW cur,
             EC!Goto(w, pc, cur), reader[w].pc # "handle",
             UNCHANGED <<tasks, queue>>,
             \A v \in Workers : phase'[v] \in {"down", "up"},
             \/ handled' \union pel' \subseteq handled \union pel
             \/ EC!NextId <= Len(stream) /\ ~IsUser(EC!NextId)
      PROVE  Accounts
  <2>1. /\ reader'[w].pc # "handle"
        /\ \A v \in Workers \ {w} : reader'[v] = reader[v]
    BY <1>0, <1>6 DEF EC!Goto, ECP!IInv, ECP!TypeOK
  <2> QED
    BY <1>3, <1>6, <2>1
<1>7. ASSUME NEW w \in Workers, MainStep(w)
      PROVE  Accounts
  <2>1. CASE UserNewQueue(w) \/ UserPut(w) \/ UserQueued(w) \/ PublishQueued(w)
             \/ Stop(w)
    BY <1>0, <2>1, UserNewQueueAccounts, UserPutAccounts, UserQueuedAccounts,
       PublishQueuedAccounts, StopAccounts
  <2>2. CASE Start(w)
    <3>1. \A v \in Workers : phase'[v] \in {"down", "up"}
      BY <1>1, <2>2 DEF Start, IInv, RestTyped
    <3> QED
      BY <1>6, <2>2, <3>1 DEF Start, EC!Consume, EC!groupVars, taskVars
  <2>3. CASE CreateGroup(w)
    <3>1. UNCHANGED <<pel, handled>>
      BY <2>3 DEF CreateGroup, EC!CreateGroup, EC!XGroupCreate, EC!groupVars
    <3> QED
      BY <1>1, <1>6, <2>3, <3>1 DEF CreateGroup, EC!CreateGroup, workerVars,
         taskVars
  <2>4. CASE Ignore(w)
    <3>1. EC!NextId <= Len(stream) /\ ~IsUser(EC!NextId)
      BY <2>4 DEF Ignore, Arrives, IsUser
    <3> QED
      BY <1>1, <1>6, <2>4, <3>1 DEF Ignore, EC!DeliverAndHandle, workerVars,
         taskVars
  <2>5. CASE Ack(w)
    <3>1. handled' \union pel' \subseteq handled \union pel
      BY <2>5 DEF Ack, EC!Ack, EC!XAck
    <3> QED
      BY <1>1, <1>6, <2>5, <3>1 DEF Ack, EC!Ack, workerVars, taskVars
  <2> QED
    BY <1>7, <2>1, <2>2, <2>3, <2>4, <2>5 DEF MainStep
<1>8. ASSUME NEW w \in Workers, Mishap(w)
      PROVE  FALSE
  <2>1. CASE LoseReply(w) \/ RedisFails(w) \/ QueuedRaises(w)
    BY <1>0, <1>1, <2>1 DEF LoseReply, RedisFails, QueuedRaises, EC!LoseReply,
       EC!RedisFails, EC!PublishRaises, EC!Fault, NoFailure
  <2>2. CASE CancelMain(w)
    BY <1>0, <1>1, <2>2 DEF CancelMain, NoFailure
  <2>3. CASE CancelQueues(w)
    BY <1>1, <2>3 DEF CancelQueues
  <2>4. CASE Exit(w)
    BY <1>0, <1>1, <2>4 DEF Exit, NoFailure
  <2> QED
    BY <1>8, <2>1, <2>2, <2>3, <2>4 DEF Mishap
<1>9. ASSUME NEW t \in Threads, SendMessage(t) \/ StopConversation(t)
      PROVE  Accounts
  BY <1>1, <1>3, <1>9 DEF SendMessage, StopConversation, Publish, workerVars,
     taskVars, groupVars
<1> QED
  BY <1>4, <1>5, <1>7, <1>8, <1>9 DEF Next

LEMMA NextLoss ==
  ASSUME IInv, OrderInv, MailInv, LossInv, [Next]_vars, ~SlowRedis
  PROVE  LossInv'
<1>1. CASE NoFailure'
  <2>1. Stable /\ NoFailure /\ NothingRevives /\ AtMostOneBegins /\ IInv'
    BY <1>1, NextStable, NoFailureBefore, NextBegins, NextIInv
  <2>2. Accounts
    BY <1>1, NextAccounts
  <2> QED
    BY <2>1, <2>2, NextTrims, AccountsKeeps
<1>2. CASE ~NoFailure'
  BY <1>2 DEF LossInv, OnlyStopsCancel, QueueIsServed, LossHasCause, NoFailure
<1> QED
  BY <1>1, <1>2

\* As long as no Redis command fails and no process dies, a message that was
\* delivered and will never be run was thrown away by a STOP for its thread:
\* the idle timeout, the queue looked up before an await and used after it, and
\* the end of a task lose nothing.  It holds when Redis answers within the ten
\* seconds that a queue task waits; with SlowRedis TLC finds a lost message.
THEOREM LossHasCauseAlways ==
  ASSUME SlowRedis = FALSE
  PROVE  Spec => []LossHasCause
<1>1. Init => LossInv
  BY DEF Init, EC!Init, LossInv, OnlyStopsCancel, QueueIsServed, LossHasCause,
     Lost, IsUser, Ids
<1>2. IInv /\ OrderInv /\ MailInv /\ LossInv /\ [Next]_vars => LossInv'
  BY NextLoss
<1>3. LossInv => LossHasCause
  BY DEF LossInv
<1> QED
  BY <1>1, <1>2, <1>3, MailInvariant, PTL DEF Spec

-----------------------------------------------------------------------------
(***************************************************************************)
(* Every run is answered once                                              *)
(***************************************************************************)

\* Two tasks never run the same message.
LEMMA RunsDiffer ==
  ASSUME IInv, OrderInv, MailInv, NEW p \in DOMAIN tasks, NEW q \in DOMAIN tasks,
         Running(p), Running(q), tasks[p].cur = tasks[q].cur
  PROVE  p = q
<1>1. PICK i \in DOMAIN started :
        started[i] = [msg |-> tasks[p].cur, worker |-> tasks[p].worker]
  BY DEF MailInv, RunningBegun, RunsBegun
<1>2. PICK j \in DOMAIN started :
        started[j] = [msg |-> tasks[q].cur, worker |-> tasks[q].worker]
  BY DEF MailInv, RunningBegun, RunsBegun
<1>3. started[i].msg = started[j].msg
  BY <1>1, <1>2
<1>4. i \in Nat /\ j \in Nat
  BY Basics
<1>5. i = j
  BY <1>3, <1>4 DEF OrderInv, RunsInOrder
<1>6. tasks[p].worker = tasks[q].worker
  BY <1>1, <1>2, <1>5
<1>7. tasks[p].thread = tasks[q].thread
  BY DEF MailInv, RunningBegun
<1> QED
  BY <1>6, <1>7 DEF IInv, TasksInv, OneTaskPerThread

\* As long as nothing fails: a run goes on, is answered, or was stopped; and
\* only a STOP cancels.
RunsEnd ==
  /\ \A w \in Workers : phase'[w] \in {"down", "up"}
  /\ \A q \in DOMAIN tasks' :
       tasks'[q].pc \in Unwinding => StoppedNext(tasks'[q].thread)
  /\ \A q \in DOMAIN tasks : Running(q) =>
       \/ q \in DOMAIN tasks' /\ tasks'[q].cur = tasks[q].cur
       \/ tasks[q].cur \in answered'
       \/ StoppedNext(tasks[q].thread)

\* The tasks go on, but for some that are over.
LEMMA RunsEndFrame ==
  ASSUME IInv, Stable, OnlyStopsCancel, NoFailure, handled \subseteq handled',
         \A w \in Workers : phase'[w] \in {"down", "up"},
         \A q \in DOMAIN tasks' : tasks'[q].pc \in Unwinding =>
           \/ /\ q \in DOMAIN tasks /\ tasks'[q].thread = tasks[q].thread
              /\ tasks[q].pc \in Unwinding
           \/ StoppedNext(tasks'[q].thread),
         \A q \in DOMAIN tasks : tasks[q].pc # "get" =>
           \/ q \in DOMAIN tasks' /\ tasks'[q].cur = tasks[q].cur
           \/ tasks[q].cur \in answered'
           \/ StoppedNext(tasks[q].thread)
  PROVE  RunsEnd
BY StopsStay DEF OnlyStopsCancel, RunsEnd, Running

LEMMA TaskRunsEnd ==
  ASSUME IInv, Stable, OnlyStopsCancel, NoFailure, NoFailure',
         handled \subseteq handled',
         NEW q \in DOMAIN tasks, TaskStep(q) \/ DoneRaises(q)
  PROVE  RunsEnd
<1>0. /\ tasks[q] \in Task /\ faults \in Nat
      /\ \A w \in Workers : phase[w] \in {"down", "up"}
  BY Basics DEF OnlyStopsCancel, IInv, ECP!IInv, ECP!TypeOK
<1>1. ASSUME NEW pc \in {"run", "done", "doneCancelled", "get"},
             UNCHANGED phase, DOMAIN tasks' = DOMAIN tasks,
             \A p \in DOMAIN tasks \ {q} : tasks'[p] = tasks[p],
             tasks'[q].pc = pc, tasks'[q].thread = tasks[q].thread,
             pc = "doneCancelled" => tasks[q].pc = "cancelling",
             \/ tasks[q].pc = "get"
             \/ tasks'[q].cur = tasks[q].cur
             \/ tasks[q].cur \in answered'
      PROVE  RunsEnd
  <2>1. \A p \in DOMAIN tasks' : tasks'[p].pc \in Unwinding =>
          /\ p \in DOMAIN tasks /\ tasks'[p].thread = tasks[p].thread
          /\ tasks[p].pc \in Unwinding
    BY <1>1 DEF Unwinding
  <2> QED
    BY <1>0, <1>1, <2>1, RunsEndFrame
<1>2. ASSUME UNCHANGED phase, Finish(q),
             \/ tasks[q].pc = "get"
             \/ tasks[q].cur \in answered'
             \/ tasks[q].pc \in Unwinding
      PROVE  RunsEnd
  <2>1. /\ DOMAIN tasks' = DOMAIN tasks \ {q}
        /\ \A p \in DOMAIN tasks' : tasks'[p] = tasks[p]
    BY <1>2 DEF Finish
  <2>2. tasks[q].pc \in Unwinding => StoppedNext(tasks[q].thread)
    BY StopsStay DEF OnlyStopsCancel
  <2> QED
    BY <1>0, <1>2, <2>1, <2>2, RunsEndFrame
<1>3. CASE Take(q)
  <2>1. /\ tasks[q].pc = "get" /\ UNCHANGED phase /\ DOMAIN tasks' = DOMAIN tasks
        /\ \A p \in DOMAIN tasks \ {q} : tasks'[p] = tasks[p]
        /\ tasks'[q].pc = "run" /\ tasks'[q].thread = tasks[q].thread
    BY <1>0, <1>3 DEF Take, Task
  <2> QED
    BY <1>1, <2>1
<1>4. CASE IdleTimeout(q)
  BY <1>2, <1>4 DEF IdleTimeout, Idle
<1>5. CASE AgentReturns(q)
  <2>1. /\ UNCHANGED phase /\ DOMAIN tasks' = DOMAIN tasks
        /\ \A p \in DOMAIN tasks \ {q} : tasks'[p] = tasks[p]
        /\ tasks'[q].pc = "done" /\ tasks'[q].thread = tasks[q].thread
        /\ tasks'[q].cur = tasks[q].cur
    BY <1>0, <1>5 DEF AgentReturns, Task
  <2> QED
    BY <1>1, <2>1
<1>6. CASE AgentCancelled(q)
  <2>1. /\ UNCHANGED phase /\ DOMAIN tasks' = DOMAIN tasks
        /\ \A p \in DOMAIN tasks \ {q} : tasks'[p] = tasks[p]
        /\ tasks'[q].pc = "doneCancelled" /\ tasks'[q].thread = tasks[q].thread
        /\ tasks'[q].cur = tasks[q].cur /\ tasks[q].pc = "cancelling"
    BY <1>0, <1>6 DEF AgentCancelled, Task
  <2> QED
    BY <1>1, <2>1
<1>7. CASE PublishDone(q)
  <2>1. UNCHANGED phase /\ tasks[q].cur \in answered'
    BY <1>7 DEF PublishDone
  <2>2. CASE Finish(q)
    BY <1>2, <2>1, <2>2
  <2>3. CASE tasks' = [tasks EXCEPT ![q].pc = "get", ![q].cur = 0]
    <3>1. tasks' = [tasks EXCEPT ![q] = [@ EXCEPT !.pc = "get", !.cur = 0]]
      BY <2>3
    <3>2. /\ [tasks[q] EXCEPT !.pc = "get", !.cur = 0].pc = "get"
          /\ [tasks[q] EXCEPT !.pc = "get", !.cur = 0].thread = tasks[q].thread
      BY <1>0 DEF Task
    <3>3. /\ DOMAIN tasks' = DOMAIN tasks
          /\ \A p \in DOMAIN tasks \ {q} : tasks'[p] = tasks[p]
          /\ tasks'[q].pc = "get" /\ tasks'[q].thread = tasks[q].thread
      BY <3>1, <3>2
    <3> QED
      BY <1>1, <2>1, <3>3
  <2> QED
    BY <1>7, <2>2, <2>3 DEF PublishDone, NextRound
<1>8. CASE DoneInterrupted(q)
  BY <1>2, <1>8 DEF DoneInterrupted, Unwinding
<1>9. CASE DoneRaises(q)
  BY <1>0, <1>9 DEF DoneRaises, EC!PublishRaises, EC!Fault, NoFailure
<1> QED
  BY <1>3, <1>4, <1>5, <1>6, <1>7, <1>8, <1>9 DEF TaskStep

\* queue.put cancels nothing and ends no run.
LEMMA PutRunsEnd ==
  ASSUME IInv, Stable, OnlyStopsCancel, NoFailure, handled \subseteq handled',
         NEW w \in Workers, NEW n, NEW q, Put(q, w, n), UNCHANGED phase
  PROVE  RunsEnd
<1>1. \A v \in Workers : phase'[v] \in {"down", "up"}
  BY DEF OnlyStopsCancel
<1>2. /\ DOMAIN tasks' = DOMAIN tasks
      /\ \A p \in DOMAIN tasks : /\ tasks'[p].thread = tasks[p].thread
                                 /\ tasks'[p].pc \in Unwinding =>
                                      tasks[p].pc \in Unwinding
                                 /\ tasks[p].pc # "get" =>
                                      tasks'[p].cur = tasks[p].cur
  <2>1. CASE UNCHANGED tasks
    BY <2>1
  <2>2. CASE q \in DOMAIN tasks /\ Idle(q) /\ Run(q, w, n)
    BY <2>2, Basics DEF Run, Idle, Task, Unwinding
  <2>3. CASE /\ q \in DOMAIN tasks
             /\ tasks' = [tasks EXCEPT ![q].items = Append(@, n)]
    BY <2>3, Basics DEF Task
  <2> QED
    BY <2>1, <2>2, <2>3 DEF Put
<1> QED
  BY <1>1, <1>2, RunsEndFrame

LEMMA StopRunsEnd ==
  ASSUME IInv, Stable, OnlyStopsCancel, NoFailure, handled \subseteq handled',
         NEW w \in Workers, Stop(w)
  PROVE  RunsEnd
<1>0. PICK n, q, t : /\ n = EC!NextId /\ t = ThreadOfNext
                     /\ q = queue_tasks[w][t]
  OBVIOUS
<1>1. ECP!IInv
  BY DEF IInv
<1>2. /\ n \in 1..Len(stream) /\ t \in Threads
      /\ stream[n].type = "STOP" /\ stream[n].thread = t
  BY <1>0, <1>1, NextEntry DEF Stop, Arrives, ThreadOfNext
<1>3. StoppedNext(t)
  <2>1. n \in handled'
    BY <1>0 DEF Stop, EC!DeliverAndHandle
  <2> QED
    BY <1>2, <2>1 DEF StoppedNext, Stable
<1>4. \A v \in Workers : phase'[v] \in {"down", "up"}
  BY DEF Stop, OnlyStopsCancel
<1>5. CASE UNCHANGED taskVars
  BY <1>4, <1>5, RunsEndFrame DEF taskVars
<1>6. ASSUME q # 0
      PROVE  q \in DOMAIN tasks /\ tasks[q].thread = t /\ tasks[q] \in Task
  BY <1>0, <1>2, <1>6, Basics DEF IInv, TasksInv, DictsAgree
<1>7. CASE q # 0 /\ Finish(q) /\ tasks[q].pc = "get"
  <2>1. /\ DOMAIN tasks' = DOMAIN tasks \ {q}
        /\ \A p \in DOMAIN tasks' : tasks'[p] = tasks[p]
    BY <1>7 DEF Finish
  <2> QED
    BY <1>4, <1>7, <2>1, RunsEndFrame
<1>8. CASE q # 0 /\ tasks' = [tasks EXCEPT ![q] = Cancelled(@)]
  <2>1. /\ DOMAIN tasks' = DOMAIN tasks
        /\ \A p \in DOMAIN tasks \ {q} : tasks'[p] = tasks[p]
        /\ tasks'[q].thread = t /\ tasks'[q].cur = tasks[q].cur
    BY <1>6, <1>8 DEF Cancelled, Task
  <2>2. \A p \in DOMAIN tasks' : tasks'[p].pc \in Unwinding =>
           \/ /\ p \in DOMAIN tasks /\ tasks'[p].thread = tasks[p].thread
              /\ tasks[p].pc \in Unwinding
           \/ StoppedNext(tasks'[p].thread)
    BY <1>3, <2>1
  <2> QED
    BY <1>4, <2>1, <2>2, RunsEndFrame
<1> QED
  BY <1>0, <1>5, <1>7, <1>8 DEF Stop, Idle

LEMMA NextRunsEnd ==
  ASSUME IInv, OrderInv, MailInv, OnlyStopsCancel, [Next]_vars, NoFailure'
  PROVE  RunsEnd
<1>0. /\ ECP!IInv /\ Stable /\ NoFailure /\ handled \subseteq handled'
  BY NextStable, NoFailureBefore, NextTrims DEF IInv
<1>1. /\ \A w \in Workers : phase[w] \in {"down", "up"}
      /\ faults \in Nat
      /\ calls \in [user : 0..MaxUsers, stop : 0..MaxStops, crash : 0..MaxCrashes]
  BY <1>0 DEF OnlyStopsCancel, IInv, RestTyped, ECP!IInv, ECP!TypeOK
<1>2. ASSUME UNCHANGED tasks, \A w \in Workers : phase'[w] \in {"down", "up"}
      PROVE  RunsEnd
  BY <1>0, <1>2, RunsEndFrame
<1>3. CASE UNCHANGED vars
  BY <1>1, <1>2, <1>3 DEF vars, workerVars, taskVars
<1>4. ASSUME NEW q \in DOMAIN tasks, TaskStep(q) \/ DoneRaises(q)
      PROVE  RunsEnd
  BY <1>0, <1>4, TaskRunsEnd
<1>5. ASSUME NEW w \in Workers, MainStep(w)
      PROVE  RunsEnd
  <2>1. CASE UserPut(w) \/ PublishQueued(w)
    BY <1>0, <2>1, PutRunsEnd DEF UserPut, PublishQueued
  <2>2. CASE Stop(w)
    BY <1>0, <2>2, StopRunsEnd
  <2>3. CASE Start(w)
    <3>1. \A v \in Workers : phase'[v] \in {"down", "up"}
      BY <1>1, <2>3 DEF Start, IInv, RestTyped
    <3> QED
      BY <1>2, <2>3, <3>1 DEF Start, taskVars
  <2>4. CASE CreateGroup(w) \/ UserQueued(w) \/ Ignore(w) \/ Ack(w)
    BY <1>1, <1>2, <2>4 DEF CreateGroup, UserQueued, Ignore, Ack, workerVars,
       taskVars
  <2>5. CASE UserNewQueue(w)
    <3>1. PICK n : n = EC!NextId
      OBVIOUS
    <3>2. n > last /\ n \in Nat /\ last \in Nat
      BY <1>0, <2>5, <3>1, NextEntry, Basics DEF UserNewQueue, Arrives
    <3>3. n \notin DOMAIN tasks
      BY <3>2 DEF IInv, TasksInv, DeliveredIds, TasksTyped
    <3>4. /\ DOMAIN tasks' = DOMAIN tasks \union {n}
          /\ tasks'[n] = [worker |-> w, thread |-> ThreadOfNext, items |-> <<>>,
                          pc |-> "run", cur |-> n]
          /\ \A q \in DOMAIN tasks \ {n} : tasks'[q] = tasks[q]
          /\ UNCHANGED phase
      BY <2>5, <3>1 DEF UserNewQueue
    <3>5. tasks'[n].pc \notin Unwinding
      BY <3>4 DEF Unwinding
    <3>6. \A q \in DOMAIN tasks : q \in DOMAIN tasks' /\ tasks'[q] = tasks[q]
      BY <3>3, <3>4
    <3>7. \A q \in DOMAIN tasks' : tasks'[q].pc \in Unwinding =>
            /\ q \in DOMAIN tasks /\ tasks'[q].thread = tasks[q].thread
            /\ tasks[q].pc \in Unwinding
      BY <3>4, <3>5, <3>6
    <3> QED
      BY <1>0, <1>1, <3>4, <3>6, <3>7, RunsEndFrame
  <2> QED
    BY <1>5, <2>1, <2>2, <2>3, <2>4, <2>5 DEF MainStep
<1>6. ASSUME NEW w \in Workers, Mishap(w)
      PROVE  FALSE
  <2>1. CASE LoseReply(w) \/ RedisFails(w) \/ QueuedRaises(w)
    BY <1>0, <1>1, <2>1 DEF LoseReply, RedisFails, QueuedRaises, EC!LoseReply,
       EC!RedisFails, EC!PublishRaises, EC!Fault, NoFailure
  <2>2. CASE CancelMain(w)
    BY <1>0, <1>1, <2>2 DEF CancelMain, NoFailure
  <2>3. CASE CancelQueues(w)
    BY <1>1, <2>3 DEF CancelQueues
  <2>4. CASE Exit(w)
    BY <1>0, <1>1, <2>4 DEF Exit, NoFailure
  <2> QED
    BY <1>6, <2>1, <2>2, <2>3, <2>4 DEF Mishap
<1>7. ASSUME NEW t \in Threads, SendMessage(t) \/ StopConversation(t)
      PROVE  RunsEnd
  BY <1>1, <1>2, <1>7 DEF SendMessage, StopConversation, Publish, workerVars,
     taskVars
<1> QED
  BY <1>3, <1>4, <1>5, <1>6, <1>7 DEF Next

\* A step answers the message of a task that ran it and does no longer, or
\* none.
Answers(q) ==
  /\ q \in DOMAIN tasks /\ tasks[q].pc # "get"
  /\ answered' = answered \union {tasks[q].cur}
  /\ q \in DOMAIN tasks' => tasks'[q].pc = "get"

\* The entries a step adds are no [Done].
NoDoneAdded ==
  \A n \in 1..Len(stream') : n > Len(stream) => stream'[n].type # "DONE"

\* The step adds the one [Done] of q's thread.
DoneAdded(q) ==
  /\ Len(stream') = Len(stream) + 1
  /\ stream'[Len(stream) + 1] = [type |-> "DONE", thread |-> tasks[q].thread]

\* Without a failure, exactly the steps that answer add a [Done].
DoneStep ==
  \/ UNCHANGED answered /\ (faults' = 0 => NoDoneAdded)
  \/ \E q \in DOMAIN tasks : Answers(q) /\ (faults' = 0 => DoneAdded(q))

\* What XADD adds.
LEMMA Added ==
  ASSUME IInv, NEW e \in Events, NEW k \in 0..2, EC!XAdd(e, k)
  PROVE  /\ Len(stream') = Len(stream) + k
         /\ \A n \in 1..Len(stream') : n > Len(stream) => stream'[n] = e
         /\ k = 0 => stream' = stream
<1> DEFINE new == [i \in 1..k |-> e]
<1>1. new \in Seq(Events) /\ Len(new) = k /\ \A i \in 1..k : new[i] = e
  OBVIOUS
<1>2. stream' = stream \o new
  BY DEF EC!XAdd
<1>3. stream \in Seq(Events)
  BY DEF IInv, ECP!IInv, ECP!TypeOK
<1> HIDE DEF new
<1>4. /\ Len(stream') = Len(stream) + Len(new)
      /\ \A i \in 1..Len(stream) + Len(new) : stream'[i] =
           IF i <= Len(stream) THEN stream[i] ELSE new[i - Len(stream)]
  BY <1>1, <1>2, <1>3, ConcatProperties
<1>5. \A n \in 1..Len(stream') : n > Len(stream) => stream'[n] = e
  BY <1>1, <1>3, <1>4
<1>6. k = 0 => stream' = stream
  <2>1. SUFFICES ASSUME k = 0 PROVE stream \o new = stream
    BY <1>2
  <2>2. new = << >>
    BY <1>1, <2>1
  <2> QED
    BY <1>3, <2>2
<1> QED
  BY <1>1, <1>4, <1>5, <1>6

\* A publisher of anything but [Done].
LEMMA OtherPublished ==
  ASSUME IInv, NEW e \in Events, e.type # "DONE",
         EC!PublishOK(e) \/ EC!PublishRaises(e) \/ EC!PublishCancelled(e)
  PROVE  NoDoneAdded
<1>1. PICK k \in 0..2 : EC!XAdd(e, k)
  BY DEF EC!PublishOK, EC!PublishRaises, EC!PublishCancelled
<1> QED
  BY <1>1, Added DEF NoDoneAdded

LEMMA TaskDoneStep ==
  ASSUME IInv, Stable, NEW q \in DOMAIN tasks, TaskStep(q) \/ DoneRaises(q)
  PROVE  DoneStep
<1>0. /\ tasks[q] \in Task /\ faults \in Nat /\ Len(stream) \in Nat
      /\ Done(q) \in Events /\ Done(q) = [type |-> "DONE", thread |-> tasks[q].thread]
  BY Basics DEF IInv, ECP!IInv, ECP!TypeOK, Done, Events, EventTypes, Task
<1>1. CASE Take(q) \/ IdleTimeout(q) \/ AgentReturns(q) \/ AgentCancelled(q)
  <2>1. UNCHANGED <<stream, answered>>
    BY <1>1 DEF Take, IdleTimeout, AgentReturns, AgentCancelled, streamVars,
       histVars
  <2> QED
    BY <1>0, <2>1 DEF DoneStep, NoDoneAdded
<1>2. ASSUME NextRound(q) \/ Finish(q)
      PROVE  q \in DOMAIN tasks' => tasks'[q].pc = "get"
  <2>1. CASE Finish(q)
    BY <2>1 DEF Finish
  <2>2. CASE tasks' = [tasks EXCEPT ![q].pc = "get", ![q].cur = 0]
    <3>1. tasks' = [tasks EXCEPT ![q] = [@ EXCEPT !.pc = "get", !.cur = 0]]
      BY <2>2
    <3>2. [tasks[q] EXCEPT !.pc = "get", !.cur = 0].pc = "get"
      BY <1>0 DEF Task
    <3> QED
      BY <3>1, <3>2
  <2> QED
    BY <1>2, <2>1, <2>2 DEF NextRound
<1>3. ASSUME EC!XAdd(Done(q), 1)
      PROVE  DoneAdded(q)
  <2>1. /\ Len(stream') = Len(stream) + 1
        /\ \A n \in 1..Len(stream') : n > Len(stream) => stream'[n] = Done(q)
    BY <1>0, <1>3, Added
  <2> QED
    BY <1>0, <2>1 DEF DoneAdded
<1>4. CASE PublishDone(q)
  <2>1. Answers(q)
    BY <1>2, <1>4 DEF PublishDone, Answers
  <2>2. faults' = 0 => DoneAdded(q)
    BY <1>0, <1>3, <1>4 DEF PublishDone, EC!PublishOK, EC!Fault
  <2> QED
    BY <2>1, <2>2 DEF DoneStep
<1>5. CASE DoneInterrupted(q)
  <2>1. PICK k \in 0..1 : EC!XAdd(Done(q), k)
    BY <1>5 DEF DoneInterrupted, EC!PublishCancelled
  <2>2. CASE k = 0
    <3>1. stream' = stream /\ answered' = answered
      BY <1>0, <1>5, <2>1, <2>2, Added DEF DoneInterrupted
    <3> QED
      BY <1>0, <3>1 DEF DoneStep, NoDoneAdded
  <2>3. CASE k = 1
    <3>1. DoneAdded(q)
      BY <1>3, <2>1, <2>3
    <3>2. stream' # stream
      BY <1>0, <3>1 DEF DoneAdded
    <3>3. Answers(q)
      BY <1>2, <1>5, <3>2 DEF DoneInterrupted, Answers
    <3> QED
      BY <3>1, <3>3 DEF DoneStep
  <2> QED
    BY <2>2, <2>3
<1>6. CASE DoneRaises(q)
  BY <1>0, <1>6 DEF DoneRaises, EC!PublishRaises, EC!Fault, DoneStep, histVars
<1> QED
  BY <1>1, <1>4, <1>5, <1>6 DEF TaskStep

LEMMA NextDoneStep ==
  ASSUME IInv, Stable, [Next]_vars
  PROVE  DoneStep
<1>0. Len(stream) \in Nat
  BY Basics
<1>1. ASSUME UNCHANGED answered, NoDoneAdded
      PROVE  DoneStep
  BY <1>1 DEF DoneStep
<1>2. UNCHANGED stream => NoDoneAdded
  BY <1>0 DEF NoDoneAdded
<1>3. CASE UNCHANGED vars
  BY <1>1, <1>2, <1>3 DEF vars, streamVars, workerVars, histVars
<1>4. ASSUME NEW q \in DOMAIN tasks, TaskStep(q) \/ DoneRaises(q)
      PROVE  DoneStep
  BY <1>4, TaskDoneStep
<1>5. ASSUME NEW w \in Workers, MainStep(w) \/ Mishap(w)
      PROVE  DoneStep
  <2>1. reader[w].pc = "handle" =>
          Queued(w) \in Events /\ Queued(w).type # "DONE"
    <3>1. SUFFICES ASSUME reader[w].pc = "handle"
                   PROVE  Queued(w) \in Events /\ Queued(w).type # "DONE"
      OBVIOUS
    <3>2. reader[w].cur \in 1..Len(stream)
      BY <3>1, Basics
    <3>3. stream[reader[w].cur] \in Events
      BY <3>2 DEF IInv, ECP!IInv, ECP!TypeOK
    <3> QED
      BY <3>3 DEF Queued, Events, EventTypes
  <2>2. CASE PublishQueued(w) \/ QueuedRaises(w) \/ CancelMain(w)
    <3>1. UNCHANGED answered
      BY <2>2 DEF PublishQueued, QueuedRaises, CancelMain, histVars
    <3>2. \/ UNCHANGED stream
          \/ /\ reader[w].pc = "handle"
             /\ \/ EC!PublishOK(Queued(w)) \/ EC!PublishRaises(Queued(w))
                \/ EC!PublishCancelled(Queued(w))
      BY <2>2 DEF PublishQueued, QueuedRaises, CancelMain, EC!Handled, EC!Quiet
    <3> QED
      BY <1>1, <1>2, <2>1, <3>1, <3>2, OtherPublished
  <2>3. CASE \/ Start(w) \/ CreateGroup(w) \/ UserNewQueue(w) \/ UserPut(w)
             \/ UserQueued(w) \/ Stop(w) \/ Ignore(w) \/ Ack(w)
             \/ LoseReply(w) \/ RedisFails(w) \/ CancelQueues(w) \/ Exit(w)
    <3>1. UNCHANGED stream
      BY <2>3 DEF Start, CreateGroup, UserNewQueue, UserPut, UserQueued, Stop,
         Ignore, Ack, LoseReply, RedisFails, CancelQueues, Exit, EC!Consume,
         EC!CreateGroup, EC!DeliverAndHandle, EC!Deliver, EC!Ack, EC!LoseReply,
         EC!RedisFails, EC!Quiet, streamVars
    <3>2. UNCHANGED answered
      BY <2>3 DEF Start, CreateGroup, UserNewQueue, UserPut, UserQueued, Stop,
         Ignore, Ack, LoseReply, RedisFails, CancelQueues, Exit, histVars,
         workerVars
    <3> QED
      BY <1>1, <1>2, <3>1, <3>2
  <2> QED
    BY <1>5, <2>2, <2>3 DEF MainStep, Mishap
<1>6. ASSUME NEW t \in Threads, SendMessage(t) \/ StopConversation(t)
      PROVE  DoneStep
  <2>1. PICK type \in {"USER", "STOP"} : Publish(type, t)
    BY <1>6 DEF SendMessage, StopConversation
  <2>2. PICK e : e = [type |-> type, thread |-> t]
    OBVIOUS
  <2>3. e \in Events /\ e.type # "DONE"
    BY <2>2 DEF Events, EventTypes
  <2>4. EC!PublishOK(e) \/ EC!PublishRaises(e)
    BY <2>1, <2>2 DEF Publish
  <2>5. UNCHANGED answered
    BY <2>1 DEF Publish, workerVars, histVars
  <2> QED
    BY <1>1, <2>3, <2>4, <2>5, OtherPublished
<1> QED
  BY <1>3, <1>4, <1>5, <1>6 DEF Next

\* The [Done] events of a thread, and its messages that were answered.
DonesOf(t) == {n \in Ids : stream[n] = [type |-> "DONE", thread |-> t]}
AnsweredOf(t) == {m \in answered : stream[m].thread = t}

AnswersWereRuns ==
  /\ \A q \in DOMAIN tasks : Running(q) => tasks[q].cur \notin answered
  /\ answered \subseteq StartedMsgs

DonesCounted ==
  faults = 0 => \A t \in Threads : Cardinality(DonesOf(t)) = Cardinality(AnsweredOf(t))

RunsAccounted ==
  NoFailure =>
    \A t \in Threads : ~StopHandledFor(t) =>
      \A m \in StartedMsgs : stream[m].thread = t =>
        m \in answered \/ \E q \in DOMAIN tasks : tasks[q].cur = m

DoneInv ==
  /\ OnlyStopsCancel
  /\ AnswersWereRuns
  /\ DonesCounted
  /\ RunsAccounted

LEMMA DoneInvSuffices == DoneInv => DoneMatchesRuns
BY DEF DoneInv, AnswersWereRuns, DonesCounted, RunsAccounted, DoneMatchesRuns,
       DonesOf, AnsweredOf, NoFailure

\* Started messages are old entries, and there are finitely many answers.
LEMMA AnswersAreOld ==
  ASSUME IInv, OrderInv, AnswersWereRuns
  PROVE  /\ \A m \in StartedMsgs : m \in 1..last /\ m \in 1..Len(stream)
         /\ \A t : IsFiniteSet(AnsweredOf(t)) /\ IsFiniteSet(DonesOf(t))
<1>1. \A m \in StartedMsgs : m \in 1..last /\ m \in 1..Len(stream)
  BY Basics DEF StartedMsgs, OrderInv, RunsDelivered
<1>2. IsFiniteSet(1..Len(stream))
  BY Basics, FS_Interval
<1>3. \A t : AnsweredOf(t) \subseteq 1..Len(stream)
               /\ DonesOf(t) \subseteq 1..Len(stream)
  BY <1>1 DEF AnsweredOf, DonesOf, AnswersWereRuns, Ids
<1> QED
  BY <1>1, <1>2, <1>3, FS_Subset

LEMMA AnswersWereRunsKept ==
  ASSUME IInv, Stable, OrderInv, MailInv, AnswersWereRuns, AtMostOneBegins,
         DoneStep
  PROVE  AnswersWereRuns'
<1>1. StartedMsgs \subseteq StartedMsgs'
  BY StartedGrow
<1>2. ASSUME NEW q \in DOMAIN tasks, Running(q)
      PROVE  tasks[q].cur \in StartedMsgs
  BY <1>2 DEF MailInv, RunningBegun, RunsBegun, StartedMsgs
<1>3. answered' \subseteq StartedMsgs'
  BY <1>1, <1>2 DEF DoneStep, Answers, AnswersWereRuns, Running
<1>4. ASSUME NEW p \in DOMAIN tasks', GoesOn(p), tasks'[p].pc # "get"
      PROVE  tasks'[p].cur \notin answered'
  <2>1. p \in DOMAIN tasks /\ Running(p) /\ tasks'[p].cur = tasks[p].cur
    BY <1>4 DEF GoesOn, Running
  <2>2. tasks[p].cur \notin answered
    BY <2>1 DEF AnswersWereRuns
  <2>3. ASSUME NEW q \in DOMAIN tasks, Answers(q)
        PROVE  tasks[q].cur # tasks[p].cur
    BY <1>4, <2>1, <2>3, RunsDiffer DEF Answers, Running
  <2> QED
    BY <2>1, <2>2, <2>3 DEF DoneStep, Answers
<1>5. ASSUME NEW m, NEW p, Begins(m, p)
      PROVE  m \notin answered'
  <2>1. ASSUME NEW i \in DOMAIN started PROVE started[i].msg # m
    <3>1. [msg |-> started[i].msg, worker |-> started[i].worker,
           thread |-> stream[started[i].msg].thread] \in Runs
      BY DEF Runs
    <3> QED
      BY <1>5, <3>1 DEF Begins, After
  <2>2. m \notin StartedMsgs
    BY <2>1 DEF StartedMsgs
  <2> QED
    BY <1>2, <2>2 DEF DoneStep, Answers, AnswersWereRuns, Running
<1>6. \A p \in DOMAIN tasks' : tasks'[p].pc # "get" => tasks'[p].cur \notin answered'
  BY <1>4, <1>5 DEF AtMostOneBegins, NoneBegins, Begins
<1> QED
  BY <1>3, <1>6 DEF AnswersWereRuns, Running

LEMMA DonesCountedKept ==
  ASSUME IInv, Stable, OrderInv, MailInv, AnswersWereRuns, DonesCounted,
         faults' = 0 => faults = 0, DoneStep
  PROVE  DonesCounted'
<1> SUFFICES ASSUME faults' = 0, faults = 0, NEW t \in Threads
             PROVE  Cardinality(DonesOf(t)') = Cardinality(AnsweredOf(t)')
  BY DEF DonesCounted
<1>0. /\ Len(stream) \in Nat /\ Len(stream') \in Nat /\ Len(stream) <= Len(stream')
      /\ \A n \in 1..Len(stream) : stream'[n] = stream[n]
  BY DEF Stable
<1>1. /\ \A m \in StartedMsgs : stream'[m] = stream[m]
      /\ IsFiniteSet(AnsweredOf(t)) /\ IsFiniteSet(DonesOf(t))
      /\ Cardinality(DonesOf(t)) = Cardinality(AnsweredOf(t))
  BY <1>0, AnswersAreOld DEF DonesCounted
<1>2. CASE UNCHANGED answered /\ NoDoneAdded
  <2>1. AnsweredOf(t)' = AnsweredOf(t)
    BY <1>1, <1>2 DEF AnsweredOf, AnswersWereRuns
  <2>2. DonesOf(t)' = DonesOf(t)
    BY <1>0, <1>2 DEF DonesOf, Ids, NoDoneAdded
  <2> QED
    BY <1>1, <2>1, <2>2
<1>3. ASSUME NEW q \in DOMAIN tasks, Answers(q), DoneAdded(q)
      PROVE  Cardinality(DonesOf(t)') = Cardinality(AnsweredOf(t)')
  <2>1. /\ tasks[q].cur \in StartedMsgs /\ tasks[q].cur \notin answered
        /\ stream[tasks[q].cur].thread = tasks[q].thread
    BY <1>3 DEF Answers, Running, MailInv, RunningBegun, RunsBegun, StartedMsgs,
       AnswersWereRuns
  <2>2. CASE tasks[q].thread = t
    <3>1. AnsweredOf(t)' = AnsweredOf(t) \union {tasks[q].cur}
      BY <1>1, <1>3, <2>1, <2>2 DEF AnsweredOf, Answers, AnswersWereRuns
    <3>2. DonesOf(t)' = DonesOf(t) \union {Len(stream) + 1}
      BY <1>0, <1>3, <2>2 DEF DonesOf, Ids, DoneAdded
    <3>3. Len(stream) + 1 \notin DonesOf(t) /\ tasks[q].cur \notin AnsweredOf(t)
      BY <1>0, <2>1 DEF DonesOf, Ids, AnsweredOf
    <3>4. /\ Cardinality(DonesOf(t)') = Cardinality(DonesOf(t)) + 1
          /\ Cardinality(AnsweredOf(t)') = Cardinality(AnsweredOf(t)) + 1
      BY <1>1, <3>1, <3>2, <3>3, FS_AddElement
    <3> QED
      BY <1>1, <3>4
  <2>3. CASE tasks[q].thread # t
    <3>1. AnsweredOf(t)' = AnsweredOf(t)
      BY <1>1, <1>3, <2>1, <2>3 DEF AnsweredOf, Answers, AnswersWereRuns
    <3>2. DonesOf(t)' = DonesOf(t)
      BY <1>0, <1>3, <2>3 DEF DonesOf, Ids, DoneAdded
    <3> QED
      BY <1>1, <3>1, <3>2
  <2> QED
    BY <2>2, <2>3
<1> QED
  BY <1>2, <1>3 DEF DoneStep

LEMMA RunsAccountedKept ==
  ASSUME IInv, Stable, OrderInv, MailInv, AnswersWereRuns, RunsAccounted,
         NoFailure, AtMostOneBegins, DoneStep, RunsEnd, handled \subseteq handled'
  PROVE  RunsAccounted'
<1>1. \A t : StoppedNext(t) <=> StopHandledFor(t)'
  BY DEF StoppedNext, StopHandledFor
<1> SUFFICES ASSUME NEW t \in Threads, ~StoppedNext(t), NEW m \in StartedMsgs',
                    stream'[m].thread = t
             PROVE  m \in answered' \/ \E q \in DOMAIN tasks' : tasks'[q].cur = m
  BY <1>1 DEF RunsAccounted
<1>2. CASE m \in StartedMsgs
  <2>1. m \in 1..Len(stream) /\ stream'[m] = stream[m] /\ m # 0
    BY <1>2, AnswersAreOld DEF Stable
  <2>2. m \in answered \/ \E q \in DOMAIN tasks : tasks[q].cur = m
    BY <1>2, <2>1, StopsStay DEF RunsAccounted
  <2>3. CASE m \in answered
    BY <2>3 DEF DoneStep, Answers
  <2>4. ASSUME NEW q \in DOMAIN tasks, tasks[q].cur = m
        PROVE  m \in answered' \/ \E p \in DOMAIN tasks' : tasks'[p].cur = m
    <3>1. Running(q) /\ stream[m].thread = tasks[q].thread
      BY <2>1, <2>4 DEF MailInv, RunningBegun
    <3>2. ~StoppedNext(tasks[q].thread)
      BY <2>1, <3>1
    <3> QED
      BY <2>4, <3>1, <3>2 DEF RunsEnd
  <2> QED
    BY <2>2, <2>3, <2>4
<1>3. CASE m \notin StartedMsgs
  <2>1. PICK n, q : Begins(n, q)
    BY <1>3 DEF AtMostOneBegins, NoneBegins, StartedMsgs
  <2>2. PICK r : r = [msg |-> n, worker |-> tasks'[q].worker]
    OBVIOUS
  <2>3. r \in [msg : Nat \ {0}, worker : Workers] /\ started' = Append(started, r)
    BY <2>1, <2>2, AliveId DEF Begins
  <2>4. RunsBegun' = RunsBegun \union {r}
    BY <2>3, BegunAppend
  <2>5. m = n
    BY <1>3, <2>2, <2>4 DEF RunsBegun, StartedMsgs
  <2> QED
    BY <2>1, <2>5 DEF Begins
<1> QED
  BY <1>2, <1>3

LEMMA NextDone ==
  ASSUME IInv, OrderInv, MailInv, DoneInv, [Next]_vars
  PROVE  DoneInv'
<1>1. /\ Stable /\ AtMostOneBegins /\ DoneStep /\ handled \subseteq handled'
  BY NextStable, NextBegins, NextDoneStep, NextTrims
<1>2. faults' = 0 => faults = 0
  <2>1. TypeOK /\ ECP!IInv /\ ECP!ECAssumption
    BY IInvImpliesTypeOK, AWAssumption DEF IInv, ECP!ECAssumption, AWAssumption
  <2>2. [ECP!OpenNext]_(ECP!vars)
    BY <2>1, NextIsEC, SameSteps
  <2>3. UNCHANGED faults \/ faults' = faults + 1
    BY <2>1, <2>2, ECP!FaultsGrow
  <2>4. faults \in Nat
    BY <2>1 DEF ECP!IInv, ECP!TypeOK
  <2> QED
    BY <2>3, <2>4
<1>3. AnswersWereRuns' /\ DonesCounted'
  BY <1>1, <1>2, AnswersWereRunsKept, DonesCountedKept DEF DoneInv
<1>4. NoFailure' => NoFailure /\ RunsEnd
  BY NoFailureBefore, NextRunsEnd DEF DoneInv
<1>5. RunsAccounted'
  <2>1. CASE NoFailure'
    BY <1>1, <1>4, <2>1, RunsAccountedKept DEF DoneInv
  <2> QED
    BY <2>1 DEF RunsAccounted
<1>6. OnlyStopsCancel'
  <2>1. \A t : StoppedNext(t) <=> StopHandledFor(t)'
    BY DEF StoppedNext, StopHandledFor
  <2> QED
    BY <1>4, <2>1 DEF OnlyStopsCancel, RunsEnd, StoppedNext, StopHandledFor
<1> QED
  BY <1>3, <1>5, <1>6 DEF DoneInv

LEMMA InitDone == ASSUME Init PROVE DoneInv
<1>1. AnswersWereRuns /\ RunsAccounted /\ OnlyStopsCancel
  BY DEF Init, EC!Init, AnswersWereRuns, RunsAccounted, OnlyStopsCancel,
     StartedMsgs
<1>2. \A t : DonesOf(t) = {} /\ AnsweredOf(t) = {}
  BY DEF Init, EC!Init, DonesOf, AnsweredOf, Ids
<1> QED
  BY <1>1, <1>2 DEF DoneInv, DonesCounted

\* No [Done] before its run is over and none for a message that was never run;
\* as long as Redis does not fail, as many [Done]s of a thread as messages of it
\* were answered, whatever dies; and only a STOP, a failure or the end of a
\* process leaves a run without its answer.
THEOREM DoneMatchesRunsAlways == Spec => []DoneMatchesRuns
<1>1. Init => DoneInv
  BY InitDone
<1>2. IInv /\ OrderInv /\ MailInv /\ DoneInv /\ [Next]_vars => DoneInv'
  BY NextDone
<1>3. DoneInv => DoneMatchesRuns
  BY DoneInvSuffices
<1> QED
  BY <1>1, <1>2, <1>3, MailInvariant, PTL DEF Spec

-----------------------------------------------------------------------------
(***************************************************************************)
(* What a STOP does                                                        *)
(***************************************************************************)

\* No task that unwinds goes on to run, by this step.
UnwindsOn ==
  \A q \in DOMAIN tasks \intersect DOMAIN tasks' :
    tasks[q].pc \in Unwinding => tasks'[q].pc \in Unwinding

LEMMA OneTaskSteps ==
  ASSUME TasksTyped, NEW q \in DOMAIN tasks, NEW r, tasks' = [tasks EXCEPT ![q] = r],
         tasks[q].pc \in Unwinding => r.pc \in Unwinding
  PROVE  UnwindsOn
BY DEF UnwindsOn, TasksTyped

LEMMA PutUnwinds ==
  ASSUME TasksTyped, NEW q, NEW w, NEW n, Put(q, w, n)
  PROVE  UnwindsOn
<1>1. CASE UNCHANGED tasks
  BY <1>1 DEF UnwindsOn
<1>2. CASE q \in DOMAIN tasks /\ Idle(q) /\ Run(q, w, n)
  <2>1. tasks[q] \in Task /\ tasks[q].pc = "get"
    BY <1>2 DEF TasksTyped, Idle
  <2>2. PICK r : r = [tasks[q] EXCEPT !.pc = "run", !.cur = n]
    OBVIOUS
  <2>3. tasks' = [tasks EXCEPT ![q] = r]
    BY <1>2, <2>2 DEF Run
  <2> QED
    BY <1>2, <2>1, <2>3, OneTaskSteps DEF Unwinding
<1>3. CASE q \in DOMAIN tasks /\ tasks' = [tasks EXCEPT ![q].items = Append(@, n)]
  <2>1. tasks[q] \in Task
    BY <1>3 DEF TasksTyped
  <2>2. PICK r : r = [tasks[q] EXCEPT !.items = Append(@, n)]
    OBVIOUS
  <2>3. tasks' = [tasks EXCEPT ![q] = r] /\ r.pc = tasks[q].pc
    BY <1>3, <2>1, <2>2 DEF Task
  <2> QED
    BY <1>3, <2>3, OneTaskSteps
<1> QED
  BY <1>1, <1>2, <1>3 DEF Put

LEMMA FinishUnwinds ==
  ASSUME NEW q, Finish(q)
  PROVE  UnwindsOn
BY DEF Finish, UnwindsOn

LEMMA TaskStepUnwinds ==
  ASSUME TasksTyped, NEW q \in DOMAIN tasks, TaskStep(q)
  PROVE  UnwindsOn
<1>0. tasks[q] \in Task
  BY DEF TasksTyped
<1>1. CASE Take(q)
  <2>1. PICK r : r = [tasks[q] EXCEPT !.pc = "run", !.cur = Head(tasks[q].items), !.items = Tail(@)]
    OBVIOUS
  <2>2. tasks' = [tasks EXCEPT ![q] = r] /\ tasks[q].pc = "get"
    BY <1>1, <2>1 DEF Take
  <2> QED
    BY <2>2, OneTaskSteps DEF Unwinding
<1>2. CASE AgentReturns(q)
  <2>1. PICK r : r = [tasks[q] EXCEPT !.pc = "done"]
    OBVIOUS
  <2>2. tasks' = [tasks EXCEPT ![q] = r] /\ tasks[q].pc = "run"
    BY <1>2, <2>1 DEF AgentReturns
  <2> QED
    BY <2>2, OneTaskSteps DEF Unwinding
<1>3. CASE AgentCancelled(q)
  <2>1. PICK r : r = [tasks[q] EXCEPT !.pc = "doneCancelled"]
    OBVIOUS
  <2>2. tasks' = [tasks EXCEPT ![q] = r] /\ r.pc = "doneCancelled"
    BY <1>0, <1>3, <2>1 DEF AgentCancelled, Task
  <2> QED
    BY <2>2, OneTaskSteps DEF Unwinding
<1>4. CASE IdleTimeout(q) \/ DoneInterrupted(q)
  BY <1>4, FinishUnwinds DEF IdleTimeout, DoneInterrupted
<1>5. CASE PublishDone(q)
  <2>1. CASE Finish(q)
    BY <2>1, FinishUnwinds
  <2>2. CASE ~Finish(q)
    <3>1. PICK r : r = [tasks[q] EXCEPT !.pc = "get", !.cur = 0]
      OBVIOUS
    <3>2. tasks' = [tasks EXCEPT ![q] = r] /\ tasks[q].pc = "done"
      BY <1>5, <2>2, <3>1 DEF PublishDone, NextRound
    <3> QED
      BY <3>2, OneTaskSteps DEF Unwinding
  <2> QED
    BY <2>1, <2>2
<1> QED
  BY <1>1, <1>2, <1>3, <1>4, <1>5 DEF TaskStep

\* A cancelled task unwinds or, between two messages, does not notice.
LEMMA CancelledUnwinds ==
  ASSUME NEW r \in Task
  PROVE  /\ Cancelled(r).pc \in Unwinding \union {"get"}
         /\ r.pc # "get" => Cancelled(r).pc \in Unwinding
BY DEF Cancelled, Task, Unwinding

LEMMA StopUnwinds ==
  ASSUME IInv, NEW w \in Workers, Stop(w)
  PROVE  UnwindsOn
<1>1. PICK q : q = queue_tasks[w][ThreadOfNext]
  OBVIOUS
<1>2. ThreadOfNext \in Threads
  BY NextEntry DEF Stop, Arrives, IInv
<1>3. q # 0 => q \in DOMAIN tasks /\ tasks[q] \in Task
  BY <1>1, <1>2 DEF IInv, TasksInv, TasksTyped, DictsAgree
<1>4. CASE UNCHANGED taskVars
  BY <1>4 DEF taskVars, UnwindsOn
<1>5. CASE Finish(q)
  BY <1>5, FinishUnwinds
<1>6. CASE q # 0 /\ tasks' = [tasks EXCEPT ![q] = Cancelled(@)]
  <2>1. PICK r : r = Cancelled(tasks[q])
    OBVIOUS
  <2>2. tasks' = [tasks EXCEPT ![q] = r] /\ (tasks[q].pc # "get" => r.pc \in Unwinding)
    BY <1>3, <1>6, <2>1, CancelledUnwinds
  <2> QED
    BY <1>3, <1>6, <2>2, OneTaskSteps DEF IInv, TasksInv, Unwinding
<1> QED
  BY <1>1, <1>4, <1>5, <1>6 DEF Stop

LEMMA NextUnwinds ==
  ASSUME IInv, Next
  PROVE  UnwindsOn \/ faults' > faults
<1>0. TasksTyped /\ faults \in Nat
  BY DEF IInv, TasksInv, ECP!IInv, ECP!TypeOK
<1>1. ASSUME NEW q \in DOMAIN tasks, TaskStep(q) PROVE UnwindsOn
  BY <1>0, <1>1, TaskStepUnwinds
<1>2. ASSUME NEW q \in DOMAIN tasks, DoneRaises(q) PROVE faults' > faults
  BY <1>0, <1>2 DEF DoneRaises, EC!PublishRaises, EC!Fault
<1>3. ASSUME UNCHANGED tasks PROVE UnwindsOn
  BY <1>3 DEF UnwindsOn
<1>4. ASSUME NEW w \in Workers, UserNewQueue(w) PROVE UnwindsOn
  <2>1. PICK n : n = EC!NextId
    OBVIOUS
  <2>2. n \notin DOMAIN tasks
    <3>1. n > last /\ n \in Nat /\ last \in Nat
      BY <1>4, <2>1, NextEntry DEF UserNewQueue, Arrives, IInv, ECP!IInv, ECP!TypeOK
    <3> QED
      BY <3>1 DEF IInv, TasksInv, DeliveredIds
  <2>3. \A q \in DOMAIN tasks : tasks'[q] = tasks[q]
    BY <1>4, <2>1, <2>2 DEF UserNewQueue
  <2> QED
    BY <2>3 DEF UnwindsOn
<1>5. ASSUME NEW w \in Workers, UserPut(w) \/ PublishQueued(w) PROVE UnwindsOn
  BY <1>0, <1>5, PutUnwinds DEF UserPut, PublishQueued
<1>6. ASSUME NEW w \in Workers, Stop(w) PROVE UnwindsOn
  BY <1>6, StopUnwinds
<1>7. ASSUME NEW w \in Workers, CancelQueues(w) PROVE UnwindsOn
  <2>1. ASSUME NEW q \in DOMAIN tasks, q \in DOMAIN tasks', tasks[q].pc \in Unwinding
        PROVE  tasks'[q].pc \in Unwinding
    <3>1. tasks'[q] = tasks[q] \/ tasks'[q] = Cancelled(tasks[q])
      BY <1>7, <2>1 DEF CancelQueues
    <3>2. tasks[q] \in Task
      BY <1>0 DEF TasksTyped
    <3> QED
      BY <2>1, <3>1, <3>2, CancelledUnwinds DEF Unwinding
  <2> QED
    BY <2>1 DEF UnwindsOn
<1>8. ASSUME NEW w \in Workers, Exit(w) PROVE UnwindsOn
  <2>1. \A q \in DOMAIN tasks' : tasks'[q] = tasks[q]
    BY <1>8 DEF Exit
  <2> QED
    BY <2>1 DEF UnwindsOn
<1>9. ASSUME NEW w \in Workers, MainStep(w) PROVE UnwindsOn
  BY <1>3, <1>4, <1>5, <1>6, <1>9
     DEF MainStep, Start, CreateGroup, UserQueued, Ignore, Ack, taskVars, workerVars
<1>10. ASSUME NEW w \in Workers, Mishap(w) PROVE UnwindsOn
  BY <1>3, <1>7, <1>8, <1>10
     DEF Mishap, LoseReply, RedisFails, QueuedRaises, CancelMain, taskVars, workerVars
<1>11. ASSUME NEW t \in Threads, SendMessage(t) \/ StopConversation(t) PROVE UnwindsOn
  BY <1>3, <1>11 DEF SendMessage, StopConversation, Publish, taskVars, workerVars
<1> QED
  BY <1>1, <1>2, <1>9, <1>10, <1>11 DEF Next

\* A task that was cancelled, by a STOP or a shutdown, runs nothing any more, in
\* whichever await the cancellation met it, unless a command of Redis fails in
\* that step.
THEOREM StopIsFinalAlways == Spec => StopIsFinal
<1>1. IInv /\ [Next]_vars =>
        [\A q \in DOMAIN tasks \intersect DOMAIN tasks' :
           tasks[q].pc \in Unwinding =>
             tasks'[q].pc \in Unwinding \/ faults' > faults]_vars
  BY NextUnwinds DEF UnwindsOn
<1> QED
  BY <1>1, Invariant, PTL DEF Spec, StopIsFinal

\* A STOP that the step handles leaves no run of its thread undisturbed in the
\* process that handles it.
StopsReached ==
  \A s \in handled' \ handled : stream[s].type = "STOP" =>
    \A q \in DOMAIN tasks' :
      tasks'[q].thread = stream[s].thread /\ tasks'[q].pc = "run"
        => reader'[tasks'[q].worker].cur # s

LEMMA StopReaches ==
  ASSUME IInv, NEW w \in Workers, Stop(w)
  PROVE  StopsReached
<1>1. PICK n, t, q : n = EC!NextId /\ t = ThreadOfNext /\ q = queue_tasks[w][t]
  OBVIOUS
<1>2. handled' = handled \union {n} /\ reader[w].pc = "read" /\ stream[n].thread = t
  BY <1>1 DEF Stop, EC!DeliverAndHandle, ThreadOfNext
<1>3. phase[w] = "up"
  BY <1>2 DEF IInv, LoopsWhenUp
<1>4. ASSUME NEW p \in DOMAIN tasks, tasks[p].thread = t, tasks[p].worker = w
      PROVE  q = p /\ q # 0 /\ tasks[q] \in Task
  <2>1. p # 0 /\ tasks[p] \in Task
    BY DEF IInv, TasksInv, TasksTyped
  <2>3. queue_tasks[w][t] = p
    BY <1>3, <1>4 DEF IInv, TasksInv, OneTaskPerThread
  <2> QED
    BY <1>1, <2>1, <2>3
\* Nobody else holds the STOP.
<1>9. ASSUME NEW v \in Workers, reader'[v].cur = n
      PROVE  v = w
  <2>1. ECP!IInv /\ n > last /\ last \in Nat
    BY <1>1, NextEntry DEF Stop, Arrives, IInv, ECP!IInv, ECP!TypeOK
  <2>2. v # w => reader'[v] = reader[v] /\ reader[v].cur <= last
    BY <1>9, <2>1 DEF Stop, EC!DeliverAndHandle, EC!Goto, ECP!IInv, ECP!TypeOK
  <2> QED
    BY <1>9, <2>1, <2>2 DEF ECP!IInv, ECP!TypeOK
<1>5. SUFFICES ASSUME NEW p \in DOMAIN tasks', tasks'[p].thread = t, tasks'[p].worker = w
               PROVE  tasks'[p].pc # "run"
  <2>1. ASSUME NEW p \in DOMAIN tasks' PROVE tasks'[p].worker \in Workers
    BY StopIInv, NextStable, <2>1 DEF IInv, TasksInv, TasksTyped, Task, Next, MainStep
  <2> QED
    BY <1>2, <1>9, <2>1 DEF StopsReached
<1>6. CASE q = 0 /\ UNCHANGED taskVars
  <2>1. p \in DOMAIN tasks /\ tasks[p].thread = t
    BY <1>5, <1>6 DEF taskVars
  <2> QED
    BY <1>4, <1>5, <1>6, <2>1 DEF taskVars
<1>7. CASE Finish(q)
  <2>1. /\ p \in DOMAIN tasks /\ tasks[p].thread = t /\ tasks[p].worker = w
        /\ p # q
    BY <1>5, <1>7 DEF Finish
  <2> QED
    BY <1>4, <2>1
<1>8. CASE q # 0 /\ tasks' = [tasks EXCEPT ![q] = Cancelled(@)]
  <2>1. p \in DOMAIN tasks
    BY <1>8
  <2>2. CASE p = q
    <3>1. tasks[q] \in Task
      BY <2>1, <2>2 DEF IInv, TasksInv, TasksTyped
    <3>2. tasks'[p] = Cancelled(tasks[q])
      BY <1>8, <2>1, <2>2
    <3> QED
      BY <3>1, <3>2, CancelledUnwinds DEF Unwinding
  <2>3. CASE p # q
    <3>1. tasks[p].thread = t /\ tasks[p].worker = w
      BY <1>5, <1>8, <2>1, <2>3
    <3> QED
      BY <1>4, <2>1, <2>3, <3>1
  <2> QED
    BY <2>2, <2>3
<1> QED
  BY <1>1, <1>6, <1>7, <1>8 DEF Stop

LEMMA NextReaches ==
  ASSUME IInv, MailInv, Next
  PROVE  StopsReached
<1>1. ASSUME UNCHANGED handled PROVE StopsReached
  BY <1>1 DEF StopsReached
<1>2. ASSUME NEW q \in DOMAIN tasks, TaskStep(q) \/ DoneRaises(q) PROVE UNCHANGED handled
  BY <1>2 DEF TaskStep, Take, IdleTimeout, AgentReturns, AgentCancelled, PublishDone,
     DoneInterrupted, DoneRaises, streamVars
<1>3. ASSUME NEW w \in Workers, UserNewQueue(w) \/ UserPut(w) \/ Ignore(w) PROVE StopsReached
  <2>1. handled' = handled \union {EC!NextId} /\ stream[EC!NextId].type # "STOP"
    BY <1>3 DEF UserNewQueue, UserPut, Ignore, Arrives, EC!DeliverAndHandle
  <2> QED
    BY <2>1 DEF StopsReached
<1>4. ASSUME NEW w \in Workers, PublishQueued(w) PROVE StopsReached
  <2>1. handled' = handled \union {reader[w].cur} /\ reader[w].pc = "handle"
    BY <1>4 DEF PublishQueued, EC!Handled
  <2>2. stream[reader[w].cur].type = "USER"
    BY <2>1 DEF MailInv, UsersOnly, IsUser
  <2> QED
    BY <2>1, <2>2 DEF StopsReached
<1>5. ASSUME NEW w \in Workers,
             Start(w) \/ CreateGroup(w) \/ UserQueued(w) \/ Ack(w) \/ Mishap(w)
      PROVE  UNCHANGED handled
  BY <1>5 DEF Start, CreateGroup, UserQueued, Ack, Mishap, LoseReply, RedisFails, QueuedRaises,
     CancelMain, CancelQueues, Exit, EC!Consume, EC!CreateGroup, EC!Deliver, EC!Ack,
     EC!LoseReply, EC!RedisFails, EC!Abandon, streamVars
<1>6. ASSUME NEW w \in Workers, MainStep(w) \/ Mishap(w) PROVE StopsReached
  BY <1>1, <1>3, <1>4, <1>5, <1>6, StopReaches DEF MainStep
<1>7. ASSUME NEW t \in Threads, SendMessage(t) \/ StopConversation(t) PROVE UNCHANGED handled
  BY <1>7 DEF SendMessage, StopConversation, Publish
<1> QED
  BY <1>1, <1>2, <1>6, <1>7 DEF Next

\* A STOP that a process has handled has reached the run of its thread in that
\* process, whatever fails and however often processes are restarted.
THEOREM StopReachesRunAlways == Spec => StopReachesRun
<1>1. IInv /\ MailInv /\ [Next]_vars =>
        [\A s \in handled' \ handled : stream[s].type = "STOP" =>
           \A q \in DOMAIN tasks' :
             /\ tasks'[q].thread = stream[s].thread
             /\ tasks'[q].pc = "run"
             => reader'[tasks'[q].worker].cur # s]_vars
  BY NextReaches DEF StopsReached
<1> QED
  BY <1>1, MailInvariant, PTL DEF Spec, StopReachesRun
=============================================================================
