------------------------------ MODULE LogIntake ------------------------------
(***************************************************************************)
(* How a log of the monitored system becomes work for the agent.  Vector   *)
(* posts batches of error logs (routes/vector.py); Drain3 tells which show *)
(* a template for the first time (services/drain3_service.py); those go    *)
(* through a Redis list to whoever pops them (collector/vector_consumer.py)*)
(* - the server, whose handler opens a conversation and publishes a USER   *)
(* event (collector/handlers/event.py), `auperator start', which runs the  *)
(* agent itself (handlers/agent.py), or `auperator terminal-consume'       *)
(* (handlers/console.py).  What becomes of a USER event is in module       *)
(* AgentWorker.                                                            *)
(*                                                                         *)
(* add_log_message runs in a thread pool, and nothing locks the one        *)
(* TemplateMiner: between the search of a template and its creation        *)
(* another request can do the same.                                        *)
(***************************************************************************)
EXTENDS Naturals, Sequences, FiniteSets, SequencesExt

CONSTANTS
  Templates,    \* templates of the logs
  Posts,        \* requests of Vector that can be open at a time
  Batches,      \* the batches it may post, sequences of templates
  Server,       \* the consumer in the server
  Others,       \* processes of `auperator start' and `auperator terminal-consume'
  MaxClusters,  \* drain3_max_clusters
  MaxLogs,      \* bound: logs in its requests
  MaxCopies,    \* bound: times a command of redis-py that it repeats takes
                \* effect; with the client's default of three retries it is four
  MaxFaults,    \* bound: failures of Redis, the database or the state file
  MaxEnds       \* bound: shutdowns and deaths of processes

ASSUME LIAssumption ==
  /\ Batches \subseteq Seq(Templates)
  /\ Server \notin Others
  /\ IsFiniteSet(Posts)
  /\ MaxClusters \in Nat \ {0}
  /\ {MaxLogs, MaxCopies, MaxFaults, MaxEnds} \subseteq Nat

Consumers == {Server} \union Others
Commands == {"server", "start", "terminal-consume"}

VARIABLES
  post,      \* per open request: the logs left, and what it does with the first
  miner,     \* the clusters in memory, the least recently used first
  saved,     \*   and in drain3_state_file
  learned,   \* history: the templates clusters were created for, in order
  forgotten, \* history: how often a template was no longer in memory
  list,      \* the Redis list, the end it is popped from first
  pushed,    \* history: number of entries ever pushed
  consumer,  \* what each consumer does, with which entry and conversation
  threads,   \* the conversations made, and the entry each is about
  events,    \* USER events: their conversations
  ran,       \* history: the conversations `auperator start' ran the agent on
  shown,     \* history: entries shown on a terminal
  logs, faults, ends

minerVars == <<miner, saved, learned, forgotten>>
listVars == <<list, pushed>>
workVars == <<threads, events, ran, shown>>
counters == <<logs, faults, ends>>
vars == <<post, minerVars, listVars, consumer, workVars, counters>>

\* An entry of the list: the learning it reports, and its number.
Entries == [learning : 1..Len(learned), number : 1..pushed]
NoEntry == [learning |-> 0, number |-> 0]

Closed == [logs |-> <<>>, pc |-> "next", learning |-> 0]
Off == [pc |-> "off", command |-> "server", entry |-> NoEntry, thread |-> 0]
Waiting(command) == [Off EXCEPT !.pc = "pop", !.command = command]

Up == consumer[Server].pc # "off"

Init ==
  /\ post = [r \in Posts |-> Closed]
  /\ miner = <<>> /\ saved = <<>> /\ learned = <<>>
  /\ forgotten = [t \in Templates |-> 0]
  /\ list = <<>> /\ pushed = 0
  /\ consumer = [p \in Consumers |-> Off]
  /\ threads = <<>> /\ events = <<>> /\ ran = {} /\ shown = {}
  /\ logs = 0 /\ faults = 0 /\ ends = 0

Fault == faults < MaxFaults /\ faults' = faults + 1

(***************************************************************************)
(* Drain3                                                                  *)
(***************************************************************************)

\* TemplateMiner.load_state
Loaded == saved

\* A use makes the i-th cluster the most recently used one.
Touched(i) == Append(RemoveAt(miner, i), miner[i])

\* A new cluster drops the least recently used one when there is no room.
Created(t) ==
  Append(IF Len(miner) >= MaxClusters THEN Tail(miner) ELSE miner, t)

\* The miner changes; templates may leave it.
Mined(m) ==
  /\ miner' = m
  /\ forgotten' = [t \in Templates |->
                     IF t \in ToSet(miner) \ ToSet(m) THEN forgotten[t] + 1
                     ELSE forgotten[t]]

(***************************************************************************)
(* POST /vector/ingest                                                     *)
(***************************************************************************)

NextLog(r) ==
  post' = [post EXCEPT ![r] = [Closed EXCEPT !.logs = Tail(post[r].logs)]]

Ingest(r) ==
  /\ logs < MaxLogs
  /\ Up
  /\ post[r].logs = <<>>
  /\ \E b \in Batches :
       /\ logs + Len(b) <= MaxLogs
       /\ logs' = logs + Len(b)
       /\ post' = [post EXCEPT ![r].logs = b]
  /\ UNCHANGED <<minerVars, listVars, consumer, workVars, faults, ends>>

\* add_log_message finds a cluster: the log is dropped, also if it changed the
\* template (is_new_template).
FindTemplate(r) ==
  /\ post[r].logs # <<>> /\ post[r].pc = "next"
  /\ \E i \in DOMAIN miner :
       miner[i] = Head(post[r].logs) /\ Mined(Touched(i))
  /\ saved' \in {saved, miner'}
  /\ NextLog(r)
  /\ UNCHANGED <<learned, listVars, consumer, workVars, counters>>

\* Variant to be refuted: a log that changes the template counts as a new one.
Variant_MissTemplate(r) ==
  /\ post[r].logs # <<>> /\ post[r].pc = "next"
  /\ post' = [post EXCEPT ![r].pc = "learn"]
  /\ UNCHANGED <<minerVars, listVars, consumer, workVars, counters>>

\* It finds none.
MissTemplate(r) ==
  /\ post[r].logs # <<>> /\ post[r].pc = "next"
  /\ Head(post[r].logs) \notin ToSet(miner)
  /\ post' = [post EXCEPT ![r].pc = "learn"]
  /\ UNCHANGED <<minerVars, listVars, consumer, workVars, counters>>

\* It creates a cluster and saves the miner, here in one step; a failure to save
\* is an exception and the log is done with.
LearnTemplate(r) ==
  /\ post[r].pc = "learn"
  /\ Mined(Created(Head(post[r].logs)))
  /\ learned' = Append(learned, Head(post[r].logs))
  /\ \/ /\ saved' = miner'
        /\ post' = [post EXCEPT ![r].pc = "push", ![r].learning = Len(learned')]
        /\ UNCHANGED faults
     \/ Fault /\ NextLog(r) /\ UNCHANGED saved
  /\ UNCHANGED <<listVars, consumer, workVars, logs, ends>>

\* Variant to be refuted: RPUSH, the end it is popped from.
Variant_Pushed(n, k) == [i \in 1..k |-> [learning |-> n, number |-> pushed + i]] \o list

\* Variant to be refuted: the list is trimmed to its newest entry.
Variant_Trimmed(n, k) == [i \in 1..k |-> [learning |-> n, number |-> pushed + i]]

\* LPUSH: k copies of the entry.
Pushed(n, k) == list \o [i \in 1..k |-> [learning |-> n, number |-> pushed + i]]

\* redis-py repeats a command whose answer is late; after the last attempt the
\* exception is logged, and the loop goes on with the next log.
PushEntry(r) ==
  /\ post[r].pc = "push"
  /\ \E k \in 0..MaxCopies :
       /\ \/ k = 1 /\ UNCHANGED faults
          \/ Fault
       /\ list' = Pushed(post[r].learning, k)
       /\ pushed' = pushed + k
  /\ NextLog(r)
  /\ UNCHANGED <<minerVars, consumer, workVars, logs, ends>>

(***************************************************************************)
(* VectorRedisConsumer.consume and the handlers                            *)
(***************************************************************************)

Goto(p, pc) == consumer' = [consumer EXCEPT ![p].pc = pc]
NextEntry(p) == consumer' = [consumer EXCEPT ![p] = Waiting(@.command)]

\* The server starts and loads the miner.
StartServer ==
  /\ ~Up
  /\ consumer' = [consumer EXCEPT ![Server] = Waiting("server")]
  /\ Mined(Loaded)
  /\ UNCHANGED <<post, saved, learned, listVars, workVars, counters>>

\* Somebody starts another consumer.
StartOther(p) ==
  /\ p \in Others /\ consumer[p].pc = "off"
  /\ \E command \in Commands \ {"server"} :
       consumer' = [consumer EXCEPT ![p] = Waiting(command)]
  /\ UNCHANGED <<post, minerVars, listVars, workVars, counters>>

\* Variant to be refuted: the consumer waits until it has a batch of two.
Variant_Pop(p) ==
  /\ consumer[p].pc = "pop"
  /\ Len(list) >= 2
  /\ consumer' = [consumer EXCEPT ![p].pc = "handle", ![p].entry = Head(list)]
  /\ list' = Tail(list)
  /\ UNCHANGED <<post, minerVars, pushed, workVars, counters>>

\* BRPOP
Pop(p) ==
  /\ consumer[p].pc = "pop"
  /\ list # <<>>
  /\ consumer' = [consumer EXCEPT ![p].pc = "handle", ![p].entry = Head(list)]
  /\ list' = Tail(list)
  /\ UNCHANGED <<post, minerVars, pushed, workVars, counters>>

\* The entry is removed but its answer does not arrive: consume reports the
\* RedisError, sleeps a second and asks for the next.
PopLost(p) ==
  /\ consumer[p].pc = "pop"
  /\ list # <<>>
  /\ Fault
  /\ list' = Tail(list)
  /\ UNCHANGED <<post, minerVars, pushed, consumer, workVars, logs, ends>>

\* EventHandler: a new conversation is committed, or the entry is lost.
Converse(p) ==
  /\ consumer[p].command = "server" /\ consumer[p].pc = "handle"
  /\ \/ /\ threads' = Append(threads, [entry |-> consumer[p].entry, by |-> p])
        /\ consumer' = [consumer EXCEPT ![p].pc = "publish",
                                        ![p].thread = Len(threads')]
        /\ UNCHANGED faults
     \/ Fault /\ NextEntry(p) /\ UNCHANGED threads
  /\ UNCHANGED <<post, minerVars, listVars, events, ran, shown, logs, ends>>

\* AgentHandler: a fresh thread_id, no conversation in the database.
NewThread(p) ==
  /\ consumer[p].command = "start" /\ consumer[p].pc = "handle"
  /\ threads' = Append(threads, [entry |-> consumer[p].entry, by |-> p])
  /\ consumer' = [consumer EXCEPT ![p].pc = "publish", ![p].thread = Len(threads')]
  /\ UNCHANGED <<post, minerVars, listVars, events, ran, shown, counters>>

\* k copies of the USER event.
Published(p, k) == events' = events \o [i \in 1..k |-> consumer[p].thread]

\* publish_event; a failure is logged by the server and passed over by
\* AgentHandler, which runs the agent all the same.
PublishUser(p) ==
  /\ consumer[p].pc = "publish"
  /\ \E k \in 0..MaxCopies :
       /\ \/ k = 1 /\ UNCHANGED faults
          \/ Fault
       /\ Published(p, k)
  /\ \/ p = Server /\ NextEntry(p)
     \/ p # Server /\ Goto(p, "run")
  /\ UNCHANGED <<post, minerVars, listVars, threads, ran, shown, logs, ends>>

\* AgentHandler runs the agent in its own process.
RunHere(p) ==
  /\ consumer[p].pc = "run"
  /\ ran' = ran \union {consumer[p].thread}
  /\ NextEntry(p)
  /\ UNCHANGED <<post, minerVars, listVars, threads, events, shown, counters>>

\* ConsoleHandler
Show(p) ==
  /\ consumer[p].command = "terminal-consume" /\ consumer[p].pc = "handle"
  /\ shown' = shown \union {consumer[p].entry}
  /\ NextEntry(p)
  /\ UNCHANGED <<post, minerVars, listVars, threads, events, ran, counters>>

\* A process is stopped or dies.  A stop of the server waits for open requests
\* and cancels log_consumer: an entry it has is lost like in a crash, and an
\* event on its way to Redis may arrive or not.
End(p) ==
  /\ ends < MaxEnds
  /\ consumer[p].pc # "off"
  /\ consumer' = [consumer EXCEPT ![p] = Off]
  /\ \/ UNCHANGED events
     \/ consumer[p].pc = "publish" /\ Published(p, 1)
  /\ \/ p = Server /\ post' = [r \in Posts |-> Closed]
     \/ p # Server /\ UNCHANGED post
  /\ ends' = ends + 1
  /\ UNCHANGED <<minerVars, listVars, threads, ran, shown, logs, faults>>

Vector(r) ==
  Ingest(r) \/ FindTemplate(r) \/ MissTemplate(r) \/ LearnTemplate(r) \/ PushEntry(r)

Consumer(p) ==
  \/ StartOther(p) \/ Pop(p) \/ PopLost(p) \/ Converse(p) \/ NewThread(p)
  \/ PublishUser(p) \/ RunHere(p) \/ Show(p) \/ End(p)

Next ==
  \/ \E r \in Posts : Vector(r)
  \/ \E p \in Consumers : Consumer(p)
  \/ StartServer

Spec == Init /\ [][Next]_vars

\* The server's threads and its event loop go on; nothing makes Vector post or
\* an ended process start, and a fault need not happen.
Fairness ==
  /\ \A r \in Posts : WF_vars(FindTemplate(r) \/ MissTemplate(r) \/ LearnTemplate(r)
                               \/ PushEntry(r))
  /\ \A p \in Consumers :
       /\ WF_vars(Pop(p))
       /\ WF_vars(Converse(p) \/ NewThread(p) \/ PublishUser(p) \/ RunHere(p) \/ Show(p))

FairSpec == Spec /\ Fairness

(***************************************************************************)
(* Properties                                                              *)
(***************************************************************************)

\* Types of the variables.
TypeOK ==
  /\ post \in [Posts -> [logs : Seq(Templates), pc : {"next", "learn", "push"},
                         learning : 0..Len(learned)]]
  /\ miner \in Seq(Templates) /\ saved \in Seq(Templates) /\ learned \in Seq(Templates)
  /\ Len(miner) <= MaxClusters
  /\ forgotten \in [Templates -> Nat]
  /\ list \in Seq(Entries)
  /\ consumer \in [Consumers -> [pc : {"off", "pop", "handle", "publish", "run"},
                                 command : Commands,
                                 entry : Entries \union {NoEntry},
                                 thread : 0..Len(threads)]]
  /\ threads \in Seq([entry : Entries, by : Consumers])
  /\ events \in Seq(DOMAIN threads)
  /\ ran \subseteq DOMAIN threads
  /\ shown \subseteq Entries

\* Learnings on their way: about to be pushed, in the list or with a consumer.
OnTheWay ==
  {post[r].learning : r \in Posts} \union {list[i].learning : i \in DOMAIN list}
    \union {consumer[p].entry.learning : p \in Consumers}

\* And those that arrived.
Arrived ==
  {threads[events[i]].entry.learning : i \in DOMAIN events}
    \union {threads[t].entry.learning : t \in ran}
    \union {e.learning : e \in shown}

\* A template is learned before its log is handed over, and never handed over
\* again.  So every learning that is neither on its way nor reported was lost
\* by something: a failure of Redis, the database or the state file loses one,
\* the end of a process what its requests and its consumer had.
LossHasCause ==
  Cardinality((1..Len(learned)) \ (OnTheWay \union Arrived))
    <= faults + ends * (Cardinality(Posts) + 1)

\* LPUSH and BRPOP make the list a queue: what one consumer reports comes in
\* the order it was pushed, and no entry gets two conversations.
ReportedInOrder ==
  /\ \A i, j \in DOMAIN events :
       LET a == threads[events[i]]
           b == threads[events[j]]
       IN  i < j /\ a.by = b.by /\ events[i] # events[j] => a.entry.number < b.entry.number
  /\ \A t, u \in DOMAIN threads : t # u => threads[t].entry # threads[u].entry

\* A template is learned again only after the miner forgot it (its cluster was
\* the least recently used one, or was not in the file the server started
\* from), or because another request looked for it at the same time: each
\* request learns it once, and once more every time it was forgotten.
LearnedAgainForCause ==
  \A t \in Templates :
    Cardinality({i \in DOMAIN learned : learned[i] = t})
      <= Cardinality(Posts) * (1 + forgotten[t])

\* While a consumer runs and no process is started any more, the list is
\* emptied, and what was popped is reported, shown or lost.
ListDrains ==
  <>[](list = <<>> /\ \A p \in Consumers : consumer[p].pc \in {"off", "pop"})
    \/ <>[](\A p \in Consumers : consumer[p].pc = "off")

\* What the agent was run on, each run with its number: the AgentWorker of the
\* server runs it on every USER event, whoever published it.
Runs == {<<events[i], i>> : i \in DOMAIN events} \union {<<t, 0>> : t \in ran}
Template(t) == learned[threads[t].entry.learning]

\* README.md:35: the logs of one template are handled once.  (Not so.)
HandledOnce ==
  \A a, b \in Runs : a # b => Template(a[1]) # Template(b[1])
=============================================================================
