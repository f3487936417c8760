# Auperator in TLA+

Auperator is an operations agent: error logs, web users and Telegram users
start conversations, an LLM agent works on them in the background, and its
output goes back to the web page and to Telegram. Everything between those
parts goes over one Redis Stream. This directory models that machinery in
TLA+, checks it with TLC on small instances, and proves the main results with
TLAPS for every size. Paths below are relative to the repository; `auperator/`
stands for `src/auperator/`.

## 1. The system

| Component | State it keeps | Operations | Correct when |
|---|---|---|---|
| **Event center** `auperator/events/event_center.py` | Redis: the stream (MAXLEN ~ 10000), per consumer group a cursor and a pending list | `publish_event`, `create_consumer_group`, `consume` | each entry goes to one consumer of a group, once, in order; a lost entry stays visible in the pending list |
| **Agent worker** `auperator/deepagents/worker.py` | per process: `event_queues`, `queue_tasks` by thread, the main task | USER, STOP, idle timeout, `cleanup`, restart | one task per conversation, messages run once and in order, lost only by a STOP or a failure, each run answered by [Done], queues do not leak |
| **Events** `auperator/schemas/event.py` | - | build, to and from Redis fields | nothing lost in the conversion |
| **Chat routes** `auperator/routes/chat.py` | conversation rows | send, stop, list, history, rename, delete, queue status, Telegram webhook | a message accepted is published; one row per thread |
| **Server** `auperator/server.py`, `state.py`, `dependencies.py`, `cli.py` | the service singletons | start all, stop all | services stop in an order in which none uses a closed one |
| **SSE routes** `auperator/routes/events.py` | per connection a consumer of the group `web-ui`; a thread and a queue for Docker logs | stream events, stream logs | a page sees every event of its conversation; threads end with their connection |
| **Log pipeline** `auperator/routes/vector.py`, `services/drain3_service.py`, `collector/` | template miner (persisted), Redis list | ingest, extract, BRPOP, handle | a new error template starts a conversation; it is lost or reported again only for a cause |
| **Conversations** `auperator/database/` | SQLite rows | `get_or_create`, rename, delete | a conversation goes only when it was deleted, and no message is lost to a race |
| **Telegram** `auperator/services/telegram_service.py` | consumer task of the group `telegram` | start, stop, send | answers reach their chat, each once, and in order as far as one server sends them |
| **Agent** `auperator/deepagents/builder.py`, `prompts/`, `middleware/`, `tools/` | checkpoint per thread: messages, files, sub-agent messages | model calls, tool calls, summaries, sub-agents | the history given to the model is well formed; summaries lose nothing |
| **Backends** `auperator/deepagents/backends/` | files in state, store, disk or sandbox | ls, read, write, edit, grep, glob, upload, download, execute, by route | an answer's paths lead back to the files; nothing is missed; what was acknowledged stays |
| **Memory, Daytona** `auperator/services/` | vectors, sandboxes | store, retrieve; create, start, stop | order and thresholds; one sandbox per key |
| **Web frontend** `src/web/hooks/` | messages, queued messages, loading flag | send, handle an event, stop | the page leaves "loading" when the run is over |

Interactions: routes, log handler and webhook call `publish_event`; the worker,
the SSE routes and the Telegram service each run `consume` with a group of
their own and publish in turn (QUEUED and [Done] by the worker, the agent's
output by its middleware). Inside a process everything is asyncio on one event
loop; between processes there is only Redis.

What is hard here: several asyncio tasks that suspend between a lookup and its
use; cancellation that arrives in any await, also in a `finally`; Redis
commands that time out after having been executed and are sent again; crashes
between a delivery and its XACK; several processes in one group. The full list,
line by line, is under "hazards" in `PROJECT.json`.

## 2. The modules

| Module | Models | Reads as |
|---|---|---|
| `EventCenter` | event center | the stream and one consumer group, with any number of consumers |
| `AgentWorker` | agent worker, its start and shutdown, the routes that send to it | instantiates `EventCenter` with the worker processes as consumers |
| `MCAgentWorker` | - | the worker with a symmetry set for TLC |
| `Mailbox` | - | abstract: what the sender of a message may count on |
| `WebEvents` | the web-ui event route and the page's side of it | instantiates `EventCenter` with the connections as consumers of the group `web-ui` |
| `MCWebEvents` | - | the same with a symmetry set for TLC |
| `Backends` | the four kinds of file backend | operators: what a query answers, what a write or edit checks |
| `AgentFiles` | file tools, `CompositeBackend`, Daytona machines | extends `Backends` with routes, calls in two steps, and machines that are lost |
| `FlatFiles` | - | abstract: one file system, in which writes and edits take effect in one step |
| `Agents` | main agent, sub-agents and their middleware | the messages, summaries and fields an agent keeps, and the history file all share |
| `LogIntake` | log pipeline | posts of Vector, the miner, the Redis list, its consumers |
| `Conversations` | database rows, chat routes, Telegram | requests in transactions, updates that are repeated, answers that go back |
| `DockerLogs` | the docker-logs route | thread, coroutines, queue and generator of one response |
| `MCAgentFiles`, `MCAgents`, `MCLogIntake`, `MCConversations`, `MCDockerLogs` | - | instances of these for TLC |
| `EventCenterProofs` | - | theorems about `EventCenter` |
| `AgentWorkerProofs` | - | theorems about `AgentWorker`: its invariant, messages run once and in order, what a STOP reaches; the workers implement `Mailbox`; what is lost, and which runs are answered |
| `WebEventsProofs` | - | theorems: what pages are shown, and what reaches them |
| `ConversationsProofs` | - | theorems: conversations are kept, replies in order, no text repeated without a cause |
| `LogIntakeProofs` | - | theorems: logs in order, learned again and lost only for a cause |
| `DockerLogsProofs` | - | theorem: lines in order and complete |
| `AgentsProofs` | - | theorems: what a model is given, what is remembered, and what is merged |
| `AgentFilesProofs` | - | theorems about `AgentFiles`: what was acknowledged, what is answered, what is found; the files implement `FlatFiles` |

### EventCenter

`stream` keeps every entry ever added and an entry's id is its position;
`trimmed` counts the oldest ones MAXLEN removed. `last` and `pel` are the
group's last-delivered id and pending list, `born` the stream's length when the
group was created at `$`. `reader[c]` says in which await of `consume()` the
loop `c` is and which entry it holds.

| Action | Code |
|---|---|
| `PublishOK`, `PublishRaises`, `PublishCancelled` | `publish_event` returns, raises, or is cancelled; because of `retry_on_timeout` XADD may have been executed twice, and an exception does not tell whether it was executed |
| `Trim` | `maxlen=10000`: redis-py sends it as "~", so Redis trims late but never below it |
| `Consume`, `CreateGroup` | call of `consume()`, XGROUP CREATE and BUSYGROUP |
| `Deliver`, `DeliverAndHandle` | XREADGROUP and `yield`, with a loop body that suspends or not |
| `HandlerDone`, `Ack` | the generator is resumed; XACK |
| `LoseReply` | XREADGROUP was executed, its reply lost, and the client reads again |
| `RedisFails`, `Abandoned` | the loop ends: a command raised, the task was cancelled, the loop body raised, or the process died |

`Publish` may add any event at any time: this module promises something to its
consumers whoever publishes. `OpenSpec` has no bound on the stream; `Spec`
adds `MaxEvents` for TLC.

### AgentWorker

A step is what happens between two awaits that really suspend. The
`asyncio.Lock` is never held across such an await and the queues are unbounded,
so taking the lock and `queue.put` do not suspend; Redis commands, the agent's
run and `queue.get` do. A queue and the task that serves it are created
together and are one record of `tasks`, named by the id of the message they
were created for: this keeps apart a queue and a later one of the same thread,
which is what the hazards of this code are about. `event_queues` and
`queue_tasks` are the two dictionaries.

| Action | Code |
|---|---|
| `Start`, `CreateGroup` | `initialize`, `start`, entry of `_run` |
| `UserNewQueue`, `UserPut` | `_handle_user_event` without a QUEUED event |
| `UserQueued`, `PublishQueued`, `QueuedRaises` | with one: `queue` is the local variable that survives the await |
| `Stop` | `_handle_stop_event`: `task.cancel()`, by the await the task is in (`Cancelled`): a task that waits for a message ends, one in the agent or in [Done] unwinds, and one whose `get()` has its message already goes on, because `asyncio.wait_for` of Python 3.11 (`.python-version`) returns the message and drops the CancelledError |
| `Ignore`, `Ack` | other events; XACK |
| `Take`, `IdleTimeout` | `queue.get()` returns, or ten seconds pass with the queue empty |
| `AgentReturns`, `AgentCancelled` | `ainvoke` returns, raises, or has unwound after a cancellation |
| `PublishDone`, `DoneRaises`, `DoneInterrupted` | the `finally` of `_run_agent` and what follows: next round, the end of the task, or the exception that replaces a CancelledError |
| `CancelMain`, `CancelQueues`, `Exit` | `cleanup()` up to and after waiting for the main task; the end of the process, orderly or not |
| `SendMessage`, `StopConversation` | every publisher of USER, the stop route |

`SlowRedis` says whether one `publish_event` may take longer than the ten
seconds a queue task waits: the socket timeout is five seconds, and with its
retry ten are possible, but only when Redis is failing. The runs use `FALSE`, the
normal case; the proofs hold for both.

### WebEvents

`conn` holds the connections the server serves: the page, the conversation it
asked for, and whether the page still reads. A page reads one stream at a time
(`useSSE` aborts the old one first), but the server may go on serving one that broke or was
aborted until it notices, and that connection still takes entries from the group.
What the server has written and the page has yet to read is on the page's `wire`:
the return of `send()` says that an event is in a buffer, not that it was read. When
the connection breaks or is left, what is on the wire is `lost`, as is what is
written to it afterwards. Conversations stand for events, as only an event's
`thread_id` matters.

| Action | Code |
|---|---|
| `Connect`, `Receive` | the effect of `useSSE`, when it mounts or reconnects; `reader.read()` of `connectEvents` |
| `Leave`, `Cut` | the cleanup function of `connectEvents` (the page turns to another conversation or is closed); the connection breaks or the process dies; both are an `Abort` of what the page reads |
| `CreateGroup`, `Push`, `Skip`, `Ack` | `consume("web-ui")` in `event_stream`, with `continue` for another conversation |
| `Sent` | the chunk is in the socket's buffer and `event_stream` resumed |
| `LoseReply`, `RedisFails` | as in the event center; `except Exception` sends an error event and ends the stream |
| `Closed` | the server notices that the page is gone and cancels `event_stream` |
| `Publish` | the worker and the agent |

A page that broke off and its reconnection are `Cut` and `Connect`: the delay of
one to thirty seconds only says that it happens in the end.

### Backends and AgentFiles

A path is the sequence of its names, a file the sequence of its lines. The four
kinds of backend differ in what they take for a directory, in what grep and glob do
with a path that names a file, in relative and absolute answers, in the names they
skip, and in an offset beyond the end; `Backends` says how, one operator per backend
and operation. The glob of state, store and sandbox skips names that begin with a
dot (`Hidden`); ripgrep, on a directory of the disk, skips these and what a
`.gitignore` names (`Ignored`); without ripgrep (the image that `deploy/` builds has
none) Python reads everything, and for a path that names a file all of that file's
directory. A read in the sandbox whose command fails or takes too long is answered
like a file that is not there. `AgentFiles` puts them under routes. Queries change
nothing and are operators, asked for every argument in every state by the
invariants.

| Definition | Code |
|---|---|
| `RouteFor`, `Remap`, `Restored` | `_route_for_path`, `_remap_grep_path`, `_remap_file_info_path` |
| `CompositeLs`, `CompositeGrep`, `CompositeGlob`, `CompositeRead`, `CompositeDownload` | the methods of `CompositeBackend`, at the root and below; `DownloadRaises` when a disk path is below a file, as `FilesystemBackend` does not catch `NotADirectoryError` |
| `ToolLs`, `ToolGlob`, `ToolRead`, `ToolGrep` | the tools: three of them validate their path |
| `WriteFile`, `EditFile`, `Put` | the look at the file, and the write that follows it: two steps, as other calls run in between |
| `Upload`, `Execute` | `upload_files` in batches; a shell command, always on the default backend |
| `CommandFails`, `CommandTimesOut`, `RunAgain` | `_execute_via_session_logs`: a failing poll runs the whole command again, a timeout does not; either way it may have been executed |
| `Reattach`, `CreateBox`, `DestroyBox` | `_recreate_sandbox`, the sandbox routes, auto-deletion |

The tools hand answers over as the backend gave them, so a relative one is taken from
the root when it is given back (`validate_path`): `Astray` names the answers that do not lead
back, those that are relative to another place than the root and those that lost
the end of a route without a closing slash. The deployed route "/local" is one
of these, and the model has it as it is.

`promised` is history: the content the tools acknowledged, as long as nothing
else (an overlapping call, a failed command, the shell, another machine) has a
claim to the path. `AcknowledgedStays` compares it with the files.

`FlatFiles` says what is left of routes, backends and machines for an agent: a file
per path. `FF` maps the files onto it: `Seen` is the text a tool finds at each path,
`Asking` the writes and edits between their look and their write, `Disturbed` those
whose path somebody else has touched since (`alone` is false). The look is a step
of one operation with its write unless the call is disturbed; then a write may
replace a file and an edit bring back an older text, as the backends have no lock.
A file on a machine may be written twice by one call (a command that is run again), and is
lost with the machine; the abstract `Lose` says nothing else of these files.

### Agents

`msgs` holds each agent's messages, `event` what its summary stands for,
`history` the sections of the file `conversation_history/{thread}.md`, `appends`
the appends to it under way, each a download and an edit. A message has the
identity of its model call and position, so a property can follow it from the
state into the file.

| Action | Code |
|---|---|
| `UserMessage` | `_run_agent` adds the message; `PatchToolCallsMiddleware.before_agent` answers what an interrupted run left open |
| `CallModel`, `Summarize`, `Summarized` | `awrap_model_call`: no summary; offload and summary side by side; the model's answer with the new event |
| `AppendReads`, `AppendPuts` | `_aoffload_to_backend` |
| `Fetch`, `OtherTool`, `SetState`, `Compact`, `Compacted`, `NotCompacted` | tool calls by what they do to the state: a large result that is evicted, a short one, `set_state`, `compact_conversation` |
| `RefuseTask`, `StartTask`, `EndTask` | the `task` tool: an unknown sub-agent type is answered at once, without a run, a record or an event; before and after the sub-agent's run, whose report may be evicted to a file like any large result |
| `Merge`, `MergeFails` | LangGraph applies the updates of a step; two values for a field without a reducer raise `InvalidUpdateError` |
| `RunInterrupted`, `FilesLost` | STOP, crash or exception: back to the checkpoint; the sandbox is replaced |

When a summary is due depends on token counts; here it may happen at any model
call, after an overflow or before, which covers every threshold.

### LogIntake

| Action | Code |
|---|---|
| `Ingest`, `FindTemplate`, `MissTemplate`, `LearnTemplate`, `PushEntry` | `ingest_logs` for each log of a post; the search and the creation of a template are two steps, as `extract_template` runs in a thread pool on one miner |
| `StartServer`, `StartOther`, `End` | processes, with the miner loaded from its file |
| `Pop`, `PopLost` | BRPOP; executed, its reply lost |
| `Converse`, `PublishUser` | `EventHandler.handle`: conversation, then USER event |
| `NewThread`, `PublishUser`, `RunHere` | `AgentHandler.handle` of `auperator start`, which runs the agent itself |
| `Show` | `ConsoleHandler` of `auperator terminal-consume` |

A command that redis-py repeats takes effect up to `MaxCopies` times: its default is
three retries, four copies; the runs use two (with four the run takes longer than it should;
the theorems hold for any number).

The miner is a sequence of templates, least recently used first, of at most
`MaxClusters`: that is `LogClusterCache` of drain3. `learned` and `forgotten`
are history.

### Conversations

| Action | Code |
|---|---|
| `Request`, `Write`, `Deliver`, `GiveUp` | a client's request; a text in a chat; Telegram's call of the webhook, and its patience |
| `Find`, `Miss`, `Insert`, `InsertFails`, `Update`, `Delete`, `DbFails` | the transactions of `get_or_create`, rename and delete, with `IntegrityError` and `StaleDataError`; rows are written by the id found before, and `Insert` gives the id SQLite gives, one more than the largest in the table, which a deleted row may have had |
| `PublishUser`, `PublishFails` | `publish_event`, which may have added the event once or twice when it fails |
| `Answer`, `NextAnswer`, `SendPart`, `ConsumerFails`, `RestartServer` | AGENT events, and `TelegramService._run_consumer` of each server process (`server.py:88`), all in one group |

### DockerLogs

| Action | Code |
|---|---|
| `WriteLine`, `EndContainer` | the container |
| `Open`, `Leave` | a request; the client goes away |
| `GetContainer`, `ReadLine`, `HandLine`, `EndOfStream`, `Finally`, `DockerFails` | `log_producer` in its thread |
| `Put` | the event loop runs the coroutine that puts an item into the queue |
| `Serve` | the generator; the first error or "eof" ends the response |

### Variants

Definitions that begin with "Variant to be refuted" are single changes of the
definition below them, of the kind a regression would make (a queue that is not
FIFO, a dropped check, an ACK in the wrong place). The runs refute each of
them, which shows that the properties bite. They are part of no specification.

## 3. The runs

| Run | Instance | Shows |
|---|---|---|
| `event_center` | 2 consumers, MAXLEN 2, 5 entries, 2 faults | `HeldByOne`, `LossIsPending`, `InStreamOrder` |
| `one_worker` | 1 process, 2 threads, 3 messages, 2 STOPs | messages are lost to a STOP only |
| `failures` | 1 process, 1 thread, 3 messages, 1 STOP, 1 fault, 1 crash or shutdown | one task per thread and [Done] for each run, whatever fails; a cancelled task only unwinds, unless Redis fails in that step; implements `Mailbox` |
| `processes` | 2 processes, 1 thread, 2 messages, 1 STOP, 1 crash or shutdown, fair | no message is run twice across processes; a STOP reaches the run of the process that handles it; every message is answered if nothing disturbs its thread; queues and tasks do not leak |
| `pages` | 2 pages, 2 connections, 2 threads, 3 events, 1 fault, 1 page leaves, 1 connection breaks | no entry is shown twice, pages show entries in order |
| `one_page` | 1 page, 2 connections, 2 threads, 3 events, 2 faults, 2 broken connections, fair | a page receives the events of its conversation but those that went with a broken connection or are pending, and catches up after reconnecting |
| `files` | 3 compositions, 2 calls at a time, 2 machines, 3 updates, 1 fault, paths at, below and beside the route, hidden ones, and with "." and ".." | answers lead back to the files unless astray, searches miss nothing they are held to, replies are true, acknowledged content stays; implements `FlatFiles` |
| `agents` | 2 sub-agents (one without the event middleware), 7 messages, 1 fault | requests are well formed, nothing is forgotten, state, records and results told agree |
| `log_intake` | 2 posts at a time, 2 templates, a miner with room for 1, 3 logs, 2 consumers, 1 fault, 1 end of a process, fair | logs are lost or repeated only for a cause, reported in order; the list drains |
| `conversations` | 2 requests at a time, 1 chat, 1 other thread, 3 requests and answers together, 1 text, 2 servers, 1 fault, fair | conversations are kept; every text is published, and again only for a cause; each server's answers arrive in order |
| `docker_logs` | 1 response, 5 lines, 1 fault, fair | lines in order and complete; response and thread end |
| `shared_group` | 2 pages on 2 conversations, 2 connections, 1 event | an event is dropped by one page's connection while the one it is for waits (section 5) |

Why these bounds are enough. The races of a conversation need a message that
runs, one that waits in the queue and one in the hands of the main loop: three
messages. A second thread shows that the dictionaries do not mix threads; a
second STOP interrupts the [Done] of the first. One fault hits any one command;
one crash or shutdown lets everything restart over what the first life left. In
`event_center` MAXLEN 2 with 5 entries lets the trimming overtake the group, and
two faults lose a reply and then fail a command. In the worker's runs
MaxLen is 100, so nothing is trimmed there: trimming is a question about the
event center, asked in `event_center`. In `processes` two messages, a STOP and
one process that goes down are enough for a conversation to move from one
process to the other with a message left behind.

The pages' runs need two connections on two conversations, or one page's old
connection beside its new one. In `one_page` the page's connection breaks while an event
is on its way, the server goes on with the old one beside the new one, and Redis
fails on either; a second conversation gives both something to skip. What two
pages do to each other is `shared_group`: one event is enough.

In `files` three updates make a file, change it and change it again while another
call is between its look and its write; the second machine takes over when the first
one is gone. For `FlatSpec` they make a file and start two edits of it, which
overlap. The three compositions are the documented one (state, with the store under
a route), the deployed one (sandbox, with the disk under a route that has no closing
slash) and one that puts the disk under a route with a slash, so that answers of the
store and of the disk are found with their prefix restored. No name is ignored
there: for ripgrep `Ignored` is like `Hidden`. In `agents` seven messages are two
rounds of the user with a summary, tool calls and a second summary on top of the
first, and both agents make two calls at once. In `log_intake` one cluster and two
templates make the miner forget, three logs make it learn a template again. In
`conversations` two open calls are the race for a row or for its id, and three
requests and answers are two deletions and a message, or an answer that one server
sends beside another's. The responses of `docker_logs` share nothing but the
container, so one is enough.

Most runs do not check for deadlock: calls are bounded, and a worker, a page or an
agent with nothing to do rightly waits forever. `event_center` does check it.

**Fairness.** `processes` assumes weak fairness of each process's main loop and of
each queue task: the event loop runs every task that is ready, Redis answers,
the agent's run ends because model calls and tools have timeouts. Nothing is
assumed about outside calls and crashes. `QueuesDrain` does not depend on a main
loop that is still there: the queue tasks end by themselves. `one_page` assumes that
the server serves each connection and that a page without a stream connects
again, which `scheduleReconnect` does forever. `log_intake` assumes that threads
and consumers go on, not that Vector posts or that a process is started.
`conversations` assumes that handlers go on and that Telegram repeats an update
until it gets a good reply, which the Bot API does. `docker_logs` assumes that
the thread, the event loop and the generator go on, not that the container
writes or stops.

## 4. The proofs

All statements hold for any sets of consumers, workers, pages, requests, threads,
clients and sub-agents, any answers of the models, any bounds on calls, faults and
crashes, and any MAXLEN. The assumptions on constants (`ECAssumption`,
`AWAssumption`, `WEAssumption`, `LIAssumption`, `CoAssumption`, `DLAssumption`,
`AgAssumption`, `AFAssumption`, `NobodyAssumption`: types, that the value for "none"
is none of the others, that the posts served at a time are finitely many, because a
bound counts them, and that the routes of a setup have different prefixes and
different kinds of backend) are the only ones used, but for the two theorems that
name a condition below (`LossHasCauseAlways` and `EventsReachTheirPageAlways`); TLC
evaluates them.

**Event center** (`EventCenterProofs`). `IInv` adds four facts to type
correctness: nothing is delivered before the group exists (`UnbornIsEmpty`); a
loop that handles or acknowledges holds an entry, and no other loop does
(`HandsFull`); and the two promises `HeldByOne` and `LossIsPending`. The second
is needed because XACK removes from `pel` the id the loop holds, which must not
be another loop's. Proved: `HeldByOneAlways`, `LossIsPendingAlways`,
`InStreamOrderAlways`, of `OpenSpec`, that is, whoever publishes and however
long the stream.

**Worker** (`AgentWorkerProofs`). `OneTaskPerThread` is not inductive: a new
queue is named by the id just delivered, so no task may carry a later id
(`DeliveredIds`); the two dictionaries are equal and name live tasks of their
worker and thread (`DictsAgree`); a process that is down has no tasks
(`DownIsEmpty`); the main loop runs only while the worker is up
(`LoopsWhenUp`); and the queue a main loop remembers across its await, if its
task still lives, is its own and the message's (`LookedUp`). `IInv` collects this with
the event center's invariant, `Invariant` is `Spec => []IInv`, and `TypeCorrect`
and `OneTaskPerThreadAlways` follow. That every step
of a worker is one of the event center's or leaves it alone (`NextIsEC`) is a lemma
here: it carries the event center's theorems over.

**Order** (the second part of `AgentWorkerProofs`). `RunsInOrderAlways` needs to know where a
message can be: `OrderInv` says that what a task has in its queue is increasing
and newer than what the task runs; that what a worker has started is older
than all that is queued for the same thread or in the hands of the worker's
main loop; and that queued messages are in one place and were not started.
These are `HandsOrdered`, `QueuesOrdered`, `QueuesApart` and `RunsDelivered`.
STOP, shutdown and crash only remove tasks; the cursor of the group, which
never goes back, does the rest across restarts and processes.

**Mailbox** (the last part of `AgentWorkerProofs`). `WorkersAreMailbox` maps every
step of the workers to a step of `Mailbox`. The mapping is in `AgentWorker` (`MB`):
what waits is what may still be run, in the stream, in a queue or in the hands of a
main loop. The proof separates two questions: what may be run after a step could be
run before (`NothingRevives`), and a step begins the run of one message at most
(`AtMostOneBegins`). With `MailInv` - only messages of users are queued or run, and
a task that is not waiting is in a run that was begun - each step is a send, a drop,
the start or the end of a run, or nothing.

**Losses and answers** (the last part of `AgentWorkerProofs`). `LossHasCause` is
about messages that were delivered. `LossInv` adds that without failures only a STOP
cancels (`OnlyStopsCancel`) and that the queue looked up before the await of QUEUED
is still served after it, or was stopped (`QueueIsServed`). The second is what fails
when Redis takes longer than a queue task waits, so `LossHasCauseAlways` is under
`SlowRedis = FALSE` (section 5 on what `TRUE` brings about). `DoneMatchesRunsAlways`
counts: without failures, a thread's [Done] entries and its answered runs are as
many (`DonesCounted`), and a run without an answer is still in its task unless the
thread was stopped (`RunsAccounted`).

**STOP** (the last part of `AgentWorkerProofs`). `StopIsFinalAlways`: a task that
was cancelled in the agent or while it publishes [Done] can only unwind, whichever
message, STOP or shutdown comes next; the one way out is a Redis command that fails
in that step, because its exception takes the place of the CancelledError.
`StopReachesRunAlways`: a STOP that is handled leaves no run of its thread
undisturbed in the process that handled it, for any number of processes, whatever
fails; it rests on `DictsAgree` and `OneTaskPerThread`, which say that the task a
STOP finds in the dictionary is the only one. Neither says that a STOP always stops:
one that meets a task whose `get()` has a message already is swallowed, and then no
run is going on at that moment (section 5).

**Pages** (`WebEventsProofs`). `ShownOnceInOrderAlways` needs that what was written was
handled, hence is in nobody's hands (`WrittenWereHandled`), that a page has one open
stream (`OneStreamPerPage`), that what is on a page's wire is in order and newer than what it
was shown (`WiresInOrder`, `ComingNewer`), and that what its stream is sending is newer than
both (`SendingNewer`). `EventsReachTheirPageAlways` is under `Alone` - one page, which does
not turn to another conversation - because without it the code does not keep the
promise (section 5). Its invariant says that what was handled of the page's conversation
was written to the page and is shown, on its wire or lost with a connection
(`HandledWereWritten`), from the beginning of the group on and over all connections; the
event center's `LossIsPending` does the rest.

**Conversations** (`ConversationsProofs`). `ConversationsAreAlwaysKept`: what a handler
found out before it suspended must still be worth something when it goes on, although rows go
and their ids come back. `CallsKnow` says what: the row a handler is about to write is its
conversation's, or somebody else has asked to delete this conversation (`AskedToo`), or two
deletions of one conversation were asked (`Crossed`); and before a message is
published its conversation is in the table or was deleted. `AskedToo` counts requests
by their place in the history (`AsksKnown`): a deletion that finds its own row gone must
have a second one beside it, and only then can it meet another conversation's row.
`RepliesInOrderAlways`: a server's task is at a part whose predecessor it has sent
(`AtPart`), no two servers send one answer (`AnswersDiffer`), and what a chat received was
sent by a server that is past it by now, and is no other server's (`BehindTasks`).
`RepeatedForCauseAlways` is a budget: the copies of a text in the stream, the
handlers about to publish it and the post Telegram still owes are together at
most one, and two more for each fault (`Budget`).

**Logs** (`LogIntakeProofs`). `ReportedInOrderAlways`: the entries in the list are
numbered increasingly and newer than all that was popped (`Queue`), each popped one is
with one consumer or in one conversation, and a consumer meets newer and newer
ones (`Numbers`), which it publishes in that order (`EventOrder`).
`LearnedAgainForCauseAlways`: while a template is in memory no request starts to
learn it, so the clusters made for it and the requests about to make one are paid
for by the posts and the times it was forgotten (`PaidFor`). `LossHasCauseAlways`
bounds what one step can lose: nothing, one log with a fault, or one for each
post and one of the consumer with the end of a process.
`TypeCorrect` is proved, and as it says little beyond types no run checks it again.

**Docker logs** (`DockerLogsProofs`). `LinesInOrderAlways`: there is a number n of
lines the generator has dealt with (`DealtWith`) such that the client got the ones
that can be parsed up to n, and what is in the queue and scheduled for it
(`Flow`) are the lines from n + 1 without a gap, then an error or "eof"; "eof" comes
only when the container has stopped and all its lines came before.

**Agents** (`AgentsProofs`). All six properties of `Agents` are proved: `TypeCorrect`,
`RequestsAlwaysWellFormed`, `NothingIsForgotten`, `ReportsAlwaysHaveRecords` and the
action properties `HistoryAlwaysGrows` and `CutoffAlwaysFinal`. `IInv` says what an
agent's state is between its steps:

- `AgentOK`: the messages are a `Conversation` - the answer to call k stands k places
  behind the message that has the call, and only the very last message may have calls
  that are not answered - and are `Closed`, with no such call, when the model is about
  to be called; the cutoff is `Safe`, that is, the first message in view is no answer.
  So a cutoff separates no answer from its call.
- `KeptOK`, `CommandOK`: what is behind the cutoff, or would be behind one that a
  finished `compact_conversation` brings along, is in the file or was lost.
- `AppendInv`: an append under way has all that its summary is to stand for
  (`Covers`), which is why the cutoff of the request and the cutoff of the state must
  agree (`StateCutoffIs`), and no two are for the same call.
- `SubInv`, `ReportInv`: a sub-agent works for a call of `task` that is not done, no two
  for the same one; what is done has a record if it is a report, and was told if not.

A request is a `View` of the state: the summary, if there is one, then the messages
behind the cutoff up to truncated arguments. `EffectiveView`, `TruncatedView` and
`SummaryView` say so of the three ways a request comes about, and `ViewWellFormed`
that a view of a closed conversation with a safe cutoff is well formed;
`SafeCutoffIsSafe` is the correctness of `_determine_cutoff_index`.
`PatchedMessages` is that of `PatchToolCallsMiddleware`: it inserts messages at the end
only, since older calls are answered, and so moves no cutoff. `WrittenGrows` is the
edit of the history file: the section goes behind the text that was read, wherever
that stands now, so the sections of others stay.

`Patched` and `Merge` flatten sequences with `FlattenSeq`, a recursive function.
`FlattenInduction` proves what the first n sequences make by the least n for which it
would be false, as an induction rule with an operator parameter cannot be used. The
lemmas behind it (`FlattenEmpty`, `FlattenSingles`, `FlattenOptional`) hold for sequences
of any length.

**Files** (`AgentFilesProofs`). All six properties of `AgentFiles` are proved, for any
routes (also one inside another: the longest prefix wins), any paths, files and
callers. `IInv` says where files can be: in the map of a backend only at places to
which a path of the tools leads (`Places`, `HeldInv`, `BoxesInv`), and what a call in
progress is about to put is a file that is not empty (`CallsInv`). With it:

- `AcknowledgedAlwaysStays`: `OnePathEach` says that `_route_for_path` sends no two
  paths to one place of one backend. So whoever writes, edits, uploads or runs a
  command at another path touches no acknowledged file; `UploadIs` says so of the batches
  of `upload_files`, of which some are sent and others not.
- `RepliesAreAlwaysTrue`: `DownloadIs` proves that sorting a download out by backend and
  putting the replies back gives reply i to path i, for any number of paths.
- `PathsAlwaysLeadBack` holds for routes with and without a closing slash. What a
  backend answers is below the path it was asked for, and with the prefix in front
  of it, it is the path that leads to that file. What the property exempts is
  `Astray`: the answers of a route without a slash, and relative ones (section 5,
  `LocalRoute.cfg` and `RelativeGlob.cfg`).
- `NothingIsMissed`: a file below a directory is in the directory's own backend, or the
  directory is the root, where every backend is asked. The property leaves out what
  the tools do not search: a route below the directory that is not the root (a route at `/a/b/`
  is not found by a search at `/a`), routes without a slash, hidden names for glob,
  hidden and ignored ones for ripgrep, and the sandbox's relative globs.
- `FilesAreFlat`: the initial states and every step of `AgentFiles` are those of `FlatFiles`
  under `FF`. It needs one more invariant, `LookInv`: a call that nobody disturbed
  would still find what it found when it looked (`Fresh`), so its write, steps
  later, is the write of one that looks and writes at once; and two calls at one
  path disturb each other (`Apart`). `OnlyThere` and `UploadPuts` say which paths a
  put and a batch of uploads change, `FreshStays` that other steps keep a look true,
  and `RunAgain` takes its look anew. On `MCAgentFiles` TLC found no
  state without `LookInv`.

**Only model-checked.** Liveness under fairness is out of the prover's reach:
`EveryMessageAnswered`, `QueuesDrain`, `PageCatchesUp`, `ListDrains`,
`UpdatesArePublished`, `EverythingEnds`. Everything else the passing runs check is
proved. None of the modules declares a RECURSIVE operator.

## 5. Where the code and its documentation part

The run `shared_group` is the first of these. The others have a configuration
of their own beside the runs, of the smallest instance; checking it prints the
scenario.

1. `SharedGroup.cfg` (`EventsReachTheirReaders`): all pages' connections are
   consumers of one group, so an event goes to one of them, which drops and
   acknowledges it if its page shows another conversation, while the connection of the
   page it is for waits. That page never sees it, and nothing stays pending.
2. `StopElsewhere.cfg` (`StopReachesEveryRun`): with `--workers 4`
   (`docs/backend/cli.md`) a STOP goes to any process of the group; one that does
   not run the conversation logs a warning, acknowledges, and the run goes on.
3. `LostAfterStop.cfg` (`LossByLaterStop`): between `task.cancel()` and the end of
   the task (agent unwinding, [Done] being published) the thread's queue is still
   in `event_queues`. A message sent then is put in it and dropped with it.
4. `StopSwallowed.cfg` (`StopIsFinalEvenThen`): if Redis fails on that [Done], its
   exception takes the place of the CancelledError, and the task goes on with its
   next message. `StopBetween.cfg` (`StoppedBeforeRun`): a STOP that meets a task
   between two messages, with one in the queue, is swallowed by `wait_for`
   (`worker.py:246`, Python 3.11): the STOP is acknowledged and the message runs.
5. `QueuedNotice.cfg` (`WaitingIsAnnounced`): `queue.qsize()` does not count the
   message being run, so the first message that waits is logged as "processed at
   once" and gets no QUEUED event.
6. `LocalRoute.cfg` (`PrefixesRestored`): `builder.py` routes "/local" without a
   closing slash, and `_remap_file_info_path` cuts the last character of the prefix:
   listings and globs answer with "/loca/..." paths that no tool accepts.
   `RelativeGlob.cfg` (`GlobIsAbsolute`): the glob tool "Returns a list of absolute
   file paths" (`middleware/filesystem.py:181`), but the sandbox changes to the
   directory and answers with names relative to it (`sandbox.py:38-48`), and nothing
   puts the directory back; given back to a tool, `validate_path` takes them from
   the root.
7. `ConcurrentTasks.cfg` (`TasksCanBeMerged`): the description of the task tool says
   "Launch multiple agents concurrently whenever possible", but a sub-agent
   returns every field of the state it was given, and the fields have no reducer:
   once one is set - in a conversation about a log `error_log` is from the first
   message on - two tasks of one step raise `InvalidUpdateError` and end the run.
   The same holds for two `set_state` of one field or two compactions.
8. `FullHistory.cfg` (`FullHistorySaved`): the summary says "The full conversation
   history has been saved to {file_path}", but arguments that were truncated for
   the request are truncated in the file too, and after an append that failed
   (for one because a sub-agent appended in between) the next summary still says so.
9. `Repeats.cfg` (`HandledOnce`): README.md:35 "logs of the same template are
   handled once", but two posts at a time learn a template twice, the miner
   forgets the least recently used one, XADD may be repeated, and an entry that
   `auperator start` took is run by it and, because it publishes the same USER
   event, by the server too.
10. `StaleRow.cfg` (`OnlyItsOwnDeletion`): the rows of `conversations` have no
   `sqlite_autoincrement` (`models.py:28`), so a row's id is used again after the
   newest row was deleted. Of two deletions of one conversation the second may have
   found the row before the first deleted it, and then deletes the conversation that
   was created in between (`chat.py:298`); a rename gives its title to another
   conversation the same way.
11. `TwoServers.cfg` (`AnswersInOrder`): with `--workers 4`
   (`docs/backend/cli.md:50`) or `API_WORKERS` each process starts a Telegram
   consumer (`server.py:88-89`), all in the group `telegram`: two answers of one
   chat are sent side by side and may arrive in the other order, or the parts of a
   long one with another answer between them.

Also known, without a configuration:

- **Worker.** `_handle_user_event` looks its queue up before the
  await of QUEUED and uses it afterwards; when Redis takes longer than the ten idle
  seconds the queue may have lost its task (`LossHasCause` fails in `OneWorker.cfg`
  with `SlowRedis = TRUE`). Two processes may run one conversation at
  the same time, on one checkpoint; a Redis error ends `_run` for good and
  `start()` refuses to start another, so the process stays up and deaf; what a
  crash leaves in the pending list is never claimed.
- **Pages.** An event that was written to a connection when it broke is acknowledged
  and gone: it is not in the pending list, and the next connection does not get it.
  The cursor of the group `web-ui` waits while no page listens, so the next
  connection is sent the backlog, whichever page that is, although the page has
  loaded it as history.
- **Telegram.** A Redis error ends the consumer until the next start
  (`telegram_service.py:257`); an answer whose Markdown Telegram refuses is not
  sent; a webhook call whose reply was late is published again.
- **Chat routes.** `get_queue_status` has a local `status` that hides the module, so its error
  path raises. A conversation whose USER event could not be published stays, empty.
- **Log pipeline.** A template is learned and saved before its log is pushed, so a
  failing push or a crash in between silences it; several API processes
  (`API_WORKERS`) overwrite each other's state file; a comment in
  `vector_consumer.py:88` says RPUSH where `vector.py` uses LPUSH (with RPUSH the
  order would be reversed); the fallback for an entry that is not JSON uses an
  undefined `logger`; comments in `vector.py` say changed templates are reported too.
  `auperator terminal-consume` takes entries away from the pipeline.
- **Files.** Disk glob searches every level whatever the pattern, hidden names too,
  which the other kinds skip; the sandbox's grep without a path answers relative to
  the session's home; `write_file("/mem")` on a route makes the key "/" in its
  backend; a read of the sandbox that fails or takes too long is answered "not
  found" (`sandbox.py:289`), and another query looks like an empty answer; a
  download from a disk path below a file raises instead of answering
  (`backends/filesystem.py`); two edits of a file at a time lose one; a command
  whose poll failed is run twice.
- **Agents.** A `task` of an unknown type is answered with a text that the pages are not told.
  The summary or model call that fails after its append leaves the section in
  the file, and the next one appends it again; a result that was published is
  answered as "cancelled" when the run ends before the merge; a general-purpose
  sub-agent has no event middleware. `SkillsMiddleware` is given the local shell
  backend with paths of the composite one and loads nothing; the memory file "./AUPERATOR.md"
  is asked of the sandbox as a relative path and refused, which `memory.py` turns
  into an exception.
- **Docker logs.** The thread of a response whose client left waits for the next
  line, and the queue between thread and generator has no limit.

## 6. What is not modelled

- **Worker, server, events.** The agent's own events during a run (they reach the
  worker as events it ignores), `stop()` of the worker (nothing calls it), queries,
  the conversion of events to Redis fields and an entry that fails to parse,
  logging and tracing. A message that is put in
  the very tick in which `cleanup` cancels the idle task may on Python 3.11 win over the
  cancellation; the model lets the idle task end.
- **Files.** That the Python search leaves out files of more than 10 MB; a command
  that goes on after it was reported failed, because deleting its session failed too
  (`Perhaps` decides at once); a query of ls, glob or grep whose command fails in
  the sandbox; two routes that differ in the closing slash only. Encodings, sizes,
  timestamps, wildcards other than `*` and `**/*`, regular expressions, images,
  truncation of long answers; `..` inside a command of the shell; routes inside one
  another are in the theorems, but in no run.
- **Logs.** A template is created and saved in one step (a process that ends in
  between loses what it had not saved, as it does here before the step).
- **Agents.** A `task` call whose arguments do not fit is answered by LangGraph like
  a refused one. Token counts and thresholds (a summary may come at any call), the
  texts; the `files` map of `StateBackend` in the agent's state, which the deployed
  backend does not use; `write_todos`.
- **Memory and skills middleware** read their files once per thread through
  `download_files` and `ls_info` and put the text into the system prompt: the reading
  is in `AgentFiles`, the rest is parsing of YAML front matter and wording.
- **Memory service and agent tools** are single calls of Qdrant, GitHub and
  Docker that keep no state between calls; in `Agents` they are tools with a
  short or a large result.
- **The chat hook of the frontend** keeps display state only; what it is sent, and in
  which order, is in `WebEvents` and `AgentWorker`.
- **Configuration, logging, embeddings, prompts**: no state.
- **The order of services at shutdown** (worker, log consumer, Telegram, Redis):
  each module lets its process end at any point, which includes every order.

## 7. Plan

Larger instances of `Agents` (two compactions and tasks in one step), and two
chats in `Conversations`.

## 8. Running

    tlc -config EventCenter.cfg EventCenter
    tlc -config OneWorker.cfg MCAgentWorker        (and Failures, Processes)
    tlc -config Pages.cfg MCWebEvents              (and OnePage, SharedGroup)
    tlc -config Files.cfg MCAgentFiles
    tlc -config Agents.cfg MCAgents
    tlc -config LogIntake.cfg MCLogIntake
    tlc -config Conversations.cfg MCConversations
    tlc -config DockerLogs.cfg MCDockerLogs
    tlapm EventCenterProofs.tla
    tlapm AgentWorkerProofs.tla
    tlapm WebEventsProofs.tla
    tlapm ConversationsProofs.tla
    tlapm LogIntakeProofs.tla
    tlapm DockerLogsProofs.tla
    tlapm AgentsProofs.tla
    tlapm AgentFilesProofs.tla

The scenarios of section 5: `StopElsewhere`, `LostAfterStop`, `StopSwallowed`, `StopBetween` and
`QueuedNotice` with `MCAgentWorker`, `LocalRoute` and `RelativeGlob` with `MCAgentFiles`,
`StaleRow` and `TwoServers` with `MCConversations`,
`ConcurrentTasks` and `FullHistory` with `MCAgents`, `Repeats` with `MCLogIntake`.
