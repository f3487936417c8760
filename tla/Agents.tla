------------------------------- MODULE Agents -------------------------------
(***************************************************************************)
(* What the agent of a conversation remembers: the main agent, its         *)
(* sub-agents and the middleware that edits what the model sees.           *)
(*                                                                         *)
(* An agent alternates between a call of the model and a step that runs    *)
(* the tool calls of its answer side by side; their updates are merged     *)
(* when all are done, and LangGraph saves the state after every step.  A   *)
(* run that fails, is stopped or dies goes on from the last saved state    *)
(* with the next message of the user.                                      *)
(*                                                                         *)
(* middleware/summarization.py replaces old messages by a summary, in the  *)
(* request only, and appends them to one file of the conversation, which   *)
(* the main agent and its sub-agents share.  middleware/subagents.py       *)
(* starts sub-agents on a copy of the state and merges what they return;   *)
(* patch_tool_calls.py answers tool calls of an interrupted run;           *)
(* filesystem.py puts large results into files; event.py tells the pages   *)
(* of results.  An answer of the backend is one step here: AgentFiles has  *)
(* the steps inside.                                                       *)
(***************************************************************************)
EXTENDS Naturals, Sequences, FiniteSets, SequencesExt, FiniteSetsExt

CONSTANTS
  Main,        \* the main agent
  Subs,        \* sub-agents that can run at a time
  Silent,      \* those without the event middleware ("general-purpose")
  MainPlans,   \* the tool calls the main agent may answer with, as sequences
  SubPlans,    \*   of tool names; and a sub-agent
  Fields,      \* error_log, analysed_result, fixed_result
  ErrorLog,    \*   the first of them
  Keep,        \* messages kept by a summarization
  CutFrom,     \* number of messages from which arguments are truncated, and
  CutKeep,     \*   the number of messages then left as they are
  None,        \* no value
  MaxMade,     \* bound: messages of users and of models
  MaxFaults    \* bound: runs cut short, failed answers, lost machines

Types == {"human", "ai", "tool", "summary"}
Hows == {"whole", "cancelled", "refused", "evicted", "cut"}

Msg == [type : Types, id : Nat \X Nat, calls : Seq(STRING), how : Hows]

\* What a sub-agent did for a call: an entry of subagent_messages.
Records == [call : Nat \X Nat, messages : Seq(Msg)]

ASSUME AgAssumption ==
  /\ Main \notin Subs /\ Silent \subseteq Subs
  /\ ErrorLog \in Fields
  /\ Keep \in Nat \ {0}
  /\ {CutFrom, CutKeep, MaxMade, MaxFaults} \subseteq Nat
  /\ MainPlans \union SubPlans \subseteq Seq(STRING)
  /\ None \notin {Main} \union Subs
  /\ None \notin Nat \X Nat
  /\ None \notin [cutoff : Nat, file : BOOLEAN]
  /\ None \notin Records

Agents == {Main} \union Subs

VARIABLES
  msgs,     \* the messages of each agent
  event,    \* _summarization_event: how many of them the summary stands for,
            \* and whether it names the file
  fields,   \* the fields of AuperatorState
  records,  \* subagent_messages of the main agent
  pc,       \* what each agent does
  cut,      \* the cutoff of the summarization an agent is in
  done,     \* the updates of the tool calls that are done
  task,     \* the call a sub-agent works for
  appends,  \* appends to the history file under way
  history,  \* the sections of the file; <<>>: there is none
  stored,   \* the large results that are in files
  told,     \* calls whose result was published, or lost by a fault
  lost,     \* history: messages whose append failed, or whose file is gone
  made, offloads, faults

agentVars == <<msgs, event, fields, records, pc, cut, done, task>>
fileVars == <<appends, history, stored>>
counters == <<made, offloads, faults>>
vars == <<agentVars, fileVars, told, lost, counters>>

(***************************************************************************)
(* Messages: a user's or a model's has the id <<n, 0>>, and the answer to  *)
(* the k-th call of model message n has <<n, k>>.                          *)
(***************************************************************************)

Message(type, id, calls, how) == [type |-> type, id |-> id, calls |-> calls, how |-> how]

Human == Message("human", <<made, 0>>, <<>>, "whole")
Ai(plan) == Message("ai", <<made, 0>>, plan, "whole")
Tool(call, how) == Message("tool", call, <<>>, how)
Summary == Message("summary", <<0, 0>>, <<>>, "whole")

CallsOf(m) == {<<m.id[1], k>> : k \in DOMAIN m.calls}

Patch(ms, i) ==
  LET answered == {ms[j].id : j \in {j \in DOMAIN ms : j >= i /\ ms[j].type = "tool"}}
      calls == [k \in DOMAIN ms[i].calls |-> <<ms[i].id[1], k>>]
  IN  FlattenSeq([k \in DOMAIN calls |->
                    IF calls[k] \in answered THEN <<>> ELSE <<Tool(calls[k], "cancelled")>>])

\* Variant to be refuted: interrupted calls stay without an answer.
Variant_Patched(ms) == ms

\* PatchToolCallsMiddleware.before_agent
Patched(ms) == FlattenSeq([i \in DOMAIN ms |-> <<ms[i]>> \o Patch(ms, i)])

\* _apply_event_to_messages
Effective(a) ==
  CASE event[a] = None -> msgs[a]
    [] event[a] # None /\ event[a].cutoff > Len(msgs[a]) -> <<Summary>>
    [] OTHER -> <<Summary>> \o SubSeq(msgs[a], event[a].cutoff + 1, Len(msgs[a]))

\* _truncate_args: the arguments of write_file and edit_file calls, in the
\* request only.
Truncated(ms) ==
  IF Len(ms) < CutFrom \/ Len(ms) <= CutKeep THEN ms
  ELSE [i \in DOMAIN ms |->
          IF i <= Len(ms) - CutKeep /\ "write_file" \in ToSet(ms[i].calls)
          THEN [ms[i] EXCEPT !.how = "cut"] ELSE ms[i]]

\* _determine_cutoff_index of LangChain: all but the last Keep messages,
\* fewer if a tool message would stand without the message that called it.
SafeCutoff(ms) ==
  LET target == Len(ms) - Keep
      caller == {i \in 1..target : ms[i].type = "ai" /\ ms[i].id[1] = ms[target + 1].id[1]}
  IN  CASE Len(ms) <= Keep -> 0
        [] Len(ms) > Keep /\ ms[target + 1].type # "tool" -> target
        [] OTHER -> Max(caller) - 1

\* Variant to be refuted: the summary at the front is counted.
Variant_StateCutoff(a, n) == IF event[a] = None THEN n ELSE event[a].cutoff + n

\* Variant to be refuted: the cutoff of the request is taken for one of the state.
Variant_RequestCutoff(a, n) == n

\* _compute_state_cutoff: the summary at the front is no message of the state.
StateCutoff(a, n) == IF event[a] = None THEN n ELSE event[a].cutoff + n - 1

Effectively(a) == Truncated(Effective(a))

\* What the model is given: after a summarization the summary and the rest.
Request(a) ==
  IF pc[a] # "summary" THEN Effectively(a)
  ELSE <<Summary>> \o SubSeq(Effectively(a), cut[a] + 1, Len(Effectively(a)))

-----------------------------------------------------------------------------
Init ==
  /\ msgs = [a \in Agents |-> <<>>]
  /\ event = [a \in Agents |-> None]
  /\ fields = [a \in Agents |-> [f \in {} |-> None]]
  /\ records = <<>>
  /\ pc = [a \in Agents |-> "idle"]
  /\ cut = [a \in Agents |-> 0]
  /\ done = [a \in Agents |-> [c \in {} |-> None]]
  /\ task = [s \in Subs |-> None]
  /\ appends = {} /\ history = <<>> /\ stored = {}
  /\ told = {} /\ lost = {}
  /\ made = 1 /\ offloads = 0 /\ faults = 0

Fault == faults < MaxFaults /\ faults' = faults + 1

Make == made < MaxMade /\ made' = made + 1

\* A message of the user: it is added to the state, then before_agent runs.  The
\* first message of a conversation may be the report of a log, which is also put
\* in a field.
UserMessage ==
  /\ pc[Main] = "idle"
  /\ Make
  /\ msgs' = [msgs EXCEPT ![Main] = Patched(Append(@, Human))]
  /\ \/ UNCHANGED fields
     \/ /\ msgs[Main] = <<>>
        /\ fields' = [fields EXCEPT ![Main] = [f \in {ErrorLog} |-> Human.id]]
  /\ pc' = [pc EXCEPT ![Main] = "model"]
  /\ UNCHANGED <<event, records, cut, done, task, fileVars, told, lost, offloads, faults>>

(***************************************************************************)
(* The call of the model                                                   *)
(***************************************************************************)

Plans(a) == IF a = Main THEN MainPlans ELSE SubPlans

Responds(a) ==
  \E plan \in Plans(a) :
    /\ Make
    /\ msgs' = [msgs EXCEPT ![a] = Append(@, Ai(plan))]
    /\ pc' = [pc EXCEPT ![a] = IF plan # <<>> THEN "tools"
                               ELSE IF a = Main THEN "idle" ELSE "finished"]
    /\ UNCHANGED <<fields, records, done, task, history, stored, told, lost>>

\* No summarization, or nothing to summarize.
CallModel(a) ==
  /\ pc[a] = "model"
  /\ Responds(a)
  /\ UNCHANGED <<event, cut, appends, offloads, faults>>

\* _filter_summary_messages
Section(ms) == {[id |-> m.id, how |-> m.how] : m \in {x \in ToSet(ms) : x # Summary}}

\* An append to the history file, for an agent or for its call of the tool.
NewAppend(a, call, ms) ==
  [key |-> offloads + 1, by |-> a, call |-> call, items |-> Section(ms),
   step |-> "read", old |-> <<>>, ok |-> FALSE]

\* The messages are too many, or the model has said so: the old ones are
\* appended to the file and summarized at the same time.
Summarize(a) ==
  LET ms == Effectively(a)
      n == SafeCutoff(ms)
  IN  /\ pc[a] = "model"
      /\ n > 0
      /\ pc' = [pc EXCEPT ![a] = "summary"]
      /\ cut' = [cut EXCEPT ![a] = n]
      /\ appends' = appends \union {NewAppend(a, None, SubSeq(ms, 1, n))}
      /\ offloads' = offloads + 1
      /\ UNCHANGED <<msgs, event, fields, records, done, task, history, stored,
                     told, lost, made, faults>>

\* Both are there and the model answers: only now the summary is kept.
Summarized(a) ==
  \E p \in appends :
    /\ pc[a] = "summary"
    /\ p.by = a /\ p.call = None /\ p.step = "done"
    /\ event' = [event EXCEPT ![a] = [cutoff |-> StateCutoff(a, cut[a]), file |-> p.ok]]
    /\ appends' = appends \ {p}
    /\ cut' = [cut EXCEPT ![a] = 0]
    /\ Responds(a)
    /\ UNCHANGED <<offloads, faults>>

(***************************************************************************)
(* _aoffload_to_backend                                                    *)
(***************************************************************************)

Update(p, q) == appends' = (appends \ {p}) \union {q}

\* The download; an exception counts as "no file yet".
AppendReads(p) ==
  /\ p.step = "read"
  /\ \/ /\ Update(p, [p EXCEPT !.step = "put", !.old = history])
        /\ UNCHANGED faults
     \/ /\ Update(p, [p EXCEPT !.step = "put"])
        /\ Fault
  /\ UNCHANGED <<agentVars, history, stored, told, lost, made, offloads>>

\* Where the text that was read stands in the file: an edit needs it there.
Places(old) ==
  {i \in 1..(Len(history) + 1 - Len(old)) : SubSeq(history, i, i + Len(old) - 1) = old}

\* Variant to be refuted: the file is written anew from the text that was read.
Variant_Written(p) == {Append(p.old, [key |-> p.key, items |-> p.items])}

\* The edit puts the section behind the text that was read, the write makes
\* the file; a file that is there, or that has changed in between, is an error.
Written(p) ==
  LET section == [key |-> p.key, items |-> p.items]
  IN  IF p.old = <<>>
      THEN {h \in {<<section>>} : history = <<>>}
      ELSE {InsertAt(history, i + Len(p.old), section) : i \in Places(p.old)}

\* Variant to be refuted: the append of a run that has ended is never cleared away.
Variant_Ended(p, ok) == Update(p, [p EXCEPT !.step = "done", !.ok = ok])

\* Nobody waits for the append of a run that has ended.
Ended(p, ok) ==
  IF p.by = None THEN appends' = appends \ {p}
  ELSE Update(p, [p EXCEPT !.step = "done", !.ok = ok])

AppendPuts(p) ==
  /\ p.step = "put"
  /\ \/ /\ history' \in Written(p)
        /\ Ended(p, TRUE)
        /\ UNCHANGED <<lost, faults>>
     \/ /\ \/ Written(p) = {} /\ UNCHANGED faults
           \/ Fault
        /\ UNCHANGED history
        /\ Ended(p, FALSE)
        /\ lost' = lost \union {i.id : i \in p.items}
  /\ UNCHANGED <<agentVars, stored, told, made, offloads>>

(***************************************************************************)
(* The tool calls of an answer, side by side                               *)
(***************************************************************************)

Asking(a) == Last(msgs[a])

ToolOf(a, c) == Asking(a).calls[c[2]]

Pending(a, tool) ==
  IF pc[a] # "tools" THEN {}
  ELSE {c \in CallsOf(Asking(a)) :
          /\ ToolOf(a, c) = tool
          /\ c \notin DOMAIN done[a]
          /\ \A s \in Subs : task[s] # c
          /\ \A p \in appends : p.call # c}

NoFields == [f \in {} |-> None]

Command(c, how) ==
  [msg |-> Tool(c, how), fields |-> NoFields, event |-> None, steps |-> None]

Finish(a, c, command) ==
  done' = [done EXCEPT ![a] =
             [d \in DOMAIN @ \union {c} |-> IF d = c THEN command ELSE @[d]]]

\* EventAutoSendMiddleware tells the result of a call before the state has
\* it, and nothing stops it from going on without; a general-purpose agent has
\* no such middleware.
Tell(a, c) ==
  told' = IF a \in Silent THEN told ELSE told \union {c}

\* _aintercept_large_tool_result: a large result goes into a file, and stays
\* in the message if that cannot be written.
Fetch(a, c) ==
  /\ c \in Pending(a, "fetch")
  /\ \/ /\ stored' = stored \union {c}
        /\ Finish(a, c, Command(c, "evicted"))
        /\ UNCHANGED faults
     \/ /\ Fault
        /\ Finish(a, c, Command(c, "whole"))
        /\ UNCHANGED stored
  /\ Tell(a, c)
  /\ UNCHANGED <<msgs, event, fields, records, pc, cut, task, appends, history,
                 lost, made, offloads>>

\* write_file and the like: the result is short.
OtherTool(a, c) ==
  /\ c \in Pending(a, "write_file")
  /\ Finish(a, c, Command(c, "whole"))
  /\ Tell(a, c)
  /\ UNCHANGED <<msgs, event, fields, records, pc, cut, task, fileVars, lost, counters>>

SetState(a, c) ==
  /\ c \in Pending(a, "set_state")
  /\ \E f \in Fields \union {None} :  \* None: a name that is no field
       Finish(a, c, [Command(c, "whole") EXCEPT
                       !.fields = [g \in {f} \ {None} |-> c]])
  /\ Tell(a, c)
  /\ UNCHANGED <<msgs, event, fields, records, pc, cut, task, fileVars, lost, counters>>

\* compact_conversation: too early, nothing to compact or no summary.
NotCompacted(a, c) ==
  /\ c \in Pending(a, "compact_conversation")
  /\ Finish(a, c, Command(c, "whole"))
  /\ Tell(a, c)
  /\ UNCHANGED <<msgs, event, fields, records, pc, cut, task, fileVars, lost, counters>>

\* It works on the state as the model call left it, arguments and all.
Compact(a, c) ==
  LET n == SafeCutoff(Effective(a))
  IN  /\ c \in Pending(a, "compact_conversation")
      /\ n > 0
      /\ appends' = appends \union {NewAppend(a, c, SubSeq(Effective(a), 1, n))}
      /\ offloads' = offloads + 1
      /\ UNCHANGED <<agentVars, history, stored, told, lost, made, faults>>

Compacted(a) ==
  \E p \in appends :
    /\ p.by = a /\ p.call # None /\ p.step = "done"
    /\ Finish(a, p.call,
              [Command(p.call, "whole") EXCEPT
                 !.event = [cutoff |-> StateCutoff(a, SafeCutoff(Effective(a))),
                            file |-> p.ok]])
    /\ appends' = appends \ {p}
    /\ Tell(a, p.call)
    /\ UNCHANGED <<msgs, event, fields, records, pc, cut, task, history, stored, lost,
                   counters>>

\* There is no sub-agent of that type, or the arguments are not valid: the tool
\* says so, and nobody else.
RefuseTask(c) ==
  /\ c \in Pending(Main, "task")
  /\ Finish(Main, c, Command(c, "refused"))
  /\ UNCHANGED <<msgs, event, fields, records, pc, cut, task, fileVars, told, lost, counters>>

\* _validate_and_prepare_state: the sub-agent gets the fields and the task, not
\* the messages nor the summary.
StartTask(c, s) ==
  /\ c \in Pending(Main, "task")
  /\ pc[s] = "idle"
  /\ Make
  /\ task' = [task EXCEPT ![s] = c]
  /\ msgs' = [msgs EXCEPT ![s] = <<Human>>]
  /\ fields' = [fields EXCEPT ![s] = fields[Main]]
  /\ pc' = [pc EXCEPT ![s] = "model"]
  /\ UNCHANGED <<event, records, cut, done, fileVars, told, lost, offloads, faults>>

Reset(f, s, x) == [f EXCEPT ![s] = x]

\* _return_command_with_state_update: every field the sub-agent has, changed or
\* not, and the messages between the task and the report.  A large report goes into
\* a file if that can be written.
EndTask(s) ==
  LET c == task[s]
      between == SubSeq(msgs[s], 2, Len(msgs[s]) - 1)
  IN  /\ pc[s] = "finished"
      /\ \E how \in {"whole", "evicted"} :
           /\ Finish(Main, c, [Command(c, how) EXCEPT
                                 !.fields = fields[s],
                                 !.steps = [call |-> c, messages |-> between]])
           /\ stored' = stored \union {x \in {c} : how = "evicted"}
      /\ task' = Reset(task, s, None)
      /\ msgs' = Reset(msgs, s, <<>>)
      /\ event' = Reset(event, s, None)
      /\ fields' = Reset(fields, s, NoFields)
      /\ pc' = Reset(pc, s, "idle")
      /\ UNCHANGED <<records, cut, appends, history, told, lost, counters>>

(***************************************************************************)
(* The merge of the updates at the end of a step                           *)
(***************************************************************************)

Ready(a) == pc[a] = "tools" /\ DOMAIN done[a] = CallsOf(Asking(a))

Writers(a, f) == {c \in DOMAIN done[a] : f \in DOMAIN done[a][c].fields}
Compactors(a) == {c \in DOMAIN done[a] : done[a][c].event # None}

\* A field without a reducer takes one value in a step: with two LangGraph
\* raises InvalidUpdateError.
Conflict(a) ==
  \/ \E f \in Fields : Cardinality(Writers(a, f)) > 1
  \/ Cardinality(Compactors(a)) > 1

\* Variant to be refuted: of two records of one step the last one is kept.
Variant_Appended(left, right) == IF right = <<>> THEN left ELSE Append(left, Last(right))

\* append_subagent_execution
Appended(left, right) == left \o right

\* The one value a field was given in the step, or else the one it has.
MergedFields(a) ==
  [f \in DOMAIN fields[a] \union {f \in Fields : Writers(a, f) # {}} |->
     IF Writers(a, f) = {} THEN fields[a][f]
     ELSE done[a][CHOOSE c \in Writers(a, f) : TRUE].fields[f]]

Merge(a) ==
  LET calls == [k \in DOMAIN Asking(a).calls |-> <<Asking(a).id[1], k>>]
      commands == [k \in DOMAIN calls |-> done[a][calls[k]]]
      steps == FlattenSeq([k \in DOMAIN calls |->
                             IF commands[k].steps = None THEN <<>>
                             ELSE <<commands[k].steps>>])
  IN  /\ Ready(a) /\ ~Conflict(a)
      /\ msgs' = [msgs EXCEPT ![a] = @ \o [k \in DOMAIN calls |-> commands[k].msg]]
      /\ fields' = [fields EXCEPT ![a] = MergedFields(a)]
      /\ event' = [event EXCEPT ![a] =
                     IF Compactors(a) = {} THEN @
                     ELSE done[a][CHOOSE c \in Compactors(a) : TRUE].event]
      /\ records' = IF a = Main THEN Appended(records, steps) ELSE records
      /\ done' = Reset(done, a, [c \in {} |-> None])
      /\ pc' = [pc EXCEPT ![a] = "model"]
      /\ UNCHANGED <<cut, task, fileVars, told, lost, counters>>

(***************************************************************************)
(* Runs cut short                                                          *)
(***************************************************************************)

\* The main agent is as it was last saved, the sub-agents are gone; an append
\* under way may go on in its thread.
RunEnds ==
  /\ msgs' = [a \in Agents |-> IF a = Main THEN msgs[a] ELSE <<>>]
  /\ event' = [a \in Agents |-> IF a = Main THEN event[a] ELSE None]
  /\ fields' = [a \in Agents |-> IF a = Main THEN fields[a] ELSE NoFields]
  /\ pc' = [a \in Agents |-> "idle"]
  /\ cut' = [a \in Agents |-> 0]
  /\ done' = [a \in Agents |-> [c \in {} |-> None]]
  /\ task' = [s \in Subs |-> None]
  /\ \E kept \in SUBSET {p \in appends : p.step # "done"} :
       appends' = {[p EXCEPT !.by = None] : p \in kept}
  /\ UNCHANGED <<records, history, stored, told, lost, made, offloads>>

\* A STOP, a crash, an exception of a model, a summary or a tool.
RunInterrupted ==
  /\ pc[Main] # "idle"
  /\ Fault
  /\ RunEnds

\* Two updates of one field: the step fails and so does the run.
MergeFails(a) ==
  /\ Ready(a) /\ Conflict(a)
  /\ RunEnds
  /\ UNCHANGED faults

\* The sandbox is replaced, and its files with it.
FilesLost ==
  /\ Fault
  /\ history # <<>> \/ stored # {}
  /\ history' = <<>> /\ stored' = {}
  /\ lost' = lost \union stored
               \union {i.id : i \in UNION {h.items : h \in ToSet(history)}}
  /\ UNCHANGED <<agentVars, appends, told, made, offloads>>

-----------------------------------------------------------------------------
ToolStep(a) ==
  \/ \E c \in CallsOf(Asking(a)) :
       Fetch(a, c) \/ OtherTool(a, c) \/ SetState(a, c) \/ NotCompacted(a, c)
         \/ Compact(a, c)
  \/ Compacted(a) \/ Merge(a) \/ MergeFails(a)

Next ==
  \/ UserMessage
  \/ \E a \in Agents : CallModel(a) \/ Summarize(a) \/ Summarized(a)
  \/ \E p \in appends : AppendReads(p) \/ AppendPuts(p)
  \/ \E a \in Agents : pc[a] = "tools" /\ ToolStep(a)
  \/ \E s \in Subs : EndTask(s) \/ \E c \in Pending(Main, "task") : StartTask(c, s)
  \/ \E c \in Pending(Main, "task") : RefuseTask(c)
  \/ RunInterrupted \/ FilesLost

Spec == Init /\ [][Next]_vars
-----------------------------------------------------------------------------
(* Correctness *)

CommandsOK(a) ==
  \A c \in DOMAIN done[a] : c \in CallsOf(Asking(a)) /\ done[a][c].msg.id = c

\* Everything has the shape it should have: an agent has calls that are done
\* only while it runs tools, a sub-agent works for one of the calls of the main
\* agent, and an idle one holds nothing.
TypeOK ==
  /\ \A a \in Agents :
       /\ pc[a] \in {"idle", "model", "summary", "tools", "finished"}
       /\ IF pc[a] = "tools" THEN CommandsOK(a) ELSE DOMAIN done[a] = {}
       /\ event[a] # None => event[a].cutoff \in 0..Len(msgs[a])
       /\ DOMAIN fields[a] \subseteq Fields
       /\ cut[a] # 0 <=> pc[a] = "summary"
  /\ \A s \in Subs :
       IF pc[s] = "idle" THEN msgs[s] = <<>> /\ task[s] = None
       ELSE pc[Main] = "tools" /\ task[s] \in CallsOf(Asking(Main))
  /\ \A p \in appends : p.step \in {"read", "put", "done"} /\ (p.step = "done" => p.by # None)

\* What the model is given is a conversation the API accepts: every call in it
\* is answered by one message before the next message that is no answer, and
\* every answer comes after its call.
RequestsWellFormed ==
  \A a \in Agents :
    pc[a] \in {"model", "summary"} =>
      LET ms == Request(a) IN
      \A i \in DOMAIN ms :
        /\ ms[i].type = "ai" =>
             /\ i + Len(ms[i].calls) <= Len(ms)
             /\ {ms[j].id : j \in (i + 1)..(i + Len(ms[i].calls))} = CallsOf(ms[i])
        /\ ms[i].type = "tool" =>
             \E j \in 1..(i - 1) : ms[i].id \in CallsOf(ms[j])

InHistory == {i.id : i \in UNION {h.items : h \in ToSet(history)}}

\* What an agent no longer sees is in the file its summary names, and what was
\* cut out of a message is in the file it names, although sub-agents append to
\* the same file at the same time; but for appends that failed and files that
\* were lost.
NothingForgotten ==
  \A a \in Agents :
    /\ event[a] # None /\ event[a].file =>
         \A i \in 1..event[a].cutoff : msgs[a][i].id \in InHistory \union lost
    /\ \A i \in DOMAIN msgs[a] :
         msgs[a][i].how = "evicted" => msgs[a][i].id \in stored \union lost

\* No append takes away what another one has put.
HistoryGrows ==
  [][\A h \in ToSet(history) :
       h \in ToSet(history') \/ {i.id : i \in h.items} \subseteq lost']_history

\* What was summarized stays summarized and as it is: the cutoff never goes
\* back, and neither a patch nor a merge changes a message before it.
CutoffIsFinal ==
  [][event[Main] # None =>
       /\ event'[Main] # None
       /\ event'[Main].cutoff >= event[Main].cutoff
       /\ SubSeq(msgs'[Main], 1, event[Main].cutoff)
            = SubSeq(msgs[Main], 1, event[Main].cutoff)]_<<event, msgs>>

\* The state, subagent_messages and what the pages were told are one story: the
\* record of a sub-agent is there once if its report is, and not if its run was
\* cut short or the call refused, and the state has no result of another tool that
\* was not told.
ReportsHaveRecords ==
  LET calls == [k \in DOMAIN records |-> records[k].call]
      results == {m.id : m \in {x \in ToSet(msgs[Main]) :
                                  x.type = "tool" /\ x.how \notin {"cancelled", "refused"}}}
      reports == {c \in results : \E m \in ToSet(msgs[Main]) :
                                    c \in CallsOf(m) /\ m.calls[c[2]] = "task"}
  IN  /\ IsInjective(calls) /\ ToSet(calls) = reports
      /\ results \ reports \subseteq told

\* TASK_TOOL_DESCRIPTION: "Launch multiple agents concurrently whenever possible"
\* - so what they return can be merged.
TasksCanBeMerged == \A a \in Agents : ~(Ready(a) /\ Conflict(a))

\* _build_new_messages_with_path: "The full conversation history has been saved
\* to {file_path}".
FullHistorySaved ==
  \A a \in Agents :
    event[a] # None /\ event[a].file =>
      \A i \in 1..event[a].cutoff :
        \E h \in ToSet(history) : [id |-> msgs[a][i].id, how |-> msgs[a][i].how] \in h.items
=============================================================================
