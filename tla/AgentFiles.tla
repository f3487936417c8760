----------------------------- MODULE AgentFiles -----------------------------
(***************************************************************************)
(* The file tools of the agent (middleware/filesystem.py) over a           *)
(* CompositeBackend (backends/composite.py): a path goes to the backend of *)
(* the longest route prefix it starts with, the prefix stripped, and the   *)
(* paths of an answer get it back.  Calls of the agent and its sub-agents  *)
(* run side by side; a write or an edit looks at the file first and puts   *)
(* it later.                                                               *)
(*                                                                         *)
(* The sandbox is a Daytona machine (backends/daytona_sandbox.py): a       *)
(* command that fails is run once more, on whatever machine is found or    *)
(* made then; machines come and go (services/daytona_service.py).          *)
(***************************************************************************)
EXTENDS Backends, TLC

CONSTANTS
  Setups,     \* how the backend is put together: the default backend's kind
              \* and the routes, [at, slash, to]: the prefix, whether it ends
              \* with "/", and the kind of its backend
  Args,       \* paths the agent gives to its tools
  Words,      \* lines
  Contents,   \* files the agent writes
  Home,       \* the home directory of a session in the sandbox
  Callers,    \* tool calls that can be in progress at a time
  Boxes,      \* sandbox machines
  Garbled,    \* a name that lost its last character: no file has it
  Nobody,     \* no call in progress
  MaxUpdates, \* bound: writes, edits, uploads and commands
  MaxFaults   \* bound: commands in the sandbox that fail or time out

\* The names in the paths of the tools and of the setups.
Names ==
  {Garbled} \union
    UNION {ToSet(p) : p \in Args \union {Home}
                          \union {r.at : r \in UNION {s.routes : s \in Setups}}}

\* A backend has one place in a setup: its kind says which backend it is; the
\* routes are a dictionary, its keys the prefixes, no two of which differ in
\* the closing slash only.
ASSUME AFAssumption ==
  /\ {MaxUpdates, MaxFaults} \subseteq Nat
  /\ Args \union {Home} \subseteq Seq(Names)
  /\ Contents \subseteq Seq(Words) \ {<<>>}
  /\ \A s \in Setups :
       /\ s.default \in Kinds
       /\ \A r \in s.routes :
            /\ r.at \in Seq(Names) \ {<<>>} /\ r.slash \in BOOLEAN
            /\ r.to \in Kinds \ {"sandbox", s.default}
            /\ \A x \in s.routes : r.to = x.to => r = x
            /\ \A x \in s.routes : r.at = x.at => r = x

VARIABLES
  setup,     \* the member of Setups in use
  held,      \* the files of every backend but the sandbox
  boxes,     \* the machines: [state, files]
  handle,    \* the machine the backend holds
  calls,     \* the write or edit each caller is in the middle of
  updates, faults,  \* calls that may change files, and failed commands
  promised   \* history: what the files contain by the acknowledged writes
             \* and edits, as long as no other cause touched them

storeVars == <<held, boxes, handle>>
counters == <<updates, faults>>
vars == <<setup, storeVars, calls, counters, promised>>

NoFiles == [p \in {} |-> <<>>]

One(p, file) == [q \in {p} |-> file]

Paths == {ValidPath(a) : a \in {x \in Args : ~IsRefused(x)}}

\* The writes and edits that can be in progress.
Calls ==
  [op : {"write", "edit"}, at : Paths, old : Words \union {""},
   word : Words \union {""}, all : BOOLEAN, file : Seq(Words), box : Boxes,
   again : BOOLEAN, step : {"put", "look"}, alone : BOOLEAN]

ASSUME NobodyAssumption == NoPath \notin Seq(Names) /\ Nobody \notin Calls

FilesOf(kind) == IF kind = "sandbox" THEN boxes[handle].files ELSE held[kind]

PutFile(kind, p, file) ==
  IF kind = "sandbox"
  THEN /\ boxes' = [boxes EXCEPT ![handle].files = With(@, One(p, file))]
       /\ UNCHANGED held
  ELSE /\ held' = [held EXCEPT ![kind] = With(@, One(p, file))]
       /\ UNCHANGED boxes

\* The machine is there: otherwise a command makes the backend look for
\* another one first.
Reachable(kind) == kind = "sandbox" => boxes[handle].state = "started"

Init ==
  /\ setup \in Setups
  /\ held = [k \in Kinds \ {"sandbox"} |-> NoFiles]
  /\ handle \in Boxes
  /\ boxes = [b \in Boxes |->
                [state |-> IF b = handle THEN "started" ELSE "none",
                 files |-> NoFiles]]
  /\ calls = [c \in Callers |-> Nobody]
  /\ updates = 0 /\ faults = 0
  /\ promised = NoFiles

(***************************************************************************)
(* Routes                                                                  *)
(***************************************************************************)

Default == [at |-> <<>>, slash |-> TRUE, to |-> setup.default]

\* Variant to be refuted: the prefix is stripped, but the default backend is asked.
Variant_RouteFor(p) ==
  [to |-> setup.default, via |-> Default,
   path |-> IF p \in {NoPath, <<>>} THEN p ELSE <<Last(p)>>]

\* _route_for_path: the backend, the path in it, and the route taken.
RouteFor(p) ==
  LET fit == IF p = NoPath THEN {}
             ELSE {r \in setup.routes : IsPrefix(r.at, p)}
      r   == IF fit = {} THEN Default
             ELSE CHOOSE x \in fit : \A y \in fit : Len(y.at) <= Len(x.at)
  IN  [to |-> r.to, via |-> r,
       path |-> IF p = NoPath THEN p ELSE SubSeq(p, Len(r.at) + 1, Len(p))]

\* What stands before the "/" of a routed path: the prefix without its last
\* character, whatever that is.
Restored(r) ==
  IF r.slash THEN r.at ELSE Append(Front(r.at), Garbled)

\* Variant to be refuted: the paths are left as the backend gave them.
Variant_Remap(entries, r) == entries

\* _remap_file_info_path and _remap_grep_path
Remap(entries, r) ==
  IF r = Default THEN entries
  ELSE {[e EXCEPT !.path = Restored(r) \o @] : e \in entries}

(***************************************************************************)
(* Queries: they change nothing                                            *)
(***************************************************************************)

\* ls: at the root the routes are listed as directories.
CompositeLs(p) ==
  LET r == RouteFor(p) IN
  Remap(LsOf(r.to, FilesOf(r.to), r.path), r.via)
    \union (IF p = <<>> THEN {Entry(x.at, TRUE) : x \in setup.routes} ELSE {})

\* Variant to be refuted: the root is searched in the default backend alone.
Variant_Grep(word, p, rg) ==
  LET r == RouteFor(p) IN
  Remap(GrepOf(r.to, FilesOf(r.to), word, r.path, Home, rg), r.via)

\* (rg: ripgrep is there and answers in time.)
\* grep: at the root, or without a path, every backend is searched; any other
\* path without a route is searched in the default backend alone.  The path
\* is not validated.
CompositeGrep(word, p, rg) ==
  LET r == RouteFor(p) IN
  Remap(GrepOf(r.to, FilesOf(r.to), word, r.path, Home, rg), r.via)
    \union (IF p \notin {NoPath, <<>>} THEN {}
            ELSE UNION {Remap(GrepOf(x.to, FilesOf(x.to), word, <<>>, Home, rg), x) :
                          x \in setup.routes})

\* glob: a path without a route is searched in the default backend, and all
\* of every routed backend is added.
CompositeGlob(deep, p) ==
  LET r == RouteFor(p) IN
  Remap(GlobOf(r.to, FilesOf(r.to), deep, r.path), r.via)
    \union (IF r.via # Default THEN {}
            ELSE UNION {Remap(GlobOf(x.to, FilesOf(x.to), deep, <<>>), x) :
                          x \in setup.routes})

CompositeRead(p, offset, limit, fails) ==
  LET r == RouteFor(p) IN ReadOf(r.to, FilesOf(r.to), r.path, offset, limit, fails)

\* Variant to be refuted: replies handed out in the order of the batches.
Variant_Download(ps) ==
  LET order == SetToSortSeq(DOMAIN ps,
                 LAMBDA i, j : \/ RouteFor(ps[i]).via = Default
                                    /\ RouteFor(ps[j]).via # Default
                               \/ RouteFor(ps[i]).via = RouteFor(ps[j]).via
                                    /\ i < j)
  IN  [i \in DOMAIN ps |->
         LET r == RouteFor(ps[order[i]]) IN
         IF r.path \in DOMAIN FilesOf(r.to)
         THEN [status |-> "ok", lines |-> FilesOf(r.to)[r.path]] ELSE Missing]

\* A directory of the disk has no entry below a file: the error of open goes
\* up to the caller, and no reply comes back.
DownloadRaises(ps) ==
  \E i \in DOMAIN ps :
    LET r == RouteFor(ps[i])
    IN  r.to = "disk" /\ \E q \in DOMAIN FilesOf(r.to) : IsStrictPrefix(q, r.path)

\* download_files, for images, memory and skills: the paths are sorted out by
\* backend, and the contents come back at the places of their paths.
CompositeDownload(ps) ==
  [i \in DOMAIN ps |->
     LET kind == RouteFor(ps[i]).to
         batch == Selection([j \in DOMAIN ps |-> j],
                            {j \in DOMAIN ps : RouteFor(ps[j]).to = kind})
         files == FilesOf(kind)
         replies ==
           [k \in DOMAIN batch |->
              LET key == RouteFor(ps[batch[k]]).path
              IN  IF key \in DOMAIN files
                  THEN [status |-> "ok", lines |-> files[key]] ELSE Missing]
     IN  replies[CHOOSE k \in DOMAIN batch : batch[k] = i]]

-----------------------------------------------------------------------------
(* The tools: ls, glob and read_file refuse a path with "..", grep asks for    *)
(* what it is given.                                                           *)

ToolLs(arg) == IF IsRefused(arg) THEN {} ELSE CompositeLs(ValidPath(arg))

ToolGlob(deep, arg) ==
  IF IsRefused(arg) THEN {} ELSE CompositeGlob(deep, ValidPath(arg))

ToolRead(arg, offset, limit, fails) ==
  IF IsRefused(arg) THEN [status |-> "refused", lines |-> <<>>]
  ELSE CompositeRead(ValidPath(arg), offset, limit, fails)

ToolGrep(word, p, rg) == CompositeGrep(word, p, rg)

(***************************************************************************)
(* Writes and edits: a look at the file, and the file put later            *)
(***************************************************************************)

InProgress == {c \in Callers : calls[c] # Nobody}

At(c) == calls[c].at

\* What the call will put by the look it takes now: nothing if it is refused.
Outcome(call) ==
  LET r == RouteFor(call.at)
      files == FilesOf(r.to)
  IN  IF call.op = "write"
      THEN {f \in {call.file} : CanWrite(r.to, files, r.path)}
      ELSE {Replacement(files[q], call.old, call.word) :
              q \in {x \in {r.path} : CanEdit(files, x, call.old, call.all)}}

\* The calls at these paths have company from now on.
Accompanied(ps) ==
  [c \in Callers |-> IF c \in InProgress /\ At(c) \in ps
                     THEN [calls[c] EXCEPT !.alone = FALSE] ELSE calls[c]]

Forget(ps) == [q \in DOMAIN promised \ ps |-> promised[q]]

Counted ==
  /\ updates < MaxUpdates
  /\ updates' = updates + 1
  /\ UNCHANGED faults

\* The tool looks and goes on to put the file.  A call that is refused answers
\* with an error and changes nothing.
Begin(c, call) ==
  /\ calls[c] = Nobody
  /\ updates < MaxUpdates
  /\ Reachable(RouteFor(call.at).to)
  /\ \E file \in Outcome(call) :
       calls' = [Accompanied({call.at}) EXCEPT ![c] = [call EXCEPT !.file = file]]
  /\ updates' = updates + 1
  /\ UNCHANGED faults
  /\ UNCHANGED <<setup, storeVars, promised>>

Call(op, p, old, word, all, file) ==
  [op |-> op, at |-> p, old |-> old, word |-> word, all |-> all,
   file |-> file, box |-> handle, again |-> FALSE, step |-> "put",
   alone |-> \A d \in InProgress : At(d) # p]

WriteFile(c, arg, file) ==
  /\ ~IsRefused(arg)
  /\ Begin(c, Call("write", ValidPath(arg), "", "", FALSE, file))

EditFile(c, arg, old, word, all) ==
  /\ ~IsRefused(arg)
  /\ Begin(c, Call("edit", ValidPath(arg), old, word, all, <<>>))

\* By now a directory may have taken the name, or a file the place of a
\* directory: then open or mkdir raises.
Blocked(kind, p) ==
  /\ HasDirectories(kind)
  /\ \/ IsDirectory(FilesOf(kind), p)
     \/ \E q \in DOMAIN FilesOf(kind) : IsStrictPrefix(q, p)

Put(c) ==
  LET p == At(c)
      r == RouteFor(p)
  IN  /\ calls[c] # Nobody
      /\ calls[c].step = "put"
      /\ r.to = "sandbox" => Reachable(r.to) /\ calls[c].box = handle
      /\ calls' = [calls EXCEPT ![c] = Nobody]
      /\ \/ /\ Blocked(r.to, r.path)
            /\ UNCHANGED <<storeVars, promised>>
         \/ /\ ~Blocked(r.to, r.path)
            /\ PutFile(r.to, r.path, calls[c].file)
            /\ promised' = IF calls[c].alone THEN With(promised, One(p, calls[c].file))
                           ELSE Forget({p})
            /\ UNCHANGED handle
      /\ UNCHANGED <<setup, counters>>

\* upload_files: whatever is there is replaced, one batch for each backend in
\* the order of their first paths; StateBackend raises, and the batches after
\* its own are not sent.
Upload(ps, file) ==
  LET kind == [i \in DOMAIN ps |-> RouteFor(ps[i]).to]
      first(k) == CHOOSE i \in DOMAIN ps :
                    kind[i] = k /\ \A j \in DOMAIN ps : kind[j] = k => i <= j
      sent == {i \in DOMAIN ps : \A j \in DOMAIN ps :
                 first(kind[j]) <= first(kind[i]) => kind[j] # "state"}
      done == {i \in sent : ~Blocked(kind[i], RouteFor(ps[i]).path)}
      new(k) == [q \in {RouteFor(ps[i]).path : i \in {j \in done : kind[j] = k}}
                   |-> file]
      touched == {ps[i] : i \in done}
  IN  /\ Counted
      /\ \A i \in DOMAIN ps : Reachable(kind[i])
      /\ held' = [k \in DOMAIN held |-> With(held[k], new(k))]
      /\ boxes' = [boxes EXCEPT ![handle].files = With(@, new("sandbox"))]
      /\ calls' = Accompanied(touched)
      /\ promised' = IF \E c \in InProgress : At(c) \in touched
                     THEN Forget(touched)
                     ELSE With(promised, [q \in touched |-> file])
      /\ UNCHANGED <<setup, handle>>

\* Without a sandbox the model is not offered the tool.
CanExecute == setup.default = "sandbox"

\* execute: a shell command, here one that writes p.  It goes to the default
\* backend whatever it writes to.
CompositeExecute(p, word) ==
  /\ Reachable("sandbox")
  /\ ~Blocked("sandbox", p)
  /\ PutFile("sandbox", p, <<word>>)

Execute(p, word) ==
  /\ CanExecute
  /\ Counted
  /\ RouteFor(p).via = Default
  /\ CompositeExecute(p, word)
  /\ calls' = Accompanied({p})
  /\ promised' = Forget({p})
  /\ UNCHANGED <<setup, handle>>

(***************************************************************************)
(* The sandbox                                                             *)
(***************************************************************************)

InSandbox(c) ==
  c \in InProgress /\ RouteFor(At(c)).to = "sandbox" /\ calls[c].step = "put"

\* Variant to be refuted: work is done on a machine that is gone.
Variant_Perhaps(c) ==
  boxes' = [boxes EXCEPT ![calls[c].box].files =
              With(@, One(RouteFor(At(c)).path, calls[c].file))]

\* What became of the file when the command that puts it failed: done or not.
\* Its session is deleted then; that the command goes on because this fails as
\* well is left out.
Perhaps(c) ==
  LET p == RouteFor(At(c)).path
      b == calls[c].box
  IN  \/ UNCHANGED boxes
      \/ /\ boxes[b].state = "started"
         /\ b = handle => ~Blocked("sandbox", p)
         /\ boxes' = [boxes EXCEPT ![b].files = With(@, One(p, calls[c].file))]

\* Polling a command raises DaytonaError, for one because the machine is gone
\* or another call has replaced it: the whole command will run again, unless
\* this was the second time; then the tool call raises.
CommandFails(c) ==
  /\ InSandbox(c)
  /\ \/ /\ faults < MaxFaults
        /\ faults' = faults + 1
     \/ /\ calls[c].box # handle \/ ~Reachable("sandbox")
        /\ UNCHANGED faults
  /\ Perhaps(c)
  /\ promised' = Forget({At(c)})
  /\ calls' = [calls EXCEPT ![c] = IF @.again THEN Nobody
                                   ELSE [@ EXCEPT !.step = "look", !.again = TRUE]]
  /\ UNCHANGED <<setup, held, handle, updates>>

\* After the default timeout the tool answers with an error; the command may
\* have done its work.
CommandTimesOut(c) ==
  /\ InSandbox(c)
  /\ faults < MaxFaults
  /\ faults' = faults + 1
  /\ Perhaps(c)
  /\ promised' = Forget({At(c)})
  /\ calls' = [calls EXCEPT ![c] = Nobody]
  /\ UNCHANGED <<setup, held, handle, updates>>

\* _recreate_sandbox: any machine that is started, or else a new one.  What
\* was promised of the old one says nothing of this one.
Reattach ==
  /\ setup.default = "sandbox"
  /\ \/ ~Reachable("sandbox")
     \/ \E c \in InProgress : calls[c].step = "look"
  /\ \E b \in Boxes :
       /\ \/ /\ boxes[b].state = "started"
             /\ UNCHANGED boxes
          \/ /\ \A x \in Boxes : boxes[x].state # "started"
             /\ boxes[b].state = "none"
             /\ boxes' = [boxes EXCEPT ![b].state = "started"]
       /\ handle' = b
       /\ promised' = IF b = handle THEN promised
                      ELSE Forget({x \in DOMAIN promised : RouteFor(x).to = "sandbox"})
  /\ UNCHANGED <<setup, held, calls, counters>>

\* Variant to be refuted: the second time puts what the first one read.
Variant_RunAgain(c) ==
  /\ calls[c] # Nobody
  /\ calls[c].step = "look"
  /\ Reachable("sandbox")
  /\ calls' = [calls EXCEPT ![c] = [@ EXCEPT !.step = "put", !.box = handle]]
  /\ UNCHANGED <<setup, storeVars, counters, promised>>

\* The command runs a second time, from its look at the file.
RunAgain(c) ==
  /\ calls[c] # Nobody
  /\ calls[c].step = "look"
  /\ Reachable("sandbox")
  /\ \/ Outcome(calls[c]) = {} /\ calls' = [calls EXCEPT ![c] = Nobody]
     \/ \E file \in Outcome(calls[c]) :
          calls' = [calls EXCEPT ![c] =
                      [@ EXCEPT !.step = "put", !.file = file, !.box = handle]]
  /\ UNCHANGED <<setup, storeVars, counters, promised>>

\* POST /sandbox/create
CreateBox(b) ==
  /\ setup.default = "sandbox"
  /\ boxes[b].state = "none"
  /\ boxes' = [boxes EXCEPT ![b].state = "started"]
  /\ UNCHANGED <<setup, held, handle, calls, counters, promised>>

\* DELETE /sandbox/{id}, or the machine's auto_delete_interval has passed.
DestroyBox(b) ==
  /\ setup.default = "sandbox"
  /\ boxes[b].state = "started"
  /\ boxes' = [boxes EXCEPT ![b] = [state |-> "gone", files |-> NoFiles]]
  /\ promised' = IF b # handle THEN promised
                 ELSE Forget({x \in DOMAIN promised : RouteFor(x).to = "sandbox"})
  /\ UNCHANGED <<setup, held, handle, calls, counters>>

-----------------------------------------------------------------------------
Update ==
  \/ \E c \in Callers, arg \in Args, f \in Contents : WriteFile(c, arg, f)
  \/ \E c \in Callers, arg \in Args, v, w \in Words, all \in BOOLEAN :
       v # w /\ EditFile(c, arg, v, w, all)
  \/ \E c \in Callers : Put(c)
  \/ \E p, q \in Paths, f \in Contents : p # q /\ Upload(<<p, q>>, f)
  \/ \E p \in Paths, w \in Words : Execute(p, w)

Sandbox ==
  \/ \E c \in Callers : CommandFails(c) \/ CommandTimesOut(c) \/ RunAgain(c)
  \/ Reattach
  \/ \E b \in Boxes : CreateBox(b) \/ DestroyBox(b)

Next == Update \/ Sandbox

Spec == Init /\ [][Next]_vars
-----------------------------------------------------------------------------
(* Correctness *)

FileMap(f) ==
  /\ DOMAIN f \subseteq UNION {{SubSeq(p, k, Len(p)) : k \in 1..(Len(p) + 1)} : p \in Paths}
  /\ \A p \in DOMAIN f : f[p] # <<>> /\ ToSet(f[p]) \subseteq Words

\* Everything has the shape it should have, and a machine that is not started
\* has no files.
TypeOK ==
  /\ setup \in Setups
  /\ \A k \in DOMAIN held : FileMap(held[k])
  /\ \A b \in Boxes : /\ FileMap(boxes[b].files)
                      /\ boxes[b].state # "started" => boxes[b].files = NoFiles
  /\ handle \in Boxes
  /\ DOMAIN promised \subseteq Paths
  /\ \A c \in InProgress : calls[c] \in Calls /\ calls[c].file # <<>>

LengthOf(p) == LET r == RouteFor(p) IN Len(FilesOf(r.to)[r.path])

HasLine(p, i, word) ==
  LET r == RouteFor(p) IN FilesOf(r.to)[r.path][i] = word

\* All files, by the paths that lead to them.
AllPaths ==
  {p \in DOMAIN FilesOf(setup.default) : RouteFor(p).via = Default}
    \union UNION {{r.at \o p : p \in DOMAIN FilesOf(r.to)} : r \in setup.routes}

Askable == {p \in Paths : Reachable(RouteFor(p).to)}

AskableArgs == {arg \in Args : ~IsRefused(arg) /\ ValidPath(arg) \in Askable}

\* An answer that is known to lead elsewhere: the path lost the end of its
\* route, which has no closing slash, or it is relative to a place that is not
\* the root.
Astray(e, place) == Garbled \in ToSet(e.path) \/ (e.rel /\ place # <<>>)

\* A path that ls, glob or grep answers with can be given back to the tools,
\* unless it is astray: it names a file that is there, or a directory with
\* files beneath or the root of a route, and a line that grep quotes is that
\* line of that file.
PathsLeadBack ==
  LET all == AllPaths
      roots == {r.at : r \in setup.routes}
      back(e) == IF e.dir THEN \E q \in all \union roots : IsPrefix(e.path, q)
                 ELSE e.path \in all
  IN  /\ \A arg \in AskableArgs : \A e \in ToolLs(arg) :
           Astray(e, ValidPath(arg)) \/ back(e)
      /\ \A arg \in AskableArgs, deep \in BOOLEAN : \A e \in ToolGlob(deep, arg) :
           Astray(e, ValidPath(arg)) \/ back(e)
      /\ \A p \in Askable \union {NoPath}, w \in Words, rg \in BOOLEAN :
           \A e \in ToolGrep(w, p, rg) :
             Astray(e, Home) \/ (back(e) /\ HasLine(e.path, e.line, w))

\* Nothing is missed: every file below a directory is listed, or a directory it
\* is in; every one with no hidden name is found by a deep glob, or by a flat one
\* if it is in the directory, and every line with the word by grep, unless rg
\* passes over the file; at the root, over all the backends.  A glob of the
\* sandbox is held to it at the root only: its answers elsewhere are relative.
\* (A flat map may hold a file under the name of a directory; then a search
\* there looks at that file only.  A route below the directory is searched from
\* the root only, and the answers of one without a closing slash are astray.)
NothingMissed ==
  LET all == AllPaths
      plain(d, p) == d \notin all /\ (d = <<>> => RouteFor(p).via.at \notin all)
      reached(d, p) == d = <<>> \/ IsPrefix(RouteFor(p).via.at, d)
      sought(d) == {p \in all : /\ IsStrictPrefix(d, p) /\ plain(d, p)
                                /\ reached(d, p) /\ RouteFor(p).via.slash}
      onDisk(p) == RouteFor(p).to = "disk"
  IN  \A arg \in AskableArgs :
        LET d == ValidPath(arg) IN
        /\ \A p \in sought(d) :
             \E e \in ToolLs(arg) : IsStrictPrefix(d, e.path) /\ IsPrefix(e.path, p)
        /\ (RouteFor(d).to # "sandbox" \/ d = <<>>) =>
             \A deep \in BOOLEAN :
               {p \in sought(d) : /\ onDisk(p) \/ Clear(Hidden, d, p)
                                  /\ deep \/ Len(p) = Len(d) + 1}
                 \subseteq {e.path : e \in ToolGlob(deep, arg)}
        /\ \A w \in Words, rg \in BOOLEAN :
             UNION {{<<p, i>> : i \in {j \in 1..LengthOf(p) : HasLine(p, j, w)}} :
                      p \in {x \in sought(d) :
                               onDisk(x) /\ rg => Clear(Hidden \union Ignored, d, x)}}
               \subseteq {<<e.path, e.line>> : e \in ToolGrep(w, d, rg)}

\* Strict: what is found below a route has the route's prefix before it, as
\* composite.py says of its answers.
PrefixesRestored ==
  \A arg \in AskableArgs, deep \in BOOLEAN :
    LET r == RouteFor(ValidPath(arg)).via
    IN  \A e \in ToolLs(arg) \union ToolGlob(deep, arg) :
          r # Default => IsPrefix(r.at, e.path)

\* Strict: the paths of glob are absolute, as the tool's description says.
GlobIsAbsolute ==
  \A arg \in AskableArgs, deep \in BOOLEAN : \A e \in ToolGlob(deep, arg) : ~e.rel

\* Reading and downloading tell the truth: reply i is about path i, and it is
\* the file's text from the offset on, or says that there is no such file.  (A
\* read whose command fails in the sandbox says so as well.)
RepliesAreTrue ==
  \A arg \in AskableArgs :
    LET p == ValidPath(arg)
        r == RouteFor(p)
        files == FilesOf(r.to)
        there == r.path \in DOMAIN files
    IN  /\ ~there => \A fails \in BOOLEAN : ToolRead(arg, 0, 1, fails) = Missing
        /\ there => \A offset \in 0..(Len(files[r.path]) - 1), fails \in BOOLEAN :
                      \/ ToolRead(arg, offset, 1, fails).lines = <<files[r.path][offset + 1]>>
                      \/ fails /\ r.to = "sandbox"
        /\ \A q \in Askable : ~DownloadRaises(<<q, p>>) =>
             CompositeDownload(<<q, p>>)[2] =
               IF there THEN [status |-> "ok", lines |-> files[r.path]] ELSE Missing

\* What the tools acknowledged is in the files: the content of an acknowledged
\* write, edit or upload stays until the next one at the same path, unless
\* two calls overlapped there, a command failed, the shell wrote it or the
\* machine was replaced.  No call at another path, whatever backend it goes
\* to, touches it.
AcknowledgedStays ==
  \A p \in DOMAIN promised :
    LET r == RouteFor(p) IN
    /\ r.path \in DOMAIN FilesOf(r.to)
    /\ FilesOf(r.to)[r.path] = promised[p]

(***************************************************************************)
(* One file system                                                         *)
(***************************************************************************)

IsThere(p) == LET r == RouteFor(p) IN r.path \in DOMAIN FilesOf(r.to)

TextAt(p) == LET r == RouteFor(p) IN FilesOf(r.to)[r.path]

Seen == [p \in {x \in Paths : IsThere(x)} |-> TextAt(p)]

Remote == {p \in Paths : RouteFor(p).to = "sandbox"}

\* What the caller asked for, without what the call has found out since.
Asked(call) ==
  [op |-> call.op, at |-> call.at, old |-> call.old, word |-> call.word,
   all |-> call.all, text |-> IF call.op = "write" THEN call.file ELSE <<>>]

Asking == [c \in InProgress |-> Asked(calls[c])]

Disturbed == {c \in InProgress : ~calls[c].alone}

FF == INSTANCE FlatFiles
        WITH files <- Seen, remote <- Remote, asked <- Asking, disturbed <- Disturbed

\* The files on all backends are one file system to the tools: an edit or a
\* write that no other call disturbed takes effect in one step, though its look
\* at the file and its write are two, and no call reaches another's file.
FlatSpec == FF!Spec
=============================================================================
