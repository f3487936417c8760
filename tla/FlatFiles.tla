------------------------------ MODULE FlatFiles ------------------------------
(***************************************************************************)
(* What an agent may count on, on whichever backends, routes and machines  *)
(* its files are: one file system in which each file has one path.         *)
(*                                                                         *)
(* A write makes a file where there is none, an edit replaces words of the *)
(* file as it is, each in one step.  Only if something else touched the    *)
(* file since the call began may a write replace it and an edit bring back *)
(* an older text.  No call changes a file at another path.  A call on a    *)
(* machine, which can be lost, may take effect twice, any other call takes *)
(* effect once.                                                            *)
(***************************************************************************)
CONSTANTS
  Paths,
  Words,
  Contents,              \* files that are written
  CanReplace(_, _, _),   \* a file has the word to be replaced, in one place or
                         \* for all of its places
  Replacement(_, _, _)   \* the file with the new word for the old one

VARIABLES
  files,     \* path -> the file there
  remote,    \* the paths of the files on a machine
  asked,     \* caller -> the write or edit it is in the middle of
  disturbed  \* callers whose file something else touched meanwhile

vars == <<files, remote, asked, disturbed>>

Open == DOMAIN asked

CallsAt(S) == {c \in Open : asked[c].at \in S}

Init ==
  /\ DOMAIN files = {}
  /\ remote \subseteq Paths
  /\ Open = {}
  /\ disturbed = {}

Stored(S, text) ==
  [p \in DOMAIN files \union S |-> IF p \in S THEN text ELSE files[p]]

Store(S, text) == files' = Stored(S, text)

\* Whoever is at a path where another call begins is disturbed, and so is the
\* one that begins.
Begin(c) ==
  /\ c \notin Open
  /\ asked' = [d \in Open \union {c} |-> IF d = c THEN asked'[c] ELSE asked[d]]
  /\ LET others == CallsAt({asked'[c].at}) IN
     disturbed' = disturbed \union others \union {d \in {c} : others # {}}
  /\ UNCHANGED <<files, remote>>

Ends(c) ==
  /\ asked' = [d \in Open \ {c} |-> asked[d]]
  /\ disturbed' = disturbed \ {c}

Write(c) ==
  /\ asked[c].op = "write"
  /\ c \in disturbed \/ asked[c].at \notin DOMAIN files
  /\ Store({asked[c].at}, asked[c].text)

Edit(c) ==
  LET p == asked[c].at IN
  /\ asked[c].op = "edit"
  /\ \/ /\ p \in DOMAIN files
        /\ CanReplace(files[p], asked[c].old, asked[c].all)
        /\ Store({p}, Replacement(files[p], asked[c].old, asked[c].word))
     \/ /\ c \in disturbed
        /\ \E new \in {files'} : p \in DOMAIN new /\ Store({p}, new[p])

TakesEffect(c) ==
  /\ \/ Ends(c)
     \/ asked[c].at \in remote /\ UNCHANGED <<asked, disturbed>>
  /\ UNCHANGED remote
  /\ Write(c) \/ Edit(c)

Fails(c) == Ends(c) /\ UNCHANGED <<files, remote>>

\* Uploads and shell commands replace what is there.  (new is what is there
\* after the step.)
Replace(S, text, new) ==
  /\ disturbed' = disturbed \union CallsAt(S)
  /\ new = Stored(S, text)

\* A machine is lost, or another takes its place.
Lose(new) ==
  /\ UNCHANGED disturbed
  /\ \A p \in (DOMAIN files \union DOMAIN new) \ remote :
       p \in DOMAIN files /\ p \in DOMAIN new /\ new[p] = files[p]

\* What happens beside the calls.
Besides(new) ==
  \/ Lose(new)
  \/ \E text \in Contents \union {<<w>> : w \in Words} :
       \E S \in SUBSET {p \in DOMAIN new : new[p] = text} : Replace(S, text, new)

Next ==
  \/ UNCHANGED asked /\ UNCHANGED remote /\ \E new \in {files'} : Besides(new)
  \/ \E c \in DOMAIN asked' : Begin(c)
  \/ \E c \in Open : Fails(c) \/ TakesEffect(c)

Spec == Init /\ [][Next]_vars
=============================================================================
