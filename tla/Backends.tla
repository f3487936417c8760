------------------------------ MODULE Backends ------------------------------
(***************************************************************************)
(* deepagents/backends: what each kind of file backend answers, and what   *)
(* it makes of a write or an edit.                                         *)
(*                                                                         *)
(* A path is the sequence of its names, <<>> is "/"; a file is the         *)
(* sequence of its lines, a line one word; a backend holds a function from *)
(* paths to files.  "state" (the agent's state) and "store" (LangGraph's   *)
(* store) are flat maps of keys; "disk" (a directory served by             *)
(* FilesystemBackend) and "sandbox" (BaseSandbox, by scripts run in it)    *)
(* have real directories.                                                  *)
(*                                                                         *)
(* A query answers with entries.  The path of an entry is what the agent   *)
(* is shown: a relative one is taken from "/" if it is given back.         *)
(***************************************************************************)
EXTENDS Naturals, Sequences, FiniteSets, SequencesExt

CONSTANTS
  NoPath,  \* the argument path=None of grep
  Hidden,  \* names that begin with a dot
  Ignored  \* names that a .gitignore of the directory excludes

Kinds == {"state", "store", "disk", "sandbox"}

\* Only these two know directories apart from the names of their files.
HasDirectories(kind) == kind \in {"disk", "sandbox"}

Entry(p, dir) == [path |-> p, dir |-> dir, rel |-> FALSE]

Beneath(files, d) == {p \in DOMAIN files : IsStrictPrefix(d, p)}

\* The name right below d on the way to p.
Toward(d, p) == SubSeq(p, 1, Len(d) + 1)

\* None of the names is on the way from d to p.
Clear(names, d, p) == \A i \in (Len(d) + 1)..Len(p) : p[i] \notin names

Without(names, ps, d) == {p \in ps : Clear(names, d, p)}

IsDirectory(files, d) == d = <<>> \/ Beneath(files, d) # {}

\* The files with the new ones among them.
With(files, new) ==
  [p \in DOMAIN new \union DOMAIN files |->
     IF p \in DOMAIN new THEN new[p] ELSE files[p]]

\* The members of S in a sequence, in their order.
Selection(s, S) ==
  LET picked[i \in 0..Len(s)] ==
        IF i = 0 THEN <<>>
        ELSE IF s[i] \in S THEN Append(picked[i - 1], s[i]) ELSE picked[i - 1]
  IN  picked[Len(s)]

-----------------------------------------------------------------------------
(* Paths given by the agent: names, "." and ".." *)

\* validate_path: a path with ".." is refused, "." and the like disappear.
IsRefused(arg) == ".." \in ToSet(arg)

ValidPath(arg) == Selection(arg, ToSet(arg) \ {"."})

-----------------------------------------------------------------------------
(* Lines *)

Occurrences(file, old) == Cardinality({i \in DOMAIN file : file[i] = old})

\* perform_string_replacement refuses an absent string, and an ambiguous one
\* unless all of them are to be replaced.
CanReplace(file, old, all) ==
  \/ Occurrences(file, old) = 1
  \/ all /\ Occurrences(file, old) > 1

Replacement(file, old, new) == ReplaceAll(file, old, new)

Lines(file, offset, limit) ==
  SubSeq(file, offset + 1,
         IF offset + limit < Len(file) THEN offset + limit ELSE Len(file))

\* format_read_response
ReadResponse(file, offset, limit) ==
  CASE file = <<>> -> [status |-> "empty", lines |-> <<>>]
    [] file # <<>> /\ offset >= Len(file) ->
         [status |-> "beyond", lines |-> <<>>]
    [] OTHER -> [status |-> "ok", lines |-> Lines(file, offset, limit)]

Missing == [status |-> "missing", lines |-> <<>>]

-----------------------------------------------------------------------------
(* A listing: the files of a directory and its direct subdirectories *)

Listing(files, d) ==
  {Entry(Toward(d, p), Toward(d, p) # p) : p \in Beneath(files, d)}

StateLs(files, d) == Listing(files, d)

\* The same walk, over the items of all pages of the store.
StoreLs(files, d) == Listing(files, d)

\* iterdir of a directory: a name is a file or a directory, never both.
DiskLs(files, d) == IF d \in DOMAIN files THEN {} ELSE Listing(files, d)

\* os.scandir raises on a file, and the script then prints nothing.
SandboxLs(files, d) == IF d \in DOMAIN files THEN {} ELSE Listing(files, d)

LsOf(kind, files, d) ==
  CASE kind = "state" -> StateLs(files, d)
    [] kind = "store" -> StoreLs(files, d)
    [] kind = "disk" -> DiskLs(files, d)
    [] kind = "sandbox" -> SandboxLs(files, d)

-----------------------------------------------------------------------------
(* Searching for a word *)

Hits(ps, files, word) ==
  UNION {{[path |-> p, line |-> i, dir |-> FALSE, rel |-> FALSE] :
            i \in {j \in DOMAIN files[p] : files[p][j] = word}} : p \in ps}

\* _filter_files_by_path: the file of that name if there is one, otherwise
\* all files beneath.
FilteredByPath(files, p) ==
  IF p \in DOMAIN files THEN {p} ELSE Beneath(files, p)

\* grep_matches_from_files
StateGrep(files, word, p) ==
  Hits(FilteredByPath(files, IF p = NoPath THEN <<>> ELSE p), files, word)

StoreGrep(files, word, p) == StateGrep(files, word, p)

\* ripgrep below the resolved path, or below the backend's root; what is
\* hidden or ignored there is passed over.  Without rg, or when it takes more
\* than 30 seconds, Python reads every file, and for a path that names a file
\* all of the directory the file is in.
DiskGrep(files, word, p, rg) ==
  LET base == IF p = NoPath THEN <<>> ELSE p
      under == {f \in DOMAIN files : IsPrefix(base, f)}
      all == IF base \in DOMAIN files THEN Beneath(files, Front(base)) ELSE under
  IN  Hits(IF rg THEN Without(Hidden \union Ignored, under, base) ELSE all, files, word)

\* grep -r on the path as given; without a path on ".", the home directory
\* of the session, and then what it prints is relative.
SandboxGrep(files, word, p, home) ==
  IF p # NoPath
  THEN Hits({f \in DOMAIN files : IsPrefix(p, f)}, files, word)
  ELSE {[h EXCEPT !.path = SubSeq(@, Len(home) + 1, Len(@)), !.rel = TRUE] :
          h \in Hits(Beneath(files, home), files, word)}

GrepOf(kind, files, word, p, home, rg) ==
  CASE kind = "state" -> StateGrep(files, word, p)
    [] kind = "store" -> StoreGrep(files, word, p)
    [] kind = "disk" -> DiskGrep(files, word, p, rg)
    [] kind = "sandbox" -> SandboxGrep(files, word, p, home)

-----------------------------------------------------------------------------
(* Glob: "*" (one level) and "**/*" (every level) *)

AtLevel(ps, d, deep) == {p \in ps : deep \/ Len(p) = Len(d) + 1}

\* _glob_search_files: one level means one level, but a path that names a
\* file matches by its last name, if it has one.  No pattern matches a hidden
\* name.
StateGlob(files, deep, d) ==
  {Entry(p, FALSE) :
     p \in IF d \in DOMAIN files THEN Without(Hidden, {d} \ {<<>>}, Front(d))
           ELSE Without(Hidden, AtLevel(Beneath(files, d), d, deep), d)}

StoreGlob(files, deep, d) == StateGlob(files, deep, d)

\* rglob searches every level whatever the pattern, hidden ones too.
DiskGlob(files, deep, d) == {Entry(p, FALSE) : p \in Beneath(files, d)}

\* chdir to the path, then what matches and is not hidden, directories too, by
\* relative name.
SandboxGlob(files, deep, d) ==
  LET found == UNION {{SubSeq(p, 1, k) : k \in (Len(d) + 1)..Len(p)} :
                        p \in Beneath(files, d)}
  IN  {[path |-> SubSeq(p, Len(d) + 1, Len(p)), dir |-> p \notin DOMAIN files,
        rel |-> TRUE] : p \in Without(Hidden, AtLevel(found, d, deep), d)}

GlobOf(kind, files, deep, d) ==
  CASE kind = "state" -> StateGlob(files, deep, d)
    [] kind = "store" -> StoreGlob(files, deep, d)
    [] kind = "disk" -> DiskGlob(files, deep, d)
    [] kind = "sandbox" -> SandboxGlob(files, deep, d)

-----------------------------------------------------------------------------
(* Reading *)

StateRead(files, p, offset, limit) ==
  IF p \in DOMAIN files THEN ReadResponse(files[p], offset, limit) ELSE Missing

StoreRead(files, p, offset, limit) == StateRead(files, p, offset, limit)

DiskRead(files, p, offset, limit) == StateRead(files, p, offset, limit)

\* The script has no error for an offset beyond the end: it prints nothing.
\* Any exit code but 0, that of a command that took too long among them, is
\* answered like a file that is not there.
SandboxRead(files, p, offset, limit, fails) ==
  CASE fails \/ p \notin DOMAIN files -> Missing
    [] ~fails /\ p \in DOMAIN files /\ files[p] = <<>> ->
         [status |-> "empty", lines |-> <<>>]
    [] OTHER -> [status |-> "ok", lines |-> Lines(files[p], offset, limit)]

ReadOf(kind, files, p, offset, limit, fails) ==
  CASE kind = "state" -> StateRead(files, p, offset, limit)
    [] kind = "store" -> StoreRead(files, p, offset, limit)
    [] kind = "disk" -> DiskRead(files, p, offset, limit)
    [] kind = "sandbox" -> SandboxRead(files, p, offset, limit, fails)

-----------------------------------------------------------------------------
(* What a write checks first *)

StateCanWrite(files, p) == p \notin DOMAIN files

StoreCanWrite(files, p) == p \notin DOMAIN files

\* exists() is true of a directory too, and mkdir fails below a file.
DiskCanWrite(files, p) ==
  /\ p \notin DOMAIN files
  /\ ~IsDirectory(files, p)
  /\ \A q \in DOMAIN files : ~IsStrictPrefix(q, p)

SandboxCanWrite(files, p) == DiskCanWrite(files, p)

CanWrite(kind, files, p) ==
  CASE kind = "state" -> StateCanWrite(files, p)
    [] kind = "store" -> StoreCanWrite(files, p)
    [] kind = "disk" -> DiskCanWrite(files, p)
    [] kind = "sandbox" -> SandboxCanWrite(files, p)

\* What an edit checks first is the same for all of them.
CanEdit(files, p, old, all) ==
  p \in DOMAIN files /\ CanReplace(files[p], old, all)
=============================================================================
