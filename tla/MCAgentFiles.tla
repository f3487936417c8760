---------------------------- MODULE MCAgentFiles ----------------------------
(* The agent's files on small instances. *)
EXTENDS AgentFiles

Route(name, slash, kind) == [at |-> <<name>>, slash |-> slash, to |-> kind]

\* The composition of the examples in composite.py and filesystem.py.
Documented == [default |-> "state", routes |-> {Route("mem", TRUE, "store")}]

\* The composition of builder.py as it is.
Deployed == [default |-> "sandbox", routes |-> {Route("mem", FALSE, "disk")}]

\* A directory of the disk under a route as composite.py asks for.
OnDisk == [default |-> "state", routes |-> {Route("mem", TRUE, "disk")}]

ThreeSetups == {Documented, Deployed, OnDisk}
DeployedSetup == {Deployed}

SomeArgs == {<<"a">>, <<".", "a", ".b">>, <<"mem", "a">>, <<"mem">>, <<>>,
             <<"mem", "..", "a">>}
HiddenNames == {".b"}
SomeWords == {"x", "y"}
SomeContents == {<<"x", "y">>}
HomeDirectory == <<"a">>

Symmetry == Permutations(Callers) \union Permutations(Boxes)
=============================================================================
