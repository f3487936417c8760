------------------------------ MODULE MCAgents ------------------------------
(* The main agent and its sub-agents on small instances. *)
EXTENDS Agents

SomeMainPlans == {<<>>, <<"task", "task">>, <<"compact_conversation", "write_file">>}
SomeSubPlans == {<<>>, <<"set_state", "fetch">>}

TaskPlans == {<<>>, <<"task", "task">>}

Symmetry == Permutations(Subs)
=============================================================================
