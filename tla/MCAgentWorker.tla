--------------------------- MODULE MCAgentWorker ---------------------------
(* The worker on small instances. *)
EXTENDS AgentWorker, TLC

Symmetry == Permutations(Threads) \union Permutations(Workers)

=============================================================================
