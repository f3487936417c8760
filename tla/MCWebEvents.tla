---------------------------- MODULE MCWebEvents ----------------------------
(* The event stream of the pages on small instances. *)
EXTENDS WebEvents, TLC

Symmetry == Permutations(Conns) \union Permutations(Pages)
              \union Permutations(Threads)

=============================================================================
