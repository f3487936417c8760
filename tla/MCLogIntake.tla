---------------------------- MODULE MCLogIntake ----------------------------
(* Small instances of LogIntake. *)
EXTENDS LogIntake, TLC

CONSTANTS x, y

SomeBatches == {<<x>>, <<x, y>>}

Symmetry == Permutations(Posts)
=============================================================================
