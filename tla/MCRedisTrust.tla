---------------------------- MODULE MCRedisTrust ----------------------------
(***************************************************************************)
(* RedisTrust for model checking.  Goroutines are interchangeable.         *)
(***************************************************************************)
EXTENDS RedisTrust, TLC

Symmetry == Permutations(Evals) \cup Permutations(Operators)
=============================================================================
