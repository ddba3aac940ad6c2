---------------------------- MODULE MCStrategies ----------------------------
(* Instances of Strategies small enough for TLC. *)
EXTENDS Strategies, TLC

Symmetry == Permutations(Quotes) \cup Permutations(Instances)
=============================================================================
