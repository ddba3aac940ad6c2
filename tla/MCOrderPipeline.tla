--------------------------- MODULE MCOrderPipeline ---------------------------
(* Instances of OrderPipeline small enough for TLC. *)
EXTENDS OrderPipeline, TLC

CONSTANTS b1, s1, s2

MCQuantity == [o \in Orders |-> 1]

ExecutorSymmetry == Permutations(Executors)
=============================================================================
