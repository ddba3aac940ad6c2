------------------------------- MODULE Totals -------------------------------
(***************************************************************************)
(* Adding up amounts over a set of rows.  A total is the number of unit    *)
(* coins on the table when every row x of S puts down f[x] of them, so the *)
(* facts proved about it in Totals_proofs come from facts about the        *)
(* cardinality of finite sets.                                             *)
(***************************************************************************)
EXTENDS Naturals, FiniteSets

Coins(x, f) == {x} \X (1..f[x])

CoinsOf(S, f) == UNION {Coins(x, f) : x \in S}

\* The sum of f[x] over the x in S.
Total(S, f) == Cardinality(CoinsOf(S, f))
=============================================================================
