----------------------------- MODULE MCSessions -----------------------------
(* Instances of Sessions small enough for TLC. *)
EXTENDS Sessions
=============================================================================
