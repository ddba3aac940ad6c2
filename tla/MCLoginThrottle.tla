-------------------------- MODULE MCLoginThrottle --------------------------
(* Instances of LoginThrottle small enough for TLC. *)
EXTENDS LoginThrottle
=============================================================================
