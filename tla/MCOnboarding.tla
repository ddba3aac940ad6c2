---------------------------- MODULE MCOnboarding ----------------------------
(* Instances of Onboarding small enough for TLC. *)
EXTENDS Onboarding

CONSTANT a1

\* A message nobody can read, another event type, and one verification announced twice.
MCBacklog ==
    <<[type |-> "unreadable", clientId |-> a1], [type |-> "other", clientId |-> a1],
      [type |-> "KYC_VERIFIED", clientId |-> a1], [type |-> "KYC_VERIFIED", clientId |-> a1]>>
=============================================================================
