----------------------------- MODULE MCEventHub -----------------------------
(* The instance of EventHub that TLC checks. *)
EXTENDS EventHub
=============================================================================
