----------------------------- MODULE Deliveries -----------------------------
(* What the models of the Matrix side share: the processes that serve one    *)
(* account, and the messages of its rooms in the order the server has them.  *)
EXTENDS Integers, FiniteSets

CONSTANTS
    None,           \* NULL, or no row
    Replicas,       \* the processes, each under its own holder_name
    MaxMessages     \* bound: messages the server ever has

ASSUME DeliveriesAssumption ==
    /\ MaxMessages \in Nat
    /\ None \notin Replicas \cup Nat

Messages == 1 .. MaxMessages
=============================================================================
