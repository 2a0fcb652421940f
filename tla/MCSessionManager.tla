-------------------------- MODULE MCSessionManager --------------------------
(* Small instances of SessionManager for TLC. *)
EXTENDS SessionManager, TLC

Symmetry ==
    Permutations(Calls) \cup Permutations(Entries) \cup Permutations(Sessions)
=============================================================================
