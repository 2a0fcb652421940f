------------------------------ MODULE Handlers ------------------------------
(* What the models of the stores share: the handler invocations that run at  *)
(* once, and the absent value (a NULL column, a missing row).                *)

CONSTANTS
    Calls,      \* handler invocations
    None        \* NULL, or no row
=============================================================================
