------------------------------ MODULE MCStores ------------------------------
(* Small instances of Stores for TLC. *)
EXTENDS Stores, TLC

(* Each policy once for reads and once for writes: a call consults only one. *)
FourDeclarations == {
    [read |-> "public", write |-> "owner"],
    [read |-> "owner", write |-> "group"],
    [read |-> "group", write |-> "admin"],
    [read |-> "admin", write |-> "public"]}

Symmetry == UNION {Permutations(S) :
    S \in {Calls, Users, Mxids, Contents}}
=============================================================================
