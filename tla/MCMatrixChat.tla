---------------------------- MODULE MCMatrixChat ----------------------------
(* Small instances of MatrixChat for TLC. *)
EXTENDS MatrixChat, TLC
=============================================================================
