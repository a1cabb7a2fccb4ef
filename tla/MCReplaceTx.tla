---------------------------- MODULE MCReplaceTx ----------------------------
(* An instance of ReplaceTx for TLC. *)
EXTENDS ReplaceTx, TLC

CONSTANTS o1, o2

OldIds == Permutations(OldId)
=============================================================================
