------------------------- MODULE MCExecutionService -------------------------
(* Instances of ExecutionService for TLC. *)
EXTENDS ExecutionService, TLC

CONSTANTS p1, p2

Payloads == Permutations(Payload)

LiveOnly == [traded \in BOOLEAN |-> {FALSE}]
DryFirst == [traded \in BOOLEAN |-> IF traded THEN {FALSE} ELSE BOOLEAN]
=============================================================================
