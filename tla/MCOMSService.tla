---------------------------- MODULE MCOMSService ----------------------------
(* An instance of OMSService for TLC: two orders of the first cycle, one of *)
(* the second, none of the third.                                           *)
EXTENDS OMSService

MCOwner == [c \in Cid |-> IF c < 3 THEN 1 ELSE 2]
=============================================================================
