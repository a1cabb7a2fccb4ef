---------------------------- MODULE MCRunControl ----------------------------
(* Instance of RunControl for TLC. *)
EXTENDS RunControl

Armed == [role |-> "LIVE", dry |-> FALSE, safe |-> FALSE, kill |-> FALSE,
          live |-> TRUE, ack |-> TRUE, liveDb |-> TRUE, shared |-> FALSE]

Watch == [Armed EXCEPT !.role = "MONITOR", !.shared = TRUE]

MCConfigs == {Armed, Watch}
=============================================================================
