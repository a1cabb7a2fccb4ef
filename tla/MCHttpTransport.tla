-------------------------- MODULE MCHttpTransport --------------------------
(* Instances of HttpTransport for TLC. *)
EXTENDS HttpTransport, TLC

CONSTANTS t1, t2

Makes(first, second) ==
  [op \in Op |-> (IF op \in first THEN {t1} ELSE {}) \cup (IF op \in second THEN {t2} ELSE {})]

\* Market data in two threads; orders with a second reader of the same
\* endpoint group; the asynchronous client.
Programs == {Makes({"bids"}, {"bids", "top"}),
             Makes({"order"}, {"submit", "cancel"}),
             Makes({}, {"asubmit", "acancel"})}

NoneOrOne == {Absent, 0, 1}
=============================================================================
