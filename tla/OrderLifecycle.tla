--------------------------- MODULE OrderLifecycle ---------------------------
(***************************************************************************)
(* What the Stage-7 order management promises of an order, whatever        *)
(* batches, cycles, keys, retries and crashes it takes: the market takes   *)
(* it at most once, it is filled only after that, an order that is over    *)
(* stays as it is, and a fill is booked at most once and only for a filled *)
(* order.  Orders change together, because the tables are written in one   *)
(* transaction.                                                            *)
(***************************************************************************)
EXTENDS Naturals

CONSTANT Order

VARIABLES
  status,  \* "NONE" until the order is stored, "OPEN", or how it ended
  taken,   \* how often the market took the order
  booked   \* how often the ledger has its fill

lifecycleVars == <<status, taken, booked>>

Over == {"FILLED", "CANCELED", "REJECTED"}

Start ==
  /\ status = [c \in Order |-> "NONE"]
  /\ taken = [c \in Order |-> 0]
  /\ booked = [c \in Order |-> 0]

Take(c) ==
  /\ status[c] \notin Over /\ taken[c] = 0
  /\ taken' = [taken EXCEPT ![c] = 1]
  /\ UNCHANGED <<status, booked>>

(* An order the market took may still end as REJECTED: a process that died *)
(* before it stored the order has left the key behind.                     *)
MayBecome(c, s) ==
  \/ s = status[c]
  \/ status[c] \notin Over /\ s = "OPEN"
  \/ status[c] \notin Over /\ s \in {"CANCELED", "REJECTED"}
  \/ status[c] \notin Over /\ s = "FILLED" /\ taken[c] = 1

Settle ==
  /\ status' \in [Order -> {"NONE", "OPEN"} \cup Over]
  /\ \A c \in Order : MayBecome(c, status'[c])
  /\ UNCHANGED <<taken, booked>>

Book(S) ==
  /\ \A c \in S : status[c] = "FILLED" /\ booked[c] = 0
  /\ booked' = [c \in Order |-> IF c \in S THEN 1 ELSE booked[c]]
  /\ UNCHANGED <<status, taken>>

Step ==
  \/ \E c \in Order : Take(c)
  \/ Settle
  \/ \E S \in SUBSET Order : Book(S)

LifecycleSpec == Start /\ [][Step]_lifecycleVars
=============================================================================
