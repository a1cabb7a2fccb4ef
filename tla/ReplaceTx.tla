----------------------------- MODULE ReplaceTx -----------------------------
(***************************************************************************)
(* Replacing orders in Stage 4: one replace group of                       *)
(* services/execution_service_stage4.py (the cancels of stale orders and   *)
(* one submit on the same symbol and side) and its row in the table        *)
(* stage4_replace_transactions of services/state_store.py.                 *)
(*                                                                         *)
(* The group may be handed to execute_with_report any number of times; the *)
(* service may fail at every step, and the reconciliation of a cycle       *)
(* closes rows in between.  As in the tests of the repository the exchange *)
(* lists an order under the client id of its row.                          *)
(*                                                                         *)
(* replace_tx_id is a hash of the symbol, the side and the ids, so the     *)
(* metadata of a row found under it is that of the group.                  *)
(***************************************************************************)
EXTENDS Integers, FiniteSets

CONSTANTS
  OldId,     \* the client ids of the orders to replace
  New,       \* the client id of the order that replaces them
  MaxNew     \* bound: requests for the new order that get to the exchange

ASSUME ReplaceAssumption == New \notin OldId /\ OldId # {} /\ MaxNew \in Nat

Ranked == {"INIT", "CANCEL_SENT", "CANCEL_CONFIRMED", "SUBMIT_SENT", "SUBMIT_CONFIRMED"}
Blocked == {"BLOCKED_UNKNOWN", "BLOCKED_RECONCILE"}
Final == {"SUBMIT_CONFIRMED", "FAILED"}
TxState == Ranked \cup Blocked \cup Final

(* REPLACE_TX_STATE_ORDER; -1 for the states that have no place in it.     *)
Rank(st) == CASE st = "INIT" -> 0
              [] st = "CANCEL_SENT" -> 1
              [] st = "CANCEL_CONFIRMED" -> 2
              [] st = "SUBMIT_SENT" -> 3
              [] st = "SUBMIT_CONFIRMED" -> 4
              [] OTHER -> -1

RowStatus == {"none", "open", "cancel_requested", "unknown", "unknown_closed", "rejected"}
TerminalRow == {"unknown_closed", "rejected"}

VARIABLES
  tx,       \* the state of the transaction ("none": no row)
  rows,     \* stage4_orders, by client order id
  live,     \* which orders of OldId are open at the exchange
  news,     \* how many orders of the new id are at the exchange: in all, open
  freeze,   \* stage4_freeze: active
  pc,
  todo,     \* the cancels still to send
  cur,      \* the order whose cancel is under way (New: none)
  only,     \* the kill switch or the freeze was active: nothing but cancels
  doubt     \* history: a submit call ended without an answer, or a rejection
            \* was written over the row of an order that is in flight

local == <<todo, cur, only>>
vars == <<tx, rows, live, news, freeze, pc, local, doubt>>

PC == {"idle", "begin", "check", "cancel", "asked", "confirm", "confirmed", "submit",
       "call", "record", "commit", "fail"}

TypeOK ==
  /\ tx \in TxState \cup {"none"}
  /\ rows \in [OldId \cup {New} -> RowStatus]
  /\ live \subseteq OldId
  /\ news \in [all : 0..MaxNew, open : 0..MaxNew] /\ news.open <= news.all
  /\ freeze \in BOOLEAN
  /\ pc \in PC
  /\ todo \subseteq OldId /\ cur \in OldId \cup {New}
  /\ pc = "asked" => cur # New
  /\ only \in BOOLEAN /\ doubt \in BOOLEAN

-----------------------------------------------------------------------------
(* _is_replace_tx_forward_transition.                                      *)
Forward(from, to) ==
  IF from \in Final THEN to = from
  ELSE to \in Blocked \/ to = "FAILED" \/ Rank(to) >= Rank(from)

(* update_replace_tx_state: no row, no update; backwards, no update.       *)
Moved(to) == IF tx # "none" /\ Forward(tx, to) THEN to ELSE tx

Goto(l) == pc' = l
Return == Goto("idle") /\ todo' = {} /\ cur' = New /\ only' = FALSE

(* execute_with_report reads the kill switch and the freeze once for all   *)
(* groups (with kill_switch_freeze_all a stopped group does nothing).      *)
Execute(killed) ==
  /\ pc = "idle"
  /\ only' = (killed \/ freeze)
  /\ todo' = OldId
  /\ Goto(IF only' THEN "cancel" ELSE "begin")
  /\ UNCHANGED <<tx, rows, live, news, freeze, cur, doubt>>

(* upsert_replace_tx, when there is no row yet.                            *)
BeginTx ==
  /\ pc = "begin"
  /\ tx' = IF tx = "none" THEN "INIT" ELSE tx
  /\ IF tx \in Final THEN Return ELSE Goto("check") /\ UNCHANGED local
  /\ UNCHANGED <<rows, live, news, freeze, doubt>>

CheckFreeze ==
  /\ pc = "check"
  /\ IF freeze THEN tx' = Moved("BLOCKED_UNKNOWN") /\ Return
               ELSE Goto("cancel") /\ UNCHANGED <<tx, local>>
  /\ UNCHANGED <<rows, live, news, freeze, doubt>>

(* _execute_cancel_action for the next order: a terminal row is left       *)
(* alone, any other is marked before the call.                             *)
CancelNext(i) ==
  /\ pc = "cancel"
  /\ i \in todo
  /\ IF rows[i] \in TerminalRow
       THEN UNCHANGED <<rows, pc, cur>>
       ELSE /\ rows' = [rows EXCEPT ![i] = IF @ = "open" THEN "cancel_requested" ELSE @]
            /\ cur' = i
            /\ Goto("asked")
  /\ todo' = todo \ {i}
  /\ UNCHANGED <<tx, live, news, freeze, only, doubt>>

(* The exchange cancels the order or does not; without an answer the row   *)
(* is unknown.                                                             *)
CancelAnswered(done, answered) ==
  /\ pc = "asked"
  /\ live' = IF done THEN live \ {cur} ELSE live
  /\ rows' = IF answered THEN rows ELSE [rows EXCEPT ![cur] = "unknown"]
  /\ cur' = New
  /\ Goto("cancel")
  /\ UNCHANGED <<tx, news, freeze, todo, only, doubt>>

CancelsSent ==
  /\ pc = "cancel"
  /\ todo = {}
  /\ IF only THEN Return /\ UNCHANGED tx
             ELSE tx' = Moved("CANCEL_SENT") /\ Goto("confirm") /\ UNCHANGED local
  /\ UNCHANGED <<rows, live, news, freeze, doubt>>

(* Mutant: the local rows alone confirm the cancels, and a requested       *)
(* cancel counts as done.                                                  *)
MutConfirmed == \A i \in OldId : rows[i] \in TerminalRow \cup {"cancel_requested"}

(* _confirm_replace_cancels; listed = FALSE: the open orders could not be  *)
(* fetched.                                                                *)
Confirmed == live = {} /\ \A i \in OldId : rows[i] \in TerminalRow

ConfirmCancels(listed) ==
  /\ pc = "confirm"
  /\ IF listed /\ Confirmed
       THEN tx' = Moved("CANCEL_CONFIRMED") /\ Goto("confirmed") /\ UNCHANGED local
       ELSE tx' = Moved("BLOCKED_RECONCILE") /\ Return
  /\ UNCHANGED <<rows, live, news, freeze, doubt>>

SubmitSent ==
  /\ pc = "confirmed"
  /\ tx' = Moved("SUBMIT_SENT")
  /\ Goto("submit")
  /\ UNCHANGED <<rows, live, news, freeze, local, doubt>>

(* Mutant: a row that is open does not stop a second submit.               *)
MutInFlight == rows[New] = "cancel_requested"

(* _execute_submit_action for the new order: the freeze, the rejections    *)
(* before (by the cooldown of the symbol) and after the dedupe check, the  *)
(* call; module Stage4Cycle has them apart.                                *)
InFlight == rows[New] \in {"open", "cancel_requested"}

(* Mutant: an order that was not submitted confirms the transaction.       *)
MutSubmitSkipped ==
  /\ pc = "submit"
  /\ freeze \/ InFlight
  /\ Goto("commit")
  /\ UNCHANGED <<tx, rows, live, news, freeze, local, doubt>>

SubmitSkipped ==
  /\ pc = "submit"
  /\ freeze \/ InFlight
  /\ Return
  /\ UNCHANGED <<tx, rows, live, news, freeze, doubt>>

SubmitRejected ==
  /\ \/ pc = "submit" /\ ~freeze
     \/ pc = "call"
  /\ rows' = [rows EXCEPT ![New] = "rejected"]
  /\ doubt' = (doubt \/ InFlight)
  /\ Goto("fail")
  /\ UNCHANGED <<tx, live, news, freeze, local>>

CallExchange ==
  /\ pc = "submit"
  /\ ~freeze /\ ~InFlight
  /\ Goto("call")
  /\ UNCHANGED <<tx, rows, live, news, freeze, local, doubt>>

Accepted == [all |-> news.all + 1, open |-> news.open + 1]

SubmitAcked ==
  /\ pc = "call"
  /\ news.all < MaxNew
  /\ news' = Accepted
  /\ Goto("record")
  /\ UNCHANGED <<tx, rows, live, freeze, local, doubt>>

(* Mutant: the status of the acknowledgement is stored.                    *)
MutRecordSubmitted ==
  /\ pc = "record"
  /\ rows' = [rows EXCEPT ![New] = "submitted"]
  /\ Goto("commit")
  /\ UNCHANGED <<tx, live, news, freeze, local, doubt>>

RecordSubmitted ==
  /\ pc = "record"
  /\ rows' = [rows EXCEPT ![New] = "open"]
  /\ Goto("commit")
  /\ UNCHANGED <<tx, live, news, freeze, local, doubt>>

(* UncertainResult: neither submitted nor rejected, the transaction stays. *)
SubmitUncertain(reached) ==
  /\ pc = "call"
  /\ reached => news.all < MaxNew
  /\ news' = IF reached THEN Accepted ELSE news
  /\ rows' = [rows EXCEPT ![New] = "unknown"]
  /\ doubt' = TRUE
  /\ Return
  /\ UNCHANGED <<tx, live, freeze>>

CommitTx ==
  /\ pc = "commit"
  /\ tx' = Moved("SUBMIT_CONFIRMED")
  /\ Return
  /\ UNCHANGED <<rows, live, news, freeze, doubt>>

FailTx ==
  /\ pc = "fail"
  /\ tx' = Moved("FAILED")
  /\ Return
  /\ UNCHANGED <<rows, live, news, freeze, doubt>>

-----------------------------------------------------------------------------
(* The process dies or an exception leaves the cycle.                      *)
Crash ==
  /\ pc # "idle"
  /\ doubt' = (doubt \/ pc \in {"call", "record"})
  /\ Return
  /\ UNCHANGED <<tx, rows, live, news, freeze>>

(* The exchange fills or cancels an order on its own.                      *)
OldCloses(i) ==
  /\ i \in live
  /\ live' = live \ {i}
  /\ UNCHANGED <<tx, rows, news, freeze, pc, local, doubt>>

NewCloses ==
  /\ news.open > 0
  /\ news' = [news EXCEPT !.open = @ - 1]
  /\ UNCHANGED <<tx, rows, live, freeze, pc, local, doubt>>

(* Between two executions the reconciliation of a cycle closes the tracked *)
(* rows whose order the exchange does not list.                            *)
Reconcile ==
  /\ pc = "idle"
  /\ LET listed == live \cup IF news.open > 0 THEN {New} ELSE {}
     IN rows' = [i \in OldId \cup {New} |->
          IF rows[i] \in {"open", "cancel_requested", "unknown"} /\ i \notin listed
            THEN "unknown_closed" ELSE rows[i]]
  /\ UNCHANGED <<tx, live, news, freeze, pc, local, doubt>>

SetFreeze(on) ==
  /\ freeze # on
  /\ freeze' = on
  /\ UNCHANGED <<tx, rows, live, news, pc, local, doubt>>

-----------------------------------------------------------------------------
Init ==
  /\ tx = "none"
  /\ rows = [i \in OldId \cup {New} |-> IF i = New THEN "none" ELSE "open"]
  /\ live = OldId
  /\ news = [all |-> 0, open |-> 0]
  /\ freeze = FALSE
  /\ pc = "idle"
  /\ todo = {} /\ cur = New /\ only = FALSE /\ doubt = FALSE

Next ==
  \/ \E killed \in BOOLEAN : Execute(killed)
  \/ BeginTx
  \/ CheckFreeze
  \/ \E i \in OldId : CancelNext(i)
  \/ \E done, answered \in BOOLEAN : CancelAnswered(done, answered)
  \/ CancelsSent
  \/ \E listed \in BOOLEAN : ConfirmCancels(listed)
  \/ SubmitSent
  \/ SubmitSkipped
  \/ SubmitRejected
  \/ CallExchange
  \/ SubmitAcked
  \/ RecordSubmitted
  \/ \E reached \in BOOLEAN : SubmitUncertain(reached)
  \/ CommitTx
  \/ FailTx
  \/ Crash
  \/ \E i \in OldId : OldCloses(i)
  \/ NewCloses
  \/ Reconcile
  \/ \E on \in BOOLEAN : SetFreeze(on)

Spec == Init /\ [][Next]_vars

-----------------------------------------------------------------------------
(* Properties *)

(* No double exposure: the replacing order and one it replaces are never   *)
(* both open at the exchange, however the cancels went, whatever crashed   *)
(* and was retried and whatever the reconciliation closed in between.      *)
NoDoubleExposure == news.open > 0 => live = {}

(* The group has at most one order open at the exchange at a time, unless  *)
(* a submit call ended without an answer or a cooldown rejection was       *)
(* written over the row of an order in flight.                             *)
NoSecondOrder == ~doubt => news.open <= 1

(* A transaction that ends as confirmed had its order accepted.            *)
ConfirmedTxPlaced == tx = "SUBMIT_CONFIRMED" => news.all > 0
=============================================================================
