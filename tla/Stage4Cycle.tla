---------------------------- MODULE Stage4Cycle ----------------------------
(***************************************************************************)
(* A live Stage-4 cycle (services/stage4_cycle_runner.py) as far as orders *)
(* are concerned: it lists the open orders of the active symbols, resolves *)
(* them against the stage4_orders table (services/reconcile_service.py),   *)
(* decides whether unknown orders freeze it, plans submits and cancels and *)
(* executes them (services/execution_service_stage4.py).                   *)
(*                                                                         *)
(* Prices and quantities are left out: which intents and which stale       *)
(* orders a plan holds, and which of them the risk policy, the mode gate   *)
(* and the min-notional filter let through, is any choice.  A symbol is    *)
(* traded on one side.  An intent and a stale order of one symbol make a   *)
(* replace group, which module ReplaceTx is about; here a plan has none.   *)
(* The exchange knows an order by the client id it was submitted with,     *)
(* AliasOf: build_exchange_client_id never returns the internal id; the    *)
(* exchanges of the repository's tests report the internal id.             *)
(***************************************************************************)
EXTENDS Integers, Sequences, FiniteSets

CONSTANTS
  Symbol,         \* trading pairs
  Id,             \* internal client order ids of intents
  SymOf,          \* the symbol an intent is for
  Stranger,       \* a client id that is not the bot's
  NoName,         \* no client id, no intent
  AliasOf,        \* the client id the exchange reports for an intent's order
  Threshold,      \* stage4_unknown_freeze_threshold, at least 1
  PersistCycles,  \* stage4_unknown_freeze_persist_cycles, at least 1
  FreezeAll,      \* kill_switch_freeze_all: cancels are suppressed as well
  MaxOrders       \* bound: orders that ever get to the exchange

ASSUME Stage4Assumption ==
  /\ SymOf \in [Id -> Symbol]
  /\ Stranger \notin Id /\ NoName \notin Id /\ NoName # Stranger
  /\ \A i, j \in Id : AliasOf[i] = AliasOf[j] => i = j
  /\ \A i \in Id : AliasOf[i] \notin (Id \ {i}) \cup {Stranger, NoName}
  /\ Threshold \in Nat \ {0} /\ PersistCycles \in Nat \ {0}
  /\ FreezeAll \in BOOLEAN
  /\ MaxOrders \in Nat

NoId == 0
OrderId == 1..MaxOrders

(* A row of stage4_orders with a client id of the bot; ext: mode external. *)
(* Nothing writes the statuses "submitted" and "filled" in live mode.      *)
RowStatus == {"none", "open", "cancel_requested", "rejected", "unknown",
              "unknown_closed", "error"}
Row == [st : RowStatus, oid : OrderId \cup {NoId}, ext : BOOLEAN]
NoRow == [st |-> "none", oid |-> NoId, ext |-> FALSE]

(* An order at the exchange; id is the intent behind it (NoName: another   *)
(* user of the account), name the client id the exchange reports.          *)
BookEntry == [id : Id \cup {NoName}, sym : Symbol,
              name : {AliasOf[i] : i \in Id} \cup {Stranger, NoName},
              st : {"flying", "open", "closed"}]

VARIABLES
  rows,     \* stage4_orders, by client order id
  freeze,   \* stage4_freeze: active
  kill,     \* the persisted kill switch
  book,     \* the exchange's orders, by order id
  pc,       \* where the cycle is
  active,   \* the symbols of the cycle
  failed,   \* failed_symbols
  seen,     \* exchange_open_orders
  result,   \* what ReconcileService.resolve counted
  killed,   \* effective_kill_switch, read at the start of the cycle
  frozen,   \* freeze_state, as evaluated in this cycle
  todo,     \* the actions still to execute
  cur,      \* the intent whose order is submitted or canceled
  got,      \* the order id the exchange acknowledged
  base,     \* history: the orders open at the exchange when it was asked
  doubt     \* history: intents a submit or cancel of which was uncertain

local == <<active, failed, seen, result, killed, frozen, todo, cur, got>>
history == <<base, doubt>>
vars == <<rows, freeze, kill, book, pc, local, history>>

PC == {"idle", "fetch", "reconcile", "evaluate", "plan", "execute", "submit",
       "send", "record", "cancel"}
Action == [type : {"submit", "cancel"}, id : Id]
NoResult == [external |-> 0, nameless |-> FALSE, mismatch |-> FALSE]

TypeOK ==
  /\ rows \in [Id -> Row]
  /\ freeze \in BOOLEAN /\ kill \in BOOLEAN
  /\ book \in Seq(BookEntry) /\ Len(book) <= MaxOrders
  /\ pc \in PC
  /\ active \subseteq Symbol /\ failed \subseteq active
  /\ seen \subseteq DOMAIN book
  /\ result \in [external : Nat, nameless : BOOLEAN, mismatch : BOOLEAN]
  /\ killed \in BOOLEAN /\ frozen \in BOOLEAN
  /\ todo \subseteq Action
  /\ cur \in Id \cup {NoName} /\ got \in OrderId \cup {NoId}
  /\ pc \in {"submit", "send", "record", "cancel"} => cur \in Id
  /\ base \subseteq DOMAIN book /\ doubt \subseteq Id

-----------------------------------------------------------------------------
(* Helpers *)

Open == {o \in DOMAIN book : book[o].st = "open"}

(* list_stage4_open_orders, with and without include_unknown.              *)
OpenRows == {i \in Id : rows[i].st \in {"open", "cancel_requested"} /\ ~rows[i].ext}
Tracked == OpenRows \cup {i \in Id : rows[i].st = "unknown" /\ ~rows[i].ext}

(* is_order_terminal.                                                      *)
Terminal(row) == row.st \in {"rejected", "unknown_closed"}

(* record_stage4_order_error and _rejected: insert, or overwrite the       *)
(* status and the mode; the order id stays.                                *)
ErrorRow(row, st) == [row EXCEPT !.st = st, !.ext = FALSE]

(* Mutant: only an order in flight counts as a duplicate.                  *)
MutDeduped(row) == row.st = "cancel_requested"

(* stage4_submit_dedupe_status: an order of this id is open or in flight.  *)
Deduped(row) == row.st \in {"open", "cancel_requested"}

Goto(l) == pc' = l
EndCycle ==
  /\ Goto("idle")
  /\ active' = {} /\ failed' = {} /\ seen' = {} /\ result' = NoResult
  /\ killed' = FALSE /\ frozen' = FALSE /\ todo' = {} /\ cur' = NoName /\ got' = NoId
  /\ base' = {}

NextAction == /\ Goto("execute") /\ cur' = NoName /\ got' = NoId
              /\ UNCHANGED <<active, failed, seen, result, killed, frozen, todo>>

-----------------------------------------------------------------------------
(* The cycle resolves its symbols and reads the kill switch.  The degrade  *)
(* level or the dynamic universe may leave any of them out: the rest of    *)
(* the universe, which the cycle then works on, is not modelled.           *)
BeginCycle(symbols) ==
  /\ pc = "idle"
  /\ active' = symbols
  /\ killed' = kill
  /\ Goto("fetch")
  /\ UNCHANGED <<rows, freeze, kill, book, failed, seen, result, frozen, todo, cur, got,
                 history>>

(* The open orders of every active symbol.  blind: the call failed;        *)
(* noprice: no usable mark price.  Both count as failed symbols.           *)
Fetch(blind, noprice) ==
  /\ pc = "fetch"
  /\ blind \subseteq active /\ noprice \subseteq active
  /\ failed' = blind \cup noprice
  /\ seen' = {o \in Open : book[o].sym \in active \ blind}
  /\ base' = Open
  /\ Goto("reconcile")
  /\ UNCHANGED <<rows, freeze, kill, book, active, result, killed, frozen, todo, cur, got,
                 doubt>>

(* Mutant: the id of an order is taken from any order of the answer.       *)
MutNamed(n) == seen

(* ReconcileService.resolve.                                               *)
Reported == {book[o].name : o \in seen} \ {NoName}
UnknownClosed == {i \in Tracked : SymOf[i] \notin failed /\ i \notin Reported}
External == Reported \ Tracked
EnrichIds == {i \in Tracked \cap Reported : SymOf[i] \notin failed /\ rows[i].oid = NoId}
Named(n) == {o \in seen : book[o].name = n}

(* import_stage4_external_order for a name that is also a local id.        *)
Imported(row, o) ==
  IF row.st = "none" THEN [st |-> "open", oid |-> o, ext |-> TRUE]
  ELSE [row EXCEPT !.oid = IF @ = NoId THEN o ELSE @]

(* The outcome is written to the table: imports, order ids, closed rows.   *)
(* The rows are different ones and a later cycle resolves again what a     *)
(* crash between two of them left undone.  An external row under a name    *)
(* that is no local id is never read again and not kept here.              *)
Reconcile ==
  /\ pc = "reconcile"
  /\ \E pick \in [Id -> OrderId \cup {NoId}] :
       /\ \A i \in Id : IF i \in EnrichIds \cup External THEN pick[i] \in Named(i)
                                                       ELSE pick[i] = NoId
       /\ rows' = [i \in Id |->
            IF i \in UnknownClosed THEN [rows[i] EXCEPT !.st = "unknown_closed"]
            ELSE IF i \in EnrichIds THEN [rows[i] EXCEPT !.oid = pick[i]]
            ELSE IF i \in External THEN Imported(rows[i], pick[i])
            ELSE rows[i]]
  /\ result' = [external |-> Cardinality(External),
                nameless |-> \E o \in seen : book[o].name = NoName,
                mismatch |-> UnknownClosed # {}]
  /\ Goto("evaluate")
  /\ UNCHANGED <<freeze, kill, book, active, failed, seen, killed, frozen, todo, cur, got,
                 history>>

(* Mutant: the threshold is compared the wrong way.                        *)
MutFreezeTriggered == result.nameless \/ result.external > Threshold

(* _evaluate_unknown_order_freeze.  The number of earlier cycles with a    *)
(* mismatch is only read back from an active freeze, so a cycle that finds *)
(* none counts itself as the first.                                        *)
FreezeTriggered ==
  \/ result.nameless
  \/ result.external >= Threshold
  \/ result.mismatch /\ PersistCycles = 1

EvaluateFreeze ==
  /\ pc = "evaluate"
  /\ freeze' = (freeze \/ FreezeTriggered)
  /\ frozen' = freeze'
  /\ seen' = {} /\ result' = NoResult
  /\ Goto("plan")
  /\ UNCHANGED <<rows, kill, book, active, failed, killed, todo, cur, got, history>>

(* The plan: intents on symbols whose data is complete (fills that cannot  *)
(* be fetched fail a symbol too), cancels of stale orders, then the        *)
(* suppression of both by the kill switch and by the freeze.  What the     *)
(* cycle knew of its symbols is not read after this.                       *)
Plan(nofills, intents, stale) ==
  LET down == failed \cup nofills
      stopped == killed \/ frozen
      submits == IF stopped THEN {} ELSE intents
      cancels == IF stopped /\ FreezeAll THEN {} ELSE stale
  IN /\ pc = "plan"
     /\ nofills \subseteq active
     /\ stale \subseteq OpenRows
     /\ \A i \in intents : SymOf[i] \in active \ down
     /\ \A i \in stale : SymOf[i] \notin down
     /\ \A i \in intents, j \in stale : SymOf[i] # SymOf[j]
     /\ todo' = [type : {"submit"}, id : submits] \cup [type : {"cancel"}, id : cancels]
     /\ active' = {} /\ failed' = {} /\ killed' = FALSE /\ frozen' = FALSE
     /\ Goto("execute")
     /\ UNCHANGED <<rows, freeze, kill, book, seen, result, cur, got, history>>

-----------------------------------------------------------------------------
(* execute_with_report takes the actions one by one.                       *)
Done ==
  /\ pc = "execute"
  /\ todo = {}
  /\ EndCycle
  /\ UNCHANGED <<rows, freeze, kill, book, doubt>>

(* _execute_submit_action: the freeze is read once more, then the 1123     *)
(* cooldown of the symbol may reject the order before its row is looked at.*)
StartSubmit(i) ==
  /\ pc = "execute"
  /\ [type |-> "submit", id |-> i] \in todo
  /\ todo' = todo \ {[type |-> "submit", id |-> i]}
  /\ IF freeze THEN UNCHANGED <<pc, cur>> ELSE Goto("submit") /\ cur' = i
  /\ UNCHANGED <<rows, freeze, kill, book, active, failed, seen, result, killed, frozen,
                 got, history>>

RejectByCooldown ==
  /\ pc = "submit"
  /\ rows' = [rows EXCEPT ![cur] = ErrorRow(@, "rejected")]
  /\ NextAction
  /\ UNCHANGED <<freeze, kill, book, history>>

SkipDuplicate ==
  /\ pc = "submit"
  /\ Deduped(rows[cur])
  /\ NextAction
  /\ UNCHANGED <<rows, freeze, kill, book, history>>

(* Missing rules, the minimum notional or the order cap.                   *)
RejectByRules ==
  /\ pc = "submit"
  /\ ~Deduped(rows[cur])
  /\ rows' = [rows EXCEPT ![cur] = ErrorRow(@, "rejected")]
  /\ NextAction
  /\ UNCHANGED <<freeze, kill, book, history>>

CallExchange ==
  /\ pc = "submit"
  /\ ~Deduped(rows[cur])
  /\ Goto("send")
  /\ UNCHANGED <<rows, freeze, kill, book, local, history>>

Placed(st) == Append(book, [id |-> cur, sym |-> SymOf[cur], name |-> AliasOf[cur],
                            st |-> st])

(* Acknowledged; the row is written in the next step.                      *)
SendAcked ==
  /\ pc = "send"
  /\ Len(book) < MaxOrders
  /\ book' = Placed("open")
  /\ got' = Len(book')
  /\ Goto("record")
  /\ UNCHANGED <<rows, freeze, kill, active, failed, seen, result, killed, frozen, todo, cur,
                 history>>

(* Mutant: the status of the acknowledgement is stored.                    *)
MutRecordSubmitted ==
  /\ pc = "record"
  /\ rows' = [rows EXCEPT ![cur] = [st |-> "submitted", oid |-> got, ext |-> FALSE]]
  /\ NextAction
  /\ UNCHANGED <<freeze, kill, book, history>>

RecordSubmitted ==
  /\ pc = "record"
  /\ rows' = [rows EXCEPT ![cur] = [st |-> "open", oid |-> got, ext |-> FALSE]]
  /\ NextAction
  /\ UNCHANGED <<freeze, kill, book, history>>

(* Error 1123 of the exchange.  Any other error leaves the cycle (Crash).  *)
SendRejected ==
  /\ pc = "send"
  /\ rows' = [rows EXCEPT ![cur] = ErrorRow(@, "rejected")]
  /\ NextAction
  /\ UNCHANGED <<freeze, kill, book, history>>

(* UncertainResult: the order was accepted, is on its way or was lost.     *)
SendUncertain(fate) ==
  /\ pc = "send"
  /\ IF fate = "dropped" THEN UNCHANGED book
                         ELSE Len(book) < MaxOrders /\ book' = Placed(fate)
  /\ rows' = [rows EXCEPT ![cur] = ErrorRow(@, "unknown")]
  /\ doubt' = doubt \cup {cur}
  /\ NextAction
  /\ UNCHANGED <<freeze, kill, base>>

(* _execute_cancel_action, up to the call.                                 *)
StartCancel(i) ==
  LET row == rows[i]
  IN /\ pc = "execute"
     /\ [type |-> "cancel", id |-> i] \in todo
     /\ todo' = todo \ {[type |-> "cancel", id |-> i]}
     /\ IF Terminal(row) \/ row.oid = NoId
          THEN /\ rows' = [rows EXCEPT ![i] = IF Terminal(row) THEN @
                                              ELSE ErrorRow(@, "error")]
               /\ UNCHANGED <<pc, cur>>
          ELSE /\ rows' = [rows EXCEPT ![i].st = IF @ = "open" THEN "cancel_requested"
                                                             ELSE @]
               /\ Goto("cancel") /\ cur' = i
     /\ UNCHANGED <<freeze, kill, book, active, failed, seen, result, killed, frozen,
                    got, history>>

Target == rows[cur].oid

(* The exchange answers; the row stays cancel_requested either way.        *)
CancelAnswered ==
  /\ pc = "cancel"
  /\ book' = [book EXCEPT ![Target].st = "closed"]
  /\ NextAction
  /\ UNCHANGED <<rows, freeze, kill, history>>

CancelUncertain(done) ==
  /\ pc = "cancel"
  /\ book' = IF done THEN [book EXCEPT ![Target].st = "closed"] ELSE book
  /\ rows' = [rows EXCEPT ![cur] = ErrorRow(@, "unknown")]
  /\ doubt' = doubt \cup {cur}
  /\ NextAction
  /\ UNCHANGED <<freeze, kill, base>>

(* An exception leaves the cycle, or the process dies: nothing is undone.  *)
(* A request that fails this way may still have reached the exchange.      *)
Crash(fate) ==
  /\ pc # "idle"
  /\ fate # "dropped" => pc = "send" /\ Len(book) < MaxOrders
  /\ book' = IF fate = "dropped" THEN book ELSE Placed(fate)
  /\ EndCycle
  /\ UNCHANGED <<rows, freeze, kill, doubt>>

-----------------------------------------------------------------------------
(* Outside the cycle: the exchange, other users of the account, the        *)
(* operator's commands and the error counter that sets the kill switch.    *)
Arrive(o) ==
  /\ book[o].st = "flying"
  /\ book' = [book EXCEPT ![o].st = "open"]
  /\ UNCHANGED <<rows, freeze, kill, pc, local, history>>

CloseOrder(o) ==
  /\ book[o].st = "open"
  /\ book' = [book EXCEPT ![o].st = "closed"]
  /\ UNCHANGED <<rows, freeze, kill, pc, local, history>>

PlaceForeign(s, name) ==
  /\ Len(book) < MaxOrders
  /\ book' = Append(book, [id |-> NoName, sym |-> s, name |-> name, st |-> "open"])
  /\ UNCHANGED <<rows, freeze, kill, pc, local, history>>

ClearFreeze ==
  /\ freeze
  /\ freeze' = FALSE
  /\ UNCHANGED <<rows, kill, book, pc, local, history>>

SetKillSwitch(on) ==
  /\ kill # on
  /\ kill' = on
  /\ UNCHANGED <<rows, freeze, book, pc, local, history>>

-----------------------------------------------------------------------------
Init ==
  /\ rows = [i \in Id |-> NoRow]
  /\ freeze = FALSE /\ kill = FALSE
  /\ book = <<>>
  /\ pc = "idle"
  /\ active = {} /\ failed = {} /\ seen = {} /\ result = NoResult
  /\ killed = FALSE /\ frozen = FALSE /\ todo = {} /\ cur = NoName /\ got = NoId
  /\ base = {} /\ doubt = {}

Cycle ==
  \/ \E symbols \in SUBSET Symbol : BeginCycle(symbols)
  \/ \E blind, noprice \in SUBSET active : Fetch(blind, noprice)
  \/ Reconcile
  \/ EvaluateFreeze
  \/ \E nofills \in SUBSET active, intents, stale \in SUBSET Id : Plan(nofills, intents, stale)
  \/ Done

Execute ==
  \/ \E i \in Id : StartSubmit(i) \/ StartCancel(i)
  \/ RejectByCooldown
  \/ SkipDuplicate
  \/ RejectByRules
  \/ CallExchange
  \/ SendAcked
  \/ RecordSubmitted
  \/ SendRejected
  \/ \E fate \in {"open", "flying", "dropped"} : SendUncertain(fate)
  \/ CancelAnswered
  \/ \E done \in BOOLEAN : CancelUncertain(done)

Environment ==
  \/ \E o \in DOMAIN book : Arrive(o) \/ CloseOrder(o)
  \/ \E s \in Symbol, name \in {Stranger, NoName} : PlaceForeign(s, name)
  \/ ClearFreeze
  \/ \E on \in BOOLEAN : SetKillSwitch(on)

Next ==
  \/ Cycle
  \/ Execute
  \/ \E fate \in {"open", "flying", "dropped"} : Crash(fate)
  \/ Environment

Spec == Init /\ [][Next]_vars

-----------------------------------------------------------------------------
(* Properties *)

(* With a threshold of one, an order is submitted only in a cycle for which *)
(* a local row names every order that was open on its symbol when the       *)
(* exchange was asked: any other (a late one, one whose row a crash lost,   *)
(* one of another user, one under a name the bot does not know) froze the   *)
(* cycle, whatever the operator cleared before.                             *)
NoSubmitOverVisible ==
  pc = "send" /\ Threshold = 1 =>
    \A o \in base : book[o].sym = SymOf[cur] => \E i \in Id : book[o].name = i /\ rows[i] # NoRow

(* Whatever client ids the exchange reports: an intent is not submitted    *)
(* over its own order that was open when the exchange was asked, unless a  *)
(* call for that intent was uncertain.                                     *)
NoSubmitOverOwnOrder ==
  pc = "send" /\ Threshold = 1 => \A o \in base : book[o].id = cur => cur \in doubt

(* The order id in a row is the id of an order submitted for that row.     *)
RowNamesOwnOrder ==
  \A i \in Id : rows[i].oid # NoId => book[rows[i].oid].id = i

(* What the reconciliation promises: only an order that is missing from    *)
(* the exchange's answer is marked unknown_closed.                         *)
ClosedRowsAreMissing ==
  pc = "evaluate" => \A i \in Id : rows[i].st = "unknown_closed" => rows[i].oid \notin seen
=============================================================================
