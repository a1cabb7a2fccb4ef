-------------------------- MODULE ExecutionService --------------------------
(***************************************************************************)
(* Placing orders: services/execution_service.py (execute_intents,         *)
(* refresh_order_lifecycle, _reconcile_submit, the recovery of stale       *)
(* reservations), the tables of services/state_store.py it keeps its       *)
(* promises in, and the exchange as the code sees it.                      *)
(*                                                                         *)
(* A cycle of cli.run_cycle builds a new ExecutionService, refreshes the   *)
(* local orders against the exchange and submits the intents it is given.  *)
(* Every SQLite call is a transaction of its own, so the process may die   *)
(* between any two steps; a request may be lost, may be accepted and its   *)
(* answer lost, or may reach the exchange long after the client gave up.   *)
(*                                                                         *)
(* A payload is a (symbol, side, price, quantity).  make_client_order_id   *)
(* and the legacy idempotency key depend on nothing else; the key of a     *)
(* Stage-3 Intent also holds the cycle (CycleKeys).                        *)
(***************************************************************************)
EXTENDS IdempotencyStore, Sequences, FiniteSets

CONSTANTS
  Payload,        \* the orders a strategy may ask for, all on one symbol
  Nobody,         \* no payload: no intent is being executed
  CycleKeys,      \* TRUE: keys of Stage-3 Intents, FALSE: legacy OrderIntents
  MaxCycles,      \* bound: cycles when keys hold the cycle number
  MaxOrders,      \* bound: requests that ever get to the exchange
  MaxCalls,       \* bound: submit calls per key
  MaxAttempts,    \* sends of one submit call (adapter and wrapper retries)
  MaxRules,       \* bound: changes of the exchange rules (payload hashes)
  Closings,       \* how an order may end at the exchange
  DryModes,       \* the values dry_run may have in a cycle, by what ran before
  ReconcileAge,   \* age an order leaves the 5-minute lookback at
  RefreshAge,     \* age an order leaves the 1-hour lookback at
  LookbackAge     \* age beyond unknown_reprobe_max_lookback_seconds (24 h)

ASSUME ServiceAssumption ==
  /\ Payload # {}
  /\ Nobody \notin Payload
  /\ CycleKeys \in BOOLEAN
  /\ MaxCycles \in Nat /\ MaxOrders \in Nat /\ MaxCalls \in Nat /\ MaxRules \in Nat
  /\ MaxAttempts \in Nat \ {0}
  /\ Closings \subseteq {"filled", "canceled"}
  /\ DryModes \in [BOOLEAN -> SUBSET BOOLEAN]
  /\ ReconcileAge \in Nat /\ RefreshAge \in Nat /\ LookbackAge \in Nat
  /\ GraceAge <= ReconcileAge /\ ReconcileAge <= RefreshAge
  /\ RefreshAge <= LookbackAge

Cycles  == 0..MaxCycles
Key     == Payload \X Cycles
Hash    == 0..MaxRules
OrderId == 1..MaxOrders
ActionType == {"place_order", "would_place_order"}

OrderStatus == {"none", "new", "open", "filled", "canceled", "rejected", "unknown"}
Terminal == {"filled", "canceled", "rejected"}

(* A row of the orders table, one per client order id (a unique index).    *)
(* oid = NoId stands for the placeholder id "unknown:<client order id>";   *)
(* age is the age of a NEW row, wait says that unknown_next_probe_at is    *)
(* ahead, seen is the age of unknown_first_seen_at (-1: NULL).             *)
OrderRow == [st : OrderStatus, oid : OrderId \cup {NoId}, age : 0..GraceAge,
             wait : BOOLEAN, seen : -1..LookbackAge]
NoOrder == [st |-> "none", oid |-> NoId, age |-> 0, wait |-> FALSE, seen |-> -1]

(* An order at the exchange: "flying" while its request is on the way.     *)
BookEntry == [coid : Payload, key : Key, st : {"flying", "open", "filled", "canceled"},
              age : 0..LookbackAge]

VARIABLES
  idem,      \* idempotency_keys, action type place_order
  acts,      \* actions, by dedupe key: <<action type, key>>
  orders,    \* the orders table, by client order id
  pc,        \* where the process is
  dry,       \* dry_run of the running cycle
  cycle,     \* the number of the cycle
  todo,      \* the intents the cycle has still to execute
  cur,       \* the intent being executed
  registry,  \* UnknownOrderRegistry, by client order id
  missing,   \* local orders the open-orders answer did not show
  sent,      \* sends so far of the submit call
  got,       \* the order id the submit call or the lookup came back with
  book,      \* the exchange's orders, by order id
  rules,     \* the exchange rules in force
  calls,     \* history: submit calls made for a key
  clears,    \* history: dedupe keys cleared for a key
  resent,    \* history: keys for which a submit call sent its request twice
  crashed    \* history: keys whose submit call the process died in

store    == <<idem, acts, orders>>
intent   == <<cur, sent, got>>
batch    == <<dry, cycle, todo, registry, missing>>
local    == <<batch, intent>>
exchange == <<book, rules>>
history  == <<calls, clears, resent, crashed>>
vars     == <<store, pc, local, exchange, history>>

PC == {"idle", "refresh", "probe", "execute", "loop", "reserve", "recover", "mark",
       "record", "noaction", "bind", "simulate", "gate", "send", "uncertain",
       "confirm", "promote", "save", "attach", "commit", "reject", "clear",
       "unknown", "freeze"}

TypeOK ==
  /\ idem \in [Key -> IdemRow(Hash, OrderId)]
  /\ acts \in [ActionType \X Key -> ActRow(OrderId)]
  /\ orders \in [Payload -> OrderRow]
  /\ pc \in PC
  /\ dry \in BOOLEAN
  /\ cycle \in Cycles
  /\ todo \subseteq Payload
  /\ cur \in Payload \cup {Nobody}
  /\ pc \in PC \ {"idle", "refresh", "probe", "execute", "loop"} => cur \in Payload
  /\ pc = "send" => sent < MaxAttempts
  /\ registry \subseteq Payload
  /\ missing \subseteq Payload
  /\ sent \in 0..MaxAttempts
  /\ got \in OrderId \cup {NoId}
  /\ book \in Seq(BookEntry) /\ Len(book) <= MaxOrders
  /\ rules \in Hash
  /\ calls \in [Key -> 0..MaxCalls]
  /\ clears \in [Key -> Nat]
  /\ resent \subseteq Key
  /\ crashed \subseteq Key

-----------------------------------------------------------------------------
(* Helpers *)

KeyOf(p) == <<p, IF CycleKeys THEN cycle ELSE 0>>
key == KeyOf(cur)
actionType == IF dry THEN "would_place_order" ELSE "place_order"
live == <<"place_order", key>>

(* Mutant: an order is matched by its symbol alone.                        *)
MutMatching(S, p) == S

(* The orders the exchange client reports: the dry-run client knows none.  *)
Visible == IF dry THEN {} ELSE {o \in DOMAIN book : book[o].st # "flying"}
OpenSet == {o \in Visible : book[o].st = "open"}
(* getAllOrders from a start that many ticks ago.                          *)
AllSince(a) == {o \in Visible : book[o].age < a}
Matching(S, p) == {o \in S : book[o].coid = p}

(* What _reconcile_submit and the recovery of a stale reservation may      *)
(* find: an open order first, otherwise one of the last five minutes; the  *)
(* exchange decides which of several comes first in its answer.            *)
Lookup(p) ==
  LET open == Matching(OpenSet, p)
      recent == Matching(AllSince(ReconcileAge), p)
  IN IF open # {} THEN open ELSE IF recent # {} THEN recent ELSE {NoId}

UnknownRows(ord) == {p \in Payload : ord[p].st = "unknown"}

(* _sync_unknown_registry_from_store: only a sync that may clear forgets.  *)
SyncRegistry(reg, ord, allowClear) ==
  IF allowClear THEN UnknownRows(ord) ELSE reg \cup UnknownRows(ord)

(* save_order: the row of the client order id is inserted, or takes over   *)
(* the order id and the status.                                            *)
SaveOrder(row, oid, st) == [row EXCEPT !.st = st, !.oid = oid, !.age = 0]
(* update_order_status: leaving UNKNOWN erases the probe columns.          *)
SetStatus(row, st) == [row EXCEPT !.st = st, !.age = 0, !.wait = FALSE, !.seen = -1]

(* find_open_or_unknown_orders with include_escalated_unknown.             *)
Active(row) == row.st \in {"new", "open", "unknown"}

Goto(l) == pc' = l
NoIntent == cur' = Nobody /\ sent' = 0 /\ got' = NoId
(* On to the next intent of the batch.                                     *)
EndIntent == Goto("loop") /\ NoIntent /\ UNCHANGED batch
(* The cycle is over and the ExecutionService object is gone.              *)
EndCycle ==
  /\ Goto("idle") /\ NoIntent
  /\ dry' = FALSE /\ todo' = {} /\ registry' = {} /\ missing' = {}
  /\ UNCHANGED cycle

-----------------------------------------------------------------------------
(* A cycle begins.  The constructor reads the unknown orders from the       *)
(* store, so a restart keeps the freeze.  DryModes decides whether the bot  *)
(* may be started in dry-run mode, before or after it traded live.          *)
Traded == \E k \in Key : acts[<<"place_order", k>>].held + clears[k] > 0
RunCycle(d, intents) ==
  /\ pc = "idle"
  /\ CycleKeys => cycle < MaxCycles
  /\ cycle' = IF CycleKeys THEN cycle + 1 ELSE cycle
  /\ d \in DryModes[Traded]
  /\ dry' = d
  /\ todo' = intents
  /\ registry' = SyncRegistry({}, orders, TRUE)
  /\ missing' = {}
  /\ NoIntent
  /\ Goto("refresh")
  /\ UNCHANGED <<store, exchange, history>>

(* refresh_order_lifecycle, first half: the open orders of the exchange    *)
(* are written over the local rows (the last of several with one client    *)
(* order id stays), and what is active locally but not open there is left  *)
(* for a second look, unless it is an unknown order whose probe is not due.*)
RefreshOpen ==
  /\ pc = "refresh"
  /\ \E pick \in [Payload -> OrderId \cup {NoId}] :
       /\ \A p \in Payload : IF Matching(OpenSet, p) = {} THEN pick[p] = NoId
                                                     ELSE pick[p] \in Matching(OpenSet, p)
       /\ orders' = [p \in Payload |->
            IF pick[p] = NoId THEN orders[p]
            ELSE SetStatus(SaveOrder(orders[p], pick[p], "open"), "open")]
       /\ missing' = {p \in Payload : /\ Active(orders[p])
                                      /\ pick[p] = NoId
                                      /\ ~(orders[p].st = "unknown" /\ orders[p].wait)}
  /\ Goto("probe")
  /\ UNCHANGED <<idem, acts, dry, cycle, todo, registry, intent, exchange, history>>

(* Mutant: a failed get_open_orders is taken for an empty answer.          *)
MutRefreshOpenFails(is429) ==
  /\ pc = "refresh"
  /\ missing' = {p \in Payload : Active(orders[p])}
  /\ Goto("probe")
  /\ UNCHANGED <<store, dry, cycle, todo, registry, intent, exchange, history>>

(* get_open_orders failed.  After a 429 run_cycle only observes.           *)
RefreshOpenFails(is429) ==
  /\ pc = "refresh"
  /\ IF is429
       THEN EndCycle
       ELSE /\ registry' = SyncRegistry(registry, orders, FALSE)
            /\ Goto("execute")
            /\ UNCHANGED <<dry, cycle, todo, missing, intent>>
  /\ UNCHANGED <<store, exchange, history>>

(* Where the second look starts: one hour ago, or a minute before the      *)
(* first fruitless probe of a due unknown order, at most a day ago.        *)
AllOrdersStart ==
  LET Due == {p \in missing : orders[p].st = "unknown" /\ orders[p].seen >= 0}
      Since(p) == orders[p].seen + 1
      Earliest == {a \in {RefreshAge} \cup {Since(p) : p \in Due} :
                     \A b \in {RefreshAge} \cup {Since(p) : p \in Due} : b <= a}
      start == CHOOSE a \in Earliest : TRUE
  IN IF start > LookbackAge THEN LookbackAge ELSE start

(* _match_existing_order: by order id, then by client order id.            *)
MatchExisting(p, recent) ==
  IF orders[p].oid \in recent THEN {orders[p].oid}
  ELSE IF Matching(recent, p) # {} THEN Matching(recent, p) ELSE {NoId}

(* What a row becomes after the second look: the status the exchange       *)
(* reports, or for a missing order REJECTED when it was thought open (a    *)
(* NEW one only after the grace period); an unknown order stays unknown    *)
(* and waits for its next probe.                                           *)
Reconciled(row, found) ==
  IF found # NoId
    THEN SetStatus(SaveOrder(row, found, book[found].st), book[found].st)
  ELSE CASE row.st = "new" /\ row.age >= GraceAge -> SetStatus(row, "rejected")
         [] row.st = "open" -> SetStatus(row, "rejected")
         [] row.st = "unknown" ->
              [row EXCEPT !.wait = TRUE, !.seen = IF @ = -1 THEN 0 ELSE @]
         [] OTHER -> row

(* Second half: getAllOrders.  Skipped names the rows whose lookup failed  *)
(* (the call is tried again for the next row); then the registry may only  *)
(* grow.  is429 as above.                                                  *)
RefreshAll(skipped, is429) ==
  /\ pc = "probe"
  /\ skipped \subseteq missing
  /\ is429 => skipped # {}
  /\ LET recent == AllSince(AllOrdersStart)
     IN \E pick \in [Payload -> OrderId \cup {NoId}] :
          /\ \A p \in Payload : IF p \in missing \ skipped
                                  THEN pick[p] \in MatchExisting(p, recent)
                                  ELSE pick[p] = NoId
          /\ orders' = [p \in Payload |-> IF p \in missing \ skipped
                                            THEN Reconciled(orders[p], pick[p])
                                            ELSE orders[p]]
  /\ IF is429
       THEN EndCycle
       ELSE /\ registry' = SyncRegistry(registry, orders', skipped = {})
            /\ missing' = {}
            /\ Goto("execute")
            /\ UNCHANGED <<dry, cycle, todo, intent>>
  /\ UNCHANGED <<idem, acts, exchange, history>>

-----------------------------------------------------------------------------
(* execute_intents before its loop: expired keys are pruned, the registry   *)
(* is synced without clearing, and any unknown order refuses the whole      *)
(* batch (SubmitBlockedDueToUnknownError).                                  *)
ExecuteGate ==
  /\ pc = "execute"
  /\ idem' = [k \in Key |-> Prune(idem[k])]
  /\ IF SyncRegistry(registry, orders, FALSE) = {}
       THEN Goto("loop") /\ UNCHANGED local
       ELSE EndCycle
  /\ UNCHANGED <<acts, orders, exchange, history>>

(* The cycle ends with nothing more submitted: stale market data or nothing *)
(* to refresh (run_cycle), safe_mode, the kill switch, the runtime guard    *)
(* (live only: persisted kill switch, policy, degraded API), missing        *)
(* arming, a failing balance call, or the end of the batch.                 *)
Suppressed ==
  /\ pc \in {"refresh", "execute", "loop"}
  /\ EndCycle
  /\ UNCHANGED <<store, exchange, history>>

Pick(p) ==
  /\ pc = "loop"
  /\ p \in todo
  /\ todo' = todo \ {p}
  /\ cur' = p
  /\ Goto("reserve")
  /\ UNCHANGED <<store, dry, cycle, registry, missing, sent, got, exchange, history>>

(* Sizing or the balance precheck rejects the intent.                       *)
RejectPrecheck(p) ==
  /\ pc = "loop"
  /\ p \in todo
  /\ todo' = todo \ {p}
  /\ UNCHANGED <<store, pc, dry, cycle, registry, missing, intent, exchange, history>>

(* reserve_idempotency_key and what its caller makes of the answer.         *)
ReserveKey ==
  /\ pc = "reserve"
  /\ idem' = [idem EXCEPT ![key] = Reserve(@, rules, ~dry)]
  /\ LET r == idem[key]
         res == ReserveResult(r, rules, ~dry)
         stale == r.status = "PENDING" /\ r.age >= GraceAge /\ r.coid
     IN \/ res = "reserved" /\ Goto("mark") /\ UNCHANGED local
        \/ res = "held" /\ stale /\ Goto("recover") /\ UNCHANGED local
        \/ res = "held" /\ ~stale /\ EndIntent
        \/ res = "conflict" /\ EndCycle
  /\ UNCHANGED <<acts, orders, exchange, history>>

(* _recover_stale_pending_place_order, while next_recovery_at is ahead.     *)
RecoverWaits ==
  /\ pc = "recover"
  /\ idem[key].wait
  /\ EndIntent
  /\ UNCHANGED <<store, exchange, history>>

(* The lookup answered: the order is found and the key committed, or it is  *)
(* not and the key is marked FAILED for a retry.                            *)
RecoverFound ==
  /\ pc = "recover"
  /\ ~idem[key].wait
  /\ \E o \in Lookup(cur) :
       idem' = [idem EXCEPT ![key] =
         LET st == IF o # NoId THEN "COMMITTED" ELSE "FAILED"
         IN SetRecovery(Finalize(@, FALSE, TRUE, o, st), 0, FALSE, st)]
  /\ EndIntent
  /\ UNCHANGED <<acts, orders, exchange, history>>

(* The lookup failed: back off, and after MaxRecovery failures give up.     *)
RecoverFails ==
  /\ pc = "recover"
  /\ ~idem[key].wait
  /\ idem' = [idem EXCEPT ![key] =
       LET n == @.tries + 1
           terminal == n >= MaxRecovery
       IN SetRecovery(@, IF n > MaxRecovery THEN MaxRecovery ELSE n,
                      ~terminal, IF terminal THEN "FAILED" ELSE "PENDING")]
  /\ EndIntent
  /\ UNCHANGED <<acts, orders, exchange, history>>

MarkClient ==
  /\ pc = "mark"
  /\ idem' = [idem EXCEPT ![key] = Finalize(@, FALSE, TRUE, NoId, "PENDING")]
  /\ Goto("record")
  /\ UNCHANGED <<acts, orders, local, exchange, history>>

RecordPlace ==
  /\ pc = "record"
  /\ IF CanRecord(acts[<<actionType, key>>])
       THEN /\ acts' = [acts EXCEPT ![<<actionType, key>>] = RecordAction(@)]
            /\ Goto("bind")
       ELSE /\ Goto("noaction")
            /\ UNCHANGED acts
  /\ UNCHANGED <<idem, orders, local, exchange, history>>

(* _handle_reservation_without_new_action: the dedupe key is still held by  *)
(* an earlier action, whose order id (if any) is taken over.                *)
NoNewAction ==
  /\ pc = "noaction"
  /\ LET a == acts[<<actionType, key>>]
     IN idem' = [idem EXCEPT ![key] =
          Finalize(@, TRUE, a.coid, a.oid, IF dry THEN "SIMULATED" ELSE "COMMITTED")]
  /\ EndIntent
  /\ UNCHANGED <<acts, orders, exchange, history>>

BindAction ==
  /\ pc = "bind"
  /\ idem' = [idem EXCEPT ![key] = Finalize(@, TRUE, TRUE, NoId, "PENDING")]
  /\ Goto(IF dry THEN "simulate" ELSE "gate")
  /\ UNCHANGED <<acts, orders, local, exchange, history>>

Simulate ==
  /\ pc = "simulate"
  /\ acts' = [acts EXCEPT ![<<actionType, key>>] = AttachAction(@, NoId)]
  /\ idem' = [idem EXCEPT ![key] = Finalize(@, TRUE, TRUE, NoId, "SIMULATED")]
  /\ EndIntent
  /\ UNCHANGED <<orders, exchange, history>>

-----------------------------------------------------------------------------
(* Mutant: the gate is not checked again before the call.                   *)
MutSubmitGate ==
  /\ pc = "gate"
  /\ calls[key] < MaxCalls
  /\ calls' = [calls EXCEPT ![key] = @ + 1]
  /\ sent' = 0
  /\ Goto("send")
  /\ UNCHANGED <<store, batch, cur, got, exchange, clears, resent, crashed>>

(* _submit_limit_order: the gate once more (an earlier intent of the batch  *)
(* may have become unknown), then the call to the exchange.  The exception  *)
(* of a closed gate leaves execute_intents and the reservation as it is.    *)
SubmitGate ==
  /\ pc = "gate"
  /\ calls[key] < MaxCalls
  /\ IF SyncRegistry(registry, orders, FALSE) = {}
       THEN /\ calls' = [calls EXCEPT ![key] = @ + 1]
            /\ sent' = 0
            /\ Goto("send")
            /\ UNCHANGED <<batch, cur, got>>
       ELSE /\ EndCycle
            /\ UNCHANGED calls
  /\ UNCHANGED <<store, exchange, clears, resent, crashed>>

Placed(st) == Append(book, [coid |-> cur, key |-> key, st |-> st, age |-> 0])
Sent == /\ sent' = sent + 1
        /\ resent' = IF sent > 0 THEN resent \cup {key} ELSE resent

(* One send of the request is accepted and acknowledged.                    *)
SendAcked ==
  /\ pc = "send"
  /\ Len(book) < MaxOrders
  /\ book' = Placed("open")
  /\ got' = Len(book')
  /\ Sent
  /\ Goto("save")
  /\ UNCHANGED <<store, batch, cur, rules, calls, clears, crashed>>

(* The exchange definitely rejects the request (4xx).                       *)
SendRejected ==
  /\ pc = "send"
  /\ Sent
  /\ Goto("reject")
  /\ UNCHANGED <<store, batch, cur, got, exchange, calls, clears, crashed>>

(* Mutant: the retry loop has no limit.                                     *)
MutSendLost(fate, again) ==
  /\ pc = "send"
  /\ fate = "dropped" /\ UNCHANGED book
  /\ Sent
  /\ Goto(IF again THEN "send" ELSE "uncertain")
  /\ UNCHANGED <<store, batch, cur, got, rules, calls, clears, crashed>>

(* No answer: the request was accepted ("open"), is still on its way        *)
(* ("flying") or never left ("dropped").  The adapter and the wrapper send  *)
(* it again while they have attempts left, or report it as uncertain.       *)
SendLost(fate, again) ==
  /\ pc = "send"
  /\ again => sent + 1 < MaxAttempts
  /\ IF fate = "dropped" THEN UNCHANGED book
                         ELSE Len(book) < MaxOrders /\ book' = Placed(fate)
  /\ Sent
  /\ Goto(IF again THEN "send" ELSE "uncertain")
  /\ UNCHANGED <<store, batch, cur, got, rules, calls, clears, crashed>>

(* Mutant: an order the lookup does not show counts as rejected.            *)
MutReconcileSubmit(next) ==
  /\ pc = "uncertain"
  /\ got' \in Lookup(cur)
  /\ Goto(IF got' = NoId THEN "reject" ELSE next)
  /\ UNCHANGED <<store, batch, cur, sent, exchange, history>>

(* _reconcile_submit looks the order up by its client order id.  Found      *)
(* after an exception it is saved as NEW and then set to OPEN, found after  *)
(* an UncertainResult it is saved as OPEN.                                  *)
ReconcileSubmit(next) ==
  /\ pc = "uncertain"
  /\ got' \in Lookup(cur)
  /\ Goto(IF got' = NoId THEN "unknown" ELSE next)
  /\ UNCHANGED <<store, batch, cur, sent, exchange, history>>

ReconcileFails ==
  /\ pc = "uncertain"
  /\ Goto("unknown")
  /\ UNCHANGED <<store, local, exchange, history>>

SaveNew ==
  /\ pc = "confirm"
  /\ orders' = [orders EXCEPT ![cur] = SaveOrder(@, got, "new")]
  /\ Goto("promote")
  /\ UNCHANGED <<idem, acts, local, exchange, history>>

PromoteOpen ==
  /\ pc = "promote"
  /\ orders' = [orders EXCEPT ![cur] = SetStatus(@, "open")]
  /\ Goto("attach")
  /\ UNCHANGED <<idem, acts, local, exchange, history>>

SaveOpen ==
  /\ pc = "save"
  /\ orders' = [orders EXCEPT ![cur] = SaveOrder(@, got, "open")]
  /\ Goto("attach")
  /\ UNCHANGED <<idem, acts, local, exchange, history>>

(* Mutant: an error after the acknowledgement is handled as a rejection.    *)
MutAttachOrder ==
  /\ pc = "attach"
  /\ Goto("reject")
  /\ UNCHANGED <<store, local, exchange, history>>

AttachOrder ==
  /\ pc = "attach"
  /\ acts' = [acts EXCEPT ![live] = AttachAction(@, got)]
  /\ Goto("commit")
  /\ UNCHANGED <<idem, orders, local, exchange, history>>

CommitKey ==
  /\ pc = "commit"
  /\ idem' = [idem EXCEPT ![key] = Finalize(@, TRUE, TRUE, got, "COMMITTED")]
  /\ EndIntent
  /\ UNCHANGED <<acts, orders, exchange, history>>

(* A definite rejection: the key is FAILED and, in a transaction of its     *)
(* own, its dedupe key released so that the intent can be tried again.      *)
FailKey ==
  /\ pc = "reject"
  /\ idem' = [idem EXCEPT ![key] = Finalize(@, TRUE, TRUE, NoId, "FAILED")]
  /\ Goto("clear")
  /\ UNCHANGED <<acts, orders, local, exchange, history>>

ClearKey ==
  /\ pc = "clear"
  /\ acts' = [acts EXCEPT ![live] = ClearDedupe(@)]
  /\ clears' = [clears EXCEPT ![key] = @ + 1]
  /\ EndIntent
  /\ UNCHANGED <<idem, orders, exchange, calls, resent, crashed>>

(* Not found or not looked up: the key is UNKNOWN, then the placeholder     *)
(* order is saved and the registry freezes every further submission.        *)
MarkUnknown ==
  /\ pc = "unknown"
  /\ acts' = [acts EXCEPT ![live] = AttachAction(@, NoId)]
  /\ idem' = [idem EXCEPT ![key] = Finalize(@, TRUE, TRUE, NoId, "UNKNOWN")]
  /\ Goto("freeze")
  /\ UNCHANGED <<orders, local, exchange, history>>

Freeze ==
  /\ pc = "freeze"
  /\ orders' = [orders EXCEPT ![cur] = SaveOrder(@, NoId, "unknown")]
  /\ registry' = registry \cup {cur}
  /\ Goto("loop") /\ NoIntent /\ UNCHANGED <<dry, cycle, todo, missing>>
  /\ UNCHANGED <<idem, acts, exchange, history>>

-----------------------------------------------------------------------------
(* The process dies between two transactions.                               *)
InSubmit == {"send", "uncertain", "confirm", "save", "unknown", "freeze"}
Crash ==
  /\ pc # "idle"
  /\ crashed' = IF pc \in InSubmit THEN crashed \cup {key} ELSE crashed
  /\ EndCycle
  /\ UNCHANGED <<store, exchange, calls, clears, resent>>

(* The exchange: a late request arrives, an open order is filled or         *)
(* canceled from outside.                                                   *)
Arrive(o) ==
  /\ book[o].st = "flying"
  /\ book' = [book EXCEPT ![o] = [@ EXCEPT !.st = "open", !.age = 0]]
  /\ UNCHANGED <<store, pc, local, rules, history>>

CloseOrder(o, st) ==
  /\ book[o].st = "open"
  /\ book' = [book EXCEPT ![o].st = st]
  /\ UNCHANGED <<store, pc, local, rules, history>>

(* A tick: every age grows up to the last threshold it is compared with,    *)
(* and every backoff ends.  A cycle takes no more than seconds.             *)
AgeOrder(row) ==
  [row EXCEPT !.age = IF row.st = "new" /\ row.age < GraceAge THEN row.age + 1 ELSE row.age,
              !.wait = FALSE,
              !.seen = IF row.seen >= 0 /\ row.seen < LookbackAge THEN row.seen + 1
                                                                ELSE row.seen]
AgeEntry(e) == [e EXCEPT !.age = IF e.age < LookbackAge THEN e.age + 1 ELSE e.age]
Tick ==
  /\ pc = "idle"
  /\ idem' = [k \in Key |-> AgeRow(idem[k])]
  /\ orders' = [p \in Payload |-> AgeOrder(orders[p])]
  /\ book' = [o \in DOMAIN book |-> AgeEntry(book[o])]
  /\ UNCHANGED <<acts, pc, local, rules, history>>

ChangeRules ==
  /\ rules < MaxRules
  /\ pc = "idle"
  /\ rules' = rules + 1
  /\ UNCHANGED <<store, pc, local, book, history>>

-----------------------------------------------------------------------------
Init ==
  /\ idem = [k \in Key |-> FreshRow("NONE", 0)]
  /\ acts = [a \in ActionType \X Key |-> NoAction]
  /\ orders = [p \in Payload |-> NoOrder]
  /\ pc = "idle"
  /\ dry = FALSE
  /\ cycle = 0
  /\ todo = {}
  /\ cur = Nobody
  /\ registry = {}
  /\ missing = {}
  /\ sent = 0
  /\ got = NoId
  /\ book = <<>>
  /\ rules = 0
  /\ calls = [k \in Key |-> 0]
  /\ clears = [k \in Key |-> 0]
  /\ resent = {}
  /\ crashed = {}

Refresh ==
  \/ RefreshOpen
  \/ \E is429 \in BOOLEAN : RefreshOpenFails(is429)
  \/ \E skipped \in SUBSET missing, is429 \in BOOLEAN : RefreshAll(skipped, is429)

Execute ==
  \/ ExecuteGate
  \/ Suppressed
  \/ \E p \in Payload : Pick(p) \/ RejectPrecheck(p)
  \/ ReserveKey
  \/ RecoverWaits
  \/ RecoverFound
  \/ RecoverFails
  \/ MarkClient
  \/ RecordPlace
  \/ NoNewAction
  \/ BindAction
  \/ Simulate

Submit ==
  \/ SubmitGate
  \/ SendAcked
  \/ SendRejected
  \/ \E fate \in {"open", "flying", "dropped"}, again \in BOOLEAN : SendLost(fate, again)
  \/ \E next \in {"confirm", "save"} : ReconcileSubmit(next)
  \/ ReconcileFails
  \/ SaveNew
  \/ PromoteOpen
  \/ SaveOpen
  \/ AttachOrder
  \/ CommitKey
  \/ FailKey
  \/ ClearKey
  \/ MarkUnknown
  \/ Freeze

Environment ==
  \/ \E o \in DOMAIN book : Arrive(o) \/ \E st \in Closings : CloseOrder(o, st)
  \/ Tick
  \/ ChangeRules

Next ==
  \/ \E d \in BOOLEAN, intents \in SUBSET Payload : RunCycle(d, intents)
  \/ Refresh
  \/ Execute
  \/ Submit
  \/ Crash
  \/ Environment

Spec == Init /\ [][Next]_vars

-----------------------------------------------------------------------------
(* Properties *)

(* However often a key is reserved, recovered, failed, promoted and         *)
(* reserved again, over any number of cycles and crashes, execute_intents   *)
(* makes at most one submit call for it per definite rejection, plus one:   *)
(* the dedupe row recorded before the call outlives the reservation.        *)
SubmitCallsBounded ==
  \A k \in Key : calls[k] <= clears[k] + acts[<<"place_order", k>>].held

(* One key, one order: unless a submit call sent its request twice, at most *)
(* one request of a key ever reached (or is on its way to) the exchange.    *)
OneOrderPerKey ==
  \A o1, o2 \in DOMAIN book :
    book[o1].key = book[o2].key /\ book[o1].key \notin resent => o1 = o2

(* The order an idempotency key, once COMMITTED, names is an order that was *)
(* submitted for that very key (and not another one with equal fields).     *)
CommittedIsOwnOrder ==
  \A k \in Key : idem[k].status = "COMMITTED" /\ idem[k].oid # NoId
                   => idem[k].oid \in DOMAIN book /\ book[idem[k].oid].key = k

(* A local order that is closed is not open at the exchange: an order the   *)
(* bot stopped watching cannot still be traded on.                          *)
ClosedIsClosed ==
  \A p \in Payload : orders[p].st \in Terminal /\ orders[p].oid # NoId
                       => book[orders[p].oid].st \in {"filled", "canceled"}

(* An order at the exchange that may still trade and no local row points to.*)
Unaccounted(o) ==
  book[o].st \in {"flying", "open"} /\ \A p \in Payload : orders[p].oid # o

(* The freeze: no submit call is made while the outcome of an earlier one   *)
(* is open, unless the process died inside that call or sent it twice.      *)
FrozenWhileUnaccounted ==
  [][calls' # calls => \A o \in DOMAIN book :
       Unaccounted(o) => book[o].key \in crashed \cup resent]_vars

(* What the recovery of a stale reservation promises: marked FAILED "for    *)
(* retry", the key can be reserved again and its order submitted; so a key  *)
(* that ends COMMITTED had its order submitted.                             *)
CommittedWasSubmitted ==
  \A k \in Key : idem[k].status = "COMMITTED" => calls[k] > 0
=============================================================================
