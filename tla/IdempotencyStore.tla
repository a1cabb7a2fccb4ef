-------------------------- MODULE IdempotencyStore --------------------------
(***************************************************************************)
(* The idempotency_keys and actions tables of services/state_store.py, as  *)
(* the operators that one SQLite transaction applies to one row.  The      *)
(* services that place and cancel orders (ExecutionService, StaleCancel)   *)
(* keep a function from keys to these rows and apply the operators to it.  *)
(*                                                                         *)
(* Time is measured in ticks: a row keeps its age, and the thresholds the  *)
(* code compares it with are constants.  A row that is not in the table    *)
(* has status "NONE".                                                      *)
(***************************************************************************)
EXTENDS Integers

CONSTANTS
  GraceAge,      \* age from which a PENDING row is stale (60 seconds)
  ExpiryAge,     \* age from which a row is expired (7 days, 1 day for cancels)
  MaxRecovery    \* pending_recovery_max_attempts

ASSUME IdempotencyAssumption ==
  /\ GraceAge \in Nat \ {0}
  /\ ExpiryAge \in Nat
  /\ GraceAge <= ExpiryAge
  /\ MaxRecovery \in Nat \ {0}

(* No order id: NULL in the table. *)
NoId == 0

IdemStatus == {"NONE", "PENDING", "COMMITTED", "FAILED", "UNKNOWN", "SIMULATED"}

(* A row of idempotency_keys: act and coid say whether action_id and        *)
(* client_order_id are set, wait whether next_recovery_at_epoch is ahead.   *)
IdemRow(Hash, OrderId) ==
  [status : IdemStatus, hash : Hash, age : 0..ExpiryAge, act : BOOLEAN,
   coid : BOOLEAN, oid : OrderId \cup {NoId}, tries : 0..MaxRecovery, wait : BOOLEAN]

FreshRow(st, h) ==
  [status |-> st, hash |-> h, age |-> 0, act |-> FALSE, coid |-> FALSE,
   oid |-> NoId, tries |-> 0, wait |-> FALSE]

(* The status reserve_idempotency_key works with: a PENDING row that is     *)
(* stale and that nothing was ever attached to is first marked FAILED.      *)
StatusForReserve(r) ==
  IF r.status = "PENDING" /\ r.age >= GraceAge /\ ~r.act /\ ~r.coid
    THEN "FAILED" ELSE r.status

(* A simulated (dry-run) reservation that a live caller may take over.      *)
Promotable(r, promote) ==
  promote /\ r.status = "SIMULATED" /\ r.age < ExpiryAge

(* reserve_idempotency_key: "reserved" gives the caller a fresh PENDING     *)
(* row, "held" leaves the row with its owner, "conflict" is                 *)
(* IdempotencyConflictError (the same key with another payload hash).       *)
ReserveResult(r, h, promote) ==
  IF r.status = "NONE" THEN "reserved"
  ELSE IF r.hash # h /\ ~(promote /\ r.status = "SIMULATED") THEN "conflict"
  ELSE IF Promotable(r, promote) \/ StatusForReserve(r) = "FAILED" THEN "reserved"
  ELSE "held"

Reserve(r, h, promote) ==
  IF ReserveResult(r, h, promote) = "reserved" THEN FreshRow("PENDING", h) ELSE r

(* finalize_idempotency_key: COALESCE keeps what the caller passes as NULL; *)
(* the UPDATE touches nothing when the row is gone.                         *)
Finalize(r, act, coid, oid, st) ==
  IF r.status = "NONE" THEN r
  ELSE [r EXCEPT !.act = @ \/ act,
                 !.coid = @ \/ coid,
                 !.oid = IF oid # NoId THEN oid ELSE @,
                 !.status = st]

(* update_idempotency_recovery.                                             *)
SetRecovery(r, tries, wait, st) ==
  IF r.status = "NONE" THEN r
  ELSE [r EXCEPT !.tries = tries, !.wait = wait, !.status = st]

(* prune_expired_idempotency_keys, for one row.                             *)
Prune(r) == IF r.age >= ExpiryAge THEN FreshRow("NONE", r.hash) ELSE r

(* The passing of one tick.                                                 *)
AgeRow(r) ==
  [r EXCEPT !.age = IF r.status = "NONE" \/ @ = ExpiryAge THEN @ ELSE @ + 1,
            !.wait = FALSE]

(* The actions table as one dedupe key sees it: how many rows hold the key  *)
(* (a unique column), and the client order id and order id attached to it.  *)
ActRow(OrderId) == [held : 0..1, coid : BOOLEAN, oid : OrderId \cup {NoId}]
NoAction == [held |-> 0, coid |-> FALSE, oid |-> NoId]

(* Mutant: the dedupe_key column is not unique.                             *)
MutCanRecord(a) == TRUE

(* record_action: INSERT OR IGNORE on the unique dedupe_key.                *)
CanRecord(a) == a.held = 0
RecordAction(a) == [held |-> 1, coid |-> FALSE, oid |-> NoId]
(* attach_action_metadata: client_order_id and order_id of the action row.  *)
AttachAction(a, oid) == [a EXCEPT !.coid = TRUE, !.oid = oid]
(* clear_action_dedupe_key.                                                 *)
ClearDedupe(a) == NoAction
=============================================================================
