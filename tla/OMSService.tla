----------------------------- MODULE OMSService -----------------------------
(***************************************************************************)
(* Order management of Stage 7: services/oms_service.py behind the port of *)
(* services/planning_kernel_adapters.py, with the tables stage7_orders,    *)
(* stage7_order_events and stage7_idempotency_keys, and the booking of     *)
(* simulated fills by services/stage7_cycle_runner.py.                     *)
(*                                                                         *)
(* A cycle first offers the non-terminal orders again (reconcile), then    *)
(* the intents it planned.  Both go through process_intents, which keeps   *)
(* orders and events in memory and writes them in one transaction at the   *)
(* end; only the idempotency keys are written on the way.  Cycle ids are   *)
(* part of the client order ids; a cycle that died may be run again under  *)
(* its own id, as backtests do on an existing database.                    *)
(***************************************************************************)
EXTENDS Integers, FiniteSets, Sequences

CONSTANTS
  Cid,          \* client order ids: numbers, in the order they are sorted by
  MaxCycle,     \* bound: cycle ids are 1..MaxCycle
  Owner,        \* Owner[c]: the cycle whose id is in c
  Invalid,      \* client order ids whose price, quantity or notional is not positive
  Sliced,       \* client order ids the simulator fills in two parts
  None,         \* no row
  Terms,        \* the constraints a plan may apply to an intent: part of its
                \* hash and not of its client order id
  Burst,        \* stage7_rate_limit_burst
  MaxAttempts,  \* stage7_retry_max_attempts
  MaxRuns       \* bound: how many cycles are started

ASSUME OMSAssumption ==
  /\ Cid \subseteq Nat /\ IsFiniteSet(Cid)
  /\ MaxCycle \in Nat /\ MaxRuns \in Nat /\ Burst \in Nat \ {0}
  /\ Owner \in [Cid -> 1..MaxCycle]
  /\ Invalid \subseteq Cid /\ Sliced \subseteq Cid
  /\ MaxAttempts \in Nat \ {0}
  /\ "reconcile" \notin Terms

Terminal == {"FILLED", "CANCELED", "REJECTED"}
OrderStatus == {"PLANNED", "SUBMITTED", "ACKED", "PARTIALLY_FILLED"} \cup Terminal
Lifecycle == {"SUBMIT_REQUESTED", "ACKED", "PARTIAL_FILL", "FILLED", "REJECTED", "CANCELED"}
EventType == Lifecycle \cup {"DUPLICATE_IGNORED", "THROTTLED", "IDEMPOTENCY_CONFLICT",
                             "RETRY_SCHEDULED", "RETRY_GIVEUP"}

(* The quantity of every order, in units a partial fill takes one of.      *)
Qty == 2

Order == [status : OrderStatus, filled : 0..Qty]
Draft == [o : Order, es : Seq(EventType)]

(* make_intent_hash: two intents for one id may differ in the cycle (when  *)
(* it is offered again by a later one) and in the terms.                   *)
Hash == (1..MaxCycle) \X (Terms \cup {"reconcile"})
(* _deterministic_fill_id *)
FillId == (1..MaxCycle) \X Cid

ASSUME NoneAssumption == None \notin Order \cup Draft \cup Hash

VARIABLES
  orders,   \* stage7_orders
  events,   \* stage7_order_events: the pairs of sequence number and type
  keys,     \* stage7_idempotency_keys: the hash registered for the id
  fills,    \* fills
  applied,  \* applied_fills
  ledger,   \* ledger_events: the FILL events (each with its FEE event)
  pc,
  cycle,    \* the cycle that runs or ran last
  terms,    \* "reconcile", then the terms of the planned intents
  todo,     \* intents of the batch still to process
  planned,  \* the intents of the cycle
  cancels,  \* cancel requests of the cycle
  tokens,   \* the limiter of this process_intents call
  attempt,  \* the submit attempt under way
  draft,    \* applied_orders and events_to_append, by id
  report,   \* FILLED orders of both batches, then the fills still to write
  runs,     \* cycles started so far
  sent,     \* history: submits the adapter accepted, by id
  lost      \* history: orders that were FILLED and not booked when a cycle died

tables == <<orders, events, keys, fills, applied, ledger>>
batch == <<todo, tokens, attempt, draft>>
plan == <<cycle, terms, planned, cancels, runs>>
vars == <<tables, batch, plan, pc, report, sent, lost>>

PC == {"idle", "next", "submit", "save", "mark", "append"}

TypeOK ==
  /\ orders \in [Cid -> Order \cup {None}]
  /\ events \in [Cid -> SUBSET (Nat \X EventType)]
  /\ keys \in [Cid -> Hash \cup {None}]
  /\ fills \subseteq FillId /\ applied \subseteq FillId /\ ledger \subseteq FillId
  /\ pc \in PC
  /\ cycle \in 0..MaxCycle /\ runs \in 0..MaxRuns
  /\ terms \in Terms \cup {"reconcile"}
  /\ todo \subseteq Cid /\ planned \subseteq Cid /\ cancels \subseteq Cid
  /\ tokens \in 0..Burst /\ attempt \in 1..MaxAttempts
  /\ draft \in [Cid -> Draft \cup {None}]
  /\ report \subseteq Cid /\ lost \subseteq Cid
  /\ sent \in [Cid -> Nat]
  /\ pc = "submit" => todo # {}
  /\ pc # "idle" => cycle # 0

Init ==
  /\ orders = [c \in Cid |-> None] /\ events = [c \in Cid |-> {}]
  /\ keys = [c \in Cid |-> None]
  /\ fills = {} /\ applied = {} /\ ledger = {}
  /\ pc = "idle" /\ cycle = 0 /\ terms = "reconcile"
  /\ todo = {} /\ planned = {} /\ cancels = {}
  /\ tokens = 0 /\ attempt = 1
  /\ draft = [c \in Cid |-> None]
  /\ report = {} /\ runs = 0
  /\ sent = [c \in Cid |-> 0] /\ lost = {}

-----------------------------------------------------------------------------
(* _transition_once and _append_event, on an order in memory and its new   *)
(* events.                                                                 *)
Log(w, type) == [w EXCEPT !.es = Append(@, type)]

(* existing_event_types *)
Seen(c) == {e[2] : e \in events[c]}

(* allowed_transitions *)
Allowed(from) ==
  CASE from = "PLANNED" -> {"SUBMITTED", "CANCELED", "REJECTED"}
    [] from = "SUBMITTED" -> {"ACKED", "CANCELED", "REJECTED"}
    [] from = "ACKED" -> {"PARTIALLY_FILLED", "FILLED", "CANCELED", "REJECTED"}
    [] from = "PARTIALLY_FILLED" -> {"PARTIALLY_FILLED", "FILLED", "CANCELED"}
    [] OTHER -> {}

Transition(c, w, type, status, filled) ==
  IF type \in Seen(c) \/ (status # w.o.status /\ status \notin Allowed(w.o.status))
    THEN w
    ELSE Log([w EXCEPT !.o = [status |-> status, filled |-> filled]], type)

(* The order an intent starts from: the stored one or a new one.           *)
Found(c) ==
  [o |-> IF orders[c] = None THEN [status |-> "PLANNED", filled |-> 0] ELSE orders[c],
   es |-> <<>>]

(* RETRY_SCHEDULED for every attempt but the last.                         *)
Retried(c) == [Found(c) EXCEPT !.es = [k \in 1..(attempt - 1) |-> "RETRY_SCHEDULED"]]

(* SUBMIT_REQUESTED and ACKED.                                             *)
Acked(c) ==
  LET w == Transition(c, Retried(c), "SUBMIT_REQUESTED", "SUBMITTED", Found(c).o.filled)
  IN  Transition(c, w, "ACKED", "ACKED", w.o.filled)

Rejected(c, w) == Transition(c, w, "REJECTED", "REJECTED", w.o.filled)

(* PARTIAL_FILL for the first of two slices, FILLED for the rest.          *)
Filled(c) ==
  LET w == IF c \in Sliced
             THEN Transition(c, Acked(c), "PARTIAL_FILL", "PARTIALLY_FILLED", Acked(c).o.filled + 1)
             ELSE Acked(c)
  IN  Transition(c, w, "FILLED", "FILLED", Qty)

-----------------------------------------------------------------------------
Goto(l) == pc' = l

(* A process_intents call starts with a limiter of its own.                *)
Batch(S) ==
  /\ todo' = S
  /\ tokens' = Burst /\ attempt' = 1
  /\ draft' = [c \in Cid |-> None]

(* load_non_terminal_orders *)
NonTerminal == {c \in Cid : orders[c] # None /\ orders[c].status \notin Terminal}

(* Stage7CycleRunner plans S and asks the port to reconcile: the stored    *)
(* orders that are not terminal go first.                                  *)
BeginCycle(k, S, X) ==
  /\ pc = "idle" /\ runs < MaxRuns
  /\ runs' = runs + 1
  /\ cycle' = k
  /\ planned' = S /\ cancels' = X
  /\ terms' = "reconcile"
  /\ Batch(NonTerminal)
  /\ report' = {}
  /\ Goto("next")
  /\ UNCHANGED <<tables, sent, lost>>

(* The next intent of the batch, sorted by client order id.                *)
Current(c) == pc = "next" /\ c \in todo /\ \A d \in todo : c <= d

(* The checks of process_intents, in order; each holds where the ones      *)
(* before it do not.                                                       *)
Canceled(c) == terms # "reconcile" /\ c \in cancels
Checked(c) == Current(c) /\ c \notin Invalid /\ ~Canceled(c)
Open(c) == Checked(c) /\ Found(c).o.status \notin Terminal

(* The intent is done with; nothing but memory changes.                    *)
Finish(c, w) ==
  /\ draft' = [draft EXCEPT ![c] = w]
  /\ todo' = todo \ {c}
  /\ attempt' = 1
  /\ Goto("next")
  /\ UNCHANGED <<orders, events, fills, applied, ledger, plan, report, lost>>

RejectInvalid(c) ==
  /\ Current(c) /\ c \in Invalid
  /\ Finish(c, Rejected(c, Found(c)))
  /\ UNCHANGED <<keys, tokens, sent>>

CancelRequested(c) ==
  /\ Current(c) /\ c \notin Invalid /\ Canceled(c)
  /\ Finish(c, Transition(c, Found(c), "CANCELED", "CANCELED", Found(c).o.filled))
  /\ UNCHANGED <<keys, tokens, sent>>

IgnoreTerminal(c) ==
  /\ Checked(c) /\ Found(c).o.status \in Terminal
  /\ Finish(c, Log(Found(c), "DUPLICATE_IGNORED"))
  /\ UNCHANGED <<keys, tokens, sent>>

(* The limiter has no token left; it may also have refilled meanwhile.     *)
Throttle(c) ==
  /\ Open(c) /\ tokens = 0
  /\ Finish(c, Log(Found(c), "THROTTLED"))
  /\ UNCHANGED <<keys, tokens, sent>>

Consume == tokens' = IF tokens = 0 THEN 0 ELSE tokens - 1

(* Mutant: a key counts only together with a stored order. *)
MutRegistered(c) == keys[c] # None /\ orders[c] # None

(* try_register_idempotency_key finds the key.                             *)
Registered(c) == keys[c] # None

(* ... under another hash *)
Conflict(c) ==
  /\ Open(c) /\ Registered(c) /\ keys[c] # <<cycle, terms>>
  /\ Consume
  /\ Finish(c, Rejected(c, Log(Found(c), "IDEMPOTENCY_CONFLICT")))
  /\ UNCHANGED <<keys, sent>>

(* ... under the same one *)
IgnoreDuplicate(c) ==
  /\ Open(c) /\ Registered(c) /\ keys[c] = <<cycle, terms>>
  /\ Consume
  /\ Finish(c, Log(Found(c), "DUPLICATE_IGNORED"))
  /\ UNCHANGED <<keys, sent>>

(* The key is new: it is stored before anything else is.                   *)
RegisterKey(c) ==
  /\ Open(c) /\ ~Registered(c)
  /\ Consume
  /\ keys' = [keys EXCEPT ![c] = <<cycle, terms>>]
  /\ Goto("submit")
  /\ UNCHANGED <<orders, events, fills, applied, ledger, plan, todo, attempt, draft,
                 report, sent, lost>>

Submitting(c) == pc = "submit" /\ c \in todo /\ \A d \in todo : c <= d

(* Mutant: one attempt too many. *)
MutSubmitAgain ==
  /\ pc = "submit" /\ attempt <= MaxAttempts
  /\ attempt' = attempt + 1
  /\ UNCHANGED <<tables, plan, pc, todo, tokens, draft, report, sent, lost>>

(* retry_with_backoff: a transient error, and another attempt.             *)
SubmitAgain ==
  /\ pc = "submit" /\ attempt < MaxAttempts
  /\ attempt' = attempt + 1
  /\ UNCHANGED <<tables, plan, pc, todo, tokens, draft, report, sent, lost>>

(* A transient error on the last attempt.                                  *)
GiveUp(c) ==
  /\ Submitting(c) /\ attempt = MaxAttempts
  /\ Finish(c, Log(Retried(c), "RETRY_GIVEUP"))
  /\ UNCHANGED <<keys, tokens, sent>>

(* The adapter takes the order; the simulator rejects or fills it.         *)
SubmitAccepted(c, rejects) ==
  /\ Submitting(c)
  /\ sent' = [sent EXCEPT ![c] = @ + 1]
  /\ Finish(c, IF rejects THEN Rejected(c, Acked(c)) ELSE Filled(c))
  /\ UNCHANGED <<keys, tokens>>

-----------------------------------------------------------------------------
(* upsert_stage7_orders and append_stage7_order_events (INSERT OR IGNORE   *)
(* by sequence number and type).                                           *)
Stored(c) == IF draft[c] = None THEN orders[c] ELSE draft[c].o

(* Mutant: sequence numbers start again with every batch. *)
MutRecorded(c) ==
  IF draft[c] = None THEN events[c]
  ELSE events[c] \cup {<<k, draft[c].es[k]>> : k \in 1..Len(draft[c].es)}

Recorded(c) ==
  IF draft[c] = None THEN events[c]
  ELSE events[c] \cup {<<Cardinality(events[c]) + k, draft[c].es[k]>> : k \in 1..Len(draft[c].es)}

(* Mutant: only the orders of the second batch are reported. *)
MutReported == IF terms = "reconcile" THEN {}
               ELSE {c \in Cid : draft[c] # None /\ draft[c].o.status = "FILLED"}

(* The FILLED orders of process_intents' answer. *)
Reported == report \cup {c \in Cid : draft[c] # None /\ draft[c].o.status = "FILLED"}

(* The one transaction at the end of process_intents.                      *)
Commit ==
  /\ pc = "next" /\ todo = {}
  /\ orders' = [c \in Cid |-> Stored(c)]
  /\ events' = [c \in Cid |-> Recorded(c)]
  /\ report' = Reported
  /\ UNCHANGED <<keys, fills, applied, ledger, cycle, planned, cancels, runs, sent, lost>>

(* After the stored orders come the planned intents, with terms v ...      *)
CommitReconciled(v) ==
  /\ terms = "reconcile"
  /\ Commit
  /\ terms' = v
  /\ Batch(planned)
  /\ Goto("next")

(* ... and after these the fills.                                          *)
CommitPlanned ==
  /\ terms # "reconcile"
  /\ Commit
  /\ Batch({})
  /\ Goto("save")
  /\ UNCHANGED terms

Fill(c) == <<cycle, c>>

(* save_fill for every order, then mark_fill_applied for every order, each *)
(* a transaction of its own.                                               *)
SaveFill ==
  /\ pc = "save"
  /\ \/ \E c \in report : Fill(c) \notin fills /\ fills' = fills \cup {Fill(c)} /\ UNCHANGED pc
     \/ (\A c \in report : Fill(c) \in fills) /\ Goto("mark") /\ UNCHANGED fills
  /\ UNCHANGED <<orders, events, keys, applied, ledger, plan, batch, report, sent, lost>>

MarkFillApplied ==
  /\ pc = "mark"
  /\ \/ \E c \in report : Fill(c) \notin applied /\ applied' = applied \cup {Fill(c)} /\ UNCHANGED pc
     \/ (\A c \in report : Fill(c) \in applied) /\ Goto("append") /\ UNCHANGED applied
  /\ UNCHANGED <<orders, events, keys, fills, ledger, plan, batch, report, sent, lost>>

(* append_ledger_events: INSERT OR IGNORE by event id, in one transaction. *)
AppendLedger ==
  /\ pc = "append"
  /\ ledger' = ledger \cup {Fill(c) : c \in report}
  /\ report' = {}
  /\ Goto("idle")
  /\ UNCHANGED <<orders, events, keys, fills, applied, plan, batch, sent, lost>>

Booked(c) == {f \in ledger : f[2] = c}
IsFilled(c) == orders[c] # None /\ orders[c].status = "FILLED"

(* The process dies, or a submit error that is not transient ends the      *)
(* cycle: what is in memory is gone.                                       *)
CycleDies ==
  /\ pc # "idle"
  /\ lost' = lost \cup {c \in Cid : IsFilled(c) /\ Booked(c) = {}}
  /\ Batch({}) /\ report' = {}
  /\ Goto("idle")
  /\ UNCHANGED <<tables, plan, sent>>

Next ==
  \/ \E k \in {cycle, cycle + 1} \cap 1..MaxCycle :
       \E S \in SUBSET {c \in Cid : Owner[c] = k} : \E X \in SUBSET S : BeginCycle(k, S, X)
  \/ \E c \in Cid :
       \/ RejectInvalid(c) \/ CancelRequested(c) \/ IgnoreTerminal(c) \/ Throttle(c)
       \/ Conflict(c) \/ IgnoreDuplicate(c) \/ RegisterKey(c) \/ GiveUp(c)
       \/ \E rejects \in BOOLEAN : SubmitAccepted(c, rejects)
  \/ SubmitAgain
  \/ (\E v \in Terms : CommitReconciled(v)) \/ CommitPlanned
  \/ SaveFill \/ MarkFillApplied \/ AppendLedger
  \/ CycleDies

Spec == Init /\ [][Next]_vars

-----------------------------------------------------------------------------
(* What a lifecycle event makes of an order.                               *)
StatusOf(type) ==
  CASE type = "SUBMIT_REQUESTED" -> "SUBMITTED"
    [] type = "PARTIAL_FILL" -> "PARTIALLY_FILLED"
    [] OTHER -> type

Happened(c) == {e \in events[c] : e[2] \in Lifecycle}

(* The two tables tell the same story over any number of batches, crashes  *)
(* and reruns: no event was swallowed by INSERT OR IGNORE (the sequence    *)
(* numbers of an order have no gap), no lifecycle event occurs twice, and  *)
(* the status of an order is that of its last lifecycle event.             *)
EventsMatchStatus ==
  \A c \in Cid :
    /\ {e[1] : e \in events[c]} = 1..Cardinality(events[c])
    /\ \A e, f \in Happened(c) : e[2] = f[2] => e = f
    /\ orders[c] = None => events[c] = {}
    /\ orders[c] # None =>
         IF Happened(c) = {} THEN orders[c] = [status |-> "PLANNED", filled |-> 0]
         ELSE \E e \in Happened(c) :
                /\ \A f \in Happened(c) : f[1] <= e[1]
                /\ orders[c].status = StatusOf(e[2])
                /\ (orders[c].filled = Qty) = (e[2] = "FILLED")

(* What OrderLifecycle knows of an order: how it ended, how often the      *)
(* adapter took it and how often the ledger has it.                        *)
Ended(c) ==
  CASE orders[c] = None -> "NONE"
    [] orders[c] # None /\ orders[c].status \in Terminal -> orders[c].status
    [] OTHER -> "OPEN"

Lifecycle7 == INSTANCE OrderLifecycle WITH
  Order  <- Cid,
  status <- [c \in Cid |-> Ended(c)],
  taken  <- sent,
  booked <- [c \in Cid |-> Cardinality(Booked(c))]

(* Order management implements the life of an order: however often an      *)
(* intent is offered again (a rerun of its cycle, a reconcile by a later   *)
(* one, after a crash that kept the key and lost the order), the adapter   *)
(* takes it at most once, no batch, cancel request or conflict changes an  *)
(* order that is over, and nothing is booked twice (process_intents,       *)
(* _transition_once, append_ledger_events).                                *)
ImplementsLifecycle == Lifecycle7!LifecycleSpec

(* A filled order has exactly one fill in the ledger once the cycle is     *)
(* over, whichever of the two batches filled it and however often the      *)
(* cycle was run; only an order that was filled when a cycle died before   *)
(* the ledger was written may have none.                                   *)
FilledIsBooked ==
  \A c \in Cid :
    /\ Cardinality(Booked(c)) <= 1
    /\ Booked(c) # {} => IsFilled(c)
    /\ pc = "idle" /\ IsFilled(c) /\ c \notin lost => Booked(c) # {}
=============================================================================
