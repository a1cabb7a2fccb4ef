----------------------------- MODULE FillLedger -----------------------------
(***************************************************************************)
(* The fills of one symbol on their way into the books of a Stage-4 cycle  *)
(* (services/stage4_cycle_runner.py): fetched with a cursor and a lookback *)
(* (services/accounting_service_stage4.py), written to ledger_events, to   *)
(* applied_fills, to the position and to the cursor in one transaction,    *)
(* reduced to FIFO lots from a checkpoint on (services/ledger_service.py,  *)
(* domain/ledger.py), and the realized profit split between trading        *)
(* capital and treasury (services/risk_budget_service.py).                 *)
(*                                                                         *)
(* A trade is numbered by its fill id.  The exchange may show a trade long *)
(* after it happened and out of order.  Amounts are integers in a unit in  *)
(* which no rounding happens; average costs are left out.                  *)
(***************************************************************************)
EXTENDS Integers, FiniteSets, SequencesExt

CONSTANTS
  Kind,       \* the trades that may happen: [side, qty, price, fee]
  Lookback,   \* lookback_minutes
  Seed,       \* available cash when the capital state is first written
  MaxTrades,  \* bound: trades at the exchange
  MaxTime     \* bound: the clock

ASSUME LedgerAssumption ==
  /\ Kind \subseteq [side : {"BUY", "SELL"}, qty : Nat \ {0}, price : Nat, fee : Nat]
  /\ Lookback \in Nat /\ Seed \in Nat /\ MaxTrades \in Nat /\ MaxTime \in Nat \ {0}

None == -1
Trade == 1..MaxTrades

VARIABLES
  trades,    \* the account's trades at the exchange: kind and time
  shown,     \* the trades the exchange reports
  now,
  rows,      \* ledger_events by rowid; a row stands for a FILL and its FEE
  applied,   \* applied_fills
  position,  \* stage4_positions: the quantity
  cursor,    \* fills_cursor (None: no row)
  ckpt,      \* ledger_reducer_checkpoints: last_rowid and the lots
  capital,   \* capital_policy_state (count = None: no row)
  pc,
  batch,     \* the fills fetched in this cycle
  newCursor, \* cursor_after
  outside,   \* history: trades shown, or left unread, beyond the lookback
  disorder   \* history: a row was written before one that is older

books == <<rows, applied, position, cursor>>
market == <<trades, shown, now>>
vars == <<market, books, ckpt, capital, pc, batch, newCursor, outside, disorder>>

Lot == [qty : Nat, cost : Nat]
Empty == [lots |-> <<>>, realized |-> 0, fees |-> 0, oversold |-> FALSE]
NoCheckpoint == [rowid |-> 0, state |-> Empty, usable |-> FALSE]

TypeOK ==
  /\ trades \in Seq([kind : Kind, ts : 1..MaxTime]) /\ Len(trades) <= MaxTrades
  /\ shown \subseteq DOMAIN trades
  /\ now \in 1..MaxTime
  /\ rows \in Seq(DOMAIN trades) /\ applied \subseteq DOMAIN trades
  /\ position \in Nat
  /\ cursor \in {None} \cup 0..MaxTime
  /\ ckpt.rowid \in 0..Len(rows) /\ ckpt.usable \in BOOLEAN
  /\ ckpt.state.lots \in Seq(Lot) /\ ckpt.state.realized \in Int /\ ckpt.state.fees \in Nat
  /\ ~ckpt.state.oversold
  /\ capital \in [trading : Int, treasury : Int, realized : Int, count : Nat \cup {None}]
  /\ pc \in {"idle", "commit", "reduce", "capital"}
  /\ batch \subseteq DOMAIN trades
  /\ newCursor \in {None} \cup 0..MaxTime
  /\ outside \subseteq DOMAIN trades /\ disorder \in BOOLEAN

-----------------------------------------------------------------------------
(* Reducing events to lots: apply_events.                                  *)

K(i) == trades[i].kind
Before(i, j) == trades[i].ts < trades[j].ts \/ (trades[i].ts = trades[j].ts /\ i < j)
(* The events of S, the oldest first: each at the number of those before.  *)
Sorted(S) == [n \in 1..Cardinality(S) |->
                CHOOSE i \in S : Cardinality({j \in S : Before(j, i)}) = n - 1]
Least(a, b) == IF a < b THEN a ELSE b

(* A sale takes from the oldest lots first.                                *)
Match(acc, lot) ==
  LET m == Least(acc.left, lot.qty)
  IN [acc EXCEPT !.left = @ - m,
                 !.gain = @ + (acc.price - lot.cost) * m,
                 !.lots = IF lot.qty > m THEN Append(@, [lot EXCEPT !.qty = @ - m]) ELSE @]

Matched(acc, lots) == FoldLeft(Match, acc, lots)
Sale(k, lots) == Matched([left |-> k.qty, price |-> k.price, gain |-> 0, lots |-> <<>>], lots)

ApplyEvent(st, i) ==
  LET k == K(i)
      sale == Sale(k, st.lots)
  IN IF k.side = "BUY"
       THEN [st EXCEPT !.lots = Append(@, [qty |-> k.qty, cost |-> k.price]),
                       !.fees = @ + k.fee]
       ELSE [st EXCEPT !.lots = sale.lots, !.realized = @ + sale.gain,
                       !.fees = @ + k.fee, !.oversold = @ \/ sale.left > 0]

Replayed(st, s) == FoldLeft(ApplyEvent, st, s)
ApplyEvents(st, S) == Replayed(st, Sorted(S))

(* The number of FILL and FEE events in the table.                         *)
EventCount == Len(rows) + Cardinality({n \in DOMAIN rows : K(rows[n]).fee > 0})

-----------------------------------------------------------------------------
(* Fetching: fetch_new_fills.                                              *)

Floor(t) == IF t < 0 THEN 0 ELSE t

(* Mutant: the cursor is taken for the next fill to read.                  *)
MutSince == IF cursor = None THEN Floor(now - Lookback) ELSE cursor + 1

Since == Floor((IF cursor = None THEN now ELSE cursor) - Lookback)

Fetch ==
  LET got == {i \in shown : trades[i].ts >= Since}
      last == {trades[i].ts : i \in got} \cup {IF cursor = None THEN 0 ELSE cursor}
      top == CHOOSE t \in last : \A u \in last : u <= t
  IN /\ pc = "idle"
     /\ batch' = got
     /\ newCursor' = IF top > 0 THEN top ELSE None
     /\ outside' = IF cursor = None THEN outside \cup (shown \ got) ELSE outside
     /\ pc' = "commit"
     /\ UNCHANGED <<market, books, ckpt, capital, disorder>>

(* The call failed: no fills, no cursor, the cycle goes on.                *)
FetchFails ==
  /\ pc = "idle"
  /\ batch' = {} /\ newCursor' = None
  /\ pc' = "commit"
  /\ UNCHANGED <<market, books, ckpt, capital, outside, disorder>>

-----------------------------------------------------------------------------
(* The transaction: ingest_exchange_updates, apply_fills, set_cursor.      *)

Idle == pc' = "idle" /\ batch' = {} /\ newCursor' = None

(* Mutant: a fill that was applied before is applied again.                *)
MutNew(i) == TRUE

(* mark_fill_applied: the fill is not in the table yet.                    *)
New(i) == i \notin applied

Book(pos, i) == IF K(i).side = "BUY" THEN pos + K(i).qty ELSE pos - K(i).qty
Booked(pos, s) == FoldLeft(Book, pos, s)
Fresh == Sorted({i \in batch : New(i)})
(* Mutant: a sale of more than the position holds is booked.               *)
MutOversell == FALSE

(* apply_fills raises at the first sale of more than the position holds.   *)
Oversell == \E n \in 1..Len(Fresh) : Booked(position, SubSeq(Fresh, 1, n)) < 0

(* failed: a symbol without a mark price keeps its old cursor.             *)
Commit(failed) ==
  /\ pc = "commit"
  /\ ~Oversell
  /\ rows' = rows \o Sorted(batch \ ToSet(rows))
  /\ applied' = applied \cup batch
  /\ position' = Booked(position, Fresh)
  /\ cursor' = IF failed \/ newCursor = None THEN cursor ELSE newCursor
  /\ disorder' = (disorder \/ \E i \in ToSet(rows), j \in batch \ ToSet(rows) :
                                Before(j, i))
  /\ pc' = "reduce" /\ batch' = {} /\ newCursor' = None
  /\ UNCHANGED <<market, ckpt, capital, outside>>

(* AccountingIntegrityError: everything is rolled back, the cycle ends.    *)
RollBack ==
  /\ pc = "commit"
  /\ Oversell
  /\ Idle
  /\ UNCHANGED <<market, books, ckpt, capital, outside, disorder>>

-----------------------------------------------------------------------------
(* load_state_incremental, twice in a cycle (report and checkpoint).       *)

(* Mutant: the realized profit is not restored from the snapshot.          *)
MutFrom == IF ckpt.usable THEN [ckpt EXCEPT !.state.realized = 0] ELSE NoCheckpoint

From == IF ckpt.usable THEN ckpt ELSE NoCheckpoint
Delta == {rows[n] : n \in (From.rowid + 1)..Len(rows)}
Reduced == ApplyEvents(From.state, Delta)

Reduce ==
  /\ pc = "reduce"
  /\ ~Reduced.oversold
  /\ ckpt' = [rowid |-> Len(rows), state |-> Reduced, usable |-> TRUE]
  /\ pc' = "capital"
  /\ UNCHANGED <<market, books, capital, batch, newCursor, outside, disorder>>

(* oversell_invariant_violation: the checkpoint stays.                     *)
ReduceFails ==
  /\ pc = "reduce"
  /\ Reduced.oversold
  /\ Idle
  /\ UNCHANGED <<market, books, ckpt, capital, outside, disorder>>

(* A new process cannot read the snapshot back or has another version.     *)
LoseCheckpoint ==
  /\ pc = "idle"
  /\ ckpt.usable
  /\ ckpt' = [ckpt EXCEPT !.usable = FALSE]
  /\ UNCHANGED <<market, books, capital, pc, batch, newCursor, outside, disorder>>

-----------------------------------------------------------------------------
(* apply_self_financing_checkpoint.                                        *)

Loaded == IF capital.count = None
            THEN [trading |-> Seed, treasury |-> 0, realized |-> 0, count |-> 0]
            ELSE capital

(* Mutant: the whole realized profit is split again.                       *)
MutProfit == ckpt.state.realized

Profit == ckpt.state.realized - Loaded.realized

(* Applied before, or an error that ends the cycle: fewer events, the same *)
(* events with another profit, or a profit that went down.                 *)
Settled == EventCount <= Loaded.count \/ ckpt.state.realized < Loaded.realized

(* SelfFinancingPolicy: 60 % compounds, 40 % goes to the treasury.         *)
ApplyCapital ==
  /\ pc = "capital"
  /\ capital' = IF Settled THEN Loaded
                ELSE [trading |-> Loaded.trading + (Profit * 6) \div 10,
                      treasury |-> Loaded.treasury + (Profit * 4) \div 10,
                      realized |-> ckpt.state.realized, count |-> EventCount]
  /\ Idle
  /\ UNCHANGED <<market, books, ckpt, outside, disorder>>

Crash ==
  /\ pc # "idle"
  /\ Idle
  /\ UNCHANGED <<market, books, ckpt, capital, outside, disorder>>

-----------------------------------------------------------------------------
(* The exchange and the clock.                                             *)
Happen(k) ==
  /\ Len(trades) < MaxTrades
  /\ trades' = Append(trades, [kind |-> k, ts |-> now])
  /\ UNCHANGED <<shown, now, books, ckpt, capital, pc, batch, newCursor, outside, disorder>>

Show(i) ==
  /\ i \notin shown
  /\ shown' = shown \cup {i}
  /\ outside' = IF now > trades[i].ts + Lookback THEN outside \cup {i} ELSE outside
  /\ UNCHANGED <<trades, now, books, ckpt, capital, pc, batch, newCursor, disorder>>

Tick ==
  /\ now < MaxTime
  /\ now' = now + 1
  /\ UNCHANGED <<trades, shown, books, ckpt, capital, pc, batch, newCursor, outside, disorder>>

Init ==
  /\ trades = <<>> /\ shown = {} /\ now = 1
  /\ rows = <<>> /\ applied = {} /\ position = 0 /\ cursor = None
  /\ ckpt = NoCheckpoint
  /\ capital = [trading |-> 0, treasury |-> 0, realized |-> 0, count |-> None]
  /\ pc = "idle" /\ batch = {} /\ newCursor = None
  /\ outside = {} /\ disorder = FALSE

Next ==
  \/ Fetch
  \/ FetchFails
  \/ \E failed \in BOOLEAN : Commit(failed)
  \/ RollBack
  \/ Reduce
  \/ ReduceFails
  \/ LoseCheckpoint
  \/ ApplyCapital
  \/ Crash
  \/ \E k \in Kind : Happen(k)
  \/ \E i \in DOMAIN trades : Show(i)
  \/ Tick

Spec == Init /\ [][Next]_vars

-----------------------------------------------------------------------------
(* Properties *)

Net(s) == Booked(0, s)
Add(q, lot) == q + lot.qty
Quantity(lots) == FoldLeft(Add, 0, lots)
Held(st) == Quantity(st.lots)

(* The books agree: refetched within the lookback, retried after a crash   *)
(* or a rollback, every fill counts once in the ledger, in the position    *)
(* and in the lots of the checkpoint.                                      *)
BooksAgree ==
  /\ ToSet(rows) = applied /\ Cardinality(applied) = Len(rows)
  /\ position = Net(rows)
  /\ Held(ckpt.state) = Net(SubSeq(rows, 1, ckpt.rowid))

(* A fill the exchange reports in time is never skipped by the cursor: it  *)
(* is applied, or the next fetch still asks for it.                        *)
NoFillSkipped ==
  cursor # None => \A i \in shown \ (applied \cup outside) : trades[i].ts >= cursor - Lookback

(* Realized profit is split exactly once, whatever crashed between the     *)
(* ledger checkpoint and the capital state and whatever was replayed.      *)
ProfitSplitOnce ==
  capital.count # None => capital.trading + capital.treasury = Seed + capital.realized

(* As long as rows are written in the order of their times, the checkpoint *)
(* is what a replay of all its rows gives.                                 *)
InOrderReplay ==
  ~disorder => ckpt.state = ApplyEvents(Empty, ToSet(SubSeq(rows, 1, ckpt.rowid)))

(* What the documentation expects: the checkpoint and a full replay of the *)
(* ledger match exactly.                                                   *)
CheckpointMatchesReplay ==
  ckpt.state = ApplyEvents(Empty, ToSet(SubSeq(rows, 1, ckpt.rowid)))
=============================================================================
