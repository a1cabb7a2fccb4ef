# Verification of the BTCTurk trading bot

TLA+ models of `src/src/btcbot`, checked with TLC and, where stated, proved with TLAPS.
Every definition that stands for code is listed under `map` in `PROJECT.json` with the
lines it translates; every property of a passing run has a mutant of the code that breaks it.

## 1. The system

A bot that runs cycles (cron-like or in a loop) against the BTCTurk exchange, keeps all of
its memory in one SQLite file per role (`services/state_store.py`) and has grown in stages
that live side by side:

| Part | State it keeps | Operations | Hard behaviour |
|---|---|---|---|
| Stage-3 execution (`execution_service.py`, `execution_wrapper.py`, `unknown_order_registry.py`) | `idempotency_keys`, `actions`, `orders`; registry in memory | refresh orders, execute intents, cancel stale orders, recover stale reservations | crash between any two transactions; lost answers; resends; freeze on unknown orders |
| Stage-4 cycle (`stage4_cycle_runner.py`, `execution_service_stage4.py`, `reconcile_service.py`, `orders_repo.py`) | `stage4_orders`, `stage4_freeze`, kill switch, symbol cooldowns | list, reconcile, evaluate the freeze, plan, submit, cancel | decisions from an answer that is stale when used; ids that differ on both sides |
| Replace transactions (`execution_service_stage4.py`, `state_store.py`) | `stage4_replace_tx` | cancel old, confirm, submit new | re-execution after a crash in the middle |
| Fill accounting and ledger (`accounting_service_stage4.py`, `ledger_service.py`, `domain/ledger.py`, `risk_budget_service.py`) | fills, applied fills, positions, cursor, ledger events, reducer checkpoint, capital state | fetch, apply, reduce, split the profit | overlapping windows, late fills, rollback, lost checkpoints |
| Stage-7 order management (`oms_service.py`, `stage7_cycle_runner.py`) | `stage7_orders`, events, keys, ledger | process intents, reconcile, book fills | key registered before the order is stored; deterministic re-runs |
| Stage-7 cycle and adaptation (`stage7_cycle_runner.py`, `adaptation_service.py`, `stage7_risk_budget_service.py`) | active parameters, checkpoints, run metrics, risk decisions, ledger metrics | decide, plan, save, propose, apply, roll back | several transactions per cycle; a window of old runs decides; cooldowns |
| Locks and run loop (`process_lock.py`, `process_instances` in `state_store.py`, `cli.py`, `doctor.py`, canary) | file locks, pid file, instance rows with a time to live, critical-error counter, kill switch | acquire, heartbeat, take over, release, trip | several processes on one database; crashes that leave rows and files |
| Transport (`rate_limiter.py`, `retry.py`, `adapters/btcturk_http.py`, `adapters/btcturk/*`) | token buckets, cooldowns, 429 breaker, book cache and single flight | acquire, penalize, retry, give up | threads that wait for each other; answers that never come; resent writes |
| Market data (`market_data_service.py`) | cached books, fetches in flight | best bids with freshness | stale fallback, coalesced fetches |
| Risk and degrade modes (`risk_budget_service.py`, `anomaly_detector_service.py`, `domain/anomalies.py`) | risk state, degrade state | decide, persist, clear, override | cooldowns, escalation, operator and cycle writing one row |
| Portfolio, order builder, exchange rules | caches only | pure decisions | rounding, caps, limits |
| Universe selection and its governance | last universe, probation, churn | select, freeze, truncate | not modelled, see section 8 |
| Strategies, agent overlay, observability, CLI, reports | - | - | no protocol state |

Interaction: `cli.run_cycle` builds one `ExecutionService` per cycle and passes it the
intents of the decision pipeline; `Stage4CycleRunner.run_one_cycle` does the same with its
own services; both only talk through the database and the exchange. A Stage-7 command runs a
Stage-4 dry-run cycle first, takes the trader lock, reads the mode Stage 4 stored and trades
on simulated orders. All commands share the locks and rows of the process control, and all
requests of a process go through one client with one limiter. Every `StateStore` call
is a transaction of its own unless `state_store.transaction()` wraps several, so a process
may die between any two calls and the next cycle starts from what the tables hold.

What makes each part correct: an intent is not traded twice and an open outcome stops
further trading (execution); a cycle does not trade over an order it was shown and does not
track, and rows name their own orders (Stage 4); a replacement never trades next to what it
replaces (replace); books agree, no fill is lost or counted twice, profit is split once
(ledger); orders, events and bookings of simulated trading agree and every order lives one
life (Stage 7); one process works on a database, the kill switch follows the error chain and
quiets trading, and no leftover keeps the trader out for good (control); requests stay in
budget, a submit does not multiply, data called fresh is recent, every call returns
(transport); a troubled cycle does not buy, its restriction lasts and ends, a plan keeps all
its limits, parameters roll back and not forward (modes, adaptation). `PROJECT.json` lists the hazards behind these, line by line.

## 2. Modules and how they correspond to the code

### IdempotencyStore, ExecutionService (`MCExecutionService`)

`IdempotencyStore` holds the operators one SQLite transaction applies to one row of
`idempotency_keys` and `actions`: `Reserve`, `Finalize`, `SetRecovery`, `Prune`,
`RecordAction`, `AttachAction`, `ClearDedupe`. `ExecutionService` is the process: `pc` walks
through a cycle (`RunCycle`, `RefreshOpen`/`RefreshOpenFails`, `RefreshAll`, `ExecuteGate`)
and through one intent (`ReserveKey`, `MarkClient`, `RecordPlace`, `BindAction`,
`SubmitGate`, `SendAcked`/`SendRejected`/`SendLost`, `ReconcileSubmit`, `SaveOpen`,
`AttachOrder`, `CommitKey`, ... one action per transaction). `Crash` is enabled everywhere.

* A payload is a (symbol, side, price, quantity); the client order id is a function of it.
  The fallback match by fields finds the same orders as the match by client id, since both
  are the payload.
* Ages are counted in ticks up to the last threshold they are compared with.
* Writes the code makes one after the other and that no other step can tell apart are one
  action: attach and finalize after a simulation or an unknown outcome (the attached row
  only repeats the client id the key already has), the two updates of a recovery, and the
  rows of one refresh.
* A definite rejection also stores a terminal order row without a client id; nothing reads
  it again and it is left out. `commit_idempotency` and `fail_idempotency` update a table
  that only tests fill.
* History variables: `calls`, `clears` (submit calls and definite rejections of a key),
  `resent` (one call sent its request twice), `crashed` (the process died inside the call).

### Stage4Cycle (`MCStage4Cycle`)

A live Stage-4 cycle: `BeginCycle`, `Fetch`, `Reconcile`, `EvaluateFreeze`, `Plan`, then per
action `StartSubmit`, the gates in the code's order (`RejectByCooldown`, `SkipDuplicate`,
`RejectByRules`), `CallExchange`, the three outcomes and `RecordSubmitted`; `StartCancel`,
`CancelAnswered`, `CancelUncertain`. `AliasOf` is the client id the exchange reports for an
order: production sends `build_exchange_client_id`, a hash that is never the internal id;
the exchanges in the tests echo the internal id. `S4_live` has an order of each kind.

### ReplaceTx (`MCReplaceTx`)

One cancel-and-replace group, executed again by any number of cycles: `BeginTx`,
`CheckFreeze`, `CancelNext`, `CancelAnswered`, `CancelsSent`, `ConfirmCancels`, `SubmitSent`,
the submit's outcomes, `CommitTx`, `FailTx`. `Forward` is the transition rule of the table.
With the hashed ids of production a live row is already `unknown_closed` when the next plan
is made, so a group has no old orders; the model is of the protocol as written and as the
tests drive it (echoed ids). `doubt` marks that a submit was uncertain or that a cooldown
rejection overwrote the row of an order in flight.

### FillLedger (`MCFillLedger`)

One symbol's fills: `Happen` and `Show` (the exchange may show a trade late), `Fetch` with
the cursor and lookback, `Commit`/`RollBack` (one transaction for ledger events, applied
fills, position and cursor), `Reduce` (checkpoint and delta), `ApplyCapital`. `ApplyEvent`
is the FIFO reducer in integers. `outside` names the fills shown only after the lookback had
passed, `disorder` says that an older fill was ever ingested after a younger one.

### OMSService (`MCOMSService`)

Stage 7's simulated orders. `BeginCycle` plans and starts the reconcile batch; per intent
one of `RejectInvalid`, `CancelRequested`, `IgnoreTerminal`, `Throttle`, `Conflict`,
`IgnoreDuplicate`, or `RegisterKey` followed by `SubmitAgain`, `GiveUp`, `SubmitAccepted`;
`CommitReconciled` and `CommitPlanned` are the transactions that end the two
`process_intents` calls; `SaveFill`, `MarkFillApplied` and `AppendLedger` are the booking in
the cycle runner. `draft` is what `process_intents` keeps in memory. `CycleDies` is a crash
or an error that is not retried; both leave the tables as they are. The limiter belongs to
one call and may refill during it. The port's `cancel` has no caller in the runner; requests
are any subset of the planned intents. An intent's hash holds the cycle and the applied
constraints, so an order whose key was registered is never submitted again: offered by a
later cycle it meets a conflict and is rejected.

A cycle may be run again under its own id as long as no later cycle has started. Running a
whole backtest again on one database goes beyond that: an order throttled in cycle 1 and
filled by cycle 2's reconcile was booked under cycle 2, and cycle 1's rerun reports it FILLED
and books it a second time under cycle 1, since `_deterministic_fill_id` contains the
reporting cycle.

### OrderLifecycle (abstract), implemented by OMSService

`OrderLifecycle` is what Stage 7 promises of an order, without batches, keys, retries, cycles
or crashes: the market takes it at most once, it is filled only after that, an order that is
over stays as it is, a fill is booked at most once and only for a filled order. `OMSService`
instantiates it with `Order <- Cid`, `status <- Ended` (the status of the stored row, with
all statuses of an open order taken together), `taken <- sent`, `booked <-` the number of
ledger events of the order, and `ImplementsLifecycle` says that every step is a step of it or
leaves it alone. An order the market took may still end as REJECTED: a cycle that dies
between registering the key and storing the rows leaves a key, and the order meets a conflict
when it is offered again.

### RunControl (`MCRunControl`)

The processes on one state database: `run`, canary, `stage4-run`, `stage7-run`, preflight and
the operator's tools. A process is its pid with its place in the command; file locks,
pid file, `process_instances` rows (`rows`, with an age), the kill switch and the error
counter of each role are shared. Actions are the steps between which another process can
come: `SingleInstanceLock`, `OpenStore`, the doctor's checks, `CycleStart`, `Recover`,
`Refresh`, `ExecuteGuard`, `Submit`, `LoopNext`, the canary's and Stage 7's own steps,
`IncrementErrors`, `set_kill_switch`, the release in its two halves (`ReadPidFile`,
`UnlinkPidFile`), the tools, and `Crash`.

* Assumed of the outside: a pid is not handed out again while a fresh row names it; a process
  that works on a store refreshes its row within the time to live (every 30 s of the loop's
  wait and in each cycle); `--force` is used for dead processes only, as the runbook says.
* `UnlinkOwn` is TRUE in the run: no other process replaces the pid file between the read and
  the unlink of `process_lock.py:112-123`. With FALSE TLC finds a trader and a canary that
  both work; the window is a few instructions wide, and `ArmedExclusion` is checked without it.

### HttpTransport (`MCHttpTransport`)

Threads that share one client. `Acquire` is the token bucket with its lazy refill and
cooldown, `CheckBreaker` the 429 breaker, `Answered`, `Retry` and `GiveUp` what a request path
does with the answers (`ok`, `rate`, `server`, `client`, `malformed`, `silence`) by its kind
(public, private read, private write, and the two of the asynchronous client); `GetOrderbook`,
`Release` and `Follow` are the client's cache and single flight, `GetOrFetch`, `OwnerDone` and
`OwnerFailed` those of the market-data provider in front of it. Time is relative: deadlines
count down, timestamps are ages. `credit` is the ideal bucket `WithinBudget` compares with,
`orders` and `unsure` count what one submit call placed and how often it heard nothing.
`BtcturkRestClient` is modelled as written, but only tests use it.

### Stage4Modes, Stage7Planning, Stage7Cycle (`MCStage7Cycle`)

`Stage4Modes` is the part of a Stage-4 cycle that `Stage4Cycle` leaves open: `Begin`, `Assess`
(market data, risk decision), `Degrade` (read the degrade row), `Filter` (the filters of the
actions, in order), `Execute`, `Persist` (anomalies, next level, cooldown), `Abort`, the
operator's `run_degrade_clear` and `run_degrade_override`, and `Tick` (900 s). What a cycle
finds outside the store is an input record.

`Stage7Planning` has the pure algorithms: rules of a pair with their fallbacks,
quantization, `build_plan`, `build_intents` and the caps of `filter_actions`, in integers that
round where the code rounds. The loops of the code over sorted lists (`WithinTurnover`,
`IntentsInOrder`, `filter_actions`) are folds over sequences, one operator for the body of each.
`SettingsAssumption` gives the settings their types, `SightsAssumption` (in `Stage7Cycle`) says
what a cycle may see: prices, steps and minimums that are not negative, and rules and balances
for every symbol with a book.

`Stage7Cycle` composes the two: cycles of both stages on one store. `S7Begin` (parameters,
risk decision, plan), `S7Trade`, `save_stage7_cycle`, `save_stage7_run_metrics`, `MarkBad`,
`RollBack`, `ApplyProposal` are the transactions, `S7Abort` an end between any two of them.
Fills and their booking are in `OMSService`; the resulting ledger figures are inputs here.

## 3. Runs

| Run | Shows | Bounds |
|---|---|---|
| `ES_retry` | bounded submit calls, one order per key, closed rows are closed, freeze | one payload, dry-run cycles first and live ones after them, 2 requests at the exchange, 2 calls per key, 2 sends per call, keys that go stale before they expire, one age for the three lookbacks, rules may change once |
| `ES_batch` | keys commit to their own order; freeze within a batch | two payloads (symmetric) in any batch |
| `ES_phantom` (violation) | a key COMMITTED without a submit call | one payload, live cycles, keys that do not expire on the way |
| `S4_live` | no submit over an order the cycle was shown and does not track, nor over the intent's own order; rows name their orders | two intents of one symbol, one reported under its internal and one under its hashed id, two orders at the exchange, kill switch, foreign orders, cycles whose universe leaves the symbol out |
| `S4_idmatch` (violation) | rows of open orders are closed | two symbols, hashed ids |
| `RT_replace` | exposure, duplicates and outcome of a replace transaction | two old orders (symmetric), three submits |
| `FL_books` | books agree, nothing skipped, in-order replay, profit split once | three trades (two buys at different prices, a sale that may lose), three instants, lookback of one |
| `FL_replay` (violation) | incremental state differs from the full replay | as `FL_books` |
| `OMS_orders` | events and rows agree, filled orders are booked, the order lifecycle is implemented | three orders of two cycles (one filled in two parts, one invalid), burst of one, two attempts, three cycle starts |
| `CT_control` | trader and canary exclude each other, rows of workers stay fresh, the kill switch needs its chain and quiets trading, the trader comes back | two pids, time to live of one tick, chain of two errors, two other commands, two canary cycles, one crash |
| `TR_client` | request budget, orders per submit, age of fresh data, every call returns | two threads, one book, burst and rate of one, two attempts, breaker after two 429s; the workloads of `Programs` pair the calls that share a lock, a bucket or a cache |
| `S7_cycle` | troubled cycles do not buy, plans keep their limits, checkpoints agree, the level falls late and does fall | 20 workloads: one kind of trouble each beside calm cycles, both stages together, 720 plans, and sequences of one run more than the adaptation's window |

The bounds leave room for the second attempt after each failure, the second order after a
lost answer, a late fill between two others, a crash in each place of a command with a
restart after it, a follower behind a leader that fails, and a breach that enters and leaves
the adaptation's window: the cases the hazards are about. In `S7_cycle` `Window = 3`,
`SafeWindow = 2` and `MaxVersion = 3` stand for 5, 3 and no limit: the window is one longer
than the safe window in both, and three versions give two rollbacks in a row. Workloads are
constants and not actions, so that every trouble meets every calm cycle without all troubles
meeting each other. Deadlock checking is on unless the bound on time or orders is what ends a
behaviour.

Conditions under which the properties hold, and not without: `ClosedIsClosed` needs that no
dry-run cycle runs on a database that traded live (`docs/dry_run_protocol.md` demands
separate databases), since the dry-run client reports no orders and live rows would be
rejected; `OneOrderPerKey` and `FrozenWhileUnaccounted` exempt calls whose request was sent
twice (the adapters resend without an idempotent endpoint) and, for the second, calls the
process died in; `CommittedIsOwnOrder` needs keys that do not outnumber client order ids;
`FreshBidsAreRecent` exempts callers that joined a fetch of another thread, which may be
older than they know; `LevelFallsLate` exempts the write of an operator that a cycle in flight
has not read; `Stage4DoesNotBuy` exempts the forced dry run.

## 4. Fairness

Three runs check liveness.

* `CT_control`: a process that runs takes its next step (`WF` on each `Step(p)`), time passes
  (`WF(Tick)`), and the trader is started again whenever none runs (`WF(StartTrader)`: the
  service manager's restart policy, outside the code). Crashes and operator commands are
  never required. `KillQuietsTrading` and `TraderComesBack` use no more.
* `TR_client`: threads are scheduled and every request has a timeout (`WF` on each `Step(t)`),
  time passes although threads keep it disabled while they compute (`SF(Tick)`), and of the
  sleepers on the limiter each gets a token in the end (`SF(Acquire(t))`: the limiter
  keeps no queue, but a sleeper wakes up and tries again each time tokens are due).
* `S7_cycle`: a cycle that has begun goes on (`WF(CycleStep)`). `DegradeRecovers` itself
  assumes what the code needs: trouble has ended, and cycles start after the cooldown again
  and again. Cycles that follow each other faster than the cooldown renew it for ever.

## 5. Findings and observations

Findings, each with a run that shows it:

* `ES_phantom`: a crash between `record_action` and the submit leads to a COMMITTED key
  whose order was never sent.
* `S4_idmatch`: reconciliation compares internal ids with the hashed ids the exchange
  reports; own open orders are closed locally, imported as external, and freeze the bot.
* `FL_replay`: late fills make the checkpoint differ from a full replay.

Observations: what the code does, met while modelling, kept in the models, and not claimed by
any text of the repository to be otherwise unless noted.

Execution and ledger
* An uncertain Stage-4 submit neither freezes nor dedupes within its cycle
  (`tests/test_stage4_services.py:1715` fixes it so).
* A replace transaction whose group is not planned again stays open; start-up only reports it
  (`startup_recovery.py:99`).
* A realized loss makes the total regress, and every later Stage-4 cycle ends in
  `CapitalPolicyError` (`risk_budget_service.py:169`, fixed by a test).
* The Stage-7 fill id holds the reporting cycle (`stage7_cycle_runner.py:763`), see OMSService.

Control
* A strict start looks at the newest fresh row only and takes over a row of its own pid. After
  any row has become `stale`, a strict open by a process that already has a row conflicts with
  itself (`state_store.py:2299-2308`). `stage4-run` opens its store without the strict check.
* `run` never releases its row, and tools leave fresh rows: a restart waits for the time to
  live. Nothing honours the kill switch's `until_ts` or clears the switch.

Transport
* Private writes are not repeated after a 5xx (`tests/test_btcturk_http.py:358`) but are after a
  timeout or transport error, up to four times with the same client id: `OneOrderPerSilence`
  is what is left of "one order per submit".
* A public 429 penalizes the limiter only when `_get` gives up. A `Retry-After` of 0 never opens
  the breaker. Whether a stale book may be served is judged before the fetch, so it
  can be older by the time the fetch has failed; `FreshBidsAreRecent` bounds by how much.

Modes and planning
* Each cycle renews the cooldown while it runs, the operator's override included; an ERROR
  anomaly or an open breaker does not raise the level meanwhile. After it, warnings take level
  3 straight to 1 or 2 (`domain/anomalies.py:139` speaks of one step).
* An operator's write between a cycle's read and its persist is lost.
* The kill switch gives OBSERVE_ONLY, whose gate drops cancels too.
* `mark_price_missing_fail_closed` cannot be reached, since only covered symbols are tradable.
* Each buy of a plan may use the whole cash of the snapshot, so buys together can exceed it
  (`PlanWithinLimits` bounds each). A cap that is used up (0) is not applied. Turnover is
  consumed by an action whose quantity rounds to 0.
* Stage 7: the turnover cap never grows except by a rollback; one breach stays in the window
  and rolls back several versions; version numbers are used again after a rollback; the
  drawdown heuristic compares a percentage with a ratio.

## 6. Proofs

Eight modules `<Component>Proofs` hold the theorems; `PROJECT.json` lists the 37 a reader should
know of. They hold for every set of payloads, intents, threads, commands and symbols, every
threshold and every bound that the component's named `ASSUME` allows (TLC evaluates those on
every run). Each module opens with its inductive invariant; every invariant was checked by TLC
on the bounds of the component's run before it was proved. The pattern is one lemma per
operator or action, a step lemma `Inv /\ [Next]_vars => Inv'`, and a theorem that ends in `PTL`.

| Module | Theorems (property) |
|---|---|
| `ExecutionServiceProofs` | `TypeCorrect` (`TypeOK`), `SubmitCallsAreBounded` (`SubmitCallsBounded`), `KeysHaveOneOrder` (`OneOrderPerKey`), `ClosedRowsAreClosed` (`ClosedIsClosed`), `CommittedKeysNameTheirOrder` (`CommittedIsOwnOrder`), `NothingIsSentInTheDark` (`FrozenWhileUnaccounted`) |
| `Stage4CycleProofs` | `Stage4TypeCorrect`, `RowsNameOwnOrders` (`RowNamesOwnOrder`), `NothingUnknownIsTradedOver` (`NoSubmitOverVisible`), `NoIntentIsSubmittedTwice` (`NoSubmitOverOwnOrder`) |
| `ReplaceTxProofs` | `ReplaceTypeCorrect`, `ReplacementTradesAlone` (`NoDoubleExposure`), `ReplacementIsSingle` (`NoSecondOrder`), `ConfirmedReplacementWasPlaced` (`ConfirmedTxPlaced`) |
| `FillLedgerProofs` | `LedgerTypeCorrect`, `FillsCountOnce` (`BooksAgree`), `CursorSkipsNothing` (`NoFillSkipped`), `ReplayMatchesInOrder` (`InOrderReplay`), `ProfitIsSplitOnce` (`ProfitSplitOnce`) |
| `OMSServiceProofs` | `OMSTypeCorrect`, `OrdersFollowLifecycle` (`ImplementsLifecycle`, the refinement), `FilledOrdersAreBooked` (`FilledIsBooked`), `EventsTellTheStatus` (`EventsMatchStatus`) |
| `RunControlProofs` | `ControlTypeCorrect`, `TraderAndCanaryExclude` (`ArmedExclusion`), `WorkingRowIsFresh` (`ServedRowIsFresh`), `KillSwitchNeedsChain` (`KillNeedsChain`) |
| `HttpTransportProofs` | `TransportTypeCorrect`, `RequestsStayWithinBudget` (`WithinBudget`), `DoubtPrecedesSecondOrder` (`OneOrderPerSilence`), `FreshBidsStayRecent` (`FreshBidsAreRecent`) |
| `Stage7CycleProofs` | `CheckpointsStayTrue` (`CheckpointsAgree`), `LevelsFallLate` (`LevelFallsLate`), `PlansKeepTheirLimits` (`PlanWithinLimits`), `NeitherStageBuysInTrouble` (`TroubledCyclesDoNotBuy`) with its parts `TroubledStage4DoesNotBuy` and `ObservedCyclesSendNothing` |

### The arguments

* **Execution.** `SubmitCallsBounded` and `OneOrderPerKey` rest on where the process is.
  `CallsInv` adds: between recording the action and the end of the intent the dedupe row is held
  and not used up (`Entitled`); only live cycles reach the gate (`GateIsLive`); from the send on
  the call is counted (`Called`); every order has a call (`OrderHasCall`); while calls are fewer
  than rejections plus the held row, nothing of this key was sent that was not rejected
  (`NothingSent`). `ClosedIsClosed`: a row names an order
  of its own payload the exchange has shown (`RowsShown`, `GotShown`); the second look of a
  refresh may reject it only because the first look did not show that order open, so it is
  closed (`MissingIsClosed`); and where a cycle runs dry the exchange has no order of the bot
  yet (`DryIsNew`). `CommittedIsOwnOrder`: an order id enters the idempotency and
  action tables from the submit, the lookup or an earlier action of the same key (`IdemOwn`,
  `ActsOwn`). `FrozenWhileUnaccounted`: an order that may still trade is named by the row of its
  payload, or that row is unknown and the cycle frozen, or its submit call is the one being made
  (`Accounted`).
* **Stage 4.** The cycle decides from an answer that is old when used. `Known` says what an
  intent needs: a row names every order the exchange showed on its symbol, and its own order, if
  shown, is a duplicate or in doubt. `StageInv` carries it from the answer through
  reconciliation and freeze to the plan, `PlanInv` through the batch: no action that comes first
  touches the row a later submit relies on. `RowInv` gives the row its own order from each of
  its sources.
* **Replace.** From the confirmation of the cancels to the call the old orders are gone; an open
  replacement is in the table, or recording it is the next step; a call is made only where no
  row is in flight; a commit comes after the exchange took the order (`ReplaceInv`).
* **Fills.** The model's four folds and its sorting are first turned into facts without
  recursion: from the least-element principle, a fold is a run with one value for each prefix
  (`BookFold`, `AddFold`, `MatchFold`, `EventFold`), and `Sorted` lists every fill of a set once,
  each at its rank (`SortedProps`). `BooksInv` then compares amounts as cardinalities, the coins
  bought less the coins sold (`Signed`), which do not depend on the order: a position booked in
  the order of the fetches and lots reduced from a checkpoint in the order of the times hold the
  same. A checkpoint exists only where no sale was left over, so each sale took its whole
  quantity from the lots (`EventMoves`). `CursorInv` says of the cursor a cycle has fetched what
  `NoFillSkipped` says of the stored one. `OrderInv`: rows written in order are sorted already,
  and the checkpoint is the end of one run over them (`RowRun`), which a reduction from any
  checkpoint continues. `SplitInv`: profits, costs and prices stay multiples of ten.
* **Stage 7 orders.** What an intent leaves in memory between two transactions is `Good`: its
  new events are new and different, the order is the one after the last of them, an order that
  is over is not touched. `BookInv` ties the ledger to the cycle that reported the fill, so that
  a rerun of that cycle books nothing again; `Numbered` makes events countable. The refinement
  maps rows and events to `OrderLifecycle`; every step is a step of it or a stutter.
* **Control.** `PlaceInv` says which command may be where; `LockInv` and `FileInv` who holds the
  file lock and whose pid is in the file; `FreshInv` which rows are fresh; `GateInv`, the
  exclusion itself, holds because a canary is admitted by a doctor that saw no owner and keeps
  its own row fresh from then on. `ChainInv`: the error count never runs ahead of the failed
  cycles it stands for, although count and switch are two transactions.
* **Transport.** The bucket, refilled, holds at most the ideal credit (`BudgetInv`). `Placed`
  counts the orders of a call against its unsure answers and its attempts; `Dated` bounds the
  oldest book of a call that fetched for itself, `Backed` the book its owner would fall back on.
* **Modes and parameters.** `StoreInv`: a checkpoint holds the parameters of its version and
  every version up to the active one has one. `ModesInv` follows a trouble through the cycle
  that sees it: the level stored, read and built (`DegradeRow`, `ReadInv`, `AlarmInv`), the
  equity peak (`PeakInv`), the plan that goes out. `FallInv` says what a cycle that lowers the
  level has seen.
* **Plans and their limits.** The state part is small: `CycleInv` says that the active row and
  every checkpoint are rows of numbers, with no limit below 0 unless the seed's is (`RowsInv`),
  and that nothing the orders were checked against changes until the cycle has traded. The work
  is in the operators. A list sorted by a total order names every member once (`SortedList`),
  and a fold over it is a run with one value for each prefix (`FoldRuns`), from which an
  invariant of the loop's body is carried up to its end (`UpTo`): the actions taken and what is
  left of the turnover add up to no more than the cap (`TakeKeeps`, `PlanKeeps`), an intent is
  the action it was built from or smaller (`IntentFits`: every check of `build_action_intent`
  against the rounded price and quantity), a filter only drops (`FilterKeeps`). There is one
  action and so one order for each symbol, although four loops and three sortings lie between
  (`OrdersOfPlan`). Sums are compared as cardinalities: an amount is that many coins of its
  symbol (`Spent`, `TotalIsWorth`), so the orders' coins are among those of the plan
  (`OrdersCost`), in whatever order they are added up. The REDUCE_RISK_ONLY part of
  `TroubledCyclesDoNotBuy` follows from the same lemmas: an order has the side of an action of
  its plan, and such a plan has no buy.

### Hypotheses

Where a theorem needs more than the `ASSUME` of its component, its statement says so, and TLC
finds a counterexample without it:

* `ClosedRowsAreClosed`: `TRUE \notin DryModes[TRUE]`, no dry run on a database that traded live.
* `CommittedKeysNameTheirOrder`, `NothingIsSentInTheDark`: `~CycleKeys`, legacy keys. Keys that
  hold the cycle give one payload two orders, of which its single row names only one. The first
  three theorems of that module hold for both kinds of keys.
* `TraderAndCanaryExclude`: `StrictStart` (the strict instance lock) and `UnlinkOwn` (nobody
  replaces the pid file between its read and its unlink).
* `PlansKeepTheirLimits`: `Seed.turnover >= 0` and `Seed.orders >= 0`, the caps a new
  database starts from; nothing validates either, and an empty plan exceeds a negative limit.
  `NeitherStageBuysInTrouble` holds for any seed.
* `CheckpointsStayTrue`: `Seed.turnover >= 0`; no validation keeps the setting from being
  negative, and then a proposal's clamp raises it.
* `LevelsFallLate`: `WarnThreshold > 1`. With 1 (the settings allow it, the default is 3) an
  override without cooldown that the operator writes while a cycle is in flight can fall in it.
* `FreshBidsStayRecent`: `ClientTTL > 0`; it is 0.2 seconds wherever the program builds a client.

* `ProfitIsSplitOnce`: `Exact`, every price a multiple of ten of the model's unit, which the unit
  can always be chosen to make true. With other prices the integer model rounds what the code's
  decimals do not.

### What stays with TLC

* Liveness: `KillQuietsTrading`, `TraderComesBack`, `EveryCallReturns`, `DegradeRecovers`.

Every safety invariant and every action property of a passing run is the subject of a theorem.

## 7. Plan

1. Universe selection with its probation and churn guard; `cancel_stale_orders`.

## 8. Not modelled, and why

* Universe selection: its result is an input of both stages' cycles. Its governance has state
  and would be the next component; what reading it showed: the churn "per day" is that of the
  latest snapshot only, probation is written before the churn or freeze override decides, a
  symbol cut by a smaller size gets no cooldown, a book without a timestamp counts as stale and
  freezes the previous universe.
* `cancel_stale_orders` of Stage 3: it only cancels, and a cancelled order is an order closed
  at the exchange, which the models allow at any time.
* The WebSocket client: only tests start it and nothing feeds its provider.
* The Stage-4 caps of `risk/policy.py` and the Stage-3 risk service: they only take actions away.
* Strategies, the decision pipeline and the agent overlay (heuristics without state; their
  output is any set of intents), formatting, logging and metrics, configuration and argument
  parsing, cryptography, file export. Prices and quantities appear only where a property
  depends on them.
