---------------------------- MODULE Stage7Cycle ----------------------------
(***************************************************************************)
(* Stage 7: simulated trading on top of Stage 4.  A cycle reads the active *)
(* parameters, decides its risk mode from the mode Stage 4 stored, its own *)
(* earlier decision and the last ledger metrics, plans and sends orders to *)
(* the simulated order manager (module OMSService), saves what it did in   *)
(* several transactions and lets the adaptation change or roll back the    *)
(* parameters.  It shares the store and the trader lock with Stage 4, so   *)
(* cycles of the two stages do not overlap.                                *)
(***************************************************************************)
EXTENDS Stage4Modes, Stage7Planning

CONSTANTS
    Window,        \* _WINDOW: runs the adaptation looks at
    SafeWindow,    \* _SAFE_WINDOW, throttled_persist_cycles and pnl_floor_cycles
    RiskCooldown,  \* risk_cooldown_sec in ticks
    DrawdownLimit, \* max_drawdown_bps, in percent
    Seed,          \* the parameters of a new database (version 1)
    MaxVersion     \* bound: largest version of the parameters

ASSUME Stage7Assumption ==
    /\ Window \in Nat \ {0} /\ SafeWindow \in 1 .. Window
    /\ RiskCooldown \in Nat /\ Seed.version = 1 /\ MaxVersion \in Nat
    /\ Seed \in [version : Nat, size : Int, offset : Int, turnover : Int, orders : Int,
                 spread : Int, volume : Int]

\* What a cycle may see: symbols are numbers, prices, steps and minimums are not negative,
\* and everything there is to know of a symbol is known of the symbols with a book.
ASSUME SightsAssumption ==
    \A l \in Loads : \A in \in l.sights :
        /\ DOMAIN in.books \subseteq Int /\ IsFiniteSet(DOMAIN in.books)
        /\ in.books \in [DOMAIN in.books -> Nat] /\ in.last \in [DOMAIN in.books -> Nat]
        /\ in.selected \subseteq DOMAIN in.books
        /\ \A o \in in.simulated : o.at \in DOMAIN in.books
        /\ in.cash \in Int /\ in.held \in [DOMAIN in.books -> Int]
        /\ \A s \in DOMAIN in.books :
              LET pair == in.pairs[s]
              IN  /\ {pair.tick, pair.lot, pair.minQty, pair.maxQty, pair.scaleStep} \cup pair.totals
                        \subseteq Nat
                  /\ IsFiniteSet(pair.totals) /\ pair.kind \in {"pair", "absent", "odd", "error"}

VARIABLES
    params,      \* stage7_params_active
    checkpoints, \* stage7_params_checkpoints, by version
    runs,        \* the newest rows of stage7_run_metrics, newest first
    s7risk,      \* newest row of stage7_risk_decisions
    ledger,      \* newest row of stage7_ledger_metrics
    s7           \* the Stage-7 cycle in flight

s7Vars == <<params, checkpoints, runs, s7risk, ledger, s7>>
vars == <<modeVars, s7Vars>>

-----------------------------------------------------------------------------
(* The risk decision (stage7_risk_budget_service.py) *)

\* tickers: "new" or "old" by their newest timestamp, "untimed" with a volume, which counts
\* as new, or "none" with neither, which counts as too old.
StaleData(in) == in.tickers \in {"old", "none"}

\* settings.kill_switch is switched off for the cycle, and no caller reports a degraded
\* exchange or fees, so stale data alone stops a cycle.
OwnMode(in, metrics) ==
    CASE StaleData(in) -> "OBSERVE_ONLY"
      [] ~StaleData(in) /\ \/ metrics.pnl <= -Settings.dailyLoss
                            \/ metrics.drawdown >= DrawdownLimit
                            \/ in.spread = "extreme" -> "REDUCE_RISK_ONLY"
      [] OTHER -> "NORMAL"

\* While the cooldown of the decision before runs, its mode is the least that applies
\* and its end stays where it is.
decide(in, metrics, previous, lim) ==
    LET own     == OwnMode(in, metrics)
        running == previous.cool > 0
        wide    == in.spread \in {"wide", "extreme"}
        half(x) == IF wide THEN x \div 2 ELSE x
    IN  [mode |-> IF running THEN combine_modes(own, previous.mode) ELSE own,
         cool |-> CASE running -> previous.cool
                    [] ~running /\ own = "OBSERVE_ONLY" -> RiskCooldown
                    [] OTHER -> 0,
         notional |-> half(Least(Settings.maxOrder, lim.turnover)),
         orders   |-> IF wide THEN Greatest(1, lim.orders \div 2) ELSE lim.orders,
         exposure |-> half(Settings.maxExposure)]

\* The mode Stage 4 stored last, NORMAL when there is none.
get_latest_risk_mode == IF risk.mode = None THEN "NORMAL" ELSE risk.mode

RulesBroken(in, needed) == {s \in needed : ~Usable(in.pairs[s])}

(* Mutant: the mode stored by Stage 4 is not looked at. *)
FinalModeOwnOnly(in, decision, needed) ==
    IF in.strictRules /\ RulesBroken(in, needed) # {} THEN "OBSERVE_ONLY"
    ELSE decision.mode

FinalMode(in, decision, needed) ==
    IF in.strictRules /\ RulesBroken(in, needed) # {} THEN "OBSERVE_ONLY"
    ELSE combine_modes(get_latest_risk_mode, decision.mode)

-----------------------------------------------------------------------------
(* What a cycle sees *)

\* An empty selection means the configured symbols.
SelectedUniverse(in) == IF in.selected = {} THEN DOMAIN in.books ELSE in.selected
\* Simulated Stage-4 orders are priced as well.
SymbolsNeeded(in) == SelectedUniverse(in) \cup {o.at : o \in in.simulated}

\* Order book, else the ticker or the last candle, for symbols of the universe only.
MarkPrices(in) ==
    LET price == [s \in SymbolsNeeded(in) |->
                    CASE in.books[s] > 0 -> in.books[s]
                      [] in.books[s] = 0 /\ s \in SelectedUniverse(in) -> in.last[s]
                      [] OTHER -> 0]
    IN  [s \in {x \in SymbolsNeeded(in) : price[x] > 0} |-> price[s]]

Portfolio(in) == [cash |-> in.cash, held |-> in.held, marks |-> MarkPrices(in),
                  pairs |-> in.pairs, universe |-> SelectedUniverse(in)]

\* The adapters of the planning kernel keep what the portfolio policy and the order
\* builder return (sides and types are valid), and the legacy planner calls the two
\* directly: both engines build the same orders.
KernelIntents(in, lim, mode) ==
    build_order_intents(Portfolio(in), lim, build_plan(Portfolio(in), lim, mode))
build_stage7_order_intents(in, lim, mode) == KernelIntents(in, lim, mode)

Orders(in, lim, mode, decision) ==
    IF mode = "OBSERVE_ONLY" THEN {}
    ELSE filter_order_intents_by_risk(build_stage7_order_intents(in, lim, mode), in.positions, decision)

\* Only simulated Stage-4 orders that pass the mode and the rules count as missing a price.
MissingMark(in, mode) ==
    mode # "OBSERVE_ONLY" /\
    \E o \in in.simulated :
        /\ mode = "REDUCE_RISK_ONLY" => o.side = "SELL"
        /\ Usable(in.pairs[o.at])
        /\ o.at \notin DOMAIN MarkPrices(in)

-----------------------------------------------------------------------------
(* Parameters (state_store.py) and their adaptation *)

NoParams == [version |-> 0]

\* get_active_stage7_params seeds version 1 as a good checkpoint.
ActiveParams == IF params = NoParams THEN Seed ELSE params
Checkpoint(p, good) == [params |-> p, good |-> good]
WithCheckpoint(v, c) == [x \in DOMAIN checkpoints \cup {v} |-> IF x = v THEN c ELSE checkpoints[x]]

get_active_stage7_params ==
    /\ params' = ActiveParams
    /\ checkpoints' = IF params = NoParams THEN WithCheckpoint(1, Checkpoint(Seed, TRUE))
                                           ELSE checkpoints

\* Active row, change and checkpoint in one transaction; the version may have been used before.
set_active_stage7_params(p) ==
    /\ params' = p
    /\ checkpoints' = WithCheckpoint(p.version, Checkpoint(p, TRUE))

set_stage7_checkpoint_goodness(v, good) ==
    checkpoints' = WithCheckpoint(v, Checkpoint(checkpoints[v].params, good))

GoodVersions == {v \in DOMAIN checkpoints : checkpoints[v].good}
get_last_good_stage7_params_checkpoint == checkpoints[Max(GoodVersions)].params

Clamp(x, low, high) == Least(high, Greatest(low, x))

(* Mutant: the turnover is bounded by the configured cap, not by the one in force. *)
ApplyBoundsOfSettings(p, upper) ==
    [p EXCEPT !.size = Clamp(@, 5, 50), !.offset = Clamp(@, 0, 50),
              !.turnover = Least(Seed.turnover, Greatest(0, @)),
              !.orders = Clamp(@, 1, 20), !.spread = Clamp(@, 10, 500)]

\* upper: notional_cap_try_per_cycle of the cycle, which is the active turnover cap.
apply_bounds(p, upper) ==
    [p EXCEPT !.size = Clamp(@, 5, 50), !.offset = Clamp(@, 0, 50),
              !.turnover = Least(Greatest(0, upper), Greatest(0, @)),
              !.orders = Clamp(@, 1, 20), !.spread = Clamp(@, 10, 500)]

\* Alert flags of a run; "high" drawdown and net "loss" are figures, not alerts.
Alerts(r) == r.flags \ {"high", "loss"}
HealthyWindow(recent) ==
    /\ Len(recent) >= SafeWindow
    /\ \A i \in 1 .. SafeWindow : recent[i].mode = "NORMAL" /\ Alerts(recent[i]) = {}

\* Four heuristics in order, of which three may act; a healthy window widens instead.
propose_update(recent, active, upper) ==
    LET fired   == [i \in 1 .. 4 |-> <<"spike", "throttled", "high", "missing">>[i] \in recent[1].flags]
        acts(i) == fired[i] /\ Cardinality({j \in 1 .. i - 1 : fired[j]}) < 3
        tighter == [active EXCEPT
                      !.offset   = IF acts(1) THEN Greatest(0, @ - 2) ELSE @,
                      !.orders   = IF acts(2) THEN Greatest(1, @ - 1) ELSE @,
                      !.turnover = IF acts(3) THEN (@ * 19) \div 20 ELSE @,
                      !.spread   = IF acts(4) THEN Greatest(10, @ - 10) ELSE @,
                      !.volume   = IF acts(4) THEN @ + 1 ELSE @]
        wider   == [active EXCEPT !.size = @ + 1, !.turnover = (@ * 21) \div 20]
        bounded == apply_bounds(IF HealthyWindow(recent) /\ \A i \in 1 .. 4 : ~fired[i]
                                  THEN wider ELSE tighter, upper)
    IN  IF bounded = active THEN active ELSE [bounded EXCEPT !.version = active.version + 1]

has_rollback_trigger(recent) ==
    \/ \E i \in DOMAIN recent : recent[i].flags \cap {"breach", "spike"} # {}
    \/ \E flag \in {"throttled", "loss"} :
          Len(recent) >= SafeWindow /\ \A i \in 1 .. SafeWindow : flag \in recent[i].flags

\* A run that was not NORMAL, or with one of three alerts, changes nothing.
MayApply(recent) ==
    recent[1].mode = "NORMAL" /\ recent[1].flags \cap {"breach", "spike", "throttled"} = {}

-----------------------------------------------------------------------------
(* The cycle *)

S7Idle == [at |-> "idle", in |-> Nothing, mode |-> Nothing, orders |-> {}, decision |-> Nothing, cap |-> 0]

S7Init ==
    /\ params = NoParams /\ checkpoints = <<>>
    /\ runs = <<>>
    /\ s7risk = [mode |-> "NORMAL", cool |-> 0]
    /\ ledger = [pnl |-> 0, drawdown |-> 0]
    /\ s7 = S7Idle

\* Parameters, risk decision, universe, prices, rules, plan and filters.  The command runs
\* a Stage-4 dry-run cycle before it, the backtest driver does not: any number of Stage-4
\* cycles may come before.  load.most bounds the Stage-7 cycles of a workload.
S7Begin(in) ==
    /\ s7.at = "idle" /\ cyc.at = "idle" /\ Len(runs) < load.most
    /\ get_active_stage7_params
    /\ \E decision \in {decide(in, ledger, s7risk, ActiveParams)} :
       \E mode \in {FinalMode(in, decision, SymbolsNeeded(in))} :
          s7' = [at |-> "trade", in |-> in, mode |-> mode, decision |-> decision,
                 orders |-> Orders(in, ActiveParams, mode, decision), cap |-> ActiveParams.turnover]
    /\ UNCHANGED <<modeVars, runs, s7risk, ledger>>

\* The order manager simulates the orders, the fills are booked, the ledger is marked.
S7Trade ==
    /\ s7.at = "trade"
    /\ s7' = [s7 EXCEPT !.at = "save"]
    /\ UNCHANGED <<modeVars, params, checkpoints, runs, s7risk, ledger>>

\* One transaction: trace, intents, risk decision and ledger metrics.
save_stage7_cycle ==
    /\ s7.at = "save"
    /\ s7risk' = [mode |-> s7.decision.mode, cool |-> s7.decision.cool]
    /\ ledger' = s7.in.result
    /\ s7' = [s7 EXCEPT !.at = "metrics"]
    /\ UNCHANGED <<modeVars, params, checkpoints, runs>>

\* Rejects, throttling and retries can only come from orders that were sent.  The figure
\* behind "high" is a percentage and its limit a ratio.
FlagsOf(in, mode, orders) ==
    (IF orders # {} THEN in.troubles ELSE {})
      \cup {f \in {"missing", "breach", "high", "loss"} :
              CASE f = "missing" -> MissingMark(in, mode)
                [] f = "breach"  -> in.result.drawdown >= DrawdownLimit
                [] f = "high"    -> 1000 * in.result.drawdown >= 8 * DrawdownLimit
                [] f = "loss"    -> in.result.pnl < -50}

save_stage7_run_metrics ==
    /\ s7.at = "metrics"
    /\ runs' = SubSeq(<<[mode |-> s7.mode, flags |-> FlagsOf(s7.in, s7.mode, s7.orders)]>> \o runs,
                      1, Least(Window, Len(runs) + 1))
    /\ s7' = IF load.adapt THEN [S7Idle EXCEPT !.at = "adapt", !.cap = s7.cap] ELSE S7Idle
    /\ UNCHANGED <<modeVars, params, checkpoints, s7risk, ledger>>

\* evaluate_and_apply: a breach marks the active version bad, in a transaction of its own.
MarkBad ==
    /\ s7.at = "adapt" /\ has_rollback_trigger(runs)
    /\ set_stage7_checkpoint_goodness(params.version, FALSE)
    /\ s7' = [s7 EXCEPT !.at = "rollback"]
    /\ UNCHANGED <<modeVars, params, runs, s7risk, ledger>>

\* The newest good version is made active again; without one nothing changes.
RollBack ==
    /\ s7.at = "rollback"
    /\ IF GoodVersions = {} THEN UNCHANGED <<params, checkpoints>>
       ELSE set_active_stage7_params(get_last_good_stage7_params_checkpoint)
    /\ s7' = S7Idle
    /\ UNCHANGED <<modeVars, runs, s7risk, ledger>>

\* Without a breach the proposal is applied when the newest run allows it.
ApplyProposal ==
    /\ s7.at = "adapt" /\ ~has_rollback_trigger(runs)
    /\ \E p \in {propose_update(runs, params, s7.cap)} :
          /\ p.version <= MaxVersion
          /\ IF MayApply(runs) /\ p # params THEN set_active_stage7_params(p)
                                             ELSE UNCHANGED <<params, checkpoints>>
    /\ s7' = S7Idle
    /\ UNCHANGED <<modeVars, runs, s7risk, ledger>>

\* The process dies or an exception ends the cycle; what was committed stays.
S7Abort ==
    /\ s7.at # "idle" /\ load.aborts
    /\ s7' = S7Idle
    /\ UNCHANGED <<modeVars, params, checkpoints, runs, s7risk, ledger>>

\* The clock is common to both stages.
PassTime ==
    /\ s7.at = "idle" /\ (degrade.cool > 0 \/ s7risk.cool > 0)
    /\ Tick
    /\ s7risk' = [s7risk EXCEPT !.cool = Greatest(0, @ - 1)]
    /\ UNCHANGED <<params, checkpoints, runs, ledger, s7>>

Stage4Step ==
    \/ \E name \in load.cycles : Begin(name) /\ s7.at = "idle"
    \/ CycleStep
    \/ Abort
    \/ run_degrade_clear
    \/ \E m \in Mode, c \in 0 .. 2 : run_degrade_override(m, c)
    \/ TroubleEnds

Init == ModesInit /\ S7Init
Next ==
    \/ Stage4Step /\ UNCHANGED s7Vars
    \/ \E in \in load.sights : S7Begin(in)
    \/ S7Trade \/ save_stage7_cycle \/ save_stage7_run_metrics
    \/ MarkBad \/ RollBack \/ ApplyProposal \/ S7Abort
    \/ PassTime

-----------------------------------------------------------------------------
(* Properties *)

S7Buys == {o \in s7.orders : o.side = "BUY"}

\* Neither stage sends an order that buys when it should not: Stage 4 not in a troubled
\* cycle (Stage4DoesNotBuy), Stage 7 not while the newest mode Stage 4 stored restricts
\* it, the cooldown of its last stored decision runs, or its last stored metrics breach
\* the loss or drawdown limit; and nothing at all while either mode is OBSERVE_ONLY
\* (run_one_cycle of both runners, get_latest_risk_mode, decide).
TroubledCyclesDoNotBuy ==
    /\ Stage4DoesNotBuy
    /\ s7.at = "trade" =>
          /\ get_latest_risk_mode = "OBSERVE_ONLY" \/ (s7risk.cool > 0 /\ s7risk.mode = "OBSERVE_ONLY")
                => s7.orders = {}
          /\ \/ get_latest_risk_mode = "REDUCE_RISK_ONLY"
             \/ ledger.drawdown >= DrawdownLimit
             \/ ledger.pnl <= -Settings.dailyLoss
                => S7Buys = {}

Amount(o, in) == o.qty * (IF o.side = "BUY" THEN o.price ELSE MarkPrices(in)[o.at])

\* The orders of a Stage-7 cycle stay within every limit that some stage before them
\* applied and a later rounding or cap could undo: together within the turnover cap of
\* the active parameters (buys at their price, sells at the mark) and the number of
\* orders, a sell within the free quantity, a buy within the cash, each of them at
\* least the exchange's minimum (build_plan, build_intents, filter_actions).
PlanWithinLimits ==
    s7.at = "trade" =>
        /\ TotalOf([o \in s7.orders |-> Amount(o, s7.in)]) <= params.turnover
        /\ Cardinality(s7.orders) <= Least(params.orders, s7.decision.orders)
        /\ \A o \in s7.orders :
              /\ o.side = "SELL" => o.qty <= s7.in.held[o.at]
              /\ o.side = "BUY"  => o.qty * o.price <= s7.in.cash
              /\ o.qty * o.price >= resolve_boundary(s7.in.pairs[o.at]).rules.least
              /\ o.qty % resolve_boundary(s7.in.pairs[o.at]).rules.lot = 0

\* The active parameters are those of their checkpoint, every newer version is marked
\* bad, so a rollback never goes forward, and along the versions up to the active one
\* the turnover cap only falls: no sequence of proposals, rollbacks and crashes raises
\* it (evaluate_and_apply, set_active_stage7_params, apply_bounds).
CheckpointsAgree ==
    params # NoParams =>
        /\ checkpoints[params.version].params = params
        /\ \A v \in GoodVersions : v <= params.version
        /\ \A v, w \in 1 .. params.version :
              v < w => checkpoints[w].params.turnover <= checkpoints[v].params.turnover

Spec == Init /\ [][Next]_vars /\ WF_vars(CycleStep /\ UNCHANGED s7Vars)
=============================================================================
