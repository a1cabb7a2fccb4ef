---------------------------- MODULE Stage4Modes ----------------------------
(***************************************************************************)
(* What a Stage-4 cycle may trade: the universe it works on, the mode the  *)
(* risk budget gives it, the degrade level that anomalies of earlier       *)
(* cycles built up, and the filters its actions pass before they are       *)
(* executed.  Cycles are one-shot processes; between them live only the    *)
(* rows degrade_state_current, risk_state_current and risk_decisions,      *)
(* which the operator's degrade commands write as well.                    *)
(*                                                                         *)
(* A tick of the clock is 900 s, the cooldown of degrade levels 1 and 2.   *)
(* Symbols are their position in the configured list.                      *)
(***************************************************************************)
EXTENDS Integers, Sequences, FiniteSets, FiniteSetsExt

CONSTANTS
    Symbols,         \* number of configured symbols
    WarnThreshold,   \* degrade_warn_threshold
    RejectThreshold, \* reject_spike_threshold
    StallThreshold,  \* cursor_stall_cycles
    WarnCodes,       \* degrade_warn_codes
    MaxDrawdown, MaxGross, MaxPositionPct, \* limits of the risk budget
    MinQty, Lot,     \* smallest order and quantity step of the exchange
    Inputs,          \* what a cycle may find outside the store, by name
    Loads            \* the workloads to check: the inputs that may occur together

ASSUME ModesAssumption ==
    /\ WarnThreshold \in Nat \ {0} /\ RejectThreshold \in Nat \ {0}
    /\ StallThreshold \in Nat \ {0} /\ Symbols \in Nat \ {0}
    /\ MinQty \in Nat /\ Lot \in Nat \ {0} /\ MaxDrawdown \in Int
    /\ \A name \in DOMAIN Inputs :
          /\ Inputs[name].equity \in Int
          /\ Inputs[name].wants \cup Inputs[name].stale \subseteq
                [type : {"SUBMIT", "CANCEL", "REPLACE"}, side : {"BUY", "SELL"},
                 at : 1 .. Symbols, qty : Nat]
    /\ \A l \in Loads : l.cycles \subseteq DOMAIN Inputs

VARIABLES
    load,    \* the workload of this behaviour
    degrade, \* degrade_state_current
    risk,    \* risk_state_current (peak) and the newest row of risk_decisions (mode)
    cyc,     \* the cycle in flight
    calm,    \* from now on nothing goes wrong outside the program
    warnRun, \* record: stored cycles in a row that ended with a warning
    manual   \* record: an operator's override that every cycle still sees

modeVars == <<load, degrade, risk, cyc, calm, warnRun, manual>>

Mode  == {"NORMAL", "REDUCE_RISK_ONLY", "OBSERVE_ONLY"}
None  == "none"
NoCap == 99

-----------------------------------------------------------------------------
(* Degrade levels (domain/anomalies.py) *)

combine_modes(base, override) ==
    CASE override = "OBSERVE_ONLY" -> "OBSERVE_ONLY"
      [] override = "REDUCE_RISK_ONLY" /\ base = "NORMAL" -> "REDUCE_RISK_ONLY"
      [] OTHER -> base

\* Override mode, share of a BUY's size in quarters, universe cap, cooldown in ticks.
LevelPolicy ==
    [l \in 0 .. 3 |->
        CASE l = 3 -> [override |-> "OBSERVE_ONLY",     share |-> 0, cap |-> 2,     cool |-> 2]
          [] l = 2 -> [override |-> "REDUCE_RISK_ONLY", share |-> 1, cap |-> 4,     cool |-> 1]
          [] l = 1 -> [override |-> "REDUCE_RISK_ONLY", share |-> 2, cap |-> 8,     cool |-> 1]
          [] l = 0 -> [override |-> None,               share |-> 4, cap |-> NoCap, cool |-> 0]]

(* Mutant: a level that is kept forgets the healthy cycles it has seen. *)
BuildForgetsStreak(l, streak) ==
    [level |-> l, streak |-> 0, override |-> LevelPolicy[l].override,
     share |-> LevelPolicy[l].share, cap |-> LevelPolicy[l].cap, cool |-> LevelPolicy[l].cool]

\* The cooldown of a level that is kept starts again from now.
Build(l, streak) ==
    [level |-> l, streak |-> streak, override |-> LevelPolicy[l].override,
     share |-> LevelPolicy[l].share, cap |-> LevelPolicy[l].cap, cool |-> LevelPolicy[l].cool]
LevelFromOverride(o) == CASE o = "OBSERVE_ONLY" -> 3 [] o = "REDUCE_RISK_ONLY" -> 1 [] OTHER -> 0

\* Healthy cycles after the cooldown before the level goes down by one.
StableCycles(l) == IF l = 1 THEN 8 ELSE 4

\* d: the state read before execution, with the level and streak to go on from.
AfterCooldown(d, events, warns, recent, breaker) ==
    LET now   == {e.code : e \in {x \in events : x.sev = "WARN"}} \cap WarnCodes
        count == IF now \cup (recent \cap WarnCodes) = {} THEN 0 ELSE warns
    IN  CASE breaker \/ \E e \in events : e.sev = "ERROR" -> Build(3, 0)
          [] OTHER ->
              CASE count >= 2 * WarnThreshold -> Build(2, 0)
                [] count \in WarnThreshold .. 2 * WarnThreshold - 1 -> Build(1, 0)
                [] count < WarnThreshold /\ d.level >= 1 ->
                      IF d.streak + 1 < StableCycles(d.level) THEN Build(d.level, d.streak + 1)
                                                              ELSE Build(d.level - 1, 0)
                [] OTHER -> Build(0, 0)

(* Mutant: the cooldown of the level is not waited for. *)
DecideWithoutCooldown(d, events, warns, recent, breaker) ==
    AfterCooldown(d, events, warns, recent, breaker)

\* Neither an ERROR nor an open breaker is looked at while a cooldown runs.
decide_degrade(d, events, warns, recent, breaker) ==
    CASE d.cool > 0 /\ d.level >= 1 -> Build(d.level, d.streak)
      [] d.cool > 0 /\ d.level = 0  -> Build(LevelFromOverride(d.override), d.streak)
      [] d.cool = 0 -> AfterCooldown(d, events, warns, recent, breaker)

-----------------------------------------------------------------------------
(* Anomalies of a cycle (anomaly_detector_service.py) *)

Warn(c) == [code |-> c, sev |-> "WARN"]
WarnIf(p, c) == IF p THEN {Warn(c)} ELSE {}

\* ages: the quality of each book asked for; slow: the cycle took latency_spike_ms.
detect(ages, slow, rejects, stall, in) ==
    WarnIf(\E s \in DOMAIN ages : ages[s] \in {"old", "failed", "empty"}, "STALE_MARKET_DATA")
      \cup WarnIf(slow, "EXCHANGE_LATENCY_SPIKE")
      \cup WarnIf(rejects >= RejectThreshold, "ORDER_REJECT_SPIKE")
      \cup WarnIf(stall >= StallThreshold, "CURSOR_STALL")
      \cup WarnIf(in.skew, "CLOCK_SKEW")
      \cup (IF in.diverge = None THEN {} ELSE {[code |-> "PNL_DIVERGENCE", sev |-> in.diverge]})

WarnedBy(events) == {e.code : e \in {x \in events : x.sev = "WARN"}} \cap WarnCodes

-----------------------------------------------------------------------------
(* Market data: books "both", "crossed", "bid", "ask", "old", "empty", "failed" *)

AvgCost == 1
\* The price of a book; a symbol without one is missing from mark_prices.
MarkOf(q) == CASE q \in {"both", "crossed", "old"} -> 2 [] q = "bid" -> 1 [] q = "ask" -> 3
               [] OTHER -> 0
ResolveMarketSnapshot(in, active) ==
    [marks  |-> [s \in {x \in active : MarkOf(in.books[x]) > 0} |-> MarkOf(in.books[s])],
     failed |-> {s \in active : in.books[s] \in {"crossed", "empty", "failed"}},
     ages   |-> [s \in active |-> in.books[s]]]

\* Symbols whose data is too old, or whose book or open orders could not be read.
FailedSymbols(in, snap) ==
    snap.failed \cup {s \in DOMAIN snap.ages : snap.ages[s] \in {"old", "empty", "failed"}}
                \cup (in.unlisted \cap DOMAIN snap.ages)

choose_mark_price_fallback_symbol(active) == Min(active)

\* One more try for one symbol, whether it is a failed one or not.
try_recover_single_mark_price(in, active, marks) ==
    IF in.net /\ active # {}
      THEN [s \in DOMAIN marks \cup {choose_mark_price_fallback_symbol(active)} |->
              IF s = choose_mark_price_fallback_symbol(active) THEN 2 ELSE marks[s]]
      ELSE marks

\* The symbols the plan may use, with the prices after the safety net.
Coverage(in, active, snap) ==
    LET eligible == active \ FailedSymbols(in, snap)
        covered  == {s \in eligible : s \in DOMAIN snap.marks}
        saved    == try_recover_single_mark_price(in, active, snap.marks)
    IN  IF in.live /\ covered = {}
          THEN [marks |-> saved, covered |-> IF in.net /\ active # {}
                  THEN {choose_mark_price_fallback_symbol(active)} ELSE {}]
          ELSE [marks |-> snap.marks, covered |-> covered]

-----------------------------------------------------------------------------
(* The risk budget (risk_budget_service.py, domain/risk_budget.py, risk/budget.py) *)

Bigger(a, b)  == IF a >= b THEN a ELSE b
Smaller(a, b) == IF a <= b THEN a ELSE b

resolve_peak_equity(equity) == Bigger(risk.peak, equity)

Notional(in, marks, s) == in.held[s] * (IF s \in DOMAIN marks THEN marks[s] ELSE AvgCost)
compute_gross_exposure(in, marks) ==
    MapThenSumSet(LAMBDA s : Notional(in, marks, s), DOMAIN in.held)
\* In percent of the equity; 0 when there is none.
compute_largest_position_pct(in, marks) ==
    IF in.equity <= 0 THEN 0
    ELSE (100 * Max({0} \cup {Notional(in, marks, s) : s \in DOMAIN in.held})) \div in.equity

\* fees: "ok", "over" the budget, "missing" a conversion rate, "unknown".
decide_mode(in, marks, peak) ==
    CASE Bigger(0, peak - in.equity) >= MaxDrawdown \/ in.dayLoss -> "OBSERVE_ONLY"
      [] OTHER ->
          IF \/ compute_gross_exposure(in, marks) > MaxGross
             \/ compute_largest_position_pct(in, marks) > MaxPositionPct
             \/ in.fees = "over"
            THEN "REDUCE_RISK_ONLY" ELSE "NORMAL"

\* Only symbols that have a price are asked about, so none is ever missing.
MissingMarks(cover) == {s \in cover.covered : s \notin DOMAIN cover.marks}

BaseMode(in, cover, peak) ==
    CASE in.kill -> "OBSERVE_ONLY"
      [] ~in.kill /\ in.live /\ MissingMarks(cover) # {} -> "OBSERVE_ONLY"
      [] ~in.kill /\ (in.fees = "missing" \/ (in.fees = "unknown" /\ in.live)) ->
            "REDUCE_RISK_ONLY"
      [] OTHER -> decide_mode(in, cover.marks, peak)

\* Leading losses of the newest snapshots.
compute_consecutive_loss_streak(days) ==
    Max({n \in 0 .. Len(days) : \A i \in 1 .. n : days[i] < 0})

\* position_sizing_multiplier of the capital policy, in quarters; halt: the day's
\* loss or the drawdown is past the policy's own limit.
evaluate(in) ==
    IF in.halt THEN 0
    ELSE IF compute_consecutive_loss_streak(in.days) >= 3 \/ in.volatile THEN 2 ELSE 4

compute_decision(in, cover) ==
    LET peak == resolve_peak_equity(in.equity)
        mode == BaseMode(in, cover, peak)
    IN  [mode |-> mode, peak |-> peak,
         mult |-> CASE mode = "OBSERVE_ONLY" -> 0
                    [] mode = "REDUCE_RISK_ONLY" ->
                          Smaller(evaluate(in), IF in.fees = "missing" THEN 1 ELSE 2)
                    [] OTHER -> evaluate(in)]

\* One transaction; when it fails the cycle goes on without it.
persist_decision(in, decision) ==
    risk' = IF in.riskStored THEN [mode |-> decision.mode, peak |-> decision.peak] ELSE risk

-----------------------------------------------------------------------------
(* The actions of a cycle and the filters they pass *)

Action(t, side, s, q) == [type |-> t, side |-> side, at |-> s, qty |-> q]

\* Bootstrap buys every symbol with a price and no open buy order.
build_intents(in, active, cover, failed) ==
    IF ~in.bootstrap THEN {}
    ELSE {Action("SUBMIT", "BUY", s, 4) :
            s \in {x \in active \ (failed \cup in.openBuys) : x \in DOMAIN cover.marks}}

\* The pipeline sizes its buys with the multiplier; a size of 0 is no order.
PipelineOrders(in, cover, mult, failed) ==
    {a \in {IF w.side = "BUY" THEN [w EXCEPT !.qty = (@ * mult) \div 4] ELSE w : w \in in.wants} :
        a.at \in cover.covered \ failed /\ a.qty > 0}

\* Stale orders add cancels and replaces to the submits.
PlannedActions(in, active, cover, mult, failed) ==
    LET pipeline == PipelineOrders(in, cover, IF in.kill THEN 0 ELSE mult, failed)
        intents  == IF pipeline # {} THEN pipeline ELSE build_intents(in, active, cover, failed)
    IN  {a \in intents \cup in.stale : a.at \notin failed}

UniverseCap(acts, active, cap) == {a \in acts : a.at \in {s \in active : s <= cap}}
ShrinkBuys(acts, share) ==
    {IF a.type = "SUBMIT" /\ a.side = "BUY" THEN [a EXCEPT !.qty = (@ * share) \div 4] ELSE a :
        a \in acts}

gate_actions_by_mode(acts, mode) ==
    CASE mode = "OBSERVE_ONLY" -> {}
      [] mode = "REDUCE_RISK_ONLY" ->
            {a \in acts : a.type = "CANCEL" \/ (a.type = "SUBMIT" /\ a.side = "SELL")}
      [] mode = "NORMAL" -> acts

\* A submit that only rounding brings below the minimum is rounded up instead.
Floor(q) == (q \div Lot) * Lot
Ceil(q)  == ((q + Lot - 1) \div Lot) * Lot
prefilter_submit_actions_min_notional(in, acts) ==
    {IF a.type = "SUBMIT" /\ in.pairs /\ Floor(a.qty) < MinQty
       THEN [a EXCEPT !.qty = Ceil(MinQty)] ELSE a :
        a \in {x \in acts : x.type = "SUBMIT" /\ in.pairs => x.qty >= MinQty}}

\* Both the kill switch and the freeze after unknown orders let only cancels pass.
suppress_actions(acts, on, freezeAll) ==
    IF on THEN {a \in acts : a.type = "CANCEL" /\ ~freezeAll} ELSE acts

Buys(acts) == {a \in acts : a.side = "BUY" /\ a.type # "CANCEL"}

-----------------------------------------------------------------------------
(* The cycle *)

NoDegrade == [level |-> 0, override |-> None, cool |-> 0, cap |-> NoCap, streak |-> 0,
              warns |-> 0, codes |-> {}, stall |-> 0, rejects |-> 0]

Idle == [at |-> "idle", active |-> {}, in |-> None, read |-> NoDegrade, got |-> Build(0, 0), base |-> None,
         acts |-> {}, stall |-> 0, rejects |-> 0, late |-> FALSE]

ModesInit ==
    /\ load \in Loads
    /\ degrade = NoDegrade
    /\ risk = [mode |-> None, peak |-> 0]
    /\ cyc = Idle
    /\ calm = FALSE
    /\ warnRun = 0 /\ manual = FALSE

\* The universe: the configured symbols up to the cap of the stored level, which
\* a dynamic selection replaces as a whole.
ActiveSymbols(in) ==
    LET capped == IF degrade.level >= 1 THEN {s \in 1 .. Symbols : s <= degrade.cap}
                                        ELSE 1 .. Symbols
    IN  CASE in.dynamic = "off" -> capped
          [] in.dynamic = "some" -> in.selected
          [] in.dynamic = "empty" -> IF ~in.live \/ in.fallback THEN 1 .. Symbols ELSE capped

\* run_one_cycle starts: kill switch, metadata and universe are read.  A live
\* cycle without metadata ends here.
Begin(name) ==
    LET in == Inputs[name]
    IN  /\ cyc.at = "idle"
        /\ calm => in.healthy
        /\ cyc' = IF in.live /\ ~in.pairs THEN Idle
                  ELSE [Idle EXCEPT !.at = "assess", !.in = name, !.active = ActiveSymbols(in),
                                    !.late = (degrade.cool = 0)]
        /\ UNCHANGED <<load, degrade, risk, calm, warnRun, manual>>

\* Market data, the planned actions and the decision of the risk budget, which is
\* stored.  The caps of risk_policy.filter_actions, which only take actions away, are
\* left out.  (A value used often is bound by \E over its singleton: TLC then computes
\* it once.)
Assess ==
    /\ cyc.at = "assess"
    /\ \E in \in {Inputs[cyc.in]} :
       \E snap \in {ResolveMarketSnapshot(in, cyc.active)} :
       \E cover \in {Coverage(in, cyc.active, snap)} :
       \E decision \in {compute_decision(in, cover)} :
          /\ persist_decision(in, decision)
          /\ cyc' = [cyc EXCEPT !.at = "degrade", !.base = decision.mode,
                                !.acts = PlannedActions(in, cyc.active, cover, decision.mult,
                                                        FailedSymbols(in, snap))]
    /\ UNCHANGED <<load, degrade, calm, warnRun, manual>>

CursorStall(in) ==
    IF in.live /\ in.stuck THEN Smaller(degrade.stall + 1, StallThreshold) ELSE 0

\* The degrade state is read here, before the orders go out, and written after them.
Degrade ==
    /\ cyc.at = "degrade"
    /\ \E in \in {Inputs[cyc.in]}, stall \in {CursorStall(Inputs[cyc.in])} :
       \E events \in {detect(ResolveMarketSnapshot(in, cyc.active).ages, in.slow = "before",
                             degrade.rejects, stall, in)} :
       \E warned \in {WarnedBy(events)} :
          cyc' = [cyc EXCEPT !.at = "filter", !.read = degrade, !.stall = stall,
                             !.got = decide_degrade(degrade, events,
                                        IF warned # {} THEN degrade.warns + 1 ELSE 0,
                                        IF warned # {} THEN warned ELSE degrade.codes,
                                        in.breaker)]
    /\ UNCHANGED <<load, degrade, risk, calm, warnRun, manual>>

\* Universe cap, shrink, mode gate, minimum, kill switch and freeze, in this order.
Filter ==
    LET in      == Inputs[cyc.in]
        mode    == IF in.force THEN "NORMAL" ELSE combine_modes(cyc.base, cyc.got.override)
        shrunk  == ShrinkBuys(UniverseCap(cyc.acts, cyc.active, cyc.got.cap), cyc.got.share)
        passed  == prefilter_submit_actions_min_notional(in, gate_actions_by_mode(shrunk, mode))
    IN  /\ cyc.at = "filter"
        /\ cyc' = [cyc EXCEPT !.at = "execute",
                !.acts = suppress_actions(suppress_actions(passed, in.kill, in.freezeAll),
                                          in.frozen, in.freezeAll)]
        /\ UNCHANGED <<load, degrade, risk, calm, warnRun, manual>>

\* The exchange takes the actions and rejects some of the submits.
Execute(rejected) ==
    /\ cyc.at = "execute"
    /\ rejected <= Cardinality({a \in cyc.acts : a.type # "CANCEL"})
    /\ calm => rejected = 0
    /\ cyc' = [cyc EXCEPT !.at = "persist", !.rejects = Smaller(rejected, RejectThreshold)]
    /\ UNCHANGED <<load, degrade, risk, calm, warnRun, manual>>

\* warn_window_count for the next cycle; capped where larger counts act alike.
UpdatedWarns(read, after) ==
    IF WarnedBy(after) # {} THEN Smaller(read.warns + 1, 2 * WarnThreshold) ELSE 0

\* The row as a whole; persist_degrade stores the anomalies with it.
upsert_degrade_state_current(row) == degrade' = row
persist_degrade(row) == upsert_degrade_state_current(row)

\* The anomalies with this cycle's rejects decide the count that is stored; level,
\* cooldown and streak are those the cycle applied.
Persist(ok) ==
    LET in    == Inputs[cyc.in]
        snap  == ResolveMarketSnapshot(in, cyc.active)
        after == detect(snap.ages, in.slow # None, cyc.rejects, cyc.stall, in)
        codes == IF WarnedBy(after) # {} THEN WarnedBy(after) ELSE cyc.read.codes
    IN  /\ cyc.at = "persist"
        /\ calm => ok
        /\ IF ~ok THEN UNCHANGED degrade
           ELSE persist_degrade([level |-> cyc.got.level, override |-> cyc.got.override,
                    cool |-> cyc.got.cool, cap |-> cyc.got.cap,
                    streak |-> cyc.got.streak, warns |-> UpdatedWarns(cyc.read, after),
                    codes |-> codes, stall |-> cyc.stall, rejects |-> cyc.rejects])
        /\ warnRun' = CASE ~ok -> warnRun
                        [] ok /\ WarnedBy(after) = {} -> 0
                        [] ok /\ WarnedBy(after) # {} ->
                              IF cyc.read = degrade THEN Smaller(warnRun + 1, 2 * WarnThreshold)
                                                    ELSE 0
        /\ cyc' = Idle
        /\ UNCHANGED <<load, risk, calm, manual>>

\* The cycle's process dies, or an exception ends the cycle.
Abort ==
    /\ cyc.at # "idle" /\ ~calm /\ load.aborts
    /\ cyc' = Idle
    /\ UNCHANGED <<load, degrade, risk, calm, warnRun, manual>>

-----------------------------------------------------------------------------
(* The operator and the clock *)

run_degrade_clear ==
    /\ load.operator
    /\ upsert_degrade_state_current(NoDegrade)
    /\ warnRun' = 0 /\ manual' = FALSE
    /\ UNCHANGED <<load, risk, cyc, calm>>

\* Levels 3 and 2 without a universe cap; mode NORMAL is level 0.
run_degrade_override(mode, cool) ==
    /\ load.operator /\ ~calm
    /\ persist_degrade([NoDegrade EXCEPT
          !.level    = CASE mode = "OBSERVE_ONLY" -> 3 [] mode = "REDUCE_RISK_ONLY" -> 2
                         [] mode = "NORMAL" -> 0,
          !.override = IF mode = "NORMAL" THEN None ELSE mode,
          !.cool     = IF mode = "NORMAL" THEN 0 ELSE cool,
          !.codes    = {"MANUAL_OVERRIDE"}])
    /\ warnRun' = 0
    /\ manual' = (mode # "NORMAL" /\ cool > 0 /\ cyc.at \in {"idle", "assess", "degrade"})
    /\ UNCHANGED <<load, risk, cyc, calm>>

\* 900 s pass between two cycles; a cycle is shorter than that.
Tick ==
    /\ cyc.at = "idle"
    /\ degrade' = [degrade EXCEPT !.cool = Bigger(0, @ - 1)]
    /\ manual' = (manual /\ degrade.cool > 1)
    /\ UNCHANGED <<load, risk, cyc, calm, warnRun>>

TroubleEnds ==
    /\ ~calm /\ load.cycles # {} /\ calm' = TRUE
    /\ UNCHANGED <<load, degrade, risk, cyc, warnRun, manual>>

CycleStep ==
    \/ Assess \/ Degrade \/ Filter
    \/ \E r \in 0 .. RejectThreshold : Execute(r)
    \/ \E ok \in BOOLEAN : Persist(ok)

-----------------------------------------------------------------------------
(* Properties *)

\* What should keep a cycle from buying: the kill switch, a drawdown from the
\* highest equity stored, an ERROR anomaly or an open breaker, warnings for
\* WarnThreshold cycles in a row, and an override of the operator that is in force.
Troubled(in) ==
    \/ in.kill \/ in.breaker \/ in.diverge = "ERROR"
    \/ risk.peak - in.equity >= MaxDrawdown
    \/ manual
    \/ warnRun + 1 >= WarnThreshold /\ in.skew /\ "CLOCK_SKEW" \in WarnCodes

\* A troubled cycle sends no order that buys, whatever it planned and whichever
\* level and cooldown earlier cycles and the operator left behind; only the
\* forced dry run is exempt (run_one_cycle, decide_degrade, _gate_actions_by_mode).
Stage4DoesNotBuy ==
    cyc.at = "execute" =>
        (~Inputs[cyc.in].force /\ Troubled(Inputs[cyc.in]) => Buys(cyc.acts) = {})

\* A cycle lowers the degrade level only when it started after the cooldown: by
\* one, or to the level the warnings of the last cycles call for, which takes a
\* level 3 straight to 1.  A write of the operator that a cycle in flight has not
\* read is lost and exempt (decide_degrade, persist_degrade).
LevelFallsLate ==
    [][degrade'.level < degrade.level /\ cyc'.at # cyc.at /\ cyc.read = degrade =>
          /\ cyc.late
          /\ \/ degrade'.level = degrade.level - 1
             \/ degrade'.level >= 1 /\ degrade.warns + 1 >= WarnThreshold]_modeVars

\* When trouble has ended for good and cycles keep starting after the cooldown, the
\* degrade level comes back to 0 and stays there (the hysteresis of decide_degrade).
DegradeRecovers ==
    (<>[]calm /\ []<>(cyc.at = "degrade" /\ cyc.late)) => <>[](degrade.level = 0)
=============================================================================
