--------------------------- MODULE Stage7Planning ---------------------------
(***************************************************************************)
(* How a Stage-7 cycle turns balances and prices into orders: the target   *)
(* portfolio, the rebalancing actions it takes, the exchange rules of each *)
(* pair, the order built from each action, and the caps of the cycle's     *)
(* risk decision.  Amounts are whole TRY and quantities whole units of the *)
(* finest step, rounded down where the code rounds down.                   *)
(***************************************************************************)
EXTENDS Integers, Sequences, FiniteSets, FiniteSetsExt, Functions, SequencesExt

CONSTANTS
    Settings \* the Stage-7 settings used here, a record

\* feeBps is the fee buffer after its clipping to the range from 0 to 1.
ASSUME SettingsAssumption ==
    Settings \in [safeMin : Int, fallbackMin : Int, minOrder : Int, requireMetadata : BOOLEAN,
                  cashTarget : Int, cashMax : Int, maxPosition : Int, roundingBuffer : Int,
                  maxPerOrder : Int, feeBps : 0 .. 10000, maxOrder : Int, maxExposure : Int,
                  dailyLoss : Int]

Nothing == "none"
Least(a, b)    == IF a <= b THEN a ELSE b
Greatest(a, b) == IF a >= b THEN a ELSE b
RoundDown(x, step) == (x \div step) * step

\* The sum of the values of a function.
TotalOf(f) == FoldFunction(LAMBDA x, y : x + y, 0, f)

\* The members of S in the order that the relation R gives them.
SortedBy(S, R) ==
    [n \in 1 .. Cardinality(S) |-> CHOOSE a \in S : Cardinality({b \in S : <<b, a>> \in R}) = n - 1]

-----------------------------------------------------------------------------
(* Exchange rules (exchange_rules_service.py).  A pair's metadata has a kind: *)
(* "pair", "absent", "odd" (a schema that is not understood) or "error"; 0   *)
(* stands for a field that is missing or zero.                               *)

safe_min_notional == Greatest(Settings.safeMin, Greatest(Settings.fallbackMin, Settings.minOrder))

fallback_rules ==
    [tick |-> 1, lot |-> 1, least |-> Settings.fallbackMin, minQty |-> 0, maxQty |-> 0]
NoRules == [tick |-> 1, lot |-> 1, least |-> 0, minQty |-> 0, maxQty |-> 0]

\* A lot size that is missing is taken from the smallest quantity, then from the scale.
LotOf(pair) == CASE pair.lot > 0 -> pair.lot
                 [] pair.lot = 0 /\ pair.minQty > 0 -> pair.minQty
                 [] OTHER -> pair.scaleStep

\* The largest of the minimums the metadata names, in whichever of its fields.
MinNotionalOf(pair) ==
    CASE pair.totals # {} -> Max(pair.totals)
      [] pair.totals = {} /\ pair.quote = "TRY" -> safe_min_notional
      [] OTHER -> 0

extract_rules(pair) ==
    [tick |-> pair.tick, lot |-> LotOf(pair), least |-> MinNotionalOf(pair),
     minQty |-> pair.minQty, maxQty |-> pair.maxQty]
is_valid_rules(r) == r.tick > 0 /\ r.lot > 0 /\ r.least > 0

ParseStatus(pair) ==
    CASE pair.kind = "error"  -> "upstream_fetch_failure"
      [] pair.kind = "absent" -> "missing"
      [] pair.kind = "odd"    -> "unsupported_schema_variant"
      [] pair.kind = "pair"   ->
            IF is_valid_rules(extract_rules(pair)) THEN "ok" ELSE "invalid_metadata"

\* A pair whose metadata cannot be used has fallback rules unless metadata is required;
\* a fetch that failed has none.
resolve_symbol_rules(pair) ==
    LET status == ParseStatus(pair)
    IN  CASE status = "ok" -> [status |-> "ok", rules |-> extract_rules(pair)]
          [] status \notin {"ok", "upstream_fetch_failure"} /\ ~Settings.requireMetadata ->
                [status |-> "fallback", rules |-> fallback_rules]
          [] OTHER -> [status |-> status, rules |-> NoRules]

resolve_boundary(pair) == resolve_symbol_rules(pair)
Usable(pair) == resolve_boundary(pair).status \in {"ok", "fallback"}

quantize_price(r, price) == RoundDown(price, r.tick)
quantize_qty(r, qty)     == RoundDown(qty, r.lot)
validate_notional(r, price, qty) ==
    /\ price > 0 /\ qty > 0
    /\ qty >= r.minQty /\ (r.maxQty > 0 => qty <= r.maxQty)
    /\ price * qty >= r.least

-----------------------------------------------------------------------------
(* The target portfolio (portfolio_policy_service.py).  pf is what a cycle sees: *)
(* cash, held (free quantity by symbol), marks (the symbols that have a price)  *)
(* and pairs; lim holds the parameters in force.                                *)

cash_target == Least(Settings.cashTarget, Settings.cashMax)
Universe(pf) == pf.universe \cap DOMAIN pf.marks
Value(pf, s) == pf.held[s] * pf.marks[s]
Equity(pf) == pf.cash + TotalOf([s \in Universe(pf) |-> Value(pf, s)])

\* Equal weights (get_portfolio_target_weights without PORTFOLIO_TARGETS).
build_allocations(pf) ==
    LET investable == Greatest(0, Equity(pf) - cash_target)
    IN  IF investable = 0 THEN <<>>
        ELSE [s \in Universe(pf) |->
                Least(investable \div Cardinality(Universe(pf)), Settings.maxPosition)]

build_raw_actions(pf) ==
    LET target == build_allocations(pf)
        delta  == [s \in DOMAIN target |-> target[s] - Value(pf, s)]
    IN  {[side |-> IF delta[s] < 0 THEN "SELL" ELSE "BUY", at |-> s,
          amount |-> IF delta[s] < 0 THEN -delta[s] ELSE delta[s]] :
            s \in {x \in DOMAIN delta : delta[x] # 0}}

Side(a) == IF a.side = "SELL" THEN 0 ELSE 1
\* Sells before buys, the larger amount first, then by symbol.
Before(a, b) ==
    \/ Side(a) < Side(b)
    \/ Side(a) = Side(b) /\ a.amount > b.amount
    \/ Side(a) = Side(b) /\ a.amount = b.amount /\ a.at < b.at
LargestFirst(S) == SortedBy(S, {p \in S \X S : Before(p[1], p[2])})

(* Mutant: an action does not use up the turnover of the cycle. *)
TurnoverLeftUnspent(left, applied) == left

TurnoverLeft(left, applied) == left - applied

\* The next action is given what is left of the turnover cap; one whose quantity rounds
\* to 0 has used it up all the same.
TakeTurnover(pf, acc, a) ==
    LET applied == Least(a.amount, acc.left)
        qty     == applied \div pf.marks[a.at]
    IN  IF acc.left <= 0 \/ applied < Settings.minOrder THEN acc
        ELSE [left |-> TurnoverLeft(acc.left, applied),
              out  |-> IF qty <= 0 THEN acc.out
                       ELSE acc.out \cup {[side |-> a.side, at |-> a.at, amount |-> applied,
                                           qty |-> qty]}]

WithinTurnover(pf, cap, acts) ==
    FoldLeft(LAMBDA acc, a : TakeTurnover(pf, acc, a), [left |-> cap, out |-> {}], acts).out

apply_constraints(pf, lim, raw) ==
    LET large  == {a \in raw : a.amount >= Settings.minOrder}
        sorted == LargestFirst(WithinTurnover(pf, lim.turnover, LargestFirst(large)))
    IN  {sorted[i] : i \in 1 .. Least(Len(sorted), Greatest(0, lim.orders))}

build_plan(pf, lim, mode) ==
    {a \in apply_constraints(pf, lim, build_raw_actions(pf)) :
        mode # "OBSERVE_ONLY" /\ (mode = "REDUCE_RISK_ONLY" => a.side = "SELL")}

-----------------------------------------------------------------------------
(* Orders (order_builder_service.py) *)

\* Limit price below the mark for a buy and above it for a sell.
OrderPrice(pf, lim, a, r) ==
    quantize_price(r, (pf.marks[a.at] * (IF a.side = "BUY" THEN 10000 - lim.offset
                                                           ELSE 10000 + lim.offset)) \div 10000)

rounding_buffer(price, r) ==
    IF Settings.roundingBuffer > 0 THEN Settings.roundingBuffer
                                   ELSE Greatest(price * r.lot, r.tick * r.lot)
\* Every buy may use the whole cash of the snapshot; a cap that is used up (0) is not applied.
max_spend_after_buffers(pf, a, price, r, left) ==
    LET limits == {a.amount, pf.cash} \cup (IF left > 0 THEN {left} ELSE {})
                    \cup (IF Settings.maxPerOrder > 0 THEN {Settings.maxPerOrder} ELSE {})
    IN  Greatest(0, (Min(limits) * (10000 - Settings.feeBps)) \div 10000 - rounding_buffer(price, r))

resolve_sell_qty(pf, a, r) == quantize_qty(r, Least(a.qty, Greatest(0, pf.held[a.at])))

Skip(a, why) == [side |-> a.side, at |-> a.at, price |-> 0, qty |-> 0, skip |-> why]

\* The first reason not to send the order, else the order.
build_action_intent(pf, lim, a, left) ==
    LET r     == resolve_boundary(pf.pairs[a.at]).rules
        price == OrderPrice(pf, lim, a, r)
        spend == max_spend_after_buffers(pf, a, price, r, left)
        qty   == CASE price = 0 -> 0
                   [] price > 0 /\ a.side = "SELL" -> resolve_sell_qty(pf, a, r)
                   [] OTHER -> quantize_qty(r, spend \div price)
        checks ==
          << <<~Usable(pf.pairs[a.at]), "rules_unavailable">>,
             <<price = 0, "price_rounds_to_zero">>,
             <<a.side = "BUY" /\ spend < Greatest(r.least, Settings.minOrder),
               "insufficient_notional_after_buffers">>,
             <<a.side = "SELL" /\ pf.held[a.at] <= 0, "insufficient_inventory_free_qty">>,
             <<qty <= 0, "qty_rounds_to_zero">>,
             <<qty < r.minQty, "qty_below_min_qty_after_quantize">>,
             <<price * qty < r.least, "notional_below_min_total_after_quantize">>,
             <<a.side = "SELL" /\ price * qty < Settings.minOrder,
               "notional_below_internal_min_after_quantize">>,
             <<~validate_notional(r, price, qty), "max_qty">> >>
        failed == {i \in DOMAIN checks : checks[i][1]}
    IN  IF failed # {} THEN Skip(a, checks[Min(failed)][2])
        ELSE [side |-> a.side, at |-> a.at, price |-> price, qty |-> qty, skip |-> Nothing]

SellsFirst(S) ==
    SortedBy(S, {p \in S \X S : Side(p[1]) < Side(p[2]) \/ (Side(p[1]) = Side(p[2]) /\ p[1].at < p[2].at)})

\* A buy that is sent reduces what the next ones may spend.
BuildIntent(pf, lim, acc, a) ==
    LET intent == build_action_intent(pf, lim, a, acc.left)
    IN  [left |-> IF intent.side = "BUY" /\ intent.skip = Nothing /\ acc.left > 0
                    THEN Greatest(0, acc.left - intent.price * intent.qty)
                    ELSE acc.left,
         out |-> acc.out \cup {intent}]

\* Sells, then buys, by symbol.
IntentsInOrder(pf, lim, acts) ==
    FoldLeft(LAMBDA acc, a : BuildIntent(pf, lim, acc, a), [left |-> lim.turnover, out |-> {}], acts).out
build_order_intents(pf, lim, plan) == IntentsInOrder(pf, lim, SellsFirst(plan))

\* The planning kernel hands the order intents over by symbol.
KernelOrder(intents) == SortedBy(intents, {p \in intents \X intents : p[1].at < p[2].at})

-----------------------------------------------------------------------------
(* Caps of the cycle's risk decision (risk_policy_service.py) *)

reduces_position(a, held) == (a.side = "SELL" /\ held > 0) \/ (a.side = "BUY" /\ held < 0)
Projected(a, held) ==
    LET after == IF a.side = "BUY" THEN held + a.qty ELSE held - a.qty
    IN  IF after < 0 THEN -after ELSE after

\* held: the positions of the store, which the balances of the plan need not equal.
Accepts(a, n, held, caps) ==
    /\ caps.mode # "OBSERVE_ONLY"
    /\ caps.mode = "REDUCE_RISK_ONLY" => reduces_position(a, held[a.at])
    /\ n < caps.orders
    /\ a.price * a.qty <= caps.notional
    /\ Projected(a, held[a.at]) * a.price <= caps.exposure

filter_actions(intents, held, caps) ==
    FoldLeft(LAMBDA acc, a : IF Accepts(a, Cardinality(acc), held, caps) THEN acc \cup {a} ELSE acc,
             {}, intents)

filter_order_intents_by_risk(intents, held, caps) ==
    filter_actions(KernelOrder({a \in intents : a.skip = Nothing}), held, caps)
=============================================================================
