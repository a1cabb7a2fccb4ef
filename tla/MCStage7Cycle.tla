--------------------------- MODULE MCStage7Cycle ---------------------------
EXTENDS Stage7Cycle

(* What a Stage-4 cycle may find: a calm one, and one kind of trouble each. *)
Calm == [live |-> TRUE, pairs |-> TRUE, force |-> FALSE, kill |-> FALSE, frozen |-> FALSE,
         freezeAll |-> FALSE, dynamic |-> "off", selected |-> {1, 5}, fallback |-> TRUE,
         books |-> [s \in 1 .. 5 |-> "both"], unlisted |-> {}, net |-> TRUE, equity |-> 4,
         dayLoss |-> FALSE, halt |-> FALSE, held |-> [s \in {1} |-> 1], fees |-> "ok",
         days |-> <<>>, volatile |-> FALSE, slow |-> None, skew |-> FALSE, diverge |-> None,
         breaker |-> FALSE, stuck |-> FALSE, riskStored |-> TRUE, bootstrap |-> FALSE,
         openBuys |-> {},
         wants |-> {Action("SUBMIT", "BUY", 1, 4), Action("SUBMIT", "SELL", 5, 4)},
         stale |-> {Action("CANCEL", "BUY", 2, 4), Action("REPLACE", "BUY", 2, 4)},
         healthy |-> TRUE]
Trouble(r) == [r EXCEPT !.healthy = FALSE]
MCInputs ==
    [calm   |-> Calm,
     skew   |-> Trouble([Calm EXCEPT !.skew = TRUE]),
     error  |-> Trouble([Calm EXCEPT !.diverge = "ERROR"]),
     broken |-> Trouble([Calm EXCEPT !.breaker = TRUE, !.stuck = TRUE]),
     killed |-> Trouble([Calm EXCEPT !.kill = TRUE, !.slow = "after"]),
     blind  |-> Trouble([Calm EXCEPT !.pairs = FALSE]),
     forced |-> Trouble([Calm EXCEPT !.live = FALSE, !.force = TRUE, !.kill = TRUE, !.pairs = FALSE]),
     frozen |-> Trouble([Calm EXCEPT !.frozen = TRUE, !.freezeAll = TRUE]),
     loses  |-> Trouble([Calm EXCEPT !.equity = 1, !.riskStored = FALSE]),
     heavy  |-> Trouble([Calm EXCEPT !.held = [s \in {1} |-> 2], !.days = <<-1, -1, -1>>]),
     costly |-> Trouble([Calm EXCEPT !.fees = "missing", !.dynamic = "some", !.unlisted = {5}]),
     thin   |-> Trouble([Calm EXCEPT !.wants = {}, !.bootstrap = TRUE, !.volatile = TRUE,
                                     !.openBuys = {1}, !.dynamic = "empty",
                                     !.books = [s \in 1 .. 5 |-> IF s = 2 THEN "crossed" ELSE "bid"]]),
     dark   |-> Trouble([Calm EXCEPT !.books = [s \in 1 .. 5 |-> "failed"], !.slow = "before"])]

(* What a Stage-7 cycle may find.  Symbols 1 and 2 are configured. *)
Pair == [kind |-> "pair", tick |-> 1, lot |-> 2, minQty |-> 2, maxQty |-> 40, totals |-> {20, 30},
         quote |-> "TRY", scaleStep |-> 1]
Sight == [books |-> <<10, 20, 30>>, last |-> <<10, 20, 30>>, selected |-> {1, 2}, tickers |-> "new",
          spread |-> "calm", cash |-> 600, held |-> <<4, 20, 0>>, positions |-> <<4, 20, 0>>,
          pairs |-> [s \in 1 .. 3 |-> Pair], simulated |-> {}, strictRules |-> FALSE,
          troubles |-> {}, result |-> [pnl |-> 0, drawdown |-> 0]]
Ended(pnl, drawdown) == [Sight EXCEPT !.result = [pnl |-> pnl, drawdown |-> drawdown]]
Unpriced == [Sight EXCEPT !.tickers = "untimed", !.simulated = {[side |-> "SELL", at |-> 3]}, !.books[3] = 0]

Plans ==
    {[Sight EXCEPT !.cash = c, !.held[1] = h, !.held[2] = g, !.books[1] = b, !.selected = u,
                   !.pairs[2] = p, !.spread = s] :
        c \in {0, 90, 700}, h \in {0, 3, 65}, g \in {0, 33}, b \in {0, 7}, u \in {{1, 2}, {2, 3}},
        p \in {Pair, [Pair EXCEPT !.kind = "absent"], [Pair EXCEPT !.lot = 0, !.minQty = 3],
               [Pair EXCEPT !.totals = {}, !.lot = 5, !.maxQty = 12], [Pair EXCEPT !.tick = 0]},
        s \in {"calm", "extreme"}}

MCSettings == [safeMin |-> 100, fallbackMin |-> 10, minOrder |-> 20, requireMetadata |-> TRUE,
               cashTarget |-> 100, cashMax |-> 500, maxPosition |-> 400, roundingBuffer |-> 0,
               maxPerOrder |-> 250, feeBps |-> 100, maxOrder |-> 300, maxExposure |-> 800,
               dailyLoss |-> 500]
MCSeed == [version |-> 1, size |-> 5, offset |-> 5, turnover |-> 400, orders |-> 2, spread |-> 20,
           volume |-> 0]
MCWarn == {"CLOCK_SKEW", "ORDER_REJECT_SPIKE", "EXCHANGE_LATENCY_SPIKE", "CURSOR_STALL"}

Load == [cycles |-> {}, aborts |-> FALSE, operator |-> FALSE, sights |-> {}, most |-> 0, adapt |-> TRUE]
MCLoads ==
    {[Load EXCEPT !.cycles = {"calm", "skew", "error"}],
     [Load EXCEPT !.cycles = {"calm"}, !.aborts = TRUE, !.operator = TRUE],
     [Load EXCEPT !.cycles = {"broken"}, !.operator = TRUE]}
    \cup {[Load EXCEPT !.cycles = {"calm", name}] : name \in DOMAIN MCInputs \ {"skew", "error"}}
    \cup {[Load EXCEPT !.cycles = {name}, !.sights = {Sight, [Sight EXCEPT !.tickers = "none"]},
                      !.most = 2, !.adapt = FALSE] : name \in {"killed", "heavy"}}
    \cup {[Load EXCEPT !.sights = Plans, !.most = 1, !.adapt = FALSE],
          [Load EXCEPT !.sights = {Ended(0, 0), Ended(0, 30)}, !.most = Window + 1, !.aborts = TRUE],
          [Load EXCEPT !.sights = {Sight, Ended(-600, 0), Unpriced}, !.most = Window + 1],
          [Load EXCEPT !.sights = {Sight, Ended(0, 2), [Sight EXCEPT !.troubles = {"throttled"}],
                                   [Sight EXCEPT !.troubles = {"spike", "retries"}, !.tickers = "old"]},
                       !.most = Window + 1]}
=============================================================================
