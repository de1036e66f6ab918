---------------------------- MODULE MC_PaperRisk ----------------------------
(***************************************************************************)
(* PaperRiskAccount with three intents of one strategy: a buy, a spread,   *)
(* and a sale that the policy may have to cut down.                        *)
(***************************************************************************)
EXTENDS PaperRiskAccount

CONSTANTS buy, pair, sale, i1, i2, u

Leg(instrument, side, quantity) ==
    [instrument |-> instrument, side |-> side, quantity |-> quantity, limit |-> 0]

Intent(i, legs) ==
    [key |-> i, strategy |-> "s", legs |-> legs, validUntil |-> MaxTime, allOrNone |-> FALSE,
     timeInForce |-> "DAY"]

MC_IntentOf ==
    buy :> Intent(buy, <<Leg(i1, "BUY", 2)>>)
    @@ pair :> Intent(pair, <<Leg(i1, "BUY", 3), Leg(i2, "SELL", 1)>>)
    @@ sale :> Intent(sale, <<Leg(i1, "SELL", 3)>>)

MC_Model ==
    [slippage |-> "TOUCH", parameter |-> <<1, 2>>, halfSpread |-> <<1, 4>>, partial |-> TRUE,
     participation |-> <<1, 1>>, draw |-> {}, refuseStale |-> TRUE, fee |-> 1]

Quote(bid, ask, volume) ==
    [bid |-> bid, ask |-> ask, ltp |-> 0, volume |-> volume, stale |-> FALSE]

MC_Quotes == {Quote(4, 6, 0), Quote(2, 4, 1)}

Market(mark, quality) ==
    [listed |-> Instruments, marks |-> [x \in Instruments |-> IF x = i1 THEN mark ELSE 3],
     quality |-> quality, coverage |-> 95, staleness |-> 0, underlying |-> u,
     expiry |-> [x \in Instruments |-> 1], strike |-> [x \in Instruments |-> 1]]

MC_FewMarkets == {Market(5, "GOOD"), Market(None, "GOOD"), Market(2, "UNRELIABLE")}

MC_Policy ==
    [allowResizing |-> TRUE, validity |-> 1,
     limits |->
        [Unlimited EXCEPT !.max_state_staleness = 1, !.min_state_coverage = 90,
                          !.max_order_quantity = 3, !.max_orders_per_interval = 9,
                          !.max_position_per_instrument = 2, !.max_position_per_underlying = 5,
                          !.max_position_per_strategy = 5, !.max_daily_loss = 5,
                          !.max_loss_per_strategy = 3]]
=============================================================================
