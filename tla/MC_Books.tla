------------------------------ MODULE MC_Books ------------------------------
(***************************************************************************)
(* What is on the books: of an account its ledger, the fills simulated for *)
(* it and the risk decisions on it; of the market the observations, the    *)
(* states built from them and the subscriptions planned.  They share no    *)
(* state that is modelled: a behaviour moves one of them, and the others   *)
(* stay where they begin.  A fill and a decision keep no state: they are   *)
(* asked one question at a time, in two steps (the quote, then the order   *)
(* and the model; the intent, then what it meets).                         *)
(***************************************************************************)
EXTENDS LedgerRecovery, Inquiries, ObservationStore, MarketState, SubscriptionPlanner, TLC

CONSTANTS BookPrices, Volumes, MaxOrder

MC_FillModels == {[slippage |-> s, parameter |-> <<1, 2>>, halfSpread |-> <<1, 4>>,
                   partial |-> p, participation |-> <<1, 2>>, draw |-> {},
                   refuseStale |-> TRUE, fee |-> 1] :
                     s \in {"MID", "TOUCH", "FRACTION", "IMPACT"}, p \in BOOLEAN}

MC_FillLegs == [bid : {0} \cup BookPrices, ask : {0} \cup BookPrices,
                ltp : {0} \cup BookPrices, volume : Volumes, stale : BOOLEAN]

MC_FillOrders == [id : {1}, side : {"BUY", "SELL"}, quantity : 1 .. MaxOrder,
                  limit : {0} \cup BookPrices]
-----------------------------------------------------------------------------
CONSTANTS i1, i2, u, MaxLeg

NoLimits ==
    [Unlimited EXCEPT !.session = [opens |-> 0, closes |-> 2, expiryDayCloses |-> 1]]

BySize == [NoLimits EXCEPT !.max_order_quantity = 3, !.max_position_per_instrument = 3,
                           !.max_position_per_strategy = 4]
ByValue == [NoLimits EXCEPT !.max_order_notional = 9, !.max_deployed_capital = 12,
                            !.max_leverage = 200, !.max_state_staleness = 1,
                            !.min_state_coverage = 90, !.max_drawdown = 2,
                            !.max_loss_per_strategy = 2, !.max_orders_per_interval = 3]
ByBook == [NoLimits EXCEPT !.max_order_quantity = 4, !.max_position_per_underlying = 4, !.max_gross_delta = 5,
                           !.max_underlying_concentration = 90, !.max_expiry_concentration = 60]

MC_Policies == {[limits |-> L, allowResizing |-> TRUE, validity |-> 1] : L \in {BySize, ByValue, ByBook}}

LegSets == {<<[instrument |-> x, side |-> s, quantity |-> 1, limit |-> p]>> :
                x \in {i1}, s \in Sides, p \in {0, 2}}
           \cup
           {<<[instrument |-> i1, side |-> s, quantity |-> 1, limit |-> 0],
              [instrument |-> x, side |-> t, quantity |-> 1, limit |-> 2]>> :
                s \in Sides, t \in Sides, x \in {i1, i2}}

Groups(second) ==
    [x \in Instruments |-> [underlying |-> IF x = i1 THEN u ELSE second,
                            expiry |-> IF x = i1 THEN 1 ELSE 2, strike |-> 1]]

State(engaged, quality, positions, groups, marks, delta) ==
    [asOf |-> 1, knowledgeTime |-> 1, engaged |-> engaged, haltedStrategies |-> {},
     isExpiryDay |-> TRUE, venue |-> "HEALTHY", quality |-> quality, staleness |-> 0,
     coverage |-> 95, positions |-> positions, groups |-> groups, marks |-> marks,
     cash |-> 9, reserved |-> 1, equity |-> 9,
     positionByStrategy |-> [strategy \in {"s"} |-> AbsInt(positions[i1]) + AbsInt(positions[i2])],
     lossByStrategy |-> [strategy \in {"s"} |-> 1], ordersInInterval |-> 1,
     dailyLoss |-> 0, drawdown |-> 1,
     greeks |-> [net_delta |-> None, gross_delta |-> delta, gross_gamma |-> None,
                 gross_vega |-> None, gross_theta |-> None]]

Positions == {p \in [Instruments -> {-3, 0, 1, 3}] : p[i2] \in 0 .. 1}

WithQuantities(legs) ==
    {[n \in DOMAIN legs |-> [legs[n] EXCEPT !.quantity = q[n]]] : q \in [DOMAIN legs -> 1 .. MaxLeg]}

MC_RiskIntents == [strategy : {"s"}, legs : UNION {WithQuantities(legs) : legs \in LegSets}]

FlatBook == [x \in Instruments |-> 0]

MC_RiskStates ==
    LET seen == [Instruments -> PricesSeen \cup {None}]
    IN  {State(FALSE, "OK", positions, Groups(second), marks, delta) :
            positions \in Positions, second \in {u, None}, delta \in {4, None}, marks \in seen}
        \cup
        {State(halt, IF halt THEN "OK" ELSE "UNKNOWN", FlatBook, Groups(u), marks, None) :
            marks \in seen, halt \in BOOLEAN}
-----------------------------------------------------------------------------
CONSTANTS spot, fut, o1, e1

Message(session, id, sequence, content, time, greeks) ==
    [session |-> session, id |-> id, sequence |-> sequence, content |-> content, time |-> time,
     greeks |-> greeks]

MC_Messages ==
    {Message(1, 1, 0, "a", 1, FALSE),   \* an id, and the same id of another session
     Message(2, 1, 0, "b", 2, FALSE),
     Message(1, 0, 1, "a", 2, TRUE),    \* a sequence, and the same one after a reconnect
     Message(2, 0, 1, "a", 1, FALSE),
     Message(1, 0, 0, "a", 0, FALSE),   \* the V3 feed
     Message(0, 0, 0, "a", 1, TRUE),    \* REST, with and without a venue time
     Message(0, 0, 0, "a", 0, FALSE)}

MC_Contracts == e1 :> {o1}
MC_LastDay == e1 :> 2
MC_MaxAge == [spot |-> 0, futures |-> 1, option_quote |-> 1, option_oi |-> 2, greeks |-> 2]

AccountIdle == RecoveryInit /\ fill = <<>> /\ risk = <<>>
MarketIdle == StoreInit /\ MarketInit /\ PlannerInit

accountVars == <<recoveryVars, fill, risk>>
marketDataVars == <<storeVars, marketVars, plan>>

Init == RecoveryInit /\ FillInit /\ RiskInit /\ MarketIdle

LedgerTurn == fill = <<>> /\ risk = <<>> /\ RecoveryNext /\ UNCHANGED <<fill, risk>>
FillTurn == RecoveryInit /\ risk = <<>> /\ FillNext /\ UNCHANGED <<recoveryVars, risk>>
RiskTurn == RecoveryInit /\ fill = <<>> /\ RiskNext /\ UNCHANGED <<recoveryVars, fill>>

StoreTurn == MarketInit /\ PlannerInit /\ StoreNext /\ UNCHANGED <<marketVars, plan>>
MarketTurn == StoreInit /\ PlannerInit /\ MarketNext /\ UNCHANGED <<storeVars, plan>>
PlannerTurn == StoreInit /\ MarketInit /\ PlannerNext /\ UNCHANGED <<storeVars, marketVars>>

Next ==
    \/ MarketIdle /\ (LedgerTurn \/ FillTurn \/ RiskTurn) /\ UNCHANGED marketDataVars
    \/ AccountIdle /\ (StoreTurn \/ MarketTurn \/ PlannerTurn) /\ UNCHANGED accountVars
=============================================================================
