------------------------------ MODULE MC_Paper ------------------------------
(***************************************************************************)
(* PaperRuntime with three intents: a spread of two buys, a sale that       *)
(* expires, and another decision sent under the client key of the sale;    *)
(* and the delivery of such orders' events to a consumer.  The delivery    *)
(* reads only the events: a behaviour exercises one of the two.            *)
(***************************************************************************)
EXTENDS PaperRuntime, EventDelivery, TLC

CONSTANTS pairs, sale, retry, k1, k2, i1, i2

Leg(instrument, side, quantity, limit) ==
    [instrument |-> instrument, side |-> side, quantity |-> quantity, limit |-> limit]

MC_IntentOf ==
    pairs :> [key |-> k1, legs |-> <<Leg(i1, "BUY", 2, 0), Leg(i2, "BUY", 1, 0)>>,
               validUntil |-> MaxTime, allOrNone |-> FALSE, timeInForce |-> "DAY"]
    @@ sale :> [key |-> k2, legs |-> <<Leg(i1, "SELL", 3, 0)>>,
               validUntil |-> 0, allOrNone |-> FALSE, timeInForce |-> "IOC"]
    @@ retry :> [key |-> k2, legs |-> <<Leg(i1, "BUY", 2, 6)>>,
               validUntil |-> MaxTime, allOrNone |-> TRUE, timeInForce |-> "DAY"]

MC_Model ==
    [slippage |-> "TOUCH", parameter |-> <<1, 2>>, halfSpread |-> <<1, 4>>, partial |-> TRUE,
     participation |-> <<1, 2>>, draw |-> {}, refuseStale |-> TRUE, fee |-> 1]

Quote(bid, ask, volume, stale) ==
    [bid |-> bid, ask |-> ask, ltp |-> 0, volume |-> volume, stale |-> stale]

MC_Quotes == {Quote(4, 6, 0, FALSE), Quote(2, 4, 2, FALSE), Quote(4, 6, 2, TRUE)}

RuntimeTurn == DeliveryInit /\ Next /\ UNCHANGED deliveryVars
DeliveryTurn == Init /\ DeliveryNext /\ UNCHANGED vars

PaperInit == Init /\ DeliveryInit

PaperSpec ==
    /\ PaperInit
    /\ [][RuntimeTurn \/ DeliveryTurn]_<<vars, deliveryVars>>
    /\ DeliveryFairness
=============================================================================
