-------------------------- MODULE PaperRiskAccount --------------------------
(***************************************************************************)
(* A paper account behind the real risk engine: what submit decides from   *)
(* the risk state it assembles (PaperTradingRuntime.risk_state) out of the *)
(* ledger, the orders and the decision's market state.  It implements      *)
(* PaperRuntime, where the gate may decide anything.                       *)
(*                                                                         *)
(* Amounts are whole: a loss is rounded up, which no whole limit can tell  *)
(* from the exact one, and equity down.                                    *)
(***************************************************************************)
EXTENDS PaperRuntime, RiskEngine

CONSTANTS
    Policy,         \* [limits, allowResizing, validity]
    MarketStates    \* [listed, marks, quality, coverage, staleness, underlying, expiry, strike]

(* RiskPolicy and RiskEngine: a limit is set or not; approvals last.       *)
ASSUME PolicyAssumption ==
    /\ IsFiniteSet(Instruments) /\ Policy.validity \in Nat
    /\ \A id \in {"max_order_quantity", "max_position_per_instrument",
                  "max_position_per_underlying", "max_position_per_strategy"} :
          Policy.limits[id] \in Int \cup {None}

VARIABLE audit      \* the evaluated intents -> [at, state, decision]

riskVars == <<vars, audit>>

Strategies == {IntentOf[i].strategy : i \in Intents}

OrdersOf(s) == {o \in OrderIds : IntentOf[o[1]].strategy = s}

PositionByStrategy ==
    [s \in Strategies |-> TotalOf([o \in OrdersOf(s) |-> orders[o].filled])]

GroupsIn(m) ==
    [x \in Instruments |->
        IF x \in m.listed THEN [underlying |-> m.underlying, expiry |-> m.expiry[x], strike |-> m.strike[x]]
        ELSE [underlying |-> None, expiry |-> None, strike |-> None]]

Marked(m) == {x \in Instruments : m.marks[x] # None}

LossOf(amount) == Max({0, -(amount[1] \div amount[2])})

RiskState(m) ==
    LET marks == [x \in Marked(m) |-> m.marks[x]]
        equity == Equity(book, marks)
    IN  [asOf |-> now, knowledgeTime |-> now, engaged |-> killed, haltedStrategies |-> {},
         isExpiryDay |-> FALSE, venue |-> "PAPER_SIMULATED",
         quality |-> m.quality, coverage |-> m.coverage, staleness |-> m.staleness,
         positions |-> [x \in Instruments |-> book.positions[x].quantity],
         groups |-> GroupsIn(m), marks |-> m.marks,
         cash |-> book.cash, reserved |-> book.cash - AvailableCash,
         equity |-> equity[1] \div equity[2],
         dailyLoss |-> LossOf(Plus(book.realized, Unrealized(book, marks))),
         drawdown |-> LossOf(Minus(equity, Whole(OpeningCash))),
         lossByStrategy |-> [s \in Strategies |-> None],
         positionByStrategy |-> PositionByStrategy,
         ordersInInterval |-> Cardinality({o \in OrderIds : orders[o] # NoOrder}),
         greeks |-> [net_delta |-> None, gross_delta |-> None, gross_gamma |-> None,
                     gross_vega |-> None, gross_theta |-> None]]

RiskDecision(i, state) == Evaluate(IntentOf[i], state, Policy, now, now)

AsVerdict(decision) ==
    [approved   |-> decision.verdict # "REJECTED",
     actionable |-> IsActionableAt(decision, now),
     quantity   |-> decision.quantity]

RiskInit == Init /\ audit = <<>>

SubmitJudged(i) ==
    \E m \in MarketStates :
        LET decision == RiskDecision(i, RiskState(m))
        IN  /\ \/ NotAuthorized(i, AsVerdict(decision))
               \/ Authorized(i, AsVerdict(decision))
            /\ audit' = [j \in DOMAIN audit \cup {i} |->
                    IF j = i THEN [at |-> now, state |-> RiskState(m), decision |-> decision]
                    ELSE audit[j]]

RiskNext ==
    \/ \E i \in Intents : SubmitJudged(i)
    \/ /\ \/ \E i \in Intents : SubmitDuplicate(i) \/ SubmitRefused(i)
          \/ \E o \in OrderIds : Cancel(o)
          \/ ExpireStaleOrders
          \/ \E status \in DOMAIN AccountTransitions : SetStatus(status)
          \/ SetKillSwitch
          \/ AdvanceTime
       /\ UNCHANGED audit

RiskSpec == RiskInit /\ [][RiskNext]_riskVars
-----------------------------------------------------------------------------
(* Whatever the engine decides, the runtime does with it what PaperRuntime *)
(* lets it do with some decision: never more than was asked of a leg, never *)
(* nothing approved, and no approval under the kill switch.                *)
RefinesRuntime == Spec

Evaluated == DOMAIN audit
CutDown(i) == audit[i].decision.verdict = "MODIFIED"

OneLegEach(i) == \A m, n \in DOMAIN Legs(i) :
                    Legs(i)[m].instrument = Legs(i)[n].instrument => m = n

WithinPosition(x) ==
    LET limit == Policy.limits.max_position_per_instrument
    IN  limit \in Nat => AbsInt(book.positions[x].quantity) <= limit

(* Over any sequence of intents, partial fills and cancels, no position    *)
(* passes its limit, when there is one, as long as no intent has two legs  *)
(* on one instrument and none of several legs is cut down.                 *)
PositionsStayWithinPolicy ==
    (\A i \in Evaluated : OneLegEach(i) /\ (CutDown(i) => Len(Legs(i)) = 1)) =>
        \A x \in Instruments : WithinPosition(x)
=============================================================================
