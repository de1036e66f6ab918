----------------------------- MODULE RiskEngine -----------------------------
(***************************************************************************)
(* oipulse/trading/risk: the limit checks (limits.py) over a risk state    *)
(* (state.py) and a policy's limits (policy.py), and the engine that turns *)
(* them into a decision (engine.py).  Operators only.                      *)
(*                                                                         *)
(* An intent is [strategy, legs]; a leg [instrument, side, quantity,       *)
(* limit], limit 0 for a market leg.  A limit that is not configured and   *)
(* an input that is missing are None.  Ratios are in hundredths.           *)
(***************************************************************************)
EXTENDS Ledger, Functions, TLC

CONSTANT None

ASSUME NoneAssumption == None \notin Int

Passed       == [status |-> "PASSED", excess |-> 0]
NotConfigured == [status |-> "NOT_CONFIGURED", excess |-> 0]
NotEvaluable == [status |-> "NOT_EVALUABLE", excess |-> 0]

Compare(observed, limit) ==
    [status |-> IF observed > limit THEN "BREACHED" ELSE "PASSED", excess |-> observed - limit]

Flag(holds) == [status |-> IF holds THEN "PASSED" ELSE "BREACHED", excess |-> 0]

\* Mutant: an input that is missing is as good as one within the limit.
CheckAssumed(limit, inputs, evaluation) ==
    IF limit = None THEN NotConfigured
    ELSE IF None \in inputs THEN Passed
    ELSE evaluation

(* The shape every check has: its limit, the inputs it cannot do without.  *)
Check(limit, inputs, evaluation) ==
    IF limit = None THEN NotConfigured
    ELSE IF None \in inputs THEN NotEvaluable
    ELSE evaluation
-----------------------------------------------------------------------------
(* RiskLimits: a limit left unset is None, and what is refused unless it   *)
(* is allowed is refused.                                                  *)
Unlimited ==
    [max_position_per_instrument |-> None, max_position_per_underlying |-> None,
     max_position_per_strategy |-> None, max_order_quantity |-> None, max_order_notional |-> None,
     max_orders_per_interval |-> None, max_deployed_capital |-> None,
     max_capital_utilisation |-> None, max_leverage |-> None, max_daily_loss |-> None,
     max_drawdown |-> None, max_loss_per_strategy |-> None, max_net_delta |-> None,
     max_gross_delta |-> None, max_gross_gamma |-> None, max_gross_vega |-> None,
     max_gross_theta |-> None, max_underlying_concentration |-> None,
     max_expiry_concentration |-> None, max_strike_concentration |-> None,
     reject_unreliable_state |-> TRUE, max_state_staleness |-> None, min_state_coverage |-> None,
     require_healthy_venue |-> TRUE, session |-> None]

(* An expiry day closes when the others do, unless it has its own time.    *)
InSession(window, at, isExpiryDay) ==
    LET closes == IF isExpiryDay /\ window.expiryDayCloses # None THEN window.expiryDayCloses
                  ELSE window.closes
    IN  window.opens <= at /\ at <= closes

Halts(S, strategy) == S.engaged \/ strategy \in S.haltedStrategies

UsableVenue(venue) == venue \in {"PAPER_SIMULATED", "HEALTHY"}

UncommittedCash(S) == S.cash - S.reserved

(* A strategy without a recorded loss has lost nothing.                    *)
StrategyLoss(S, strategy) ==
    IF S.lossByStrategy[strategy] = None THEN 0 ELSE S.lossByStrategy[strategy]

LegsOf(i) == DOMAIN i.legs
Quantities(i) == [n \in LegsOf(i) |-> i.legs[n].quantity]
TotalQuantity(i) == TotalOf(Quantities(i))

PriceOf(leg, S) == IF leg.limit # 0 THEN leg.limit ELSE S.marks[leg.instrument]

(* The value of the legs on these sides; None when one of them has neither *)
(* a limit price nor a mark.                                               *)
LegNotional(i, S, sides) ==
    LET N == {n \in LegsOf(i) : i.legs[n].side \in sides}
    IN  IF \E n \in N : PriceOf(i.legs[n], S) = None THEN None
        ELSE TotalOf([n \in N |-> PriceOf(i.legs[n], S) * i.legs[n].quantity])

Notional(i, S) == LegNotional(i, S, {"BUY", "SELL"})
CashRequired(i, S) == LegNotional(i, S, {"BUY"})

Held(S) == {x \in Instruments : S.positions[x] # 0}

(* Absolute quantity over an underlying; None if any grouping is unknown.  *)
InUnderlying(S, underlying) ==
    IF underlying = None \/ \E x \in Held(S) : S.groups[x].underlying = None THEN None
    ELSE TotalOf([x \in {y \in Held(S) : S.groups[y].underlying = underlying} |->
                     AbsInt(S.positions[x])])

\* Mutant: the position that is held, not the one that would result.
InstrumentsHeld(i, S) ==
    Max({AbsInt(S.positions[i.legs[n].instrument]) : n \in LegsOf(i)})

WorstInstrument(i, S) ==
    Max({AbsInt(S.positions[i.legs[n].instrument]
                + Sign(i.legs[n].side) * i.legs[n].quantity) : n \in LegsOf(i)})

Underlyings(i, S) ==
    {InUnderlying(S, S.groups[i.legs[n].instrument].underlying) : n \in LegsOf(i)}

WorstUnderlying(i, S) ==
    Max({InUnderlying(S, S.groups[i.legs[n].instrument].underlying) + i.legs[n].quantity :
            n \in LegsOf(i)})

WorthOf(S, X) == TotalOf([x \in X |-> AbsInt(S.marks[x] * S.positions[x])])

(* build_exposure: None when a held position has no mark.                  *)
GrossNotional(S) ==
    IF \E x \in Held(S) : S.marks[x] = None THEN None ELSE WorthOf(S, Held(S))

Buckets(S, key) ==
    {WorthOf(S, {y \in Held(S) : S.groups[y][key] = S.groups[x][key]}) :
        x \in {y \in Held(S) : S.groups[y][key] # None}}

Concentration(S, key, limit) ==
    Check(limit, {GrossNotional(S)},
          IF GrossNotional(S) <= 0 THEN Passed
          ELSE IF Buckets(S, key) = {} THEN NotEvaluable
          ELSE Compare(100 * Max(Buckets(S, key)), limit * GrossNotional(S)))

Exposure(observed, limit) == Check(limit, {observed}, Compare(AbsInt(observed), limit))

(* Gross exposure and the intent's value against a multiple of the equity. *)
AgainstEquity(i, S, limit) ==
    Check(limit, {GrossNotional(S), Notional(i, S), IF S.equity > 0 THEN 0 ELSE None},
          Compare(100 * (GrossNotional(S) + Notional(i, S)), limit * S.equity))

HaltChecks(i, S, L) ==
    [kill_switch |-> Flag(~Halts(S, i.strategy)),
     session_window |-> Check(L.session, {},
        Flag(InSession(L.session, S.asOf, S.isExpiryDay))),
     require_healthy_venue |->
        IF L.require_healthy_venue THEN Flag(UsableVenue(S.venue)) ELSE NotConfigured]

DataChecks(S, L) ==
    [reject_unreliable_state |->
        IF ~L.reject_unreliable_state THEN NotConfigured
        ELSE IF S.quality = "UNKNOWN" THEN NotEvaluable
        ELSE Flag(S.quality # "UNRELIABLE"),
     max_state_staleness |-> Check(L.max_state_staleness, {S.staleness},
        Compare(S.staleness, L.max_state_staleness)),
     min_state_coverage |-> Check(L.min_state_coverage, {S.coverage},
        Flag(S.coverage >= L.min_state_coverage))]

OrderChecks(i, S, L) ==
    [max_order_quantity |-> Check(L.max_order_quantity, {},
        Compare(Max(Range(Quantities(i))), L.max_order_quantity)),
     max_order_notional |-> Check(L.max_order_notional, {Notional(i, S)},
        Compare(Notional(i, S), L.max_order_notional)),
     max_orders_per_interval |-> Check(L.max_orders_per_interval, {},
        Compare(S.ordersInInterval + Len(i.legs), L.max_orders_per_interval))]

PositionChecks(i, S, L) ==
    [max_position_per_instrument |-> Check(L.max_position_per_instrument, {},
        Compare(WorstInstrument(i, S), L.max_position_per_instrument)),
     max_position_per_underlying |-> Check(L.max_position_per_underlying, Underlyings(i, S),
        Compare(WorstUnderlying(i, S), L.max_position_per_underlying)),
     max_position_per_strategy |-> Check(L.max_position_per_strategy, {i.strategy},
        Compare(S.positionByStrategy[i.strategy] + TotalQuantity(i), L.max_position_per_strategy))]

CapitalChecks(i, S, L) ==
    [cash_sufficiency |-> Check(0, {CashRequired(i, S)},
        Compare(CashRequired(i, S), UncommittedCash(S))),
     max_deployed_capital |-> Check(L.max_deployed_capital, {GrossNotional(S), Notional(i, S)},
        Compare(GrossNotional(S) + Notional(i, S), L.max_deployed_capital)),
     max_capital_utilisation |-> AgainstEquity(i, S, L.max_capital_utilisation),
     max_leverage |-> AgainstEquity(i, S, L.max_leverage)]

LossChecks(i, S, L) ==
    [max_daily_loss |-> Check(L.max_daily_loss, {}, Compare(S.dailyLoss, L.max_daily_loss)),
     max_drawdown |-> Check(L.max_drawdown, {}, Compare(S.drawdown, L.max_drawdown)),
     max_loss_per_strategy |-> Check(L.max_loss_per_strategy, {i.strategy},
        Compare(StrategyLoss(S, i.strategy), L.max_loss_per_strategy))]

ExposureChecks(S, L) ==
    [max_net_delta |-> Exposure(S.greeks.net_delta, L.max_net_delta),
     max_gross_delta |-> Exposure(S.greeks.gross_delta, L.max_gross_delta),
     max_gross_gamma |-> Exposure(S.greeks.gross_gamma, L.max_gross_gamma),
     max_gross_vega |-> Exposure(S.greeks.gross_vega, L.max_gross_vega),
     max_gross_theta |-> Exposure(S.greeks.gross_theta, L.max_gross_theta)]

ConcentrationChecks(S, L) ==
    [max_underlying_concentration |-> Concentration(S, "underlying", L.max_underlying_concentration),
     max_expiry_concentration |-> Concentration(S, "expiry", L.max_expiry_concentration),
     max_strike_concentration |-> Concentration(S, "strike", L.max_strike_concentration)]

(* @@ of TLC, in a form that can be reasoned about.                        *)
Both(f, g) == [x \in DOMAIN f \cup DOMAIN g |-> IF x \in DOMAIN f THEN f[x] ELSE g[x]]

(* evaluate_all: every check, none of which stops the others.              *)
EvaluateAll(i, S, L) ==
    LET halts == Both(HaltChecks(i, S, L), DataChecks(S, L))
        sizes == Both(OrderChecks(i, S, L), PositionChecks(i, S, L))
        money == Both(CapitalChecks(i, S, L), LossChecks(i, S, L))
        risks == Both(ExposureChecks(S, L), ConcentrationChecks(S, L))
    IN  Both(Both(sizes, halts), Both(money, risks))

WithStatus(evaluations, status) ==
    {id \in DOMAIN evaluations : evaluations[id].status = status}
-----------------------------------------------------------------------------
\* Mutant: the kill switch is one more limit on the size.
ResizableHalt == {"kill_switch", "max_order_quantity", "max_position_per_instrument",
                  "max_position_per_underlying", "max_position_per_strategy"}

Resizable == {"max_order_quantity", "max_position_per_instrument",
              "max_position_per_underlying", "max_position_per_strategy"}

(* What is left of the total when the worst excess is taken off; 0 when a  *)
(* breach is not about size.                                               *)
Resize(i, evaluations) ==
    LET breaches == WithStatus(evaluations, "BREACHED")
    IN  IF breaches \subseteq Resizable
        THEN Max({0, TotalQuantity(i) - Max({evaluations[id].excess : id \in breaches})})
        ELSE 0

\* Mutant: the remainder goes to every leg.
ScaleLegsUp(i, approved) ==
    LET total == TotalQuantity(i)
        floors == [n \in LegsOf(i) |-> (i.legs[n].quantity * approved) \div total]
    IN  [n \in LegsOf(i) |-> floors[n] + IF approved > TotalOf(floors) THEN 1 ELSE 0]

(* Pro rata, rounded down; what is left goes one each to the first legs.   *)
ScaleLegs(i, approved) ==
    LET total == TotalQuantity(i)
        floors == [n \in LegsOf(i) |-> (i.legs[n].quantity * approved) \div total]
        remainder == approved - TotalOf(floors)
    IN  [n \in LegsOf(i) |-> floors[n] + IF n <= remainder THEN 1 ELSE 0]

Rejected(i, at) ==
    [verdict |-> "REJECTED", quantity |-> [n \in LegsOf(i) |-> 0], until |-> at]

(* RiskEngine.evaluate.                                                    *)
Evaluate(i, S, policy, at, horizon) ==
    LET evaluations == EvaluateAll(i, S, policy.limits)
        breaches == WithStatus(evaluations, "BREACHED")
        resized == IF policy.allowResizing THEN Resize(i, evaluations) ELSE 0
    IN  IF S.knowledgeTime > horizon \/ WithStatus(evaluations, "NOT_EVALUABLE") # {}
          THEN Rejected(i, at)
        ELSE IF breaches = {}
          THEN [verdict |-> "APPROVED", quantity |-> Quantities(i), until |-> at + policy.validity]
        ELSE IF resized = 0 THEN Rejected(i, at)
        ELSE [verdict |-> "MODIFIED", quantity |-> ScaleLegs(i, resized),
              until |-> at + policy.validity]

(* The gate of an account without a policy: approved, never actionable.    *)
Unevaluated(i, at) == [verdict |-> "UNEVALUATED", quantity |-> Quantities(i), until |-> at]

IsActionableAt(decision, at) ==
    decision.verdict \in {"APPROVED", "MODIFIED"} /\ at <= decision.until
-----------------------------------------------------------------------------
(* What an intent, a state and the limits of a policy are.                 *)
IsIntent(i) ==
    i \in [strategy : {i.strategy},
           legs : Seq([instrument : Instruments, side : Sides, quantity : Nat \ {0}, limit : Nat]) \ {<<>>}]

Greeks == {"net_delta", "gross_delta", "gross_gamma", "gross_vega", "gross_theta"}

IsRiskState(S) ==
    /\ S = [field \in {"asOf", "knowledgeTime", "engaged", "haltedStrategies", "isExpiryDay", "venue",
                       "quality", "staleness", "coverage", "positions", "groups", "marks", "cash",
                       "reserved", "equity", "positionByStrategy", "lossByStrategy", "ordersInInterval",
                       "dailyLoss", "drawdown", "greeks"} |-> S[field]]
    /\ S.positions \in [Instruments -> Int]
    /\ S.marks \in [Instruments -> Nat \cup {None}]
    /\ S.groups = [x \in Instruments |->
                      [key \in {"underlying", "expiry", "strike"} |-> S.groups[x][key]]]
    /\ S.greeks \in [Greeks -> Int \cup {None}]
    /\ {S.cash, S.reserved, S.equity} \subseteq Int

HasLimits(L) ==
    \A id \in Resizable \cup {"max_order_notional", "max_deployed_capital", "max_capital_utilisation",
                              "max_leverage"} : L[id] \in Int \cup {None}

(* The concentration of a book over its underlyings is judged without the  *)
(* positions whose underlying is unknown: unless what is priced is         *)
(* grouped, as the paper runtime has it, only the limit on the position in *)
(* an underlying notices.                                                  *)
GroupsAreKnown(S, L) ==
    \/ L.max_underlying_concentration = None
    \/ L.max_position_per_underlying # None
    \/ \A x \in Instruments : S.marks[x] # None => S.groups[x].underlying # None

(* The intent at the quantities of a decision.                             *)
AsApproved(i, q) == [i EXCEPT !.legs = [n \in LegsOf(i) |-> [@[n] EXCEPT !.quantity = q[n]]]]

WithinLimits(i, S, policy) == WithStatus(EvaluateAll(i, S, policy.limits), "BREACHED") = {}

SingleLeg(i) == Len(i.legs) = 1

(* The instrument of the first leg is within its position limit as it is.  *)
WithinBefore(i, S, L) ==
    L.max_position_per_instrument # None =>
        AbsInt(S.positions[i.legs[1].instrument]) <= L.max_position_per_instrument

(* Of one leg, from a position within its limit, a decision approves the   *)
(* largest quantity the limits leave room for (_resize).                   *)
SingleLegGetsTheLargestQuantity(i, S, policy, q) ==
    (SingleLeg(i) /\ WithinBefore(i, S, policy.limits)) =>
        \A more \in {0, 1} :
            (more = 0 \/ q[1] < i.legs[1].quantity) =>
                (WithinLimits(AsApproved(i, <<q[1] + more>>), S, policy) <=> more = 0)

(* The reduced legs add up to what was approved, none grows, and each is   *)
(* within one of its share (_scale_legs).                                  *)
LegsShareTheReduction(i, S, policy, decision) ==
    LET total == TotalQuantity(i)
        q == decision.quantity
    IN  \A approved \in {TotalOf(q)} :
            /\ approved > 0
            /\ decision.verdict = "MODIFIED" => approved = Resize(i, EvaluateAll(i, S, policy.limits))
            /\ \A n \in LegsOf(i) :
                  LET asked == i.legs[n].quantity
                  IN  q[n] \in 0 .. asked /\ AbsInt(q[n] * total - asked * approved) <= total

(* What the engine passes is exactly what its limits allow: a smaller      *)
(* quantity is the largest of them, fairly shared.  And "no substitution": *)
(* a decision taken without some mark, grouping or greek is the decision   *)
(* any value of it would have given, so it is the one in each of the       *)
(* states that know more.                                                  *)
JudgementIsSound(i, S, policy, knowing) ==
    LET On(state) == Evaluate(i, state, policy, S.asOf, S.knowledgeTime)
    IN  \A decision \in {On(S)} : IsActionableAt(decision, S.asOf) =>
            /\ SingleLegGetsTheLargestQuantity(i, S, policy, decision.quantity)
            /\ LegsShareTheReduction(i, S, policy, decision)
            /\ \A state \in knowing : On(state) = decision
=============================================================================
