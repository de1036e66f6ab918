----------------------------- MODULE Inquiries -----------------------------
(***************************************************************************)
(* The two judges of an account that keep no state, asked one question at  *)
(* a time: the fill model what an order gets from a quote                  *)
(* (oipulse/backtest/fills.py), the risk engine what a policy makes of an  *)
(* intent in a state (oipulse/trading/risk).  A question is put in two     *)
(* steps: the quote, then the order and the model; the intent, then what   *)
(* it meets.                                                               *)
(***************************************************************************)
EXTENDS FillModel, RiskEngine

CONSTANTS
    FillLegs, FillOrders, FillModels,               \* what the fill model is asked
    RiskIntents, RiskStates, RiskPolicies,          \* what the engine is asked
    PricesSeen, UnderlyingsSeen, GreeksSeen         \* what may turn out that a state lacks

(* Prices and volumes are not negative.  Nor are the slippage parameter    *)
(* and the half spread, which the code does not check.                     *)
IsFillLeg(leg) == {leg.bid, leg.ask, leg.ltp, leg.volume} \subseteq Nat

IsFillModel(model) ==
    /\ model.slippage \in {"MID", "TOUCH", "FRACTION", "IMPACT"}
    /\ {model.parameter, model.halfSpread} \subseteq Nat \X (Nat \ {0})
    /\ model.participation \in Int \X (Nat \ {0})

ASSUME FillAssumption ==
    /\ \A leg \in FillLegs : IsFillLeg(leg)
    /\ \A model \in FillModels : IsFillModel(model)
    /\ \A order \in FillOrders :
          order \in [id : {order.id}, side : Sides, quantity : Nat, limit : Nat]

ASSUME RiskAssumption ==
    /\ IsFiniteSet(Instruments)
    /\ PricesSeen \subseteq Nat
    /\ None \notin UnderlyingsSeen
    /\ GreeksSeen \subseteq Int
    /\ \A i \in RiskIntents : IsIntent(i)
    /\ \A S \in RiskStates : IsRiskState(S) /\ \A i \in RiskIntents : S.positionByStrategy[i.strategy] \in Int
    /\ \A policy \in RiskPolicies : HasLimits(policy.limits)
    /\ \A S \in RiskStates, policy \in RiskPolicies : GroupsAreKnown(S, policy.limits)

VARIABLES
    fill,       \* the question: <<leg, order, model>>, or less
    risk        \* the question: <<intent, state, policy>>, or less

FillInit == fill = <<>>

AskFill ==
    \/ fill = <<>> /\ fill' \in {<<leg>> : leg \in FillLegs}
    \/ Len(fill) = 1 /\ fill' \in {<<fill[1], order, model>> : order \in FillOrders, model \in FillModels}

FillNext == AskFill \/ (Len(fill) = 3 /\ fill' = <<>>)

FillSpec == FillInit /\ [][FillNext]_fill

RiskInit == risk = <<>>

AskRisk ==
    \/ risk = <<>> /\ risk' \in {<<i>> : i \in RiskIntents}
    \/ Len(risk) = 1 /\ risk' \in {<<risk[1], S, policy>> : S \in RiskStates, policy \in RiskPolicies}

RiskNext == AskRisk \/ (Len(risk) = 3 /\ risk' = <<>>)

RiskSpec == RiskInit /\ [][RiskNext]_risk
-----------------------------------------------------------------------------
(* The states that differ from S in one mark, grouping or greek S lacks.   *)
KnowingMore(S) ==
    {[S EXCEPT !.marks[x] = price] : x \in {y \in Instruments : S.marks[y] = None}, price \in PricesSeen}
    \cup {[S EXCEPT !.groups[x].underlying = underlying] :
             x \in {y \in Instruments : S.groups[y].underlying = None}, underlying \in UnderlyingsSeen}
    \cup {[S EXCEPT !.greeks[g] = seen] : g \in {h \in Greeks : S.greeks[h] = None}, seen \in GreeksSeen}

(* What any order gets from any quote is fair (fills.py).                  *)
FillsAreFair == Len(fill) = 3 => FillIsFair(fill[2], fill[1], fill[3])

(* What the engine makes of any intent is sound (engine.py).               *)
JudgementsHold == Len(risk) = 3 => JudgementIsSound(risk[1], risk[2], risk[3], KnowingMore(risk[2]))
=============================================================================
