--------------------------- MODULE SignalCatalogue ---------------------------
(***************************************************************************)
(* The rules of signals/catalogue over the features of one execution, the  *)
(* gates of signals/evaluation.py in front of them, and what they derive a *)
(* strength from (signals/strength.py).  A metric is a feature's value, or *)
(* Unseen when it was not available; weights count hundredths, implied     *)
(* volatilities half points.  How realised volatility compares with        *)
(* implied hangs on roots and logarithms, and is either way.               *)
(***************************************************************************)
EXTENDS FeatureEngine

Evidence(f, weight) == [metric |-> f, weight |-> weight]
When(condition, f, weight) == IF condition THEN {Evidence(f, weight)} ELSE {}

NoSignal == [fired |-> FALSE, met |-> FALSE, support |-> {}, against |-> {}]

(* A rule's outcome: whether it fires, whether fully, and on what.         *)
Conclude(fires, met, support, against) ==
    IF ~fires THEN NoSignal
    ELSE [fired |-> TRUE, met |-> met, support |-> support, against |-> against]

Reaches(v, n, d) == AtMost(<<n, d>>, v)
Falls(v, n, d) == AtMost(v, <<n, d>>)
Above(v, n, d) == ~Falls(v, n, d)
Below(v, n, d) == ~Reaches(v, n, d)
Magnitude(v) == <<AbsInt(v[1]), v[2]>>

(* What the rules read: m is the metrics that a rule pinned.               *)
PutSupportMigration(m) ==
    LET migration == m["PUT_OI_MIGRATION"] IN
    Conclude(Reaches(migration, 50, 1), Reaches(migration, 100, 1),
           {Evidence("PUT_OI_MIGRATION", 30), Evidence("OI_WALL_PUT", 25)}
             \cup When(m["FUTURES_OI_CHANGE"] > 0, "FUTURES_OI_CHANGE", 20),
           {Evidence("OI_WALL_CALL", 12)} \cup When(Above(m["IV_CHANGE"], 0, 1), "IV_CHANGE", 5))

CallResistanceMigration(m) ==
    LET size == Magnitude(m["CALL_OI_MIGRATION"]) IN
    Conclude(Reaches(size, 50, 1), Reaches(size, 100, 1),
           {Evidence("CALL_OI_MIGRATION", 35), Evidence("OI_WALL_CALL", 25)}, {Evidence("OI_WALL_PUT", 10)})

OiExpansion(m) ==
    LET change == m["OI_CHANGE_PCT"] IN
    Conclude(Reaches(change, 2, 100), Reaches(change, 5, 100),
           {Evidence("OI_CHANGE_PCT", 40), Evidence("VOLUME_OI_RATIO", 15)},
           When(Below(m["VOLUME_OI_RATIO"], 1, 10), "VOLUME_OI_RATIO", 10))

\* Mutant: the contraction is measured without its sign.
OiUnwindingEitherWay(m) ==
    LET change == Magnitude(m["OI_CHANGE_PCT"]) IN
    Conclude(Reaches(change, 2, 100), Reaches(change, 5, 100),
           {Evidence("OI_CHANGE_PCT", 40)}, When(Above(m["VOLUME_OI_RATIO"], 5, 10), "VOLUME_OI_RATIO", 15))

OiUnwinding(m) ==
    LET change == m["OI_CHANGE_PCT"] IN
    Conclude(Falls(change, -2, 100), Falls(change, -5, 100),
           {Evidence("OI_CHANGE_PCT", 40)}, When(Above(m["VOLUME_OI_RATIO"], 5, 10), "VOLUME_OI_RATIO", 15))

PositioningShift(m) ==
    LET divergence == Magnitude(Minus(m["PCR_OI_CHANGE"], m["PCR"])) IN
    Conclude(Reaches(divergence, 25, 100), Reaches(divergence, 50, 100), {Evidence("PCR_OI_CHANGE", 35)},
           When(Below(Magnitude(m["OI_CHANGE_PCT"]), 5, 1000), "OI_CHANGE_PCT", 20))

ConcentrationBuilding(m) ==
    LET index == m["OI_CONCENTRATION"] IN
    Conclude(Reaches(index, 20, 100), Reaches(index, 30, 100), {Evidence("OI_CONCENTRATION", 35)},
           When(Below(m["OI_CHANGE_PCT"], 0, 1), "OI_CHANGE_PCT", 15))

BreakoutContext(m) ==
    Conclude(m["REGIME"] \in {"BREAKOUT", "TRENDING_UP"}, m["REGIME"] = "BREAKOUT",
           {Evidence("REGIME", 35), Evidence("REALIZED_MOVE", 20)},
           {Evidence("RESISTANCE_FROM_POSITIONING", 15)} \cup When(m["GEX_TOTAL"] > 0, "GEX_TOTAL", 10))

BreakdownContext(m) ==
    Conclude(m["REGIME"] \in {"BREAKDOWN", "TRENDING_DOWN"}, m["REGIME"] = "BREAKDOWN",
           {Evidence("REGIME", 35), Evidence("REALIZED_MOVE", 20)}, {Evidence("SUPPORT_FROM_POSITIONING", 15)})

GammaConcentrationShift(m) ==
    LET index == m["GEX_CONCENTRATION"] IN
    Conclude(Reaches(index, 25, 100), Reaches(index, 40, 100),
           {Evidence("GEX_CONCENTRATION", 35), Evidence("GAMMA_FLIP_LEVEL", 15)},
           When(AbsInt(m["GEX_TOTAL"]) < 1000, "GEX_TOTAL", 20))

RegimeTransition(m) ==
    Conclude(m["REGIME"] = "TRANSITION", TRUE, {Evidence("REGIME", 40), Evidence("RANGE", 15)},
           When(m["ATR"][1] = 0, "ATR", 25))

VolatilityExpansion(m, realisedAbove) ==
    LET change == m["IV_CHANGE"] IN
    Conclude(Reaches(change, 1, 1), Reaches(change, 3, 1), {Evidence("IV_CHANGE", 40), Evidence("ATM_IV", 15)},
           When(~realisedAbove, "IMPLIED_REALIZED_SPREAD", 15))

VolatilityContraction(m, realisedAbove) ==
    LET change == m["IV_CHANGE"] IN
    Conclude(Falls(change, -1, 1), Falls(change, -3, 1), {Evidence("IV_CHANGE", 40)},
           When(realisedAbove, "REALIZED_VOL_CLOSE_TO_CLOSE", 20))

SkewSteepening(m) ==
    Conclude(m["IV_SKEW_DELTA"] >= 2, m["IV_SKEW_DELTA"] >= 5, {Evidence("IV_SKEW_DELTA", 35)},
           When(m["IV_SKEW_STRIKE"] < 0, "IV_SKEW_STRIKE", 20))

TermStructureInversion(m) ==
    LET term == m["IV_TERM_STRUCTURE"] IN
    Conclude(Falls(term, -1, 1), Falls(term, -3, 1), {Evidence("IV_TERM_STRUCTURE", 45)},
           When(Below(m["ATM_IV"], 16, 1), "ATM_IV", 15))

FuturesOptionsDivergence(m) ==
    Conclude(m["FUTURES_OPTIONS_CONFIRMATION"] = "DIVERGING", TRUE,
           {Evidence("FUTURES_OPTIONS_CONFIRMATION", 40), Evidence("FUTURES_OI_CHANGE", 15),
            Evidence("OI_CHANGE", 15)},
           When(Below(Magnitude(m["SPOT_FUTURES_DIVERGENCE"]), 5, 10000), "SPOT_FUTURES_DIVERGENCE", 15))

BasisAnomaly(m) ==
    LET annualised == m["ANNUALIZED_BASIS"] IN
    Conclude(Below(annualised, -2, 100) \/ Above(annualised, 12, 100),
           Falls(annualised, -5, 100) \/ Reaches(annualised, 20, 100),
           {Evidence("ANNUALIZED_BASIS", 40), Evidence("BASIS", 15)},
           When(AbsInt(m["BASIS_CHANGE"]) < 1, "BASIS_CHANGE", 20))
-----------------------------------------------------------------------------
RequiresFeatures ==
    [PUT_SUPPORT_MIGRATION |-> {"PUT_OI_MIGRATION", "OI_WALL_PUT", "FUTURES_OI_CHANGE", "ATM_IV",
                                "OI_WALL_CALL", "IV_CHANGE"},
     CALL_RESISTANCE_MIGRATION |-> {"CALL_OI_MIGRATION", "OI_WALL_CALL", "OI_WALL_PUT", "ATM_IV"},
     OI_EXPANSION |-> {"OI_CHANGE_PCT", "VOLUME_OI_RATIO", "PCR"},
     OI_UNWINDING |-> {"OI_CHANGE_PCT", "VOLUME_OI_RATIO"},
     POSITIONING_SHIFT |-> {"PCR", "PCR_OI_CHANGE", "OI_CHANGE_PCT"},
     CONCENTRATION_BUILDING |-> {"OI_CONCENTRATION", "OI_CHANGE_PCT"},
     BREAKOUT_CONTEXT |-> {"REGIME", "RESISTANCE_FROM_POSITIONING", "GEX_TOTAL", "REALIZED_MOVE"},
     BREAKDOWN_CONTEXT |-> {"REGIME", "SUPPORT_FROM_POSITIONING", "GEX_TOTAL", "REALIZED_MOVE"},
     GAMMA_CONCENTRATION_SHIFT |-> {"GEX_CONCENTRATION", "GEX_TOTAL", "GAMMA_FLIP_LEVEL"},
     REGIME_TRANSITION |-> {"REGIME", "RANGE", "ATR"},
     VOLATILITY_EXPANSION |-> {"IV_CHANGE", "ATM_IV", "REALIZED_VOL_CLOSE_TO_CLOSE",
                               "IMPLIED_REALIZED_SPREAD"},
     VOLATILITY_CONTRACTION |-> {"IV_CHANGE", "ATM_IV", "REALIZED_VOL_CLOSE_TO_CLOSE"},
     SKEW_STEEPENING |-> {"IV_SKEW_DELTA", "IV_SKEW_STRIKE", "ATM_IV"},
     TERM_STRUCTURE_INVERSION |-> {"IV_TERM_STRUCTURE", "ATM_IV"},
     FUTURES_OPTIONS_DIVERGENCE |-> {"FUTURES_OPTIONS_CONFIRMATION", "FUTURES_OI_CHANGE", "OI_CHANGE",
                                     "SPOT_FUTURES_DIVERGENCE"},
     BASIS_ANOMALY |-> {"ANNUALIZED_BASIS", "BASIS", "BASIS_CHANGE"}]

RuleTypes == DOMAIN RequiresFeatures

Ask(rule, m, realisedAbove) ==
    CASE rule = "PUT_SUPPORT_MIGRATION" -> PutSupportMigration(m)
      [] rule = "CALL_RESISTANCE_MIGRATION" -> CallResistanceMigration(m)
      [] rule = "OI_EXPANSION" -> OiExpansion(m)
      [] rule = "OI_UNWINDING" -> OiUnwinding(m)
      [] rule = "POSITIONING_SHIFT" -> PositioningShift(m)
      [] rule = "CONCENTRATION_BUILDING" -> ConcentrationBuilding(m)
      [] rule = "BREAKOUT_CONTEXT" -> BreakoutContext(m)
      [] rule = "BREAKDOWN_CONTEXT" -> BreakdownContext(m)
      [] rule = "GAMMA_CONCENTRATION_SHIFT" -> GammaConcentrationShift(m)
      [] rule = "REGIME_TRANSITION" -> RegimeTransition(m)
      [] rule = "VOLATILITY_EXPANSION" -> VolatilityExpansion(m, realisedAbove)
      [] rule = "VOLATILITY_CONTRACTION" -> VolatilityContraction(m, realisedAbove)
      [] rule = "SKEW_STEEPENING" -> SkewSteepening(m)
      [] rule = "TERM_STRUCTURE_INVERSION" -> TermStructureInversion(m)
      [] rule = "FUTURES_OPTIONS_DIVERGENCE" -> FuturesOptionsDivergence(m)
      [] rule = "BASIS_ANOMALY" -> BasisAnomaly(m)

(* What was computed and available by the horizon, before any rule runs.   *)
AvailableOnly(K) == {f \in DOMAIN report.results : Known(f) /\ report.results[f].available <= K}

(* The evaluator: the quality of the state, then every feature the rule    *)
(* pinned, then the rule over those alone.                                 *)
Verdict(rule, K, realisedAbove) ==
    IF report.state.unreliable THEN NoSignal
    ELSE IF ~(RequiresFeatures[rule] \subseteq AvailableOnly(K)) THEN NoSignal
    ELSE Ask(rule, [f \in RequiresFeatures[rule] |-> Of(f)], realisedAbove)

WeightOf(S) == TotalOf([e \in S |-> e.weight])

(* Support less contradiction over all the weight there is, never negative.*)
Strength(outcome) ==
    LET total == WeightOf(outcome.support) + WeightOf(outcome.against)
    IN  IF total = 0 THEN Whole(0)
        ELSE Ratio(Max({0, WeightOf(outcome.support) - WeightOf(outcome.against)}), total)

SignalAvailableAt(rule, at) ==
    Max({report.state.time, at} \cup {report.results[f].available : f \in RequiresFeatures[rule]}) + Delay
-----------------------------------------------------------------------------
Contrary ==
    {{"OI_EXPANSION", "OI_UNWINDING"}, {"VOLATILITY_EXPANSION", "VOLATILITY_CONTRACTION"},
     {"BREAKOUT_CONTEXT", "BREAKDOWN_CONTEXT"}, {"BREAKOUT_CONTEXT", "REGIME_TRANSITION"},
     {"BREAKDOWN_CONTEXT", "REGIME_TRANSITION"}}

(* Of one state no two rules that say the contrary fire; what fires rests  *)
(* on metrics of its own that were there by the horizon, has a strength    *)
(* between 0 and 1 that contradiction takes from, and is the same however  *)
(* much later it is asked; and it is available to no one before what it    *)
(* rests on (the catalogue, available_only, evaluate and _build).          *)
SignalsAreCoherent ==
    report # NoReport =>
    \A realisedAbove \in BOOLEAN : \A K \in report.at .. report.at + 3 :
        \E verdict \in {[rule \in RuleTypes |-> Verdict(rule, K, realisedAbove)]} :
            /\ \A pair \in Contrary : \E rule \in pair : ~verdict[rule].fired
            /\ \A rule \in RuleTypes : verdict[rule].fired =>
                  /\ {e.metric : e \in verdict[rule].support \cup verdict[rule].against}
                        \subseteq AvailableOnly(K) \cap RequiresFeatures[rule]
                  /\ Within(Strength(verdict[rule]), Whole(0), Whole(1))
                  /\ Strength(verdict[rule]) = Whole(1) <=> verdict[rule].against = {}
                  /\ Verdict(rule, K + 1, realisedAbove) = verdict[rule]
                  /\ \A e \in verdict[rule].support :
                        report.results[e.metric].available <= SignalAvailableAt(rule, K)
=============================================================================
