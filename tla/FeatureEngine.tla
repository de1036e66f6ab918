--------------------------- MODULE FeatureEngine ---------------------------
(***************************************************************************)
(* The feature registry and its engine: oipulse/analytics/registry.py,     *)
(* engine.py, availability.py and emit.py, over every registered feature.  *)
(* States are built as time passes, some from rows that arrive late; an    *)
(* execution takes any built state with the states before it, and a        *)
(* computed_at: the clock's, or the state's own time as a replay gives it. *)
(***************************************************************************)
EXTENDS FeatureCatalogue

CONSTANTS
    Contents,           \* market states, ingested so long after their time
    ParameterSets,      \* [expiry, lot, convention, days, steps, aggregate]
    Delay,              \* availability_delay, the same for every feature
    MaxStates, MaxWait  \* bounds: states built, and how late an execution is

Maybe(S) == S \cup {Unseen}

OptionLegs ==
    [expiry : Nat, type : {"call", "put"}, strike : Int, oi : Maybe(Nat), volume : Maybe(Nat),
     ltp : Maybe(Int), iv : Maybe(Int), delta : Maybe(Int), gamma : Maybe(Int), theta : Maybe(Int),
     vega : Maybe(Int)]

Readings ==
    [time : Nat, ingested : Nat, unreliable : BOOLEAN, spot : Maybe(Int), high : Maybe(Int),
     low : Maybe(Int), expiries : SUBSET Nat, legs : SUBSET OptionLegs, missing : Nat,
     futures : Seq([expiry : Maybe(Nat), ltp : Maybe(Int), oi : Maybe(Nat)])]

(* The legs of a chain lie in the slices of its expiries.                  *)
MarketStates == {s \in Readings : IsFiniteSet(s.legs) /\ \A l \in s.legs : l.expiry \in s.expiries}

ASSUME FeatureAssumption ==
    /\ Delay \in Nat /\ MaxStates \in Nat /\ MaxWait \in Nat /\ MinPoints \in Nat \ {0}
    /\ Contents \subseteq MarketStates
    /\ \A params \in ParameterSets : params.lot \in Maybe(Int)

VARIABLES
    built,      \* the states built, oldest first
    report      \* the last execution: [state, history, params, at, results]

featureVars == <<built, report>>

OiWindows == {"OI_CHANGE", "OI_CHANGE_PCT"}
OiOfExpiry == {"OI_CONCENTRATION", "OI_WALL_CALL", "OI_WALL_PUT", "VOLUME_OI_RATIO", "PCR",
               "SUPPORT_FROM_POSITIONING", "RESISTANCE_FROM_POSITIONING", "MAX_PAIN"}
OiOverWindow == {"OI_WALL_MIGRATION", "PUT_OI_MIGRATION", "CALL_OI_MIGRATION",
                 "BUILDUP_CLASSIFICATION", "PCR_OI_CHANGE", "FUTURES_OPTIONS_CONFIRMATION"}
OfGamma == {"GEX_BY_STRIKE", "GEX_TOTAL", "GEX_BY_EXPIRY", "GEX_CONCENTRATION", "GEX_PROFILE",
            "GAMMA_FLIP_LEVEL", "DELTA_EXPOSURE", "GAMMA_EXPOSURE", "THETA_EXPOSURE", "VEGA_EXPOSURE"}
OfIv == {"ATM_IV", "IV_CHANGE", "IV_SKEW_DELTA", "IV_SKEW_STRIKE", "IV_TERM_STRUCTURE",
         "IMPLIED_REALIZED_SPREAD", "IV_RANK", "IV_PERCENTILE"}
OfFutures == {"FUTURES_PRICE", "FUTURES_OI", "FUTURES_OI_CHANGE", "BASIS", "BASIS_CHANGE",
              "ANNUALIZED_BASIS", "SPOT_FUTURES_DIVERGENCE"}
OfPrice == {"REALIZED_VOL_CLOSE_TO_CLOSE", "REALIZED_VOL_PARKINSON", "RETURN", "TREND", "MOMENTUM",
            "RANGE", "ATR", "VWAP", "VOLUME_ZSCORE", "REALIZED_MOVE", "REGIME"}

(* What is computed over all the states given, not from the window's ends. *)
OverSeries == {"PRICE_OI_RELATIONSHIP", "REALIZED_VOL_CLOSE_TO_CLOSE", "IV_RANK", "IV_PERCENTILE",
               "TREND", "RANGE", "ATR", "VOLUME_ZSCORE", "REGIME"}

FeatureIds == OiWindows \cup OiOfExpiry \cup OiOverWindow \cup OfGamma \cup OfIv \cup OfFutures
                \cup OfPrice \cup {"PRICE_OI_RELATIONSHIP", "STRUCTURE_MIGRATION"}

Lookback(f) ==
    IF f \in OiWindows \cup OiOverWindow
            \cup {"IV_CHANGE", "FUTURES_OI_CHANGE", "BASIS_CHANGE", "SPOT_FUTURES_DIVERGENCE",
                  "RETURN", "MOMENTUM"} THEN 1
    ELSE IF f \in {"PRICE_OI_RELATIONSHIP", "STRUCTURE_MIGRATION", "REALIZED_VOL_CLOSE_TO_CLOSE",
                   "TREND", "RANGE", "ATR", "VOLUME_ZSCORE", "REALIZED_MOVE", "REGIME"} THEN 2
    ELSE 0

NeedsExpiry ==
    OiWindows \cup OiOfExpiry \cup OiOverWindow \cup {"PRICE_OI_RELATIONSHIP", "STRUCTURE_MIGRATION"}
    \cup {"ATM_IV", "IV_CHANGE", "IV_SKEW_DELTA", "IV_SKEW_STRIKE", "IV_RANK", "IV_PERCENTILE"}
    \cup (OfGamma \ {"GEX_TOTAL"}) \cup {"VWAP", "VOLUME_ZSCORE"}

NeedsSlice == OiWindows \cup OiOfExpiry \cup {"IV_SKEW_DELTA", "IV_SKEW_STRIKE", "VWAP"}

Requirements(f) ==
    {"quality"}
    \cup (IF f \in NeedsExpiry \cup {"FUTURES_OPTIONS_CONFIRMATION", "GEX_TOTAL"}
               /\ f \notin OfIv \cup OfPrice THEN {"oi"} ELSE {})
    \cup (IF f \in OfIv \cup OfGamma THEN {"greeks"} ELSE {})

DependsOn(f) ==
    CASE f = "IV_CHANGE"               -> {"ATM_IV"}
      [] f = "BASIS_CHANGE"            -> {"BASIS"}
      [] f = "IMPLIED_REALIZED_SPREAD" -> {"ATM_IV", "REALIZED_VOL_CLOSE_TO_CLOSE"}
      [] OTHER                         -> {}
-----------------------------------------------------------------------------
Formula(f, c) ==
    CASE f = "OI_CHANGE" -> OiChange(c)
      [] f = "OI_CHANGE_PCT" -> OiChangePct(c)
      [] f = "OI_CONCENTRATION" -> OiConcentration(c)
      [] f = "OI_WALL_CALL" -> OiWall(c, Calls(Now(c)))
      [] f = "OI_WALL_PUT" -> OiWall(c, Puts(Now(c)))
      [] f = "OI_WALL_MIGRATION" -> OiWallMigration(c)
      [] f = "PUT_OI_MIGRATION" -> OiMigration(Puts(Now(c)), Puts(Then(c, 1)))
      [] f = "CALL_OI_MIGRATION" -> OiMigration(Calls(Now(c)), Calls(Then(c, 1)))
      [] f = "BUILDUP_CLASSIFICATION" -> BuildupClassification(c)
      [] f = "PRICE_OI_RELATIONSHIP" -> PriceOiRelationship(c)
      [] f = "VOLUME_OI_RATIO" -> VolumeOiRatio(c)
      [] f = "PCR" -> Pcr(c)
      [] f = "PCR_OI_CHANGE" -> PcrOiChange(c)
      [] f = "SUPPORT_FROM_POSITIONING" -> SupportFromPositioning(c)
      [] f = "RESISTANCE_FROM_POSITIONING" -> ResistanceFromPositioning(c)
      [] f = "STRUCTURE_MIGRATION" -> StructureMigration(c)
      [] f = "MAX_PAIN" -> MaxPain(c)
      [] f = "REGIME" -> Regime(c)
      [] f = "FUTURES_PRICE" -> FuturesPrice(c)
      [] f = "FUTURES_OI" -> FuturesOi(c)
      [] f = "FUTURES_OI_CHANGE" -> FuturesOiChange(c)
      [] f = "BASIS" -> BasisNow(c)
      [] f = "BASIS_CHANGE" -> BasisChange(c)
      [] f = "ANNUALIZED_BASIS" -> AnnualizedBasis(c)
      [] f = "SPOT_FUTURES_DIVERGENCE" -> SpotFuturesDivergence(c)
      [] f = "FUTURES_OPTIONS_CONFIRMATION" -> FuturesOptionsConfirmation(c)
      [] f = "ATM_IV" -> AtmIv(c)
      [] f = "IV_CHANGE" -> IvChange(c)
      [] f = "IV_SKEW_DELTA" -> IvSkewDelta(c)
      [] f = "IV_SKEW_STRIKE" -> IvSkewStrike(c)
      [] f = "IV_TERM_STRUCTURE" -> IvTermStructure(c)
      [] f = "REALIZED_VOL_CLOSE_TO_CLOSE" -> RealizedVol(c)
      [] f = "REALIZED_VOL_PARKINSON" -> RealizedVolParkinson(c)
      [] f = "IMPLIED_REALIZED_SPREAD" -> ImpliedRealizedSpread(c)
      [] f = "IV_RANK" -> IvRank(c)
      [] f = "IV_PERCENTILE" -> IvPercentile(c)
      [] f = "GEX_BY_STRIKE" -> GexByStrike(c)
      [] f = "GEX_TOTAL" -> GexTotal(c)
      [] f = "GEX_BY_EXPIRY" -> GexByExpiry(c)
      [] f = "GEX_CONCENTRATION" -> GexConcentration(c)
      [] f = "GEX_PROFILE" -> GexProfile(c)
      [] f = "GAMMA_FLIP_LEVEL" -> GammaFlipLevel(c)
      [] f = "DELTA_EXPOSURE" -> Exposure(c, "delta")
      [] f = "GAMMA_EXPOSURE" -> Exposure(c, "gamma")
      [] f = "THETA_EXPOSURE" -> Exposure(c, "theta")
      [] f = "VEGA_EXPOSURE" -> Exposure(c, "vega")
      [] f = "RETURN" -> PriceReturn(c)
      [] f = "TREND" -> Trend(c)
      [] f = "MOMENTUM" -> Momentum(c)
      [] f = "RANGE" -> PriceRange(c)
      [] f = "ATR" -> Atr(c)
      [] f = "VWAP" -> Vwap(c)
      [] f = "VOLUME_ZSCORE" -> VolumeZscore(c)
      [] f = "REALIZED_MOVE" -> RealizedMove(c)

(* What features refuse before their formula.                              *)
Compute(f, c) ==
    Given(f \in NeedsExpiry \cup {"FUTURES_OPTIONS_CONFIRMATION"} => Seen(c.params.expiry), "INVALID_PARAMS",
      Given(f \in NeedsSlice => c.params.expiry \in c.state.expiries, "MISSING_INPUT",
        Given(Covers(c, Lookback(f)), "INSUFFICIENT_HISTORY", Formula(f, c))))
-----------------------------------------------------------------------------
\* Mutant: only the rows of the current state must have arrived.
AvailableWithState(c, at, ready) ==
    Max({c.state.time, at, c.state.ingested} \cup ready) + Delay

(* available_at: the window is complete, every input is available, the     *)
(* computation has finished; then the delay.                               *)
AvailableAt(c, at, ready) ==
    Max({c.state.time, at, LatestIngested(c)} \cup ready) + Delay

Skipped(reason) == [kind |-> "skipped", reason |-> reason, value |-> Unseen, available |-> Unseen]

Emit(result, c, at, ready) ==
    IF IsValue(result)
    THEN [kind |-> "value", reason |-> "", value |-> result.value, available |-> AvailableAt(c, at, ready)]
    ELSE [kind |-> "unavailable", reason |-> result.reason, value |-> Unseen, available |-> Unseen]

(* One feature: the quality gate and what it depends on come before the    *)
(* computation.                                                            *)
ResultOf(f, c, at) ==
    LET known == DOMAIN c.deps
    IN  IF \E r \in Requirements(f) : ~Meets(r, c.state) THEN Skipped("QUALITY_NOT_MET")
        ELSE IF known # DependsOn(f) \/ \E d \in known : c.deps[d].kind # "value"
             THEN Skipped("DEPENDENCY_UNAVAILABLE")
        ELSE Emit(Compute(f, c), c, at, {c.deps[d].available : d \in known})

(* The features of S, each after what it depends on.                       *)
RunOf(s, history, params, at, S) ==
    LET results[f \in S] ==
            ResultOf(f, [state |-> s, history |-> history, params |-> params,
                         deps |-> [d \in DependsOn(f) \cap S |-> results[d]]], at)
    IN  results
-----------------------------------------------------------------------------
NoReport == [state |-> Unseen, history |-> <<>>, params |-> Unseen, at |-> 0, results |-> <<>>]

FeatureInit == built = <<>> /\ report = NoReport

(* A state of the next instant; the rows it is built from may be ingested  *)
(* after it, when it is built with a later knowledge horizon.              *)
BuildState(content) ==
    LET time == Len(built) + 1
    IN  /\ Len(built) < MaxStates
        /\ built' = Append(built, [content EXCEPT !.time = time, !.ingested = time + @])
        /\ report' = NoReport

(* An execution for the latest state, over what precedes it or all of that *)
(* but the first: a shorter history is that of a shorter run.              *)
RunEngine(from, params, at) ==
    LET s == built[Len(built)]
        history == SubSeq(built, from, Len(built) - 1)
    IN  /\ built # <<>> /\ report = NoReport
        /\ report' = [state |-> s, history |-> history, params |-> params, at |-> at,
                      results |-> RunOf(s, history, params, at, FeatureIds)]
        /\ UNCHANGED built

FeatureNext ==
    \/ \E content \in Contents : BuildState(content)
    \/ \E from \in {1, 2}, params \in ParameterSets, wait \in 0 .. MaxWait :
          from <= Len(built) /\ RunEngine(from, params, Len(built) + wait)

FeatureSpec == FeatureInit /\ [][FeatureNext]_featureVars
-----------------------------------------------------------------------------
Known(f) == f \in DOMAIN report.results /\ report.results[f].kind = "value"
Of(f) == report.results[f].value
Reported == [state |-> report.state, history |-> report.history, params |-> report.params]

(* A value is available to no one before what it was computed from: the    *)
(* rows of every state of the window, the values of its dependencies, and  *)
(* the computation (availability.py, `available_at`).                      *)
NothingBeforeItsInputs ==
    \A f \in DOMAIN report.results : Known(f) =>
        LET available == report.results[f].available
        IN  /\ report.at <= available /\ report.state.time <= available
            /\ \A s \in Range(Series(Reported)) : s.ingested <= available
            /\ \A d \in DependsOn(f) : Known(d) /\ report.results[d].available <= available

OiObserved(s) == WithOi(Slice(s, report.params.expiry)) # {}
Reference(f) == ReferenceState(Reported, Lookback(f))

(* No number is made of what was not observed: a value of a feature over   *)
(* the ends of a window had its inputs at both ends, neither from before   *)
(* the history begins, and its state was fit for it (`_total_oi`, the      *)
(* features of positioning.py, structure.py, futures.py and price.py).     *)
MissingIsNeverANumber ==
    \A f \in DOMAIN report.results \ OverSeries : Known(f) =>
        /\ ~report.state.unreliable
        /\ Lookback(f) > 0 => Reference(f).time <= report.state.time - Lookback(f)
        /\ f \in OiWindows \cup OiOfExpiry \cup OiOverWindow => OiObserved(report.state)
        /\ f \in OiWindows \cup OiOverWindow => OiObserved(Reference(f))
        /\ f \in {"PCR", "PCR_OI_CHANGE"} =>
              \A type \in {"call", "put"} : \E l \in Slice(report.state, report.params.expiry) :
                  l.type = type /\ Seen(l.oi)
        /\ f \in {"MOMENTUM", "RETURN", "REALIZED_MOVE", "BASIS_CHANGE", "SPOT_FUTURES_DIVERGENCE",
                   "STRUCTURE_MIGRATION", "BUILDUP_CLASSIFICATION"} =>
              Seen(report.state.spot) /\ Seen(Reference(f).spot)
        /\ f \in OfGamma => Seen(report.params.lot)

(* A value rests on inputs that were observed, at both ends of its window, *)
(* and is known to no one before them.                                     *)
ValuesRestOnWhatWasThere == NothingBeforeItsInputs /\ MissingIsNeverANumber

Positive(f) == Of(f) > 0
Within(v, low, high) == AtMost(low, v) /\ AtMost(v, high)

(* Two features that speak of one thing do not contradict each other: the  *)
(* classifications follow the changes they classify, the gamma profile     *)
(* adds up to the exposure, and what is read off the chain stays within    *)
(* it (every module under analytics/domains).                              *)
FeaturesAgree ==
    LET chain == Slice(report.state, report.params.expiry)
        then == Slice(Reference("PUT_OI_MIGRATION"), report.params.expiry)
        K == Strikes(chain) \cup Strikes(then)
        paid == {l.ltp : l \in {o \in chain : Seen(o.ltp)}}
    IN  /\ Known("BUILDUP_CLASSIFICATION") =>
              /\ Known("OI_CHANGE") /\ Known("MOMENTUM")
              /\ Of("BUILDUP_CLASSIFICATION") = Quadrant(Positive("MOMENTUM"), Positive("OI_CHANGE"))
        /\ Known("FUTURES_OPTIONS_CONFIRMATION") =>
              Known("FUTURES_OI_CHANGE") /\ Known("OI_CHANGE")
              /\ (Of("FUTURES_OPTIONS_CONFIRMATION") = "CONFIRMING")
                    = (Positive("FUTURES_OI_CHANGE") = Positive("OI_CHANGE"))
        /\ \A f \in {"PUT_OI_MIGRATION", "CALL_OI_MIGRATION"} : Known(f) =>
              Within(Of(f), Whole(Min(K) - Max(K)), Whole(Max(K) - Min(K)))
        /\ Known("SUPPORT_FROM_POSITIONING") => Of("SUPPORT_FROM_POSITIONING") < report.state.spot
        /\ Known("RESISTANCE_FROM_POSITIONING") => Of("RESISTANCE_FROM_POSITIONING") > report.state.spot
        /\ Known("IV_RANK") => /\ Within(Of("IV_RANK"), Whole(0), Whole(1))
                               /\ Of("IV_RANK") = Whole(1) => Of("IV_PERCENTILE") = Whole(1)
        /\ Known("VWAP") => Within(Of("VWAP"), Whole(Min(paid)), Whole(Max(paid)))
        /\ Known("MOMENTUM") /\ Known("RANGE") => AbsInt(Of("MOMENTUM")) <= Of("RANGE")
        /\ Known("GEX_BY_EXPIRY") =>
              LET profile == Of("GEX_PROFILE")
                  ends == DOMAIN profile
              IN  /\ profile[Max(ends)] = Of("GEX_BY_EXPIRY")
                  /\ report.params.convention = "dealer_long_all" /\ report.params.aggregate = "expiry" =>
                        Of("GAMMA_EXPOSURE") = Of("GEX_BY_EXPIRY")
                  /\ Known("GAMMA_FLIP_LEVEL") =>
                        \E k \in ends, m \in ends :
                            /\ k < m /\ \A o \in ends : o <= k \/ o >= m
                            /\ Within(Of("GAMMA_FLIP_LEVEL"), Whole(k), Whole(m))
                            /\ profile[k] = 0 \/ (profile[k] < 0) # (profile[m] < 0)

(* A value rests on what was there, and agrees with the values beside it.  *)
FeaturesAreSound == ValuesRestOnWhatWasThere /\ FeaturesAgree
=============================================================================
