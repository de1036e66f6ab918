-------------------------- MODULE FeatureCatalogue --------------------------
(***************************************************************************)
(* What one feature computation may see, the helpers all features share    *)
(* (oipulse/analytics/context.py, values.py, domains/_shared.py), and the  *)
(* features of every domain: positioning.py, structure.py, futures.py,     *)
(* then volatility.py, gamma.py, greeks.py, price.py.                      *)
(*                                                                         *)
(* A market state is [time, ingested, unreliable, spot, high, low,         *)
(* expiries, legs, missing, futures]; a leg [expiry, type, strike, oi,     *)
(* volume, ltp, iv, delta, gamma, theta, vega]; a future [expiry, ltp,     *)
(* oi].  Unseen is Python's None.  A context is [state, history, params,   *)
(* deps], the history oldest first.  Times count the shortest lookback,    *)
(* 15 minutes.                                                             *)
(*                                                                         *)
(* What every feature of a kind refuses first (a missing expiry parameter, *)
(* an expiry not in the state, a window the history does not cover) is in  *)
(* FeatureEngine; a feature here is what comes after.  Implied             *)
(* volatilities and greeks are whole numbers of some small unit; the value *)
(* of a feature that takes a root or a logarithm is what it is taken of.   *)
(***************************************************************************)
EXTENDS Fractions, Sequences, FiniteSets, FiniteSetsExt, SequencesExt

CONSTANTS
    Unseen,
    MinPoints       \* MIN_HISTORY_POINTS, 20 in the code

Seen(x) == x # Unseen

Value(v) == [reason |-> "", value |-> v]
Unavailable(reason) == [reason |-> reason, value |-> Unseen]
IsValue(result) == result.reason = ""

(* A refusal, or what follows it.                                          *)
Given(condition, reason, rest) == IF condition THEN rest ELSE Unavailable(reason)

(* What is undefined is not a value.                                       *)
Defined(v) == Given(Seen(v), "UNDEFINED", Value(v))
-----------------------------------------------------------------------------
Covers(c, lookback) ==
    \/ lookback = 0
    \/ c.history # <<>> /\ Head(c.history).time <= c.state.time - lookback

(* The last state at or before the start of the window.                    *)
ReferenceState(c, lookback) ==
    LET before == {n \in DOMAIN c.history : c.history[n].time <= c.state.time - lookback}
    IN  IF before = {} THEN Head(c.history) ELSE c.history[Max(before)]

Series(c) == Append(c.history, c.state)

(* What stands at the positions in N.                                      *)
At(q, N) ==
    LET kept[n \in 0 .. Len(q)] ==
            IF n = 0 THEN <<>> ELSE IF n \in N THEN Append(kept[n - 1], q[n]) ELSE kept[n - 1]
    IN  kept[Len(q)]

LatestIngested(c) == Max({s.ingested : s \in Range(Series(c))})

Slice(s, expiry) == {l \in s.legs : l.expiry = expiry}
Calls(L) == {l \in L : l.type = "call"}
Puts(L) == {l \in L : l.type = "put"}
Strikes(L) == {l.strike : l \in L}
WithOi(L) == {l \in L : Seen(l.oi)}

OiSum(L) == TotalOf([l \in WithOi(L) |-> l.oi])

\* Mutant: what was not observed counts as zero.
TotalOiOrZero(L) == OiSum(L)

(* None, not zero, when no leg's open interest was observed.               *)
TotalOi(L) == IF WithOi(L) = {} THEN Unseen ELSE OiSum(L)

OiAt(L, strike) == OiSum({l \in L : l.strike = strike})

(* The strike with the most open interest, the lowest of several.          *)
PeakStrike(L) ==
    LET most == {k \in Strikes(WithOi(L)) :
                    \A other \in Strikes(WithOi(L)) : OiAt(L, other) <= OiAt(L, k)}
    IN  IF most = {} THEN Unseen ELSE Min(most)

SafeRatio(n, d) == IF d = 0 THEN Unseen ELSE Ratio(n, d)

(* The strike closest to spot, the lower of two.                           *)
AtmStrike(L, spot) ==
    LET nearest == {k \in Strikes(L) : \A other \in Strikes(L) : AbsInt(k - spot) <= AbsInt(other - spot)}
    IN  IF ~Seen(spot) \/ L = {} THEN Unseen ELSE Min(nearest)

(* Sums of a quantity over a sequence.                                     *)
SumSeq(q) == FoldSeq(LAMBDA x, total : x + total, 0, q)

(* Population variance, times the square of the number of points.          *)
Dispersion(q) == Len(q) * SumSeq([n \in DOMAIN q |-> q[n] * q[n]]) - SumSeq(q) * SumSeq(q)

(* The observed spot prices, the oldest first.                             *)
Prices(c) ==
    LET seen == At(Series(c), {n \in DOMAIN Series(c) : Seen(Series(c)[n].spot)})
    IN  [n \in DOMAIN seen |-> seen[n].spot]

Steps(q) == [n \in 1 .. Len(q) - 1 |-> q[n + 1] - q[n]]
-----------------------------------------------------------------------------
(* quality_measures: the share of the legs that are expected for which a   *)
(* quantity was observed, at least `n` in `of`.                            *)
Expected(s) == Cardinality(s.legs) + s.missing
AtLeast(observed, n, of, s) == Expected(s) > 0 /\ observed * of >= n * Expected(s)

(* The requirements that features declare.                                 *)
Meets(requirement, s) ==
    CASE requirement = "quality" -> ~s.unreliable
      [] requirement = "oi"      -> AtLeast(Cardinality(WithOi(s.legs)), 19, 20, s)
      [] requirement = "greeks"  -> AtLeast(Cardinality({l \in s.legs : Seen(l.iv)}), 9, 10, s)
-----------------------------------------------------------------------------
Now(c) == Slice(c.state, c.params.expiry)
Then(c, lookback) == Slice(ReferenceState(c, lookback), c.params.expiry)

OiChange(c) ==
    LET now == TotalOi(Now(c))
        before == TotalOi(Then(c, 1))
    IN  Given(Seen(now) /\ Seen(before), "MISSING_INPUT", Value(now - before))

OiChangePct(c) ==
    LET before == TotalOi(Then(c, 1))
        change == OiChange(c)
    IN  Given(IsValue(change), "MISSING_INPUT", Defined(SafeRatio(change.value, before)))

(* The Herfindahl index of the strikes' shares.                            *)
OiConcentration(c) ==
    LET K == Strikes(WithOi(Now(c)))
        grand == TotalOf([k \in K |-> OiAt(Now(c), k)])
    IN  Given(grand # 0, "MISSING_INPUT",
              Value(Ratio(TotalOf([k \in K |-> OiAt(Now(c), k) * OiAt(Now(c), k)]), grand * grand)))

(* The peak, when it stands out over the mean of the rest.                 *)
OiWall(c, L) ==
    LET top == PeakStrike(L)
        others == WithOi({l \in L : l.strike # top})
        rest == OiSum(others)
    IN  Given(Seen(top), "MISSING_INPUT",
          Given(~(rest > 0 /\ 2 * OiAt(L, top) * Cardinality(others) < 3 * rest), "UNDEFINED", Value(top)))

OiWallMigration(c) ==
    LET now == PeakStrike(Puts(Now(c)))
        before == PeakStrike(Puts(Then(c, 1)))
    IN  Given(Seen(now) /\ Seen(before), "MISSING_INPUT", Value(now - before))

(* The displacement of the changes from the centroid of the reference.     *)
OiMigration(now, before) ==
    LET K == Strikes(WithOi(now)) \cup Strikes(WithOi(before))
        delta(k) == OiAt(now, k) - OiAt(before, k)
        total == TotalOi(before)
        centre == TotalOf([k \in K |-> k * OiAt(before, k)])
        moved == TotalOf([k \in K |-> AbsInt(delta(k))])
    IN  Given(WithOi(now) # {} /\ WithOi(before) # {}, "MISSING_INPUT",
          Given(total # 0 /\ moved # 0, "UNDEFINED",
            Value(Ratio(TotalOf([k \in K |-> delta(k) * (k * total - centre)]), total * moved))))

Quadrant(up, more) ==
    IF up THEN IF more THEN "LONG_BUILDUP" ELSE "SHORT_COVERING"
    ELSE IF more THEN "SHORT_BUILDUP" ELSE "LONG_UNWINDING"

BuildupClassification(c) ==
    LET change == OiChange(c)
        spots == {c.state.spot, ReferenceState(c, 1).spot}
        move == c.state.spot - ReferenceState(c, 1).spot
    IN  Given(IsValue(change) /\ Unseen \notin spots, "MISSING_INPUT",
          Given(change.value # 0 /\ move # 0, "UNDEFINED", Value(Quadrant(move > 0, change.value > 0))))

(* Pearson's correlation of the steps, kept as [cov, varx, vary].          *)
PriceOiRelationship(c) ==
    LET usable == SelectSeq(Series(c), LAMBDA s : Seen(s.spot) /\ Seen(TotalOi(Slice(s, c.params.expiry))))
        dp == Steps([n \in DOMAIN usable |-> usable[n].spot])
        do == Steps([n \in DOMAIN usable |-> TotalOi(Slice(usable[n], c.params.expiry))])
        cov == Len(dp) * SumSeq([n \in DOMAIN dp |-> dp[n] * do[n]]) - SumSeq(dp) * SumSeq(do)
    IN  Given(Len(usable) >= 3, "INSUFFICIENT_HISTORY",
          Given(Dispersion(dp) # 0 /\ Dispersion(do) # 0, "UNDEFINED",
            Value(<<cov, Dispersion(dp), Dispersion(do)>>)))

VolumeOiRatio(c) ==
    LET traded == {l \in Now(c) : Seen(l.volume)}
        oi == TotalOi(Now(c))
    IN  Given(traded # {} /\ Seen(oi), "MISSING_INPUT",
              Defined(SafeRatio(TotalOf([l \in traded |-> l.volume]), oi)))

Pcr(c) ==
    LET call == TotalOi(Calls(Now(c)))
        put == TotalOi(Puts(Now(c)))
    IN  Given(Seen(call) /\ Seen(put), "MISSING_INPUT", Defined(SafeRatio(put, call)))

PcrOiChange(c) ==
    LET sides == <<Calls(Now(c)), Calls(Then(c, 1)), Puts(Now(c)), Puts(Then(c, 1))>>
        oi == [n \in 1 .. 4 |-> TotalOi(sides[n])]
    IN  Given(Unseen \notin Range(oi), "MISSING_INPUT", Defined(SafeRatio(oi[3] - oi[4], oi[1] - oi[2])))
-----------------------------------------------------------------------------
(* structure.py                                                            *)
BelowSpot(L, spot) == {l \in Puts(L) : l.strike < spot}
AboveSpot(L, spot) == {l \in Calls(L) : l.strike > spot}

PositioningLevel(L) == Given(Seen(PeakStrike(L)), "MISSING_INPUT", Value(PeakStrike(L)))

SupportFromPositioning(c) ==
    Given(Seen(c.state.spot), "MISSING_INPUT", PositioningLevel(BelowSpot(Now(c), c.state.spot)))

ResistanceFromPositioning(c) ==
    Given(Seen(c.state.spot), "MISSING_INPUT", PositioningLevel(AboveSpot(Now(c), c.state.spot)))

(* Twice the middle of the band between support and resistance.            *)
BandMid(s, expiry) ==
    LET support == PeakStrike(BelowSpot(Slice(s, expiry), s.spot))
        resistance == PeakStrike(AboveSpot(Slice(s, expiry), s.spot))
    IN  IF Seen(s.spot) /\ Seen(support) /\ Seen(resistance) THEN support + resistance ELSE Unseen

StructureMigration(c) ==
    LET now == BandMid(c.state, c.params.expiry)
        before == BandMid(ReferenceState(c, 2), c.params.expiry)
    IN  Given(Seen(now) /\ Seen(before), "MISSING_INPUT", Value(Ratio(now - before, 2)))

Pain(L, settle) ==
    TotalOf([l \in WithOi(L) |-> l.oi * Max({0, IF l.type = "call" THEN settle - l.strike ELSE l.strike - settle})])

MaxPain(c) ==
    LET K == Strikes(WithOi(Now(c)))
        least == {k \in K : \A other \in K : Pain(Now(c), k) <= Pain(Now(c), other)}
    IN  Given(K # {}, "MISSING_INPUT", Value(Min(least)))

(* The rules, most specific first; thresholds in thousandths of the first  *)
(* price.  The last branch is TRANSITION: UNKNOWN is never returned.       *)
RegimeOf(prices) ==
    LET first == Head(prices)
        last == prices[Len(prices)]
        move == 1000 * (last - first)
        span == 1000 * (Max(Range(prices)) - Min(Range(prices)))
    IN  IF move >= 10 * first /\ last = Max(Range(prices)) THEN "BREAKOUT"
        ELSE IF move <= -10 * first /\ last = Min(Range(prices)) THEN "BREAKDOWN"
        ELSE IF move >= 3 * first THEN "TRENDING_UP"
        ELSE IF move <= -3 * first THEN "TRENDING_DOWN"
        ELSE IF span <= first THEN "LOW_VOLATILITY"
        ELSE IF span >= 10 * first THEN "HIGH_VOLATILITY"
        ELSE IF span <= 3 * first THEN "RANGE"
        ELSE "TRANSITION"

Regime(c) ==
    Given(Len(Prices(c)) >= 4, "INSUFFICIENT_HISTORY",
      Given(Head(Prices(c)) # 0, "UNDEFINED", Value(RegimeOf(Prices(c)))))
-----------------------------------------------------------------------------
(* futures.py                                                              *)
NoFuture == [expiry |-> Unseen, ltp |-> Unseen, oi |-> Unseen]

(* The contract of the lowest expiry id, of those that have one.           *)
FrontFuture(s) ==
    LET dated == {f \in Range(s.futures) : Seen(f.expiry)}
    IN  IF s.futures = <<>> THEN NoFuture
        ELSE IF dated = {} THEN Head(s.futures)
        ELSE CHOOSE f \in dated : \A other \in dated : f.expiry <= other.expiry

FuturesPrice(c) == Given(Seen(FrontFuture(c.state).ltp), "MISSING_INPUT", Value(FrontFuture(c.state).ltp))
FuturesOi(c) == Given(Seen(FrontFuture(c.state).oi), "MISSING_INPUT", Value(FrontFuture(c.state).oi))

FuturesOiChange(c) ==
    LET before == FrontFuture(ReferenceState(c, 1)).oi
    IN  Given(Seen(FrontFuture(c.state).oi) /\ Seen(before), "MISSING_INPUT", Value(FrontFuture(c.state).oi - before))

BasisOf(s) == IF Seen(FrontFuture(s).ltp) /\ Seen(s.spot) THEN FrontFuture(s).ltp - s.spot ELSE Unseen

BasisNow(c) == Given(Seen(BasisOf(c.state)), "MISSING_INPUT", Value(BasisOf(c.state)))

BasisChange(c) ==
    LET before == BasisOf(ReferenceState(c, 1))
    IN  Given(Seen(BasisOf(c.state)) /\ Seen(before), "MISSING_INPUT", Value(BasisOf(c.state) - before))

AnnualizedBasis(c) ==
    Given(Seen(c.params.days), "MISSING_INPUT",
      Given(c.params.days > 0, "UNDEFINED",
        Given(Seen(BasisOf(c.state)) /\ c.state.spot # 0, "MISSING_INPUT",
          Value(Ratio(BasisOf(c.state) * 365, c.state.spot * c.params.days)))))

SpotFuturesDivergence(c) ==
    LET s == ReferenceState(c, 1)
        both == {FrontFuture(c.state).ltp, FrontFuture(s).ltp, c.state.spot, s.spot}
    IN  Given(Unseen \notin both, "MISSING_INPUT",
          Given(FrontFuture(s).ltp # 0 /\ s.spot # 0, "UNDEFINED",
            Value(Minus(Ratio(FrontFuture(c.state).ltp - FrontFuture(s).ltp, FrontFuture(s).ltp),
                        Ratio(c.state.spot - s.spot, s.spot)))))

FuturesOptionsConfirmation(c) ==
    LET futures == FuturesOiChange(c)
        options == OiChange(c)
    IN  Given(IsValue(futures) /\ IsValue(options), "MISSING_INPUT",
          Given(futures.value # 0 /\ options.value # 0, "UNDEFINED",
            Value(IF (futures.value > 0) = (options.value > 0) THEN "CONFIRMING" ELSE "DIVERGING")))
-----------------------------------------------------------------------------
(* The mean of the implied volatilities at the strike closest to spot.     *)
AtmIvOf(s, expiry) ==
    LET L == Slice(s, expiry)
        atm == {l \in L : l.strike = AtmStrike(L, s.spot) /\ Seen(l.iv)}
    IN  IF ~Seen(s.spot) \/ atm = {} THEN Unseen
        ELSE Ratio(TotalOf([l \in atm |-> l.iv]), Cardinality(atm))

AtmIv(c) == Given(Seen(AtmIvOf(c.state, c.params.expiry)), "MISSING_INPUT",
                  Value(AtmIvOf(c.state, c.params.expiry)))

IvChange(c) ==
    LET now == AtmIvOf(c.state, c.params.expiry)
        before == AtmIvOf(ReferenceState(c, 1), c.params.expiry)
    IN  Given(Seen(now) /\ Seen(before), "MISSING_INPUT", Value(Minus(now, before)))

(* The leg whose delta is closest to the target, the lowest strike of two. *)
NearestDelta(L, target) ==
    LET known == {l \in L : Seen(l.delta) /\ Seen(l.iv)}
        nearest == {l \in known : \A other \in known : AbsInt(l.delta - target) <= AbsInt(other.delta - target)}
    IN  CHOOSE l \in nearest : \A other \in nearest : l.strike <= other.strike

WithDelta(L) == \E l \in L : Seen(l.delta) /\ Seen(l.iv)

IvSkewDelta(c) ==
    LET L == Slice(c.state, c.params.expiry) IN
    Given(WithDelta(Calls(L)) /\ WithDelta(Puts(L)), "MISSING_INPUT",
          Value(NearestDelta(Puts(L), -25).iv - NearestDelta(Calls(L), 25).iv))

(* The wings lie a number of strikes on either side of the money.          *)
IvSkewStrike(c) ==
    LET L == Slice(c.state, c.params.expiry)
        atm == AtmStrike(L, c.state.spot)
        below == {k \in Strikes(L) : k < atm}
        above == {k \in Strikes(L) : k > atm}
        low == {l \in Puts(L) : l.strike < atm /\ Seen(l.iv)
                    /\ Cardinality({k \in below : k > l.strike}) = c.params.steps - 1}
        high == {l \in Calls(L) : l.strike > atm /\ Seen(l.iv)
                    /\ Cardinality({k \in above : k < l.strike}) = c.params.steps - 1}
    IN  Given(Seen(atm), "MISSING_INPUT",
          Given(low # {} /\ high # {}, "MISSING_INPUT",
            Value((CHOOSE l \in low : TRUE).iv - (CHOOSE l \in high : TRUE).iv)))

(* The second expiry over the front one, by date.                          *)
IvTermStructure(c) ==
    LET E == c.state.expiries
        front == Min(E)
        second == Min(E \ {front})
        ivs == {AtmIvOf(c.state, front), AtmIvOf(c.state, second)}
    IN  Given(Cardinality(E) >= 2, "MISSING_INPUT",
          Given(Unseen \notin ivs, "MISSING_INPUT",
            Value(Minus(AtmIvOf(c.state, second), AtmIvOf(c.state, front)))))

(* The returns between observed prices, of which two are needed.           *)
RealizedVol(c) ==
    LET prices == Prices(c)
        returns == SelectSeq([n \in 1 .. Len(prices) - 1 |-> <<prices[n], prices[n + 1]>>],
                             LAMBDA r : r[1] > 0)
    IN  Given(Len(prices) >= 3 /\ Len(returns) >= 2, "INSUFFICIENT_HISTORY", Value(returns))

RealizedVolParkinson(c) ==
    LET s == c.state IN
    Given(Seen(s.high) /\ Seen(s.low), "MISSING_INPUT",
      Given(s.high > 0 /\ s.low > 0, "MISSING_INPUT",
        Given(s.high >= s.low, "UNDEFINED", Value(Ratio(s.high, s.low)))))

(* Both dependencies are resolved, or the engine skips the feature.        *)
ImpliedRealizedSpread(c) == Value(<<c.deps["ATM_IV"].value, c.deps["REALIZED_VOL_CLOSE_TO_CLOSE"].value>>)

(* The implied volatilities observed in the history, and now if observed.  *)
AtmIvs(c) ==
    LET usable == At(Series(c), {n \in DOMAIN Series(c) : Seen(AtmIvOf(Series(c)[n], c.params.expiry))})
    IN  [n \in DOMAIN usable |-> AtmIvOf(usable[n], c.params.expiry)]

Lowest(q) == CHOOSE v \in Range(q) : \A other \in Range(q) : AtMost(v, other)
Highest(q) == CHOOSE v \in Range(q) : \A other \in Range(q) : AtMost(other, v)

IvRank(c) ==
    LET ivs == AtmIvs(c)
    IN  Given(Len(ivs) >= MinPoints, "INSUFFICIENT_HISTORY",
          Given(Lowest(ivs) # Highest(ivs), "UNDEFINED",
            Value(Over(Minus(Last(ivs), Lowest(ivs)), Minus(Highest(ivs), Lowest(ivs))))))

IvPercentile(c) ==
    LET ivs == AtmIvs(c)
    IN  Given(Len(ivs) >= MinPoints, "INSUFFICIENT_HISTORY",
          Value(Ratio(Cardinality({n \in DOMAIN ivs : AtMost(ivs[n], Last(ivs))}), Len(ivs))))
-----------------------------------------------------------------------------
(* gamma.py                                                                *)
Conventions == {"dealer_short_calls_long_puts", "dealer_long_all"}

DealerSign(convention, type) ==
    IF convention = "dealer_long_all" \/ type = "call" THEN 1 ELSE -1

(* _guard: the convention, and the lot size of the day.                    *)
Guarded(c, rest) ==
    Given(c.params.convention \in Conventions, "INVALID_PARAMS",
      Given(Seen(c.params.lot), "MISSING_INPUT",
        Given(c.params.lot > 0, "INVALID_PARAMS", rest)))

WithGamma(s, expiry) == {l \in Slice(s, expiry) : Seen(l.gamma) /\ Seen(l.oi)}

Gex(c, L) ==
    TotalOf([l \in L |-> DealerSign(c.params.convention, l.type) * l.gamma * l.oi * c.params.lot])

GexFor(c, value) ==
    Guarded(c, Given(WithGamma(c.state, c.params.expiry) # {}, "MISSING_INPUT", value))

GexAt(c, k) == Gex(c, {l \in WithGamma(c.state, c.params.expiry) : l.strike = k})
GexStrikes(c) == Strikes(WithGamma(c.state, c.params.expiry))

GexByStrike(c) == GexFor(c, Value([k \in GexStrikes(c) |-> GexAt(c, k)]))

(* Over all expiries that show any.                                        *)
GexTotal(c) ==
    LET L == UNION {WithGamma(c.state, e) : e \in c.state.expiries}
    IN  Guarded(c, Given(L # {}, "MISSING_INPUT", Value(Gex(c, L))))

GexByExpiry(c) == GexFor(c, Value(Gex(c, WithGamma(c.state, c.params.expiry))))

GexConcentration(c) ==
    LET K == GexStrikes(c)
        grand == TotalOf([k \in K |-> AbsInt(GexAt(c, k))])
    IN  GexFor(c, Given(grand # 0, "UNDEFINED",
                    Value(Ratio(TotalOf([k \in K |-> GexAt(c, k) * GexAt(c, k)]), grand * grand))))

\* Mutant: each strike on its own, not what has accumulated up to it.
RunningAlone(c, k) == GexAt(c, k)

(* The exposure accumulated over the strikes up to k.                      *)
Running(c, k) == TotalOf([j \in {o \in GexStrikes(c) : o <= k} |-> GexAt(c, j)])

GexProfile(c) == GexFor(c, Value([k \in GexStrikes(c) |-> Running(c, k)]))

(* Where the accumulated exposure first crosses zero between two strikes.  *)
GammaFlipLevel(c) ==
    LET K == GexStrikes(c)
        next(k) == Min({o \in K : o > k})
        flips == {k \in K \ {Max(K)} :
                    Running(c, k) = 0 \/ (Running(c, k) < 0) # (Running(c, next(k)) < 0)}
        k == Min(flips)
        at == Running(c, k)
    IN  GexFor(c, Given(flips # {}, "UNDEFINED",
                    Value(IF at = 0 THEN Whole(k)
                          ELSE Plus(Whole(k), Ratio((next(k) - k) * (0 - at), Running(c, next(k)) - at)))))
-----------------------------------------------------------------------------
(* greeks.py: over an expiry, or over the underlying.                      *)
Exposure(c, greek) ==
    LET L == IF c.params.aggregate = "underlying" THEN c.state.legs ELSE Slice(c.state, c.params.expiry)
        known == {l \in L : Seen(l[greek]) /\ Seen(l.oi)}
    IN  Given(c.params.aggregate \in {"expiry", "underlying"}, "INVALID_PARAMS",
          Given(Seen(c.params.lot), "MISSING_INPUT",
            Given(c.params.lot > 0, "INVALID_PARAMS",
              Given(known # {}, "MISSING_INPUT",
                Value(TotalOf([l \in known |-> l[greek] * l.oi * c.params.lot]))))))
-----------------------------------------------------------------------------
(* price.py                                                                *)
Momentum(c) ==
    LET before == ReferenceState(c, 1).spot
    IN  Given(Seen(c.state.spot) /\ Seen(before), "MISSING_INPUT", Value(c.state.spot - before))

PriceReturn(c) ==
    Given(IsValue(Momentum(c)), "MISSING_INPUT",
          Defined(SafeRatio(Momentum(c).value, ReferenceState(c, 1).spot)))

RealizedMove(c) ==
    LET before == ReferenceState(c, 2).spot
    IN  Given(Seen(c.state.spot) /\ Seen(before), "MISSING_INPUT",
              Defined(SafeRatio(AbsInt(c.state.spot - before), before)))

(* The slope of the least squares line through the observed prices.        *)
Trend(c) ==
    LET prices == Prices(c)
        index == [n \in DOMAIN prices |-> n - 1]
        cov == Len(prices) * SumSeq([n \in DOMAIN prices |-> index[n] * prices[n]])
                 - SumSeq(index) * SumSeq(prices)
    IN  Given(Len(prices) >= 3, "INSUFFICIENT_HISTORY", Value(Ratio(cov, Dispersion(index))))

PriceRange(c) ==
    LET prices == Range(Prices(c))
    IN  Given(prices # {}, "MISSING_INPUT", Value(Max(prices) - Min(prices)))

Atr(c) ==
    LET steps == Steps(Prices(c))
    IN  Given(Len(Prices(c)) >= 2, "INSUFFICIENT_HISTORY",
              Value(Ratio(SumSeq([n \in DOMAIN steps |-> AbsInt(steps[n])]), Len(steps))))

Vwap(c) ==
    LET L == {l \in Slice(c.state, c.params.expiry) : Seen(l.ltp) /\ Seen(l.volume)}
    IN  Given(L # {}, "MISSING_INPUT",
              Defined(SafeRatio(TotalOf([l \in L |-> l.ltp * l.volume]),
                                TotalOf([l \in L |-> l.volume]))))

(* How far the last volume is from the mean, over the dispersion.          *)
VolumeZscore(c) ==
    LET traded(s) == {l \in Slice(s, c.params.expiry) : Seen(l.volume)}
        usable == SelectSeq(Series(c), LAMBDA s : traded(s) # {})
        volumes == [n \in DOMAIN usable |-> TotalOf([l \in traded(usable[n]) |-> l.volume])]
    IN  Given(Len(volumes) >= 3, "INSUFFICIENT_HISTORY",
          Given(Dispersion(volumes) # 0, "UNDEFINED",
            Value(<<Len(volumes) * Last(volumes) - SumSeq(volumes), Dispersion(volumes)>>)))
=============================================================================
