----------------------------- MODULE MC_Decisions -----------------------------
(***************************************************************************)
(* What is decided on the state of the market and the account: features    *)
(* and tracked migrations, signals and alerts, backtests, the portfolio,   *)
(* and who may ask.  They share no state that is modelled: a behaviour     *)
(* moves one of them, and the others stay where they begin.                *)
(***************************************************************************)
EXTENDS AlertDelivery, BacktestRun, PortfolioBook, SessionGate, SignalCatalogue, MigrationTracker,
        ResearchStudy

(* Market states for FeatureEngine: chains of two expiries around a price  *)
(* of 1000, with open interest, volumes and volatilities that build up and *)
(* unwind, legs that were not observed, a chain that is unreliable, a      *)
(* rolled front future, and rows that arrive late.                         *)
Leg(e, t, k, oi, iv) ==
    [expiry |-> e, type |-> t, strike |-> k, oi |-> oi,
     volume |-> IF iv > 21 THEN 2 * iv ELSE 2, ltp |-> (k \div 100) - 6,
     iv |-> iv, delta |-> (IF t = "call" THEN 1 ELSE -1) * (50 - AbsInt(k - 1000) \div 5),
     gamma |-> 1 + (iv % 3), theta |-> -1, vega |-> 2]

(* Volatilities of the near puts, the near calls and the far expiry.       *)
Chain(puts, calls, far, iv) ==
    {Leg(1, "put", 900, puts[1], iv[1] + 1), Leg(1, "put", 1000, puts[2], iv[1]),
     Leg(1, "call", 1000, calls[1], iv[2]), Leg(1, "call", 1100, calls[2], iv[2]),
     Leg(2, "put", 1000, far, iv[3]), Leg(2, "call", 1000, far, iv[3])}

Future(e, ltp, oi) == [expiry |-> e, ltp |-> ltp, oi |-> oi]

Content(spot, legs, futures, late) ==
    [time |-> 0, ingested |-> late, unreliable |-> FALSE, spot |-> spot, high |-> spot + 5, low |-> spot - 5,
     expiries |-> {1, 2}, legs |-> legs, missing |-> 0, futures |-> futures]

Calm == Content(1000, Chain(<<80, 40>>, <<60, 150>>, 40, <<20, 18, 22>>), <<Future(7, 1003, 10)>>, 0)
Rally == Content(1012, Chain(<<80, 50>>, <<20, 190>>, 60, <<25, 18, 15>>),
                 <<Future(8, 1017, 6), Future(7, 990, 12)>>, 1)
Drop == Content(995, Chain(<<70, 20>>, <<120, 110>>, 20, <<14, 17, 14>>), <<Future(8, 1008, 13)>>, 0)
Dark == [Calm EXCEPT !.legs = {[l EXCEPT !.oi = Unseen] : l \in {o \in @ : o.expiry = 1}}
                                \cup {l \in @ : l.expiry = 2},
                     !.spot = Unseen, !.ingested = 3, !.high = Unseen]
Broken == [Drop EXCEPT !.unreliable = TRUE, !.futures = <<>>]

SampleContents == {Calm, Rally, Drop, Dark, Broken}

Asked(expiry, lot, convention, aggregate) ==
    [expiry |-> expiry, lot |-> lot, convention |-> convention, days |-> 30, steps |-> 1,
     aggregate |-> aggregate]

SampleParameters ==
    {Asked(1, 1, "dealer_short_calls_long_puts", "underlying"), Asked(1, 1, "dealer_long_all", "expiry"),
     [Asked(2, Unseen, "unnamed", "expiry") EXCEPT !.days = 0]}

(* Rows for ResearchStudy: two underlyings, a value of another version, one *)
(* that falls, late and unreliable ones, and signals of two rules.         *)
RowOf(kind, ref, u, seen, known, value, bad) ==
    [kind |-> kind, ref |-> ref, version |-> IF ref = 4 THEN 2 ELSE 1, underlying |-> u,
     observed |-> seen + 1, horizon |-> seen + 1, available |-> known + 1, value |-> value, unreliable |-> bad,
     support |-> {"wall"} \cup (IF ref > 7 THEN {"change"} ELSE {})]

SampleRows ==
    {RowOf("feature", 1, 1, 0, 1, 6, FALSE), RowOf("feature", 2, 1, 1, 1, 7, TRUE),
     RowOf("feature", 3, 2, 2, 3, 8, FALSE), RowOf("feature", 4, 1, 1, 2, 6, FALSE),
     RowOf("feature", 5, 2, 3, 3, 2, FALSE),
     RowOf("signal", 6, 1, 0, 0, "ACTIVE", FALSE), RowOf("signal", 7, 2, 1, 1, "ACTIVE", TRUE),
     RowOf("signal", 8, 1, 2, 2, "ACTIVE", FALSE), RowOf("signal", 9, 1, 2, 3, "FORMING", FALSE),
     [RowOf("signal", 10, 2, 3, 4, "ACTIVE", FALSE) EXCEPT !.version = 2]}

SampleStudies ==
    {[kind |-> k, version |-> IF k = "feature" THEN 1 ELSE {1, 2}, threshold |-> 5, above |-> TRUE,
      status |-> "ACTIVE", exclude |-> ex, from |-> 1, to |-> 4,
      sampling |-> p[1], method |-> p[2], drop |-> p[3],
      separation |-> 2, horizons |-> {1, 2, 3}, step |-> 3 - m, minimum |-> m, K |-> K] :
        k \in {"feature", "signal"}, ex \in BOOLEAN, m \in {1, 2}, K \in {3, 4},
        p \in {<<"ALL", "TIME_PROXIMITY", FALSE>>, <<"ALL", "TIME_PROXIMITY", TRUE>>,
                <<"FIRST_PER_CLUSTER", "TIME_PROXIMITY", FALSE>>,
                <<"FIRST_PER_CLUSTER", "SIGNAL_INSTANCE", FALSE>>,
                <<"FIRST_PER_CLUSTER", "REGIME_BLOCK", FALSE>>,
                <<"DECORRELATED", "TIME_PROXIMITY", FALSE>>}}

SamplePrices ==
    {[u \in {1, 2} |-> IF u = 1 THEN <<12, 9, 11, 10, 14>> ELSE <<10, Unseen, 8, 9, 10>>],
     [u \in {1, 2} |-> IF u = 1 THEN <<8, 10, Unseen, 7, 0>> ELSE <<Unseen, 10, 13, 12, 9>>]}
-----------------------------------------------------------------------------
Init == SignalInit /\ AlertInit /\ BacktestInit /\ PortfolioInit /\ GateInit
        /\ FeatureInit /\ TrackerInit /\ ResearchInit

Next ==
    \/ /\ BacktestInit /\ PortfolioInit /\ GateInit /\ FeatureInit /\ TrackerInit /\ ResearchInit
       /\ AlertNext
       /\ UNCHANGED <<backtestVars, portfolioVars, gateVars, featureVars, trackerVars, researchVars>>
    \/ /\ SignalInit /\ AlertInit /\ PortfolioInit /\ GateInit /\ FeatureInit /\ TrackerInit /\ ResearchInit
       /\ BacktestNext
       /\ UNCHANGED <<signalVars, alertVars, portfolioVars, gateVars, featureVars, trackerVars, researchVars>>
    \/ /\ SignalInit /\ AlertInit /\ BacktestInit /\ GateInit /\ FeatureInit /\ TrackerInit /\ ResearchInit
       /\ PortfolioNext
       /\ UNCHANGED <<signalVars, alertVars, backtestVars, gateVars, featureVars, trackerVars, researchVars>>
    \/ /\ SignalInit /\ AlertInit /\ BacktestInit /\ PortfolioInit /\ FeatureInit /\ TrackerInit /\ ResearchInit
       /\ GateNext
       /\ UNCHANGED <<signalVars, alertVars, backtestVars, portfolioVars, featureVars, trackerVars, researchVars>>
    \/ /\ SignalInit /\ AlertInit /\ BacktestInit /\ PortfolioInit /\ GateInit /\ TrackerInit /\ ResearchInit
       /\ FeatureNext
       /\ UNCHANGED <<signalVars, alertVars, backtestVars, portfolioVars, gateVars, trackerVars, researchVars>>
    \/ /\ SignalInit /\ AlertInit /\ BacktestInit /\ PortfolioInit /\ GateInit /\ FeatureInit /\ ResearchInit
       /\ TrackerNext
       /\ UNCHANGED <<signalVars, alertVars, backtestVars, portfolioVars, gateVars, featureVars, researchVars>>
    \/ /\ SignalInit /\ AlertInit /\ BacktestInit /\ PortfolioInit /\ GateInit /\ FeatureInit
       /\ TrackerInit
       /\ ResearchNext
       /\ UNCHANGED <<signalVars, alertVars, backtestVars, portfolioVars, gateVars, featureVars, trackerVars>>
=============================================================================
