---------------------------- MODULE ResearchStudy ----------------------------
(***************************************************************************)
(* An event study over an extract of features and signals: what may be     *)
(* read when (research/access.py, dataset.py), which events there were     *)
(* (events.py), which of them are sampled (sampling.py), what followed     *)
(* (windows.py, engine.py), and what is said of it (statistics.py,         *)
(* signal_evaluation.py).                                                  *)
(*                                                                         *)
(* A row [kind, ref, version, underlying, observed, horizon, available,    *)
(* value, unreliable] is a value of the pinned feature, or a signal with   *)
(* its status and its rule type as version.  A study is [kind, version,    *)
(* threshold, above, status, exclude, from, to, sampling, method, drop,    *)
(* separation, horizons, step, minimum, K].  Prices are a function of      *)
(* underlying and time, Unseen where there is none.                        *)
(***************************************************************************)
EXTENDS FeatureCatalogue

CONSTANTS
    Rows,           \* what history may hold
    Studies,        \* what may be asked
    PriceSeries,    \* what prices may have followed
    MaxRows         \* bound: rows of an extract

(* A value or a signal is available no earlier than the state it is of     *)
(* (analytics/values.py, signals/model.py).                                *)
ASSUME StudyAssumption ==
    \A row \in Rows : row.available \in Nat /\ row.observed \in Nat /\ row.observed <= row.available

VARIABLES
    recorded,    \* the rows that were recorded so far
    finding     \* the last study's result

researchVars == <<recorded, finding>>

NoFinding == [status |-> "none"]

LexLess(p, q) == \E n \in DOMAIN p : p[n] < q[n] /\ \A m \in 1 .. n - 1 : p[m] = q[m]

Listed(S) == FoldSet(LAMBDA x, q : Append(q, x), <<>>, S)

BuildDataset(rows, K) == {r \in rows : r.horizon <= K}

\* Mutant: the extract is served whole, whenever it is asked.
VisibleWhole(rows, at) == rows

Visible(rows, at) == {r \in rows : r.available <= at}

(* The newest visible value of exactly the pinned version, of whatever     *)
(* underlying: none, or one.                                               *)
GetFeature(rows, version, at) ==
    LET seen == {r \in Visible(rows, at) : r.kind = "feature" /\ r.version = version}
        Age(r) == <<-r.available, -r.observed, r.ref>>
    IN  {r \in seen : \A other \in seen \ {r} : LexLess(Age(r), Age(other))}

AvailableSignals(rows, at) == {r \in Visible(rows, at) : r.kind = "signal"}

EventOf(r, at) ==
    [underlying |-> r.underlying, market |-> r.observed, horizon |-> r.horizon, trigger |-> r.value,
     available |-> Max({r.available, r.observed}), detected |-> at, evidence |-> r.ref,
     unreliable |-> r.unreliable]

(* What an occurrence is: not its evidence, nor when it was detected.      *)
OccurrenceId(e) == <<e.underlying, e.market, e.horizon, e.trigger>>

Crossed(s, value) == Seen(value) /\ IF s.above THEN value >= s.threshold ELSE value <= s.threshold

DetectAt(s, rows, at) ==
    LET found == IF s.kind = "feature"
                 THEN {r \in GetFeature(rows, s.version, at) : Crossed(s, r.value)}
                 ELSE {r \in AvailableSignals(rows, at) : r.version \in s.version /\ r.value = s.status}
    IN  {EventOf(r, at) : r \in {f \in found : ~(s.exclude /\ f.unreliable)}}

(* Over all instants, the first event of each occurrence.                  *)
DetectOver(s, rows, instants) ==
    LET all == UNION {DetectAt(s, rows, at) : at \in instants}
        Found(e) == <<e.detected, e.available, e.evidence>>
    IN  {e \in all : \A o \in all \ {e} :
            OccurrenceId(o) = OccurrenceId(e) => LexLess(Found(e), Found(o))}

DefaultInstants(rows) == {r.available : r \in rows}

(* By market time; of one time in the order of their digests, which is any *)
(* fixed order.                                                            *)
Ordered(events) ==
    LET Place(e) == <<e.market, e.underlying, e.horizon, e.evidence>>
    IN  SortSeq(Listed(events), LAMBDA a, b : LexLess(Place(a), Place(b)))
-----------------------------------------------------------------------------
(* Whether the n-th event begins a block of its own.                       *)
Breaks(s, q, n) ==
    \/ n = 1
    \/ q[n].market - q[n - 1].market >= s.separation
    \/ s.method = "REGIME_BLOCK" /\ q[n].underlying # q[n - 1].underlying

(* The clusters, each as the positions of its members.                     *)
Clusters(s, q) ==
    IF s.method = "SIGNAL_INSTANCE"
    THEN {{n \in DOMAIN q : q[n].evidence = ref} : ref \in {q[n].evidence : n \in DOMAIN q}}
    ELSE {{n \in DOMAIN q : n >= first /\ \A m \in first + 1 .. n : ~Breaks(s, q, m)} :
              first \in {n \in DOMAIN q : Breaks(s, q, n)}}

\* Mutant: an event is kept when it is far from the one before it.
SpacedFromPrevious(s, q) ==
    LET far == {n \in DOMAIN q : n = 1 \/ q[n].market - q[n - 1].market >= s.separation}
    IN  [n \in 1 .. Cardinality(far) |-> q[SortSeq(Listed(far), <)[n]]]

(* Those that are far enough from the last one kept.                       *)
Spaced(s, q) ==
    FoldLeft(LAMBDA kept, e : IF kept # <<>> /\ e.market - Last(kept).market < s.separation
                              THEN kept ELSE Append(kept, e), <<>>, q)

ApplySampling(s, q) ==
    CASE s.sampling = "ALL" -> IF s.drop THEN Spaced(s, q) ELSE q
      [] s.sampling = "FIRST_PER_CLUSTER" -> Ordered({q[Min(cluster)] : cluster \in Clusters(s, q)})
      [] s.sampling = "DECORRELATED" -> Spaced(s, q)
-----------------------------------------------------------------------------
ValueAt(prices, u, t) == IF u \in DOMAIN prices /\ t \in DOMAIN prices[u] THEN prices[u][t] ELSE Unseen

DatasetEnd(prices) == Max({t \in UNION {DOMAIN prices[u] : u \in DOMAIN prices} :
                              \E u \in DOMAIN prices : Seen(ValueAt(prices, u, t))})

Completeness(prices, t, h) ==
    CASE DatasetEnd(prices) < t -> "empty"
      [] DatasetEnd(prices) \in t .. t + h - 1 -> "truncated"
      [] OTHER -> "complete"

Change(prices, e, t) ==
    LET base == ValueAt(prices, e.underlying, e.market)
        then == ValueAt(prices, e.underlying, t)
    IN  IF Seen(then) THEN Ratio(then - base, base) ELSE Unseen

Anchored(prices, e) ==
    Seen(ValueAt(prices, e.underlying, e.market)) /\ ValueAt(prices, e.underlying, e.market) # 0

(* The path of an event over a horizon, point by point.                    *)
SampleWindow(s, prices, e, h) ==
    [n \in 1 .. h \div s.step + 1 |->
        [offset |-> (n - 1) * s.step, value |-> Change(prices, e, e.market + (n - 1) * s.step)]]

Observed(path) == SelectSeq(path, LAMBDA point : Seen(point.value))

(* What one horizon measures over the selected events, in their order.     *)
Measure(s, prices, events, h) ==
    LET anchored == SelectSeq(events, LAMBDA e : Anchored(prices, e))
        whole == SelectSeq(anchored, LAMBDA e : Completeness(prices, e.market, h) = "complete")
    IN  [incomplete |-> Len(anchored) - Len(whole),
         returns |-> SelectSeq([n \in DOMAIN whole |-> Change(prices, whole[n], whole[n].market + h)],
                               LAMBDA v : Seen(v)),
         path |-> FlattenSeq([n \in DOMAIN whole |-> SampleWindow(s, prices, whole[n], h)])]
-----------------------------------------------------------------------------
Larger(a, b) == IF AtMost(a, b) THEN b ELSE a
Smaller(a, b) == IF AtMost(a, b) THEN a ELSE b
Total(q) == FoldLeft(LAMBDA sum, v : Plus(sum, v), Whole(0), q)
Mean(q) == Over(Total(q), Whole(Len(q)))
Ascending(q) == SortSeq(q, LAMBDA a, b : ~AtMost(b, a))

(* Nearest rank, halves up.                                                *)
Quantile(ascending, percent) == ascending[(2 * percent * (Len(ascending) - 1) + 100) \div 200 + 1]

Median(ascending) ==
    LET n == Len(ascending)
    IN  IF n % 2 = 1 THEN ascending[n \div 2 + 1]
        ELSE Over(Plus(ascending[n \div 2], ascending[n \div 2 + 1]), Whole(2))

(* The deepest fall below the highest running total, from none.            *)
MaxDrawdown(q) ==
    FoldLeft(LAMBDA d, v :
                LET running == Plus(d.running, v)
                    peak == Larger(d.peak, running)
                IN  [running |-> running, peak |-> peak, deepest |-> Smaller(d.deepest, Minus(running, peak))],
             [running |-> Whole(0), peak |-> Whole(0), deepest |-> Whole(0)], q).deepest

Bucket(v, width) == Over(v, width)[1] \div Over(v, width)[2]

(* None of it is a number when nothing was observed.                       *)
Describe(q, width) ==
    LET ascending == Ascending(q)
        wins == SelectSeq(q, LAMBDA v : v[1] > 0)
        losses == SelectSeq(q, LAMBDA v : v[1] < 0)
    IN  IF q = <<>> THEN [count |-> 0]
        ELSE [count |-> Len(q), mean |-> Mean(q), median |-> Median(ascending),
              quantiles |-> [p \in {5, 25, 50, 75, 95} |-> Quantile(ascending, p)],
              winRate |-> Ratio(Len(wins), Len(q)),
              profitFactor |-> IF losses = <<>> THEN Unseen
                               ELSE Over(Total(wins), Minus(Whole(0), Total(losses))),
              drawdown |-> MaxDrawdown(q),
              histogram |-> [b \in {Bucket(q[n], width) : n \in DOMAIN q} |->
                                Cardinality({n \in DOMAIN q : Bucket(q[n], width) = b})]]

(* How far the points went above and below the baseline, which is none.    *)
Excursion(path) ==
    LET seen == Observed(path)
        moves == [n \in DOMAIN seen |-> seen[n].value]
    IN  [mfe |-> FoldLeft(Larger, Whole(0), moves), mae |-> FoldLeft(Smaller, Whole(0), moves),
         observations |-> Len(seen), missing |-> Len(path) - Len(seen)]
-----------------------------------------------------------------------------
(* Signals with what followed each, by rule and status, and by each label  *)
(* of supporting evidence against its absence.                             *)
ReturnsOf(pairs, chosen) ==
    LET those == SelectSeq(pairs, LAMBDA pair : pair.signal \in chosen)
    IN  [n \in DOMAIN those |-> those[n].value]

EvaluateByTransition(pairs, signals) ==
    [key \in {<<r.version, r.value>> : r \in signals} |->
        Describe(ReturnsOf(pairs, {r \in signals : <<r.version, r.value>> = key}), <<1, 10>>)]

AttributeEvidence(pairs, signals, type) ==
    LET those == {r \in signals : r.version = type}
    IN  [label \in UNION {r.support : r \in those} |->
            [with |-> Describe(ReturnsOf(pairs, {r \in those : label \in r.support}), <<1, 10>>),
             without |-> Describe(ReturnsOf(pairs, {r \in those : label \notin r.support}), <<1, 10>>)]]

Separation(a) ==
    IF 0 \in {a.with.count, a.without.count} THEN Unseen ELSE Minus(a.with.mean, a.without.mean)
-----------------------------------------------------------------------------
(* The engine's run over an extract and what followed.                     *)
Report(s, rows, prices) ==
    LET dataset == BuildDataset(rows, s.K)
        inPeriod == {e \in DetectOver(s, dataset, DefaultInstants(dataset)) : e.market \in s.from .. s.to}
        qualifying == Ordered({e \in inPeriod : ~(s.exclude /\ e.unreliable)})
        selected == Ordered({e : e \in Range(ApplySampling(s, qualifying))})
        measured == [h \in s.horizons |-> Measure(s, prices, selected, h)]
        unanchored == Len(SelectSeq(selected, LAMBDA e : ~Anchored(prices, e)))
    IN  [study |-> s, prices |-> prices, detected |-> inPeriod, qualifying |-> qualifying,
         selected |-> selected,
         excludedQuality |-> Cardinality({e \in inPeriod : e.unreliable}), unanchored |-> unanchored, measured |-> measured,
         status |-> CASE inPeriod = {} -> "no_events"
                      [] inPeriod # {} /\ Len(selected) < Max({1, s.minimum}) -> "insufficient_sample"
                      [] OTHER -> "ok",
         horizons |-> IF Len(selected) < Max({1, s.minimum}) THEN <<>>
                      ELSE [h \in s.horizons |->
                              [distribution |-> Describe(measured[h].returns, <<1, 10>>),
                               excursion |-> Excursion(measured[h].path)]]]

ResearchInit == recorded = {} /\ finding = NoFinding

Record(row) ==
    /\ finding = NoFinding
    /\ Cardinality(recorded) < MaxRows
    /\ recorded' = recorded \cup {row}
    /\ UNCHANGED finding

RunStudy(s, prices) ==
    /\ recorded # {}
    /\ finding' = Report(s, recorded, prices)
    /\ UNCHANGED recorded

ResearchNext ==
    \/ \E row \in Rows \ recorded : Record(row)
    \/ finding = NoFinding /\ \E s \in Studies, prices \in PriceSeries : RunStudy(s, prices)

ResearchSpec == ResearchInit /\ [][ResearchNext]_researchVars
-----------------------------------------------------------------------------
ToDate(K, at) == {r \in BuildDataset(recorded, K) : r.available <= at}

(* What a study finds by an instant rests on what was available by then,   *)
(* within its knowledge horizon, and is what it would have found had       *)
(* nothing been recorded since (PointInTimeAccessor, build_dataset and     *)
(* detect_over).                                                           *)
LooksBackOnly ==
    LET s == finding.study
        inPeriod(events) == {e \in events : e.market \in s.from .. s.to}
    IN  /\ \A e \in finding.detected : \E r \in ToDate(s.K, e.detected) :
              r.ref = e.evidence /\ r.value = e.trigger /\ r.observed <= e.available /\ e.available <= e.detected
        /\ \A at \in DefaultInstants(recorded) :
              {e \in finding.detected : e.detected <= at}
                  = inPeriod(DetectOver(s, ToDate(s.K, at), DefaultInstants(ToDate(s.K, at))))

(* The clusters part the events; where the policy promises independence no *)
(* two sampled events share a window as long as the separation; what was   *)
(* dropped follows one that was kept, and the first of every run in time   *)
(* survives the stricter policy too (_cluster and apply_sampling).         *)
SamplesAreSpaced ==
    LET s == finding.study
        q == finding.qualifying
        kept == finding.selected
        inTime == s.method = "TIME_PROXIMITY"
        spaced == \/ s.sampling = "DECORRELATED"
                  \/ s.sampling = "FIRST_PER_CLUSTER" /\ inTime
                  \/ s.sampling = "ALL" /\ s.drop
    IN  /\ UNION Clusters(s, q) = DOMAIN q
        /\ \A a, b \in Clusters(s, q) : a = b \/ a \cap b = {}
        /\ Range(kept) \subseteq Range(q)
        /\ spaced => /\ \A n, m \in DOMAIN kept :
                            n < m => kept[m].market - kept[n].market >= s.separation
                     /\ inTime => \A cluster \in Clusters(s, q) : q[Min(cluster)] \in Range(kept)
        /\ spaced /\ s.sampling # "FIRST_PER_CLUSTER" =>
              \A e \in Range(q) \ Range(kept) : \E k \in Range(kept) :
                  k.market <= e.market /\ e.market - k.market < s.separation

(* Every sampled event is measured or counted as not, a longer horizon is  *)
(* never more often whole, and no return lies outside the excursions       *)
(* (_measure, _sample_window and excursion).                               *)
OutcomesAddUp ==
    LET s == finding.study
        m == finding.measured
        r == finding.horizons
    IN  \A h \in s.horizons :
          /\ Len(m[h].returns) + m[h].incomplete + finding.unanchored <= Len(finding.selected)
          /\ \A longer \in s.horizons : h <= longer =>
                /\ m[h].incomplete <= m[longer].incomplete
                /\ r # <<>> /\ m[h].incomplete = m[longer].incomplete =>
                      AtMost(r[h].excursion.mfe, r[longer].excursion.mfe)
          /\ r # <<>> =>
                /\ finding.status = "ok"
                /\ h % s.step = 0 =>
                      /\ \A n \in DOMAIN m[h].returns : /\ AtMost(r[h].excursion.mae, m[h].returns[n])
                                                        /\ AtMost(m[h].returns[n], r[h].excursion.mfe)
                      /\ Len(m[h].returns) + m[h].incomplete + finding.unanchored + r[h].excursion.missing
                            >= Len(finding.selected)

(* A distribution's figures agree with one another.                        *)
FiguresAgree(d) ==
    d.count > 0 =>
        /\ d.count <= 10 => AtMost(d.quantiles[5], d.mean) /\ AtMost(d.mean, d.quantiles[95])
        /\ \A p, q \in DOMAIN d.quantiles : p <= q => AtMost(d.quantiles[p], d.quantiles[q])
        /\ AtMost(d.quantiles[25], d.median) /\ AtMost(d.median, d.quantiles[50])
        /\ Seen(d.profitFactor) => (AtMost(Whole(1), d.profitFactor) <=> d.mean[1] >= 0)
        /\ Seen(d.profitFactor) <=> d.drawdown[1] < 0
        /\ AtMost(d.drawdown, d.quantiles[5])
        /\ MapThenSumSet(LAMBDA b : d.histogram[b], DOMAIN d.histogram) = d.count

(* Grouped by status or by evidence, the signals are all there, once.      *)
GroupsAddUp ==
    LET signals == {r \in recorded : r.kind = "signal"}
        valued == SelectSeq(Listed({[signal |-> r, at |-> t] : r \in signals, t \in {1, 2}}),
                            LAMBDA p : Seen(ValueAt(finding.prices, p.signal.underlying, p.at)))
        pairs == [n \in DOMAIN valued |->
                    [signal |-> valued[n].signal,
                     value |-> Ratio(ValueAt(finding.prices, valued[n].signal.underlying, valued[n].at) - 10, 10)]]
        groups == EvaluateByTransition(pairs, signals)
    IN  /\ MapThenSumSet(LAMBDA key : groups[key].count, DOMAIN groups) = Len(pairs)
        /\ \A key \in DOMAIN groups : FiguresAgree(groups[key])
        /\ \A type \in {r.version : r \in signals} :
              \A sides \in Range(AttributeEvidence(pairs, signals, type)) :
                  /\ sides.with.count + sides.without.count
                        = Len(ReturnsOf(pairs, {r \in signals : r.version = type}))
                  /\ Seen(Separation(sides)) => FiguresAgree(sides.with) /\ FiguresAgree(sides.without)

(* A study looks back only, its sample is spaced as its policy says, and   *)
(* what it reports adds up.                                                *)
StudiesAreHonest ==
    finding # NoFinding =>
        /\ LooksBackOnly
        /\ SamplesAreSpaced
        /\ OutcomesAddUp
        /\ \A h \in DOMAIN finding.horizons : FiguresAgree(finding.horizons[h].distribution)
        /\ GroupsAddUp
=============================================================================
