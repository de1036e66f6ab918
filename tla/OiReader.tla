------------------------------ MODULE OiReader ------------------------------
(***************************************************************************)
(* What the legacy API answers from the collector's tables (backend/app/   *)
(* api/routes/oi.py), with the aggregation by timeframe it uses            *)
(* (timeframe_service.py).  Limits, serialisation and the filter by day    *)
(* are left out.                                                           *)
(***************************************************************************)
EXTENDS SnapshotCollector, SequencesExt

CONSTANTS
    UtcOffset,      \* minutes the session's clock is ahead of UTC
    Timeframes      \* minutes a reader may ask for

(* The session's clock is UTC+5:30 (market_session.IST); strikes, prices   *)
(* and open interest are numbers, each of a leg's figures there or None.   *)
ASSUME ReaderAssumption ==
    /\ UtcOffset \in Int /\ UtcOffset % 30 = 0
    /\ Timeframes \subseteq Nat \ {0}
    /\ None \notin Int
    /\ \A c \in Chains :
          /\ c.spot \in Int \cup {None}
          /\ DOMAIN c.rows \subseteq Int /\ IsFiniteSet(DOMAIN c.rows)
          /\ \A s \in DOMAIN c.rows : \A side \in OptionSides : c.rows[s][side] # None =>
                {c.rows[s][side].oi, c.rows[s][side].ltp} \subseteq Int \cup {None}

(* timeframe_service.bucket_start floors in UTC; the collector in IST.     *)
BucketStart(m, frame) == ((m - UtcOffset) \div frame) * frame + UtcOffset

(* The places at which a field has a value, in a bucket's points by place. *)
Given(points, field) == {i \in DOMAIN points : points[i][field] # None}

FirstGiven(points, field) ==
    IF Given(points, field) = {} THEN None ELSE points[Min(Given(points, field))][field]

LastGiven(points, field) ==
    IF Given(points, field) = {} THEN None ELSE points[Max(Given(points, field))][field]

Values(points, field) == {points[i][field] : i \in Given(points, field)}

Highest(points, field) == IF Values(points, field) = {} THEN None ELSE Max(Values(points, field))
Lowest(points, field)  == IF Values(points, field) = {} THEN None ELSE Min(Values(points, field))

\* Mutant: an open is carried from the newest point.
AggregateFromLast(points, frame) ==
    [start |-> BucketStart(points[Min(DOMAIN points)].ts, frame), openOi |-> LastGiven(points, "oi"),
     closeOi |-> FirstGiven(points, "oi"), high |-> Highest(points, "oi"),
     low |-> Lowest(points, "oi"), openLtp |-> LastGiven(points, "ltp"),
     closeLtp |-> FirstGiven(points, "ltp"),
     oiChange |-> LtpChange(FirstGiven(points, "oi"), LastGiven(points, "oi")),
     ltpChange |-> LtpChange(FirstGiven(points, "ltp"), LastGiven(points, "ltp")),
     points |-> Cardinality(DOMAIN points)]

(* Points of one bucket, by their places in time order.                    *)
AggregatePoints(points, frame) ==
    [start |-> BucketStart(points[Min(DOMAIN points)].ts, frame), openOi |-> FirstGiven(points, "oi"),
     closeOi |-> LastGiven(points, "oi"), high |-> Highest(points, "oi"),
     low |-> Lowest(points, "oi"), openLtp |-> FirstGiven(points, "ltp"),
     closeLtp |-> LastGiven(points, "ltp"),
     oiChange |-> LtpChange(LastGiven(points, "oi"), FirstGiven(points, "oi")),
     ltpChange |-> LtpChange(LastGiven(points, "ltp"), FirstGiven(points, "ltp")),
     points |-> Cardinality(DOMAIN points)]
-----------------------------------------------------------------------------
Rank(S, x) == Cardinality({y \in S : y < x})

InOrder(S) == [i \in 1 .. Cardinality(S) |-> CHOOSE x \in S : Rank(S, x) = i - 1]

(* A user's snapshots, oldest first.                                       *)
Rows(u) ==
    LET order == InOrder({k[2] : k \in {k \in DOMAIN snapshots : k[1] = u}})
    IN  [i \in DOMAIN order |-> Upserted([ts |-> order[i]], snapshots[<<u, order[i]>>])]

LatestSnapshot(u) == IF Rows(u) = <<>> THEN None ELSE Last(Rows(u))

(* A change is shown when both totals are there, and neither is zero.      *)
ShownChange(new, old) == IF new = 0 \/ old = 0 THEN None ELSE new - old

TrendingOi(u) ==
    LET rows == Rows(u)
    IN  [i \in DOMAIN rows |->
            [ts |-> rows[i].ts, call |-> rows[i].call, put |-> rows[i].put,
             callChange |-> IF i = 1 THEN None ELSE ShownChange(rows[i].call, rows[i - 1].call),
             putChange |-> IF i = 1 THEN None ELSE ShownChange(rows[i].put, rows[i - 1].put)]]

Distance(a, b) == IF a < b THEN b - a ELSE a - b

NearestStrikes(strikes, spot) ==
    {s \in strikes : \A x \in strikes : Distance(s, spot) <= Distance(x, spot)}

(* N strikes to each side of the money, the lower of two as near to the    *)
(* spot; all of them for none, or without a spot price.                    *)
StrikeOi(row, range) ==
    LET strikes == DOMAIN row.strikes
    IN  IF range = 0 \/ row.spot \in {None, 0} \/ strikes = {} THEN strikes
        ELSE {s \in strikes : Distance(Rank(strikes, s), Rank(strikes, Min(NearestStrikes(strikes, row.spot)))) <= range}

(* The fallback to the previous close is for a bucket with no change of    *)
(* its own, which a bucket with a closing figure always has.               *)
OiHistoryBars(u, frame) ==
    LET rows   == Rows(u)
        starts == {BucketStart(rows[i].ts, frame) : i \in DOMAIN rows}
        within(b) == {i \in DOMAIN rows : BucketStart(rows[i].ts, frame) = b}
        point(r) == [ts |-> r.ts, ltp |-> r.spot, oi |-> r.call + r.put]
        bar(b) ==
            LET agg     == AggregatePoints([i \in within(b) |-> point(rows[i])], frame)
                last    == Max(within(b))
                earlier == within(b) \ {last}
                change(field) == IF earlier = {} THEN None
                                 ELSE rows[last][field] - rows[Max(earlier)][field]
            IN  Upserted(agg, [call |-> rows[last].call, put |-> rows[last].put,
                               callChange |-> change("call"), putChange |-> change("put"),
                               interpretation |-> ClassifyOiInterpretation(agg.ltpChange, agg.oiChange),
                               pcr |-> SafePcr(rows[last].put, rows[last].call),
                               changePcr |-> SafePcr(change("put"), change("call"))])
    IN  [b \in starts |-> bar(b)]

\* Mutant: the summary adds the bars of every bucket.
SummaryOfAll(b) ==
    LET sum(side, field) == TotalOf([k \in {k \in DOMAIN bars : k[2] = side} |-> OrZero(bars[k][field])])
    IN  [call |-> sum("CE", "close"), put |-> sum("PE", "close"),
         callChange |-> sum("CE", "change"), putChange |-> sum("PE", "change")]

(* Bars of one bucket, whoever collected them.                             *)
OptionsOiSummary(b) ==
    LET sum(side, field) == TotalOf([k \in {k \in DOMAIN bars : k[2] = side /\ k[3] = b} |->
                                        OrZero(bars[k][field])])
    IN  [call |-> sum("CE", "close"), put |-> sum("PE", "close"),
         callChange |-> sum("CE", "change"), putChange |-> sum("PE", "change")]
-----------------------------------------------------------------------------
(* The two floors agree at the timeframes the collector can store; at an   *)
(* hour they would not (docs/TECHNICAL_DEBT.md D-06).                      *)
GridsAgree ==
    \A frame \in {1, 5, 15, 30} : \A m \in 0 .. 1439 :
        BucketStart(m, frame) = (m \div frame) * frame

Inside(low, n, high) == n # None => low <= n /\ n <= high

(* The bars of a history split its snapshots by time: each snapshot is in  *)
(* one bar, what a bar closes at is what its last snapshot totals, its     *)
(* opening and its close lie within its range, and the changes inside the  *)
(* bars and between them add up to the change over the whole history.      *)
HistoryAddsUp ==
    \A u \in Users : \A rows \in {Rows(u)}, frame \in Timeframes :
        \A hist \in {OiHistoryBars(u, frame)} :
            /\ TotalOf([b \in DOMAIN hist |-> hist[b].points]) = Len(rows)
            /\ \A b \in DOMAIN hist :
                  LET bar == hist[b]
                  IN  /\ bar.start = b
                      /\ Inside(bar.low, bar.openOi, bar.high)
                      /\ Inside(bar.low, bar.closeOi, bar.high)
                      /\ bar.closeOi = bar.call + bar.put
                      /\ bar.callChange # None /\ bar.putChange # None /\ bar.points = 2
                            => bar.oiChange = bar.callChange + bar.putChange
            /\ rows # <<>> =>
                  /\ hist[Min(DOMAIN hist)].openOi = rows[1].call + rows[1].put
                  /\ hist[Max(DOMAIN hist)].closeOi = Last(rows).call + Last(rows).put

(* A bar stays when its strike is listed no more, and is in the summary    *)
(* all the same.                                                           *)
ListsEveryLeg(b) ==
    LET listings == {events[i].rows : i \in {n \in DOMAIN events : events[n].bucket = b}}
    IN  \A rows, others \in listings :
          /\ DOMAIN others = DOMAIN rows
          /\ \A s \in DOMAIN rows : \A side \in OptionSides : rows[s][side] # None

(* Two ways to the same figures: a bucket's summary, from the bars all     *)
(* users share, is the announcement and the snapshot of one user who       *)
(* collected it, when its chains all listed every leg.                     *)
SummaryIsSomeones ==
    \A b \in {k[3] : k \in DOMAIN bars} : ListsEveryLeg(b) =>
        \E key \in {k \in DOMAIN snapshots : k[2] = b} :
            LET told == outbox[Max(AnnouncementsOf(key))].figures
                sum  == OptionsOiSummary(b)
            IN  /\ sum.call = snapshots[key].call /\ sum.put = snapshots[key].put
                /\ sum.callChange + sum.putChange = told.net

(* A wider window holds every narrower one and no gap; one strike to each  *)
(* side is enough for any strike that is nearest to the spot.              *)
WindowsNest ==
    \A u \in Users : \A row \in {LatestSnapshot(u)} \ {None} :
        \A n \in 1 .. 2 : \A window \in {StrikeOi(row, n)} :
            /\ window \subseteq StrikeOi(row, n + 1)
            /\ row.spot # None => NearestStrikes(DOMAIN row.strikes, row.spot) \subseteq window
            /\ \A s \in DOMAIN row.strikes \ window :
                  Cardinality(window) > n /\ ~\E low, high \in window : low < s /\ s < high

(* A change the trend shows is the one between the totals of two snapshots *)
(* next to each other; a total that is zero has none on either side.       *)
TrendFollowsTotals ==
    \A u \in Users : \A rows \in {TrendingOi(u)} : \A i \in DOMAIN rows :
        rows[i].callChange # None =>
            i > 1 /\ rows[i].call = rows[i - 1].call + rows[i].callChange

ReadersAgree ==
    GridsAgree /\ HistoryAddsUp /\ SummaryIsSomeones /\ WindowsNest /\ TrendFollowsTotals
=============================================================================
