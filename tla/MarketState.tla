---------------------------- MODULE MarketState ----------------------------
(***************************************************************************)
(* MarketState at a market time T as known at K: the builder (marketstate/ *)
(* builder.py) with its staleness policy (staleness.py) and universe       *)
(* (universe.py), and the checkpoints kept of what it built                *)
(* (checkpoints.py), while observations arrive, late ones and corrections  *)
(* among them, and are stored after they were stamped.                     *)
(*                                                                         *)
(* A row is [instrument, kind, observed, ingested, corrects]: corrects is  *)
(* the stamp of the row of the same instant it replaces, or 0.  A state    *)
(* names the rows it shows; their values follow from them.                 *)
(***************************************************************************)
EXTENDS Integers, FiniteSets, FiniteSetsExt

CONSTANTS
    Spot, Futures,      \* instruments of the universe
    Expiries,
    Contracts,          \* expiry -> its option contracts
    LastDay,            \* expiry -> the last market time it is live
    SubscribedExpiries,
    MaxAge,             \* category -> staleness budget
    AnchorMaxAge,
    LastInstant,        \* bound: the clock
    MaxRows,            \* bound: observations, corrections and chain snapshots
    MaxCheckpoints      \* bound: identities with a checkpoint

ASSUME MarketAssumption == LastInstant \in Nat

VARIABLES
    now,
    landing,        \* rows stamped and not yet stored
    rows,           \* the observation store
    snapshots,      \* chain snapshots: [expiry, observed, ingested]
    checkpoints     \* [T, K, state, settled], one for an identity; settled is for
                    \* checking: built after K, nothing stamped by then on its way

marketVars == <<now, landing, rows, snapshots, checkpoints>>

Options == UNION {Contracts[e] : e \in Expiries}

Series == ({Spot} \X {"index"}) \cup (Futures \X {"quote"}) \cup (Options \X {"quote", "greeks"})

Instants == 1 .. LastInstant

NoRow == [observed |-> 0]

MarketInit ==
    /\ now = 1
    /\ landing = {}
    /\ rows = {}
    /\ snapshots = {}
    /\ checkpoints = {}
-----------------------------------------------------------------------------
\* Mutant: market time alone decides what a state may show.
BoundForTruth(T, K) == [observed |-> T, ingested |-> LastInstant]

(* Knowledge dominates when K is before T.                                 *)
BoundFor(T, K) ==
    IF K < T THEN [observed |-> K, ingested |-> K] ELSE [observed |-> T, ingested |-> K]

Within(r, bound) == r.observed <= bound.observed /\ r.ingested <= bound.ingested

Supersedes(r, old) ==
    /\ r.corrects = old.ingested
    /\ <<r.instrument, r.kind, r.observed>> = <<old.instrument, old.kind, old.observed>>

(* Rows replaced by a visible correction are passed over; rows of one      *)
(* instant are taken in some fixed order, here of their stamps.            *)
Latest(bound, instrument, kind) ==
    LET seen == {r \in rows : Within(r, bound) /\ r.instrument = instrument /\ r.kind = kind}
        live == {r \in seen : \A s \in seen : ~Supersedes(s, r)}
        last == {r \in live : \A s \in live : s.observed <= r.observed}
    IN  IF last = {} THEN NoRow ELSE CHOOSE r \in last : \A s \in last : s.ingested <= r.ingested

LatestAnchor(bound, e) ==
    LET seen == {s \in snapshots : s.expiry = e /\ Within(s, bound)}
        last == {s \in seen : \A t \in seen : t.observed <= s.observed}
    IN  IF seen = {} THEN NoRow ELSE CHOOSE s \in last : \A t \in last : t.ingested <= s.ingested

LiveExpiries(T) == {e \in Expiries : T <= LastDay[e]}

LiveContracts(T) == UNION {Contracts[e] : e \in LiveExpiries(T)}

IsStale(category, T, row) == row # NoRow /\ T - row.observed > MaxAge[category]

(* The open interest of a quote has a budget of its own.                   *)
Breached(T, show) ==
    {category \in {"spot", "futures", "option_quote", "option_oi", "greeks"} :
        \E series \in DOMAIN show :
            CASE category = "spot" -> series[2] = "index"
                                      /\ (show[series] = NoRow \/ IsStale("spot", T, show[series]))
              [] category = "futures" -> series[1] \in Futures /\ IsStale("futures", T, show[series])
              [] category = "greeks" -> series[2] = "greeks" /\ IsStale("greeks", T, show[series])
              [] OTHER -> /\ series[1] \in Options /\ series[2] = "quote"
                          /\ IsStale(category, T, show[series])}

HasData(show, c) == show[<<c, "quote">>] # NoRow \/ show[<<c, "greeks">>] # NoRow

(* The escalation table: coverage below 80 and below 98 per cent.          *)
Escalate(breached, present, expected, missingExpiry) ==
    IF "spot" \in breached \/ 100 * present < 80 * expected \/ missingExpiry THEN "unreliable"
    ELSE IF breached # {} \/ 100 * present < 98 * expected THEN "degraded"
    ELSE "ok"

(* The age of the newest anchor, once every expiry has one.                *)
CoherenceMode(T, anchors) ==
    LET observed == {anchors[e].observed : e \in DOMAIN anchors}
    IN  IF observed = {} \/ 0 \in observed THEN "STREAM_ONLY"
        ELSE IF T - Max(observed) > AnchorMaxAge THEN "SNAPSHOT_STALE"
        ELSE "SNAPSHOT_ANCHORED"

Merged(show, anchors) ==
    {c \in UNION {Contracts[e] : e \in DOMAIN anchors} :
        \E e \in DOMAIN anchors : /\ c \in Contracts[e] /\ anchors[e] # NoRow
                                  /\ show[<<c, "quote">>].observed > anchors[e].observed}

(* An expired expiry is no part of the universe, yet still subscribed.     *)
Build(T, K) ==
    LET bound == BoundFor(T, K)
        universe == {s \in Series : s[1] \in Options => s[1] \in LiveContracts(T)}
        show == [s \in universe |-> Latest(bound, s[1], s[2])]
        anchors == [e \in LiveExpiries(T) |-> LatestAnchor(bound, e)]
        present == {c \in LiveContracts(T) : HasData(show, c)}
        missing == {e \in SubscribedExpiries : e \notin LiveExpiries(T) \/ Contracts[e] \cap present = {}}
    IN  [show |-> show,
         mode |-> CoherenceMode(T, anchors),
         merged |-> Cardinality(Merged(show, anchors)),
         status |-> Escalate(Breached(T, show), Cardinality(present),
                             Cardinality(LiveContracts(T)), missing # {}),
         issues |-> Breached(T, show)]
-----------------------------------------------------------------------------
Recorded == Cardinality(rows \cup landing) + Cardinality(snapshots)

(* A row is stamped when it is normalized, and may be of a clock ahead of  *)
(* ours.                                                                   *)
Observe(series, observed) ==
    /\ Recorded < MaxRows
    /\ observed <= now + 1
    /\ landing' = landing \cup {[instrument |-> series[1], kind |-> series[2], observed |-> observed,
                                 ingested |-> now, corrects |-> 0]}
    /\ UNCHANGED <<now, rows, snapshots, checkpoints>>

Correct(r) ==
    /\ Recorded < MaxRows
    /\ r.ingested < now
    /\ landing' = landing \cup {[r EXCEPT !.ingested = now, !.corrects = r.ingested]}
    /\ UNCHANGED <<now, rows, snapshots, checkpoints>>

Land(r) ==
    /\ rows' = rows \cup {r}
    /\ landing' = landing \ {r}
    /\ UNCHANGED <<now, snapshots, checkpoints>>

Snapshot(e) ==
    /\ Recorded < MaxRows
    /\ snapshots' = snapshots \cup {[expiry |-> e, observed |-> now, ingested |-> now]}
    /\ UNCHANGED <<now, landing, rows, checkpoints>>

ClockMoves ==
    /\ now < LastInstant
    /\ now' = now + 1
    /\ UNCHANGED <<landing, rows, snapshots, checkpoints>>

CheckpointOf(T, K) == {c \in checkpoints : <<c.T, c.K>> = <<T, K>>}

Put(T, K) ==
    checkpoints' = (checkpoints \ CheckpointOf(T, K))
                       \cup {[T |-> T, K |-> K, state |-> Build(T, K),
                              settled |-> now > K /\ \A r \in landing : r.ingested > K]}

(* Built and kept, unless what is kept of this identity is the same.       *)
Checkpoint(T, K) ==
    /\ CheckpointOf(T, K) # {} \/ Cardinality(checkpoints) < MaxCheckpoints
    /\ IF \E c \in CheckpointOf(T, K) : c.state = Build(T, K)
       THEN UNCHANGED checkpoints
       ELSE Put(T, K)
    /\ UNCHANGED <<now, landing, rows, snapshots>>

(* The checkpoint of exactly this identity, or built; kept where           *)
(* reconstructions are cached.                                             *)
GetState(T, K) ==
    /\ CheckpointOf(T, K) = {}
    /\ Cardinality(checkpoints) < MaxCheckpoints
    /\ Put(T, K)
    /\ UNCHANGED <<now, landing, rows, snapshots>>

MarketNext ==
    \/ \E s \in Series, t \in Instants : Observe(s, t)
    \/ \E r \in rows : Correct(r)
    \/ \E r \in landing : Land(r)
    \/ \E e \in Expiries : Snapshot(e)
    \/ ClockMoves
    \/ \E T, K \in Instants : K <= now /\ (Checkpoint(T, K) \/ GetState(T, K))

MarketSpec == MarketInit /\ [][MarketNext]_marketVars
-----------------------------------------------------------------------------
(* "Deleting every checkpoint loses no history": a state kept of an        *)
(* identity is what the builder gives for it ever after, whatever arrives  *)
(* late or is corrected, if it was kept after K and nothing stamped by     *)
(* then was still on its way.                                              *)
CheckpointsAreReproducible ==
    \A c \in checkpoints : c.settled => c.state = Build(c.T, c.K)
=============================================================================
