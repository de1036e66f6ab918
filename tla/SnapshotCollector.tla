-------------------------- MODULE SnapshotCollector --------------------------
(***************************************************************************)
(* The legacy collector (backend/): the worker's scheduler, the collection *)
(* runs it creates, the snapshot each run writes in one transaction with   *)
(* an outbox row, and the poller that publishes the outbox to Redis.  Runs *)
(* of one worker overlap: a step ends where the code awaits, and a crash   *)
(* loses every run, leaving committed rows and the locks' keys behind.     *)
(*                                                                         *)
(* One underlying, one expiry and one interval; a commit is one step, for  *)
(* the upsert of a snapshot row holds its row lock until the commit.       *)
(***************************************************************************)
EXTENDS Fractions, Sequences, FiniteSets, FiniteSetsExt

CONSTANTS
    Users,
    Started,        \* users who have started collecting at first
    Chains,         \* answers of the provider: [spot, rows], rows[strike][side] a leg or None
    None,
    Interval,       \* interval_min, one that _interval_to_timeframe knows
    Opens, Closes,  \* minutes of the market session
    MaxRetries,     \* publications after which an event is given up
    MaxTasks,       \* bound: runs at a time
    MaxRuns,        \* bound: runs in all
    MaxMinute,      \* bound: the clock
    MaxTrouble      \* bound: stops, crashes and failures

ASSUME CollectorAssumption ==
    /\ Started \subseteq Users
    /\ Interval \in Nat \ {0}
    /\ MaxRetries \in Nat \ {0}
    /\ \A c \in Chains : \A s \in DOMAIN c.rows : DOMAIN c.rows[s] = {"CE", "PE"}

VARIABLES
    minute,     \* wall clock
    worker,     \* "up" or "down"
    catching,   \* runs the start-up catch-up has still to make, by user
    jobs,       \* collector_jobs: user -> [running, ran, status]
    tasks,      \* runs in flight: number -> record
    locks,      \* Redis: <<user, bucket>> -> minute its key expires
    snapshots,  \* oi_snapshots with their strikes: <<user, bucket>> -> row
    bars,       \* oi_time_bars: <<strike, side, bucket>> -> row, of every user
    events,     \* market_data_events, a chain at a time
    outbox,     \* outbox_events
    flush,      \* the poller's open transaction: [todo, sent, refused], or None
    published,  \* for checking: outbox rows that reached the channel
    runs, trouble   \* counted for the bounds

collectorVars == <<minute, worker, catching, jobs, tasks, locks, snapshots, bars,
                   events, outbox, flush, published, runs, trouble>>

tableVars == <<snapshots, bars, events>>

OptionSides == {"CE", "PE"}

(* An upsert: what is new takes the place of what was there.               *)
Upserted(new, old) ==
    [x \in DOMAIN new \cup DOMAIN old |-> IF x \in DOMAIN new THEN new[x] ELSE old[x]]

Free == [at |-> "free"]

(* Some users have started collecting; the worker has yet to come up.      *)
CollectorInit ==
    /\ minute = 0
    /\ worker = "down"
    /\ catching = <<>>
    /\ jobs = [u \in Users |-> [running |-> u \in Started, ran |-> None, status |-> None]]
    /\ tasks = [t \in 1 .. MaxTasks |-> Free]
    /\ locks = <<>>
    /\ snapshots = <<>>
    /\ bars = <<>>
    /\ events = <<>>
    /\ outbox = <<>>
    /\ flush = None
    /\ published = {}
    /\ runs = 0
    /\ trouble = 0

Trouble == trouble < MaxTrouble /\ trouble' = trouble + 1
-----------------------------------------------------------------------------
(* market_session.py: buckets are floored from midnight, not from the      *)
(* opening, so the first one of a session may lie before it.               *)
Bucket(m) == (m \div Interval) * Interval

IsMarketOpen(m) == Opens <= m /\ m <= Closes

MissedBuckets(last, now) ==
    IF last = None THEN {}
    ELSE {b \in {Bucket(m) : m \in 0 .. now} :
             Bucket(last) < b /\ b < Bucket(now) /\ IsMarketOpen(b)}

FreeTasks == {t \in DOMAIN tasks : tasks[t].at = "free"}

(* run_snapshot_job takes its bucket as it begins, which it does as soon as *)
(* it is created; with the market closed it does nothing, not even report. *)
Run(u, now, catchUp) ==
    IF IsMarketOpen(now)
    THEN [at |-> "fetching", user |-> u, bucket |-> Bucket(now), catchUp |-> catchUp]
    ELSE Free

Due(u, now) ==
    /\ jobs[u].running
    /\ jobs[u].ran # None => Bucket(jobs[u].ran) # Bucket(now)

(* _dispatch_active_jobs: every minute a run is created for each job whose *)
(* last run ended in another bucket, running or not.                       *)
Dispatch(now) ==
    LET due   == {u \in Users : Due(u, now) /\ IsMarketOpen(now)}
        slots == CHOOSE f \in [due -> FreeTasks] : \A u, v \in due : u # v => f[u] # f[v]
    IN  /\ Cardinality(due) <= Cardinality(FreeTasks)
        /\ runs + Cardinality(due) <= MaxRuns
        /\ runs' = runs + Cardinality(due)
        /\ tasks' = [t \in DOMAIN tasks |->
                        IF \E u \in due : slots[u] = t
                        THEN Run(CHOOSE u \in due : slots[u] = t, now, FALSE) ELSE tasks[t]]

Minute ==
    /\ minute < MaxMinute
    /\ minute' = minute + 1
    /\ IF worker = "up" THEN Dispatch(minute + 1) ELSE UNCHANGED <<tasks, runs>>
    /\ UNCHANGED <<worker, catching, jobs, locks, tableVars, outbox, flush, published, trouble>>

(* Starting one that runs changes nothing, and is no step.                 *)
StartCollector(u) ==
    /\ ~jobs[u].running
    /\ jobs' = [jobs EXCEPT ![u].running = TRUE]
    /\ UNCHANGED <<minute, worker, catching, tasks, locks, tableVars, outbox, flush, published, runs, trouble>>

StopCollector(u) ==
    /\ jobs[u].running
    /\ Trouble
    /\ jobs' = [jobs EXCEPT ![u].running = FALSE]
    /\ UNCHANGED <<minute, worker, catching, tasks, locks, tableVars, outbox, flush, published, runs>>

Repeated(u, n) == [i \in 1 .. n |-> u]

(* The worker starts: one run for each of the last three buckets a job     *)
(* missed, one after the other (_run_catch_up).                            *)
StartWorker ==
    LET owed(u) == IF jobs[u].running /\ IsMarketOpen(minute)
                   THEN Repeated(u, Min({3, Cardinality(MissedBuckets(jobs[u].ran, minute))}))
                   ELSE <<>>
    IN  /\ worker = "down"
        /\ worker' = "up"
        /\ catching' = FoldSet(LAMBDA u, owing : owing \o owed(u), <<>>, Users)
        /\ UNCHANGED <<minute, jobs, tasks, locks, tableVars, outbox, flush, published, runs, trouble>>

CatchUp ==
    /\ catching # <<>>
    /\ \A t \in DOMAIN tasks \ FreeTasks : ~tasks[t].catchUp
    /\ FreeTasks # {}
    /\ runs < MaxRuns
    /\ runs' = runs + 1
    /\ tasks' = [tasks EXCEPT ![Min(FreeTasks)] = Run(Head(catching), minute, TRUE)]
    /\ catching' = Tail(catching)
    /\ UNCHANGED <<minute, worker, jobs, locks, tableVars, outbox, flush, published, trouble>>

Crash ==
    /\ worker = "up"
    /\ Trouble
    /\ worker' = "down"
    /\ catching' = <<>>
    /\ tasks' = [t \in DOMAIN tasks |-> Free]
    /\ flush' = None
    /\ UNCHANGED <<minute, jobs, locks, tableVars, outbox, published, runs>>
-----------------------------------------------------------------------------
OrZero(n) == IF n = None THEN 0 ELSE n

OiOf(leg) == IF leg = None THEN None ELSE leg.oi
LtpOf(leg) == IF leg = None THEN None ELSE leg.ltp

LtpChange(new, old) == IF None \in {new, old} THEN None ELSE new - old

ClassifyOiInterpretation(ltpChange, oiChange) ==
    CASE None \in {ltpChange, oiChange}   -> "NO_SIGNIFICANT_CHANGE"
      [] ltpChange > 0 /\ oiChange > 0    -> "LONG_BUILDUP"
      [] ltpChange < 0 /\ oiChange > 0    -> "SHORT_BUILDUP"
      [] ltpChange > 0 /\ oiChange < 0    -> "SHORT_COVERING"
      [] ltpChange < 0 /\ oiChange < 0    -> "LONG_UNWINDING"
      [] OTHER                            -> "NO_SIGNIFICANT_CHANGE"

(* A fraction of puts to calls; not rounded.                               *)
SafePcr(put, call) == IF None \in {put, call} \/ call = 0 THEN None ELSE <<put, call>>

PriorKeys(u, b) == {k \in DOMAIN snapshots : k[1] = u /\ k[2] < b}

(* The strikes of the newest snapshot before the bucket that is committed. *)
PriorStrikes(u, b) ==
    IF PriorKeys(u, b) = {} THEN <<>>
    ELSE snapshots[CHOOSE k \in PriorKeys(u, b) : \A j \in PriorKeys(u, b) : j[2] <= k[2]].strikes

PriorLeg(prior, s, side) == IF s \in DOMAIN prior THEN prior[s][side] ELSE [oi |-> None, ltp |-> None]

(* StrikeInput of each row of the chain, with the changes of               *)
(* compute_snapshot_analytics: what is missing counts as nothing.          *)
StrikeRows(chain, prior) ==
    [s \in DOMAIN chain.rows |->
        [side \in OptionSides |->
            LET leg == chain.rows[s][side]
                old == PriorLeg(prior, s, side)
            IN  [oi |-> OiOf(leg), ltp |-> LtpOf(leg), prev |-> old.oi,
                 change |-> OrZero(OiOf(leg)) - OrZero(old.oi)]]]

SideTotal(rows, side, field) == TotalOf([s \in DOMAIN rows |-> OrZero(rows[s][side][field])])

ComputeSnapshotAnalytics(rows) ==
    LET call == SideTotal(rows, "CE", "oi")
        put  == SideTotal(rows, "PE", "oi")
    IN  [call |-> call, put |-> put, pcr |-> SafePcr(put, call),
         net |-> SideTotal(rows, "CE", "change") + SideTotal(rows, "PE", "change")]

(* The upsert of the strikes: a row that is there keeps its previous open  *)
(* interest, and rows the chain does not list stay.                        *)
UpsertedStrikes(old, fresh) ==
    [s \in DOMAIN old \cup DOMAIN fresh |->
        IF s \notin DOMAIN fresh THEN old[s]
        ELSE [side \in OptionSides |->
                IF s \in DOMAIN old THEN [fresh[s][side] EXCEPT !.prev = old[s][side].prev]
                ELSE fresh[s][side]]]

\* Mutant: an event's bar keeps the row of the bucket's first collection.
FirstBarStays(chain, rows, prior, b) ==
    [k \in {k \in (DOMAIN rows) \X OptionSides \X {b} : chain.rows[k[1]][k[2]] # None} |->
        IF k \in DOMAIN bars THEN bars[k]
        ELSE [open |-> rows[k[1]][k[2]].prev, close |-> rows[k[1]][k[2]].oi,
              change |-> rows[k[1]][k[2]].change, ltpChange |-> None,
              interpretation |-> "NO_SIGNIFICANT_CHANGE"]]

BarRows(chain, rows, prior, b) ==
    [k \in {k \in (DOMAIN rows) \X OptionSides \X {b} : chain.rows[k[1]][k[2]] # None} |->
        LET r     == rows[k[1]][k[2]]
            moved == LtpChange(r.ltp, PriorLeg(prior, k[1], k[2]).ltp)
        IN  [open |-> r.prev, close |-> r.oi, change |-> r.change, ltpChange |-> moved,
             interpretation |-> ClassifyOiInterpretation(moved, r.change)]]
-----------------------------------------------------------------------------
At(t, where) == t \in DOMAIN tasks /\ tasks[t].at = where

KeyOf(t) == <<tasks[t].user, tasks[t].bucket>>

Reached(t, where) == tasks' = [tasks EXCEPT ![t] = Upserted(where, @)]

Ended(t) == tasks' = [tasks EXCEPT ![t] = Free]

Reporting(t, status) == Reached(t, [at |-> "reporting", status |-> status])

(* The account, the expiry and the chain: a run without one of them ends   *)
(* with its status; a refused token is announced afterwards.               *)
Fetch(t) ==
    /\ At(t, "fetching")
    /\ \/ \E c \in Chains : Reached(t, [at |-> "locking", chain |-> c]) /\ UNCHANGED trouble
       \/ /\ Trouble
          /\ \/ \E status \in {"failed", "skipped"} : Reporting(t, status)
             \/ Reporting(t, "unauthorised")
    /\ UNCHANGED <<minute, worker, catching, jobs, locks, tableVars, outbox, flush, published, runs>>

LockTtl == 2

Held(key) == key \in DOMAIN locks /\ locks[key] > minute

(* SET NX.  A run that finds the key held returns the snapshot that is     *)
(* there; with none there it waits a second and goes on without the lock.  *)
AcquireLock(t) ==
    /\ At(t, "locking")
    /\ IF ~Held(KeyOf(t))
       THEN locks' = Upserted([k \in {KeyOf(t)} |-> minute + LockTtl], locks) /\ Reached(t, [at |-> "reading"])
       ELSE /\ IF KeyOf(t) \in DOMAIN snapshots
               THEN Reporting(t, "success") ELSE Reached(t, [at |-> "reading"])
            /\ UNCHANGED locks
    /\ UNCHANGED <<minute, worker, catching, jobs, tableVars, outbox, flush, published, runs, trouble>>

ReadPrior(t) ==
    /\ At(t, "reading")
    /\ Reached(t, [at |-> "writing", prior |-> PriorStrikes(tasks[t].user, tasks[t].bucket)])
    /\ UNCHANGED <<minute, worker, catching, jobs, locks, tableVars, outbox, flush, published, runs, trouble>>

Announced(u, kind, key, figures) ==
    [user |-> u, kind |-> kind, key |-> key, figures |-> figures, status |-> "pending", retries |-> 0]

(* The transaction: snapshot and strikes upserted, the chain's events      *)
(* inserted again whenever it is repeated, the bars upserted whoever wrote *)
(* them, and the outbox row.                                               *)
WriteSnapshot(t) ==
    LET key     == KeyOf(t)
        chain   == tasks[t].chain
        rows    == StrikeRows(chain, tasks[t].prior)
        figures == ComputeSnapshotAnalytics(rows)
        old     == IF key \in DOMAIN snapshots THEN snapshots[key].strikes ELSE <<>>
        row     == [spot |-> chain.spot, call |-> figures.call, put |-> figures.put,
                    pcr |-> figures.pcr, strikes |-> UpsertedStrikes(old, rows)]
    IN  /\ snapshots' = Upserted([k \in {key} |-> row], snapshots)
        /\ events' = Append(events, [bucket |-> key[2], rows |-> chain.rows])
        /\ bars' = Upserted(BarRows(chain, rows, tasks[t].prior, key[2]), bars)
        /\ outbox' = Append(outbox, Announced(key[1], "snapshot_created", key, figures))

SaveSnapshot(t) ==
    /\ At(t, "writing")
    /\ WriteSnapshot(t)
    /\ Reached(t, [at |-> "releasing"])
    /\ UNCHANGED <<minute, worker, catching, jobs, locks, flush, published, runs, trouble>>

Unlocked(key) == locks' = [k \in DOMAIN locks \ {key} |-> locks[k]]

(* The key is deleted whoever set it.  With Redis failing here the run is  *)
(* reported failed though its snapshot is committed.                       *)
ReleaseLock(t) ==
    /\ At(t, "releasing")
    /\ \/ Unlocked(KeyOf(t)) /\ Reporting(t, "success") /\ UNCHANGED trouble
       \/ Trouble /\ Reporting(t, "failed") /\ UNCHANGED locks
    /\ UNCHANGED <<minute, worker, catching, jobs, tableVars, outbox, flush, published, runs>>

(* The database refuses a statement: the session can take no status, and   *)
(* the run ends without one.                                               *)
StatementFails(t) ==
    /\ At(t, "locking") \/ At(t, "reading") \/ At(t, "writing")
    /\ Trouble
    /\ IF At(t, "locking") THEN UNCHANGED locks ELSE Unlocked(KeyOf(t))
    /\ Ended(t)
    /\ UNCHANGED <<minute, worker, catching, jobs, tableVars, outbox, flush, published, runs>>

(* _update_job_status                                                      *)
UpdateJobStatus(t) ==
    LET status == tasks[t].status
        u      == tasks[t].user
    IN  /\ At(t, "reporting")
        /\ jobs' = [jobs EXCEPT ![u].ran = minute,
                                ![u].status = IF status = "unauthorised" THEN "failed" ELSE status]
        /\ IF status = "unauthorised" THEN Reached(t, [at |-> "announcing"]) ELSE Ended(t)
        /\ UNCHANGED <<minute, worker, catching, locks, tableVars, outbox, flush, published, runs, trouble>>

AnnounceAuthRequired(t) ==
    /\ At(t, "announcing")
    /\ outbox' = Append(outbox, Announced(tasks[t].user, "auth_required", KeyOf(t), None))
    /\ Ended(t)
    /\ UNCHANGED <<minute, worker, catching, jobs, locks, tableVars, flush, published, runs, trouble>>

RunStep(t) ==
    \/ Fetch(t) \/ AcquireLock(t) \/ ReadPrior(t) \/ SaveSnapshot(t)
    \/ ReleaseLock(t) \/ StatementFails(t) \/ UpdateJobStatus(t) \/ AnnounceAuthRequired(t)
-----------------------------------------------------------------------------
Pending == {e \in DOMAIN outbox : outbox[e].status = "pending"}

(* flush_outbox: the pending rows, oldest first, under one transaction.    *)
OpenFlush ==
    /\ worker = "up"
    /\ flush = None
    /\ Pending # {}
    /\ flush' = [todo |-> Pending, sent |-> {}, refused |-> {}]
    /\ UNCHANGED <<minute, worker, catching, jobs, tasks, locks, tableVars, outbox, published, runs, trouble>>

PublishNext ==
    LET e == Min(flush.todo)
    IN  /\ flush # None
        /\ flush.todo # {}
        /\ \/ /\ published' = published \cup {e}
              /\ flush' = [flush EXCEPT !.todo = @ \ {e}, !.sent = @ \cup {e}]
              /\ UNCHANGED trouble
           \/ /\ Trouble
              /\ flush' = [flush EXCEPT !.todo = @ \ {e}, !.refused = @ \cup {e}]
              /\ UNCHANGED published
        /\ UNCHANGED <<minute, worker, catching, jobs, tasks, locks, tableVars, outbox, runs>>

\* Mutant: a refused row is marked with the ones that were sent.
SettledAsSent(e, row) ==
    IF e \in flush.sent \cup flush.refused THEN [row EXCEPT !.status = "published"] ELSE row

Settled(e, row) ==
    CASE e \in flush.sent    -> [row EXCEPT !.status = "published"]
      [] e \in flush.refused -> [row EXCEPT !.retries = @ + 1,
                                            !.status = IF row.retries + 1 >= MaxRetries
                                                       THEN "failed" ELSE "pending"]
      [] OTHER               -> row

\* Mutant: the flush ends without marking what it published.
CommitNothing ==
    /\ flush # None
    /\ flush.todo = {}
    /\ flush' = None
    /\ UNCHANGED <<minute, worker, catching, jobs, tasks, locks, tableVars, outbox, published, runs, trouble>>

CommitFlush ==
    /\ flush # None
    /\ flush.todo = {}
    /\ outbox' = [e \in DOMAIN outbox |-> Settled(e, outbox[e])]
    /\ flush' = None
    /\ UNCHANGED <<minute, worker, catching, jobs, tasks, locks, tableVars, published, runs, trouble>>

(* The commit fails: nothing is marked, and all of it is published again.  *)
FlushFails ==
    /\ flush # None
    /\ Trouble
    /\ flush' = None
    /\ UNCHANGED <<minute, worker, catching, jobs, tasks, locks, tableVars, outbox, published, runs>>

CollectorNext ==
    \/ Minute \/ StartWorker \/ CatchUp \/ Crash
    \/ \E u \in Users : StartCollector(u) \/ StopCollector(u)
    \/ \E t \in 1 .. MaxTasks : RunStep(t)
    \/ OpenFlush \/ PublishNext \/ CommitFlush \/ FlushFails

(* The scheduler polls the outbox every two seconds.                       *)
CollectorFairness == WF_collectorVars(OpenFlush \/ PublishNext \/ CommitFlush)

CollectorSpec == CollectorInit /\ [][CollectorNext]_collectorVars /\ CollectorFairness
-----------------------------------------------------------------------------
EventsOf(k) == {i \in DOMAIN events : events[i].bucket = k[3] /\ k[1] \in DOMAIN events[i].rows
                                       /\ events[i].rows[k[1]][k[2]] # None}

AnnouncementsOf(key) == {e \in DOMAIN outbox : outbox[e].kind = "snapshot_created" /\ outbox[e].key = key}

(* An expiry lists the same strikes whenever it is asked for.              *)
SameStrikes == \A c, d \in Chains : DOMAIN c.rows = DOMAIN d.rows

(* A snapshot's totals are those of the newest announcement of its bucket, *)
(* and, unless the provider drops strikes, of its own strikes.             *)
SnapshotsAreTold ==
    \A key \in DOMAIN snapshots :
        LET row  == snapshots[key]
            told == outbox[Max(AnnouncementsOf(key))].figures
        IN  /\ AnnouncementsOf(key) # {}
            /\ row.call = told.call /\ row.put = told.put /\ row.pcr = told.pcr
            /\ SameStrikes =>
                  /\ row.call = SideTotal(row.strikes, "CE", "oi")
                  /\ row.put = SideTotal(row.strikes, "PE", "oi")
                  /\ told.net = SideTotal(row.strikes, "CE", "change")
                                 + SideTotal(row.strikes, "PE", "change")

EventsHaveBars ==
    \A i \in DOMAIN events : \A s \in DOMAIN events[i].rows : \A side \in OptionSides :
        events[i].rows[s][side] # None => <<s, side, events[i].bucket>> \in DOMAIN bars

BarsAreNewest ==
    \A k \in DOMAIN bars :
        /\ EventsOf(k) # {}
        /\ bars[k].close = events[Max(EventsOf(k))].rows[k[1]][k[2]].oi
        /\ bars[k].change = OrZero(bars[k].close) - OrZero(bars[k].open)

(* The five tables agree however runs overlap, repeat a bucket or are cut  *)
(* off: snapshots with their strikes and the outbox, the changes between   *)
(* snapshots included; and an instrument has a bar for every bucket it has *)
(* an event in, with the newest event's open interest and the change from  *)
(* the bar's opening.                                                      *)
TablesAgree == SnapshotsAreTold /\ EventsHaveBars /\ BarsAreNewest

(* At least once, and never before the fact: a row marked published did    *)
(* reach the channel, one given up was refused each of its times, and an   *)
(* announced snapshot is committed.                                        *)
PublishedIsCommitted ==
    \A e \in DOMAIN outbox :
        /\ outbox[e].status = "published" => e \in published
        /\ outbox[e].status = "failed" <=> outbox[e].retries = MaxRetries
        /\ outbox[e].kind = "snapshot_created" => outbox[e].key \in DOMAIN snapshots

CollectionsAreWhole == TablesAgree /\ PublishedIsCommitted

(* While the worker is up, no announcement stays pending: each flush ends, *)
(* and a row is refused only so many times.                                *)
AnnouncementsSettle ==
    \A e \in 1 .. MaxRuns : e \in Pending ~> (worker = "down" \/ e \notin Pending)
=============================================================================
