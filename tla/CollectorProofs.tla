---------------------------- MODULE CollectorProofs ----------------------------
(***************************************************************************)
(* The collector's five tables agree, for any users, chains, session and   *)
(* bounds; and so do the readers of these tables.                          *)
(*                                                                         *)
(* A run that writes carries a chain of the provider (TasksOK), and all    *)
(* that an open flush has in hand is pending, what it sent having reached  *)
(* the channel (FlushOK). A snapshot keeps the strikes of the chains as    *)
(* long as these list the same ones (StrikesOK): what its own upsert kept  *)
(* is then what was listed, and adds up to the same totals.                *)
(*                                                                         *)
(* Readers need numbers in the tables (SnapshotsOK, RunsOK) and who tells  *)
(* a bucket's sums (SummaryIsSomeones): the rest holds of any rows in the  *)
(* order of their times, each at the place its rank gives it (InOrderIs).  *)
(***************************************************************************)
EXTENDS OiReader, LedgerProofs

LEMMA SmallestOfNumbers ==
    ASSUME NEW T \in SUBSET Nat, T # {}
    PROVE  Min(T) \in T
<1>1. PICK x \in T : \A y \in T : ~(<<y, x>> \in OpToRel(<, Nat))
  BY NatLessThanWellFounded, WFMin
<1>2. \A y \in T : ~(y < x)
  BY <1>1 DEF OpToRel
<1>3. \A y \in T : x <= y
  BY <1>2
<1> QED
  BY <1>3 DEF Min

LEMMA NewestOfNumbers ==
    ASSUME NEW n \in Nat, NEW T \in SUBSET (1 .. n), n \in T
    PROVE  Max(T) = n
<1>1. \A x \in T : n >= x
  OBVIOUS
<1>2. \A x \in T : x >= n => x = n
  OBVIOUS
<1> QED
  BY <1>1, <1>2 DEF Max

LEMMA NewestIsThere ==
    ASSUME NEW n \in Nat, NEW T \in SUBSET (1 .. n), T # {}
    PROVE  Max(T) \in T
<1> DEFINE above == {m \in Nat : \A x \in T : x <= m}
<1>1. above \in SUBSET Nat /\ n \in above
  OBVIOUS
<1>2. PICK m \in above : \A y \in above : ~(<<y, m>> \in OpToRel(<, Nat))
  BY <1>1, NatLessThanWellFounded, WFMin
<1>3. \A y \in above : ~(y < m)
  BY <1>1, <1>2 DEF OpToRel
<1>4. m \in T
  <2> SUFFICES ASSUME m \notin T PROVE FALSE
    OBVIOUS
  <2>1. PICK x \in T : TRUE
    OBVIOUS
  <2>2. m - 1 \in Nat /\ \A y \in T : y <= m - 1
    BY <2>1
  <2> QED
    BY <1>3, <2>2
<1>5. \A y \in T : m >= y
  OBVIOUS
<1> QED
  BY <1>4, <1>5 DEF Max

IsList(s) == s \in Seq({s[i] : i \in DOMAIN s})

LEMMA ListFacts ==
    ASSUME NEW s, IsList(s)
    PROVE  Len(s) \in Nat /\ DOMAIN s = 1 .. Len(s)
BY DEF IsList

LEMMA ListIsLonger ==
    ASSUME NEW s, IsList(s), NEW x
    PROVE  /\ IsList(Append(s, x))
           /\ Len(s) \in Nat
           /\ DOMAIN s = 1 .. Len(s)
           /\ DOMAIN Append(s, x) = 1 .. Len(s) + 1
           /\ Append(s, x)[Len(s) + 1] = x
           /\ \A i \in DOMAIN s : Append(s, x)[i] = s[i]
<1> DEFINE S == {s[i] : i \in DOMAIN s} \cup {x}
           longer == Append(s, x)
<1>1. s \in Seq(S)
  BY DEF IsList
<1>2. x \in S
  OBVIOUS
<1> HIDE DEF S
<1>3. /\ longer \in Seq(S)
      /\ Len(s) \in Nat /\ DOMAIN s = 1 .. Len(s)
      /\ DOMAIN longer = 1 .. Len(s) + 1
      /\ longer[Len(s) + 1] = x
      /\ \A i \in DOMAIN s : longer[i] = s[i]
  BY <1>1, <1>2
<1> HIDE DEF longer
<1>4. IsList(longer)
  BY <1>3 DEF IsList
<1> QED
  BY <1>3, <1>4 DEF longer

LEMMA ListOfAll ==
    ASSUME NEW s, IsList(s), NEW f, DOMAIN f = DOMAIN s, f = [i \in DOMAIN f |-> f[i]]
    PROVE  IsList(f)
BY ListFacts DEF IsList

\* What is new is read where it is, what is old elsewhere.
ReadsFirst(f, new, old) ==
    /\ DOMAIN f = DOMAIN new \cup DOMAIN old
    /\ \A x \in DOMAIN new : f[x] = new[x]
    /\ \A x \in DOMAIN old \ DOMAIN new : f[x] = old[x]

LEMMA UpsertedOf ==
    ASSUME NEW new, NEW old
    PROVE  ReadsFirst(Upserted(new, old), new, old)
BY DEF Upserted, ReadsFirst
-----------------------------------------------------------------------------
TasksOK ==
    /\ DOMAIN tasks = 1 .. MaxTasks
    /\ \A t \in 1 .. MaxTasks :
          tasks[t].at \in {"locking", "reading", "writing"} =>
              "chain" \in DOMAIN tasks[t] /\ tasks[t].chain \in Chains

ListsOK == IsList(events) /\ IsList(outbox)

RowFields == {"user", "kind", "key", "figures", "status", "retries"}

RowsOK ==
    \A e \in DOMAIN outbox : DOMAIN outbox[e] = RowFields /\ outbox[e].retries \in 0 .. MaxRetries

FlushOK ==
    flush # None =>
        /\ DOMAIN flush = {"todo", "sent", "refused"}
        /\ flush.todo \cup flush.sent \cup flush.refused \subseteq Pending
        /\ flush.todo \cap (flush.sent \cup flush.refused) = {}
        /\ flush.sent \cap flush.refused = {}
        /\ flush.sent \subseteq published

StrikesOK ==
    SameStrikes =>
        \A key \in DOMAIN snapshots : \A c \in Chains :
            DOMAIN snapshots[key].strikes = DOMAIN c.rows

BarKeysOK == \A k \in DOMAIN bars : k = <<k[1], k[2], k[3]>> /\ k[2] \in OptionSides

CollectorInv ==
    TasksOK /\ ListsOK /\ RowsOK /\ FlushOK /\ StrikesOK /\ BarKeysOK /\ CollectionsAreWhole

USE CollectorAssumption

\* A step that leaves the tables and the outbox alone.
LEMMA QuietStep ==
    ASSUME CollectorInv, UNCHANGED <<tableVars, outbox>>, published \subseteq published',
           TasksOK', FlushOK'
    PROVE  CollectorInv'
<1>1. \A key : AnnouncementsOf(key)' = AnnouncementsOf(key)
  BY DEF AnnouncementsOf
<1>2. \A k : EventsOf(k)' = EventsOf(k)
  BY DEF EventsOf, tableVars
<1>3. SnapshotsAreTold'
  BY <1>1 DEF SnapshotsAreTold, TablesAgree, CollectionsAreWhole, CollectorInv, tableVars
<1>4. EventsHaveBars' /\ BarsAreNewest'
  BY <1>2 DEF EventsHaveBars, BarsAreNewest, TablesAgree, CollectionsAreWhole, CollectorInv, tableVars
<1>5. PublishedIsCommitted'
  BY DEF PublishedIsCommitted, CollectionsAreWhole, CollectorInv, tableVars
<1>6. ListsOK' /\ RowsOK' /\ StrikesOK' /\ BarKeysOK'
  BY DEF ListsOK, RowsOK, StrikesOK, BarKeysOK, CollectorInv, tableVars
<1> QED
  BY <1>3, <1>4, <1>5, <1>6 DEF TablesAgree, CollectionsAreWhole, CollectorInv

\* A step of one run that leaves the tables, the outbox and the poller alone.
LEMMA QuietRun ==
    ASSUME CollectorInv, NEW t \in 1 .. MaxTasks, NEW where,
           UNCHANGED <<tableVars, outbox, flush, published>>, Reached(t, where),
           \/ where.at \notin {"locking", "reading", "writing"}
           \/ "chain" \in DOMAIN where /\ where.chain \in Chains
           \/ tasks[t].at \in {"locking", "reading", "writing"} /\ "chain" \notin DOMAIN where,
           "at" \in DOMAIN where
    PROVE  CollectorInv'
<1> DEFINE task == Upserted(where, tasks[t])
<1>1. /\ DOMAIN task = DOMAIN where \cup DOMAIN tasks[t]
      /\ \A x \in DOMAIN where : task[x] = where[x]
      /\ \A x \in DOMAIN tasks[t] \ DOMAIN where : task[x] = tasks[t][x]
  <2>1. ReadsFirst(task, where, tasks[t])
    BY UpsertedOf
  <2> HIDE DEF task
  <2> QED
    BY <2>1 DEF ReadsFirst
<1>2. tasks' = [tasks EXCEPT ![t] = task]
  BY DEF Reached
<1> HIDE DEF task
<1>3. task.at = where.at
  BY <1>1
<1>4. task.at \in {"locking", "reading", "writing"} => "chain" \in DOMAIN task /\ task.chain \in Chains
  <2>1. CASE where.at \notin {"locking", "reading", "writing"}
    BY <1>3, <2>1
  <2>2. CASE "chain" \in DOMAIN where /\ where.chain \in Chains
    BY <1>1, <2>2
  <2>3. CASE tasks[t].at \in {"locking", "reading", "writing"} /\ "chain" \notin DOMAIN where
    <3>1. "chain" \in DOMAIN tasks[t] /\ tasks[t].chain \in Chains
      BY <2>3 DEF CollectorInv, TasksOK
    <3> QED
      BY <1>1, <2>3, <3>1
  <2> QED
    BY <2>1, <2>2, <2>3
<1>5. TasksOK'
  BY <1>2, <1>4 DEF CollectorInv, TasksOK
<1>6. FlushOK'
  BY DEF CollectorInv, FlushOK, Pending
<1> QED
  BY <1>5, <1>6, QuietStep

\* A run that ends.
LEMMA EndedRun ==
    ASSUME CollectorInv, NEW t \in 1 .. MaxTasks, Ended(t)
    PROVE  TasksOK'
BY DEF CollectorInv, TasksOK, Ended, Free

\* What the poller has in hand stays pending when rows are added to the outbox.
LEMMA LongerOutbox ==
    ASSUME CollectorInv, NEW row, DOMAIN row = RowFields, row.retries = 0, row.status = "pending",
           outbox' = Append(outbox, row), UNCHANGED <<flush, published>>
    PROVE  /\ IsList(outbox)' /\ RowsOK' /\ FlushOK'
           /\ DOMAIN outbox' = 1 .. Len(outbox) + 1
           /\ DOMAIN outbox = 1 .. Len(outbox) /\ Len(outbox) \in Nat
           /\ outbox'[Len(outbox) + 1] = row
           /\ \A e \in DOMAIN outbox : outbox'[e] = outbox[e]
<1>1. IsList(outbox)
  BY DEF CollectorInv, ListsOK
<1>2. /\ IsList(outbox') /\ Len(outbox) \in Nat
      /\ DOMAIN outbox = 1 .. Len(outbox)
      /\ DOMAIN outbox' = 1 .. Len(outbox) + 1
      /\ outbox'[Len(outbox) + 1] = row
      /\ \A e \in DOMAIN outbox : outbox'[e] = outbox[e]
  BY <1>1, ListIsLonger
<1>3. IsList(outbox)'
  BY <1>2 DEF IsList
<1>4. \A e \in DOMAIN outbox' : e \in DOMAIN outbox \/ e = Len(outbox) + 1
  BY <1>2
<1>5. RowsOK'
  BY <1>2, <1>4 DEF CollectorInv, RowsOK
<1>6. Pending \subseteq Pending'
  BY <1>2 DEF Pending
<1>7. FlushOK'
  BY <1>6 DEF CollectorInv, FlushOK
<1> QED
  BY <1>2, <1>3, <1>5, <1>7

LEMMA AnnounceKeepsInv ==
    ASSUME CollectorInv, NEW t \in 1 .. MaxTasks, AnnounceAuthRequired(t)
    PROVE  CollectorInv'
<1> DEFINE row == Announced(tasks[t].user, "auth_required", KeyOf(t), None)
<1>1. /\ DOMAIN row = RowFields /\ row.retries = 0 /\ row.status = "pending"
      /\ row.kind = "auth_required"
  BY DEF Announced, RowFields
<1>2. /\ outbox' = Append(outbox, row) /\ Ended(t)
      /\ UNCHANGED <<snapshots, bars, events, flush, published>>
  BY DEF AnnounceAuthRequired, tableVars
<1> HIDE DEF row
<1>3. /\ IsList(outbox)' /\ RowsOK' /\ FlushOK'
      /\ DOMAIN outbox' = 1 .. Len(outbox) + 1
      /\ DOMAIN outbox = 1 .. Len(outbox) /\ Len(outbox) \in Nat
      /\ outbox'[Len(outbox) + 1] = row
      /\ \A e \in DOMAIN outbox : outbox'[e] = outbox[e]
  BY <1>1, <1>2, LongerOutbox
<1>4. \A e \in DOMAIN outbox' : e \in DOMAIN outbox \/ e = Len(outbox) + 1
  BY <1>3
<1>5. \A key : AnnouncementsOf(key)' = AnnouncementsOf(key)
  BY <1>1, <1>3, <1>4 DEF AnnouncementsOf
<1>6. SnapshotsAreTold'
  <2> SUFFICES ASSUME NEW key \in DOMAIN snapshots
               PROVE  /\ AnnouncementsOf(key)' # {}
                      /\ outbox'[Max(AnnouncementsOf(key)')].figures = outbox[Max(AnnouncementsOf(key))].figures
    BY <1>2, <1>5 DEF SnapshotsAreTold, TablesAgree, CollectionsAreWhole, CollectorInv
  <2>1. AnnouncementsOf(key) # {}
    BY DEF SnapshotsAreTold, TablesAgree, CollectionsAreWhole, CollectorInv
  <2>2. Max(AnnouncementsOf(key)) \in DOMAIN outbox
    <3>1. AnnouncementsOf(key) \in SUBSET (1 .. Len(outbox))
      BY <1>3 DEF AnnouncementsOf
    <3>2. Max(AnnouncementsOf(key)) \in AnnouncementsOf(key)
      BY <1>3, <2>1, <3>1, NewestIsThere
    <3> QED
      BY <1>3, <3>1, <3>2
  <2> QED
    BY <1>3, <1>5, <2>1, <2>2
<1>7. EventsHaveBars' /\ BarsAreNewest'
  <2>1. \A k : EventsOf(k)' = EventsOf(k)
    BY <1>2 DEF EventsOf
  <2> QED
    BY <1>2, <2>1 DEF EventsHaveBars, BarsAreNewest, TablesAgree, CollectionsAreWhole, CollectorInv
<1>8. PublishedIsCommitted'
  <2>1. \A e \in DOMAIN outbox :
           /\ outbox[e].status = "published" => e \in published
           /\ outbox[e].status = "failed" <=> outbox[e].retries = MaxRetries
           /\ outbox[e].kind = "snapshot_created" => outbox[e].key \in DOMAIN snapshots
    BY DEF PublishedIsCommitted, CollectionsAreWhole, CollectorInv
  <2> QED
    BY <1>1, <1>2, <1>3, <1>4, <2>1 DEF PublishedIsCommitted
<1>9. ListsOK' /\ StrikesOK' /\ BarKeysOK' /\ TasksOK'
  BY <1>2, <1>3, EndedRun DEF ListsOK, StrikesOK, BarKeysOK, CollectorInv, IsList
<1> QED
  BY <1>3, <1>6, <1>7, <1>8, <1>9 DEF TablesAgree, CollectionsAreWhole, CollectorInv
-----------------------------------------------------------------------------
LEMMA StrikeRowsOf ==
    ASSUME NEW chain, NEW prior
    PROVE  /\ DOMAIN StrikeRows(chain, prior) = DOMAIN chain.rows
           /\ \A s \in DOMAIN chain.rows : DOMAIN StrikeRows(chain, prior)[s] = OptionSides
           /\ \A s \in DOMAIN chain.rows : \A side \in OptionSides :
                 LET r == StrikeRows(chain, prior)[s][side]
                 IN  /\ DOMAIN r = {"oi", "ltp", "prev", "change"}
                     /\ r.oi = OiOf(chain.rows[s][side])
                     /\ r.change = OrZero(r.oi) - OrZero(r.prev)
BY DEF StrikeRows

\* The legs a chain lists have bars, which close at the chain's figures.
AreBars(made, chain, b) ==
    /\ DOMAIN made = {k \in (DOMAIN chain.rows) \X OptionSides \X {b} : chain.rows[k[1]][k[2]] # None}
    /\ \A k \in DOMAIN made :
          /\ made[k].close = chain.rows[k[1]][k[2]].oi
          /\ made[k].change = OrZero(made[k].close) - OrZero(made[k].open)

LEMMA BarRowsOf ==
    ASSUME NEW chain, NEW prior, NEW b
    PROVE  AreBars(BarRows(chain, StrikeRows(chain, prior), prior, b), chain, b)
<1> DEFINE rows == StrikeRows(chain, prior)
           made == BarRows(chain, rows, prior, b)
           K == {k \in (DOMAIN chain.rows) \X OptionSides \X {b} : chain.rows[k[1]][k[2]] # None}
<1>1. DOMAIN rows = DOMAIN chain.rows
  BY StrikeRowsOf
<1>2. \A s \in DOMAIN chain.rows : \A side \in OptionSides :
         /\ rows[s][side].oi = OiOf(chain.rows[s][side])
         /\ rows[s][side].change = OrZero(rows[s][side].oi) - OrZero(rows[s][side].prev)
  BY StrikeRowsOf
<1> HIDE DEF rows
<1>3. DOMAIN made = K
  BY <1>1 DEF BarRows
<1>4. ASSUME NEW k \in K
      PROVE  /\ made[k].close = rows[k[1]][k[2]].oi
             /\ made[k].change = rows[k[1]][k[2]].change
             /\ made[k].open = rows[k[1]][k[2]].prev
             /\ k[1] \in DOMAIN chain.rows /\ k[2] \in OptionSides /\ chain.rows[k[1]][k[2]] # None
  BY <1>1 DEF BarRows
<1> HIDE DEF made, K
<1>5. ASSUME NEW k \in K
      PROVE  /\ made[k].close = chain.rows[k[1]][k[2]].oi
             /\ made[k].change = OrZero(made[k].close) - OrZero(made[k].open)
  BY <1>2, <1>4 DEF OiOf
<1> QED
  BY <1>3, <1>5 DEF AreBars, rows, made, K

\* Strikes that are there keep what they add up to.
LEMMA UpsertKeepsTotals ==
    ASSUME NEW chain, NEW prior, NEW old, DOMAIN old \subseteq DOMAIN chain.rows
    PROVE  LET rows == StrikeRows(chain, prior)
               kept == UpsertedStrikes(old, rows)
           IN  /\ DOMAIN kept = DOMAIN chain.rows
               /\ \A side \in OptionSides : /\ SideTotal(kept, side, "oi") = SideTotal(rows, side, "oi")
                                      /\ SideTotal(kept, side, "change") = SideTotal(rows, side, "change")
<1> DEFINE rows == StrikeRows(chain, prior)
           kept == UpsertedStrikes(old, rows)
<1>1. /\ DOMAIN rows = DOMAIN chain.rows
      /\ \A s \in DOMAIN chain.rows : \A side \in OptionSides :
            DOMAIN rows[s][side] = {"oi", "ltp", "prev", "change"}
  BY StrikeRowsOf
<1> HIDE DEF rows
<1>2. DOMAIN kept = DOMAIN chain.rows
  BY <1>1 DEF UpsertedStrikes
<1>3. ASSUME NEW s \in DOMAIN chain.rows, NEW side \in OptionSides
      PROVE  kept[s][side].oi = rows[s][side].oi /\ kept[s][side].change = rows[s][side].change
  BY <1>1 DEF UpsertedStrikes
<1> HIDE DEF kept
<1>4. ASSUME NEW side \in OptionSides
      PROVE  SideTotal(kept, side, "oi") = SideTotal(rows, side, "oi")
  <2>1. [s \in DOMAIN kept |-> OrZero(kept[s][side]["oi"])] = [s \in DOMAIN rows |-> OrZero(rows[s][side]["oi"])]
    BY <1>1, <1>2, <1>3
  <2> QED
    BY <2>1 DEF SideTotal
<1>5. ASSUME NEW side \in OptionSides
      PROVE  SideTotal(kept, side, "change") = SideTotal(rows, side, "change")
  <2>1. [s \in DOMAIN kept |-> OrZero(kept[s][side]["change"])] =
           [s \in DOMAIN rows |-> OrZero(rows[s][side]["change"])]
    BY <1>1, <1>2, <1>3
  <2> QED
    BY <2>1 DEF SideTotal
<1> QED
  BY <1>2, <1>4, <1>5 DEF kept, rows

LEMMA SaveKeepsInv ==
    ASSUME CollectorInv, NEW t \in 1 .. MaxTasks, SaveSnapshot(t)
    PROVE  CollectorInv'
<1> DEFINE key == KeyOf(t)
           chain == tasks[t].chain
           prior == tasks[t].prior
           rows == StrikeRows(chain, prior)
           figures == ComputeSnapshotAnalytics(rows)
           old == IF key \in DOMAIN snapshots THEN snapshots[key].strikes ELSE <<>>
           kept == UpsertedStrikes(old, rows)
           row == [spot |-> chain.spot, call |-> figures.call, put |-> figures.put,
                   pcr |-> figures.pcr, strikes |-> kept]
           event == [bucket |-> key[2], rows |-> chain.rows]
           made == BarRows(chain, rows, prior, key[2])
           told == Announced(key[1], "snapshot_created", key, figures)
<1>1. /\ snapshots' = Upserted([k \in {key} |-> row], snapshots)
      /\ events' = Append(events, event)
      /\ bars' = Upserted(made, bars)
      /\ outbox' = Append(outbox, told)
      /\ UNCHANGED <<flush, published>> /\ Reached(t, [at |-> "releasing"])
  BY DEF SaveSnapshot, WriteSnapshot
<1>2. chain \in Chains
  BY DEF SaveSnapshot, At, CollectorInv, TasksOK
<1>3. /\ told.kind = "snapshot_created" /\ told.key = key /\ told.figures = figures
      /\ DOMAIN told = RowFields /\ told.retries = 0 /\ told.status = "pending"
  BY DEF Announced, RowFields
<1>4. /\ figures.call = SideTotal(rows, "CE", "oi") /\ figures.put = SideTotal(rows, "PE", "oi")
      /\ figures.net = SideTotal(rows, "CE", "change") + SideTotal(rows, "PE", "change")
  BY DEF ComputeSnapshotAnalytics
<1>5. SameStrikes => /\ DOMAIN kept = DOMAIN chain.rows
                     /\ \A side \in OptionSides : /\ SideTotal(kept, side, "oi") = SideTotal(rows, side, "oi")
                                            /\ SideTotal(kept, side, "change") = SideTotal(rows, side, "change")
  <2> SUFFICES ASSUME SameStrikes PROVE DOMAIN old \subseteq DOMAIN chain.rows
    BY UpsertKeepsTotals
  <2>1. CASE key \in DOMAIN snapshots
    BY <1>2, <2>1 DEF CollectorInv, StrikesOK
  <2>2. CASE key \notin DOMAIN snapshots
    BY <2>2
  <2> QED
    BY <2>1, <2>2
<1>6. /\ row.call = figures.call /\ row.put = figures.put /\ row.pcr = figures.pcr /\ row.strikes = kept
  OBVIOUS
<1>7. /\ DOMAIN made = {k \in (DOMAIN chain.rows) \X OptionSides \X {key[2]} : chain.rows[k[1]][k[2]] # None}
      /\ \A k \in DOMAIN made :
            /\ made[k].close = chain.rows[k[1]][k[2]].oi
            /\ made[k].change = OrZero(made[k].close) - OrZero(made[k].open)
  <2>1. AreBars(made, chain, key[2])
    BY BarRowsOf
  <2> HIDE DEF made, chain, key
  <2> QED
    BY <2>1 DEF AreBars
<1>8. event.bucket = key[2] /\ event.rows = chain.rows
  OBVIOUS
<1> HIDE DEF key, chain, prior, rows, figures, old, kept, row, event, made, told
<1>9. /\ DOMAIN snapshots' = DOMAIN snapshots \cup {key}
      /\ snapshots'[key] = row
      /\ \A k \in DOMAIN snapshots \ {key} : snapshots'[k] = snapshots[k]
  <2> DEFINE written == [k \in {key} |-> row]
  <2>1. snapshots' = Upserted(written, snapshots) /\ DOMAIN written = {key} /\ written[key] = row
    BY <1>1
  <2> HIDE DEF written
  <2>2. ReadsFirst(snapshots', written, snapshots)
    BY <2>1, UpsertedOf
  <2> QED
    BY <2>1, <2>2 DEF ReadsFirst
<1>10. /\ DOMAIN bars' = DOMAIN made \cup DOMAIN bars
       /\ \A k \in DOMAIN made : bars'[k] = made[k]
       /\ \A k \in DOMAIN bars \ DOMAIN made : bars'[k] = bars[k]
  <2>1. ReadsFirst(bars', made, bars)
    BY <1>1, UpsertedOf
  <2> QED
    BY <2>1 DEF ReadsFirst
<1>11. /\ IsList(outbox)' /\ RowsOK' /\ FlushOK'
       /\ DOMAIN outbox' = 1 .. Len(outbox) + 1
       /\ DOMAIN outbox = 1 .. Len(outbox) /\ Len(outbox) \in Nat
       /\ outbox'[Len(outbox) + 1] = told
       /\ \A e \in DOMAIN outbox : outbox'[e] = outbox[e]
  BY <1>1, <1>3, LongerOutbox
<1>12. \A e \in DOMAIN outbox' : e \in DOMAIN outbox \/ e = Len(outbox) + 1
  BY <1>11
<1>13. SnapshotsAreTold'
  <2> SUFFICES ASSUME NEW k \in DOMAIN snapshots'
               PROVE  LET of == outbox'[Max(AnnouncementsOf(k)')].figures
                      IN  /\ AnnouncementsOf(k)' # {}
                          /\ snapshots'[k].call = of.call /\ snapshots'[k].put = of.put
                          /\ snapshots'[k].pcr = of.pcr
                          /\ SameStrikes =>
                                /\ snapshots'[k].call = SideTotal(snapshots'[k].strikes, "CE", "oi")
                                /\ snapshots'[k].put = SideTotal(snapshots'[k].strikes, "PE", "oi")
                                /\ of.net = SideTotal(snapshots'[k].strikes, "CE", "change")
                                             + SideTotal(snapshots'[k].strikes, "PE", "change")
    BY DEF SnapshotsAreTold
  <2>1. CASE k = key
    <3>1. /\ AnnouncementsOf(k)' \in SUBSET (1 .. Len(outbox) + 1)
          /\ Len(outbox) + 1 \in AnnouncementsOf(k)'
      BY <1>3, <1>11, <2>1 DEF AnnouncementsOf
    <3>2. Max(AnnouncementsOf(k)') = Len(outbox) + 1
      BY <1>11, <3>1, NewestOfNumbers
    <3>3. /\ outbox'[Max(AnnouncementsOf(k)')].figures = figures
          /\ snapshots'[k] = row /\ AnnouncementsOf(k)' # {}
      BY <1>3, <1>9, <1>11, <2>1, <3>1, <3>2
    <3>4. "CE" \in OptionSides /\ "PE" \in OptionSides
      BY DEF OptionSides
    <3> QED
      BY <1>4, <1>5, <1>6, <3>3, <3>4
  <2>2. CASE k # key
    <3>1. k \in DOMAIN snapshots /\ snapshots'[k] = snapshots[k]
      BY <1>9, <2>2
    <3>2. AnnouncementsOf(k)' = AnnouncementsOf(k)
      BY <1>3, <1>11, <1>12, <2>2 DEF AnnouncementsOf
    <3>3. AnnouncementsOf(k) # {} /\ AnnouncementsOf(k) \in SUBSET (1 .. Len(outbox))
      BY <1>11, <3>1 DEF AnnouncementsOf, SnapshotsAreTold, TablesAgree, CollectionsAreWhole, CollectorInv
    <3>4. Max(AnnouncementsOf(k)) \in AnnouncementsOf(k)
      BY <1>11, <3>3, NewestIsThere
    <3>5. outbox'[Max(AnnouncementsOf(k)')] = outbox[Max(AnnouncementsOf(k))]
      BY <1>11, <3>2, <3>3, <3>4
    <3> QED
      BY <3>1, <3>2, <3>5 DEF SnapshotsAreTold, TablesAgree, CollectionsAreWhole, CollectorInv
  <2> QED
    BY <2>1, <2>2
<1>14. /\ IsList(events)' /\ Len(events) \in Nat
       /\ DOMAIN events = 1 .. Len(events)
       /\ DOMAIN events' = 1 .. Len(events) + 1
       /\ events'[Len(events) + 1] = event
       /\ \A i \in DOMAIN events : events'[i] = events[i]
  <2>1. IsList(events)
    BY DEF CollectorInv, ListsOK
  <2>2. /\ IsList(Append(events, event)) /\ Len(events) \in Nat
        /\ DOMAIN events = 1 .. Len(events)
        /\ DOMAIN Append(events, event) = 1 .. Len(events) + 1
        /\ Append(events, event)[Len(events) + 1] = event
        /\ \A i \in DOMAIN events : Append(events, event)[i] = events[i]
    BY <2>1, ListIsLonger
  <2> QED
    BY <1>1, <2>2 DEF IsList
<1>15. \A i \in DOMAIN events' : i \in DOMAIN events \/ i = Len(events) + 1
  BY <1>14
<1>16. EventsHaveBars'
  <2> SUFFICES ASSUME NEW i \in DOMAIN events', NEW s \in DOMAIN events'[i].rows, NEW side \in OptionSides,
                      events'[i].rows[s][side] # None
               PROVE  <<s, side, events'[i].bucket>> \in DOMAIN bars'
    BY DEF EventsHaveBars
  <2>1. CASE i \in DOMAIN events
    BY <1>10, <1>14, <2>1 DEF EventsHaveBars, TablesAgree, CollectionsAreWhole, CollectorInv
  <2>2. CASE i = Len(events) + 1
    BY <1>7, <1>8, <1>10, <1>14, <2>2
  <2> QED
    BY <1>15, <2>1, <2>2
<1>17. BarsAreNewest'
  <2> SUFFICES ASSUME NEW k \in DOMAIN bars'
               PROVE  /\ EventsOf(k)' # {}
                      /\ bars'[k].close = events'[Max(EventsOf(k)')].rows[k[1]][k[2]].oi
                      /\ bars'[k].change = OrZero(bars'[k].close) - OrZero(bars'[k].open)
    BY DEF BarsAreNewest
  <2>1. CASE k \in DOMAIN made
    <3>1. /\ k[3] = key[2] /\ k[1] \in DOMAIN chain.rows /\ chain.rows[k[1]][k[2]] # None
      BY <1>7, <2>1
    <3>2. /\ EventsOf(k)' \in SUBSET (1 .. Len(events) + 1)
          /\ Len(events) + 1 \in EventsOf(k)'
      BY <1>8, <1>14, <3>1 DEF EventsOf
    <3>3. Max(EventsOf(k)') = Len(events) + 1
      BY <1>14, <3>2, NewestOfNumbers
    <3>4. bars'[k] = made[k]
      BY <1>10, <2>1
    <3>5. events'[Max(EventsOf(k)')].rows = chain.rows
      BY <1>8, <1>14, <3>3
    <3>6. /\ made[k].close = chain.rows[k[1]][k[2]].oi
          /\ made[k].change = OrZero(made[k].close) - OrZero(made[k].open)
      BY <1>7, <2>1
    <3> QED
      BY <3>2, <3>4, <3>5, <3>6
  <2>2. CASE k \notin DOMAIN made
    <3>1. /\ k \in DOMAIN bars /\ bars'[k] = bars[k]
          /\ EventsOf(k) # {} /\ EventsOf(k) \in SUBSET (1 .. Len(events))
          /\ bars[k].close = events[Max(EventsOf(k))].rows[k[1]][k[2]].oi
          /\ bars[k].change = OrZero(bars[k].close) - OrZero(bars[k].open)
      BY <1>10, <1>14, <2>2 DEF EventsOf, BarsAreNewest, TablesAgree, CollectionsAreWhole, CollectorInv
    <3>2. EventsOf(k)' \subseteq EventsOf(k) \cup {Len(events) + 1}
      BY <1>14, <1>15 DEF EventsOf
    <3>3. EventsOf(k) \subseteq EventsOf(k)'
      BY <1>14 DEF EventsOf
    <3>4. Len(events) + 1 \notin EventsOf(k)'
      <4> SUFFICES ASSUME Len(events) + 1 \in EventsOf(k)' PROVE FALSE
        OBVIOUS
      <4>1. k = <<k[1], k[2], k[3]>> /\ k[2] \in OptionSides
        BY <3>1 DEF CollectorInv, BarKeysOK
      <4>2. key[2] = k[3] /\ k[1] \in DOMAIN chain.rows /\ chain.rows[k[1]][k[2]] # None
        BY <1>8, <1>14 DEF EventsOf
      <4>3. <<k[1], k[2], k[3]>> \in (DOMAIN chain.rows) \X OptionSides \X {key[2]}
        BY <4>1, <4>2
      <4> QED
        BY <1>7, <2>2, <4>1, <4>2, <4>3
    <3>5. EventsOf(k)' = EventsOf(k)
      BY <3>2, <3>3, <3>4
    <3>6. Max(EventsOf(k)) \in EventsOf(k)
      BY <1>14, <3>1, NewestIsThere
    <3>7. events'[Max(EventsOf(k)')] = events[Max(EventsOf(k))]
      BY <1>14, <3>1, <3>5, <3>6
    <3> QED
      BY <3>1, <3>5, <3>7
  <2> QED
    BY <2>1, <2>2
<1>18. PublishedIsCommitted'
  <2>1. \A e \in DOMAIN outbox :
           /\ outbox[e].status = "published" => e \in published
           /\ outbox[e].status = "failed" <=> outbox[e].retries = MaxRetries
           /\ outbox[e].kind = "snapshot_created" => outbox[e].key \in DOMAIN snapshots
    BY DEF PublishedIsCommitted, CollectionsAreWhole, CollectorInv
  <2> QED
    BY <1>1, <1>3, <1>9, <1>11, <1>12, <2>1 DEF PublishedIsCommitted
<1>19. StrikesOK'
  <2> SUFFICES ASSUME SameStrikes, NEW k \in DOMAIN snapshots', NEW c \in Chains
               PROVE  DOMAIN snapshots'[k].strikes = DOMAIN c.rows
    BY DEF StrikesOK
  <2>1. CASE k = key
    BY <1>2, <1>5, <1>6, <1>9, <2>1 DEF SameStrikes
  <2>2. CASE k # key
    BY <1>9, <2>2 DEF CollectorInv, StrikesOK
  <2> QED
    BY <2>1, <2>2
<1>21. BarKeysOK'
  <2> SUFFICES ASSUME NEW k \in DOMAIN bars'
               PROVE  k = <<k[1], k[2], k[3]>> /\ k[2] \in OptionSides
    BY DEF BarKeysOK
  <2>1. CASE k \in DOMAIN made
    BY <1>7, <2>1
  <2>2. CASE k \in DOMAIN bars
    BY <2>2 DEF CollectorInv, BarKeysOK
  <2> QED
    BY <1>10, <2>1, <2>2
<1>20. TasksOK'
  <2> DEFINE task == Upserted([at |-> "releasing"], tasks[t])
  <2>1. tasks' = [tasks EXCEPT ![t] = task]
    BY <1>1 DEF Reached
  <2>2. task.at = "releasing"
    BY DEF Upserted
  <2> HIDE DEF task
  <2> QED
    BY <2>1, <2>2 DEF CollectorInv, TasksOK
<1> QED
  BY <1>11, <1>13, <1>14, <1>16, <1>17, <1>18, <1>19, <1>20, <1>21
     DEF ListsOK, TablesAgree, CollectionsAreWhole, CollectorInv
-----------------------------------------------------------------------------
\* A settled row keeps what it announces; it is given up with its last retry.
LEMMA SettledRow ==
    ASSUME CollectorInv, flush # None, NEW e \in DOMAIN outbox
    PROVE  LET row == Settled(e, outbox[e])
           IN  /\ DOMAIN row = RowFields /\ row.retries \in 0 .. MaxRetries
               /\ row.kind = outbox[e].kind /\ row.key = outbox[e].key /\ row.figures = outbox[e].figures
               /\ row.status = "published" => e \in published
               /\ row.status = "failed" <=> row.retries = MaxRetries
<1> DEFINE old == outbox[e]
           row == Settled(e, old)
<1>1. /\ DOMAIN old = RowFields /\ old.retries \in 0 .. MaxRetries
      /\ old.status = "published" => e \in published
      /\ old.status = "failed" <=> old.retries = MaxRetries
  BY DEF CollectorInv, RowsOK, CollectionsAreWhole, PublishedIsCommitted
<1>2. e \in flush.sent \cup flush.refused => old.status = "pending"
  BY DEF CollectorInv, FlushOK, Pending
<1>3. /\ e \in flush.sent => e \in published
      /\ ~(e \in flush.sent /\ e \in flush.refused)
  BY DEF CollectorInv, FlushOK
<1> HIDE DEF old
<1>4. CASE e \in flush.sent
  <2>1. row = [old EXCEPT !.status = "published"]
    BY <1>3, <1>4 DEF Settled
  <2> QED
    BY <1>1, <1>2, <1>3, <1>4, <2>1 DEF RowFields, old
<1>5. CASE e \notin flush.sent /\ e \in flush.refused
  <2> DEFINE status == IF old.retries + 1 >= MaxRetries THEN "failed" ELSE "pending"
  <2>1. row = [old EXCEPT !.retries = old.retries + 1, !.status = status]
    BY <1>1, <1>5 DEF Settled, RowFields
  <2>2. old.retries + 1 \in 0 .. MaxRetries /\ (status = "failed" <=> old.retries + 1 = MaxRetries)
    BY <1>1, <1>2, <1>5
  <2>3. status # "published"
    OBVIOUS
  <2> HIDE DEF status
  <2>4. /\ DOMAIN row = RowFields /\ row.retries = old.retries + 1 /\ row.status = status
        /\ row.kind = old.kind /\ row.key = old.key /\ row.figures = old.figures
    BY <1>1, <2>1 DEF RowFields
  <2> QED
    BY <2>2, <2>3, <2>4 DEF old
<1>6. CASE e \notin flush.sent /\ e \notin flush.refused
  <2>1. row = old
    BY <1>6 DEF Settled
  <2> QED
    BY <1>1, <2>1 DEF old
<1> QED
  BY <1>4, <1>5, <1>6

LEMMA CommitKeepsInv ==
    ASSUME CollectorInv, CommitFlush
    PROVE  CollectorInv'
<1>1. /\ outbox' = [e \in DOMAIN outbox |-> Settled(e, outbox[e])]
      /\ flush # None /\ flush' = None
      /\ UNCHANGED <<tasks, snapshots, bars, events, published>>
  BY DEF CommitFlush, tableVars
<1>2. /\ DOMAIN outbox' = DOMAIN outbox
      /\ \A e \in DOMAIN outbox : outbox'[e] = Settled(e, outbox[e])
      /\ outbox' = [e \in DOMAIN outbox' |-> outbox'[e]]
  BY <1>1
<1>3. ASSUME NEW e \in DOMAIN outbox
      PROVE  /\ DOMAIN outbox'[e] = RowFields /\ outbox'[e].retries \in 0 .. MaxRetries
             /\ outbox'[e].kind = outbox[e].kind /\ outbox'[e].key = outbox[e].key
             /\ outbox'[e].figures = outbox[e].figures
             /\ outbox'[e].status = "published" => e \in published
             /\ outbox'[e].status = "failed" <=> outbox'[e].retries = MaxRetries
  BY <1>1, <1>2, SettledRow
<1>4. IsList(outbox)'
  <2>1. IsList(outbox)
    BY DEF CollectorInv, ListsOK
  <2>2. IsList(outbox')
    BY <1>2, <2>1, ListOfAll
  <2> QED
    BY <2>2 DEF IsList
<1>5. RowsOK' /\ FlushOK'
  BY <1>1, <1>2, <1>3 DEF RowsOK, FlushOK
<1>6. PublishedIsCommitted'
  <2>1. \A e \in DOMAIN outbox : outbox[e].kind = "snapshot_created" => outbox[e].key \in DOMAIN snapshots
    BY DEF CollectorInv, CollectionsAreWhole, PublishedIsCommitted
  <2> QED
    BY <1>1, <1>2, <1>3, <2>1 DEF PublishedIsCommitted
<1>7. SnapshotsAreTold'
  <2> SUFFICES ASSUME NEW key \in DOMAIN snapshots
               PROVE  /\ AnnouncementsOf(key)' = AnnouncementsOf(key)
                      /\ AnnouncementsOf(key) # {}
                      /\ outbox'[Max(AnnouncementsOf(key))].figures = outbox[Max(AnnouncementsOf(key))].figures
    BY <1>1 DEF SnapshotsAreTold, TablesAgree, CollectionsAreWhole, CollectorInv
  <2>1. AnnouncementsOf(key)' = AnnouncementsOf(key)
    BY <1>2, <1>3 DEF AnnouncementsOf
  <2>2. /\ AnnouncementsOf(key) # {}
        /\ AnnouncementsOf(key) \in SUBSET (1 .. Len(outbox)) /\ Len(outbox) \in Nat
        /\ AnnouncementsOf(key) \subseteq DOMAIN outbox
    <3>1. IsList(outbox)
      BY DEF CollectorInv, ListsOK
    <3>2. DOMAIN outbox = 1 .. Len(outbox) /\ Len(outbox) \in Nat
      BY <3>1, ListFacts
    <3> QED
      BY <3>2 DEF AnnouncementsOf, SnapshotsAreTold, TablesAgree, CollectionsAreWhole, CollectorInv
  <2>3. Max(AnnouncementsOf(key)) \in DOMAIN outbox
    BY <2>2, NewestIsThere
  <2> QED
    BY <1>3, <2>1, <2>2, <2>3
<1>8. EventsHaveBars' /\ BarsAreNewest'
  <2>1. \A k : EventsOf(k)' = EventsOf(k)
    BY <1>1 DEF EventsOf
  <2> QED
    BY <1>1, <2>1 DEF EventsHaveBars, BarsAreNewest, TablesAgree, CollectionsAreWhole, CollectorInv
<1>9. ListsOK' /\ StrikesOK' /\ BarKeysOK' /\ TasksOK'
  BY <1>1, <1>4 DEF ListsOK, StrikesOK, BarKeysOK, TasksOK, CollectorInv, IsList
<1> QED
  BY <1>5, <1>6, <1>7, <1>8, <1>9 DEF TablesAgree, CollectionsAreWhole, CollectorInv

LEMMA PublishKeepsInv ==
    ASSUME CollectorInv, PublishNext
    PROVE  CollectorInv'
<1> DEFINE e == Min(flush.todo)
<1>1. /\ flush # None /\ flush.todo # {}
      /\ DOMAIN flush = {"todo", "sent", "refused"}
      /\ flush.todo \cup flush.sent \cup flush.refused \subseteq Pending
      /\ flush.todo \cap (flush.sent \cup flush.refused) = {}
      /\ flush.sent \cap flush.refused = {}
      /\ flush.sent \subseteq published
  BY DEF PublishNext, CollectorInv, FlushOK
<1>2. e \in flush.todo
  <2>1. IsList(outbox)
    BY DEF CollectorInv, ListsOK
  <2>2. DOMAIN outbox \subseteq Nat
    BY <2>1, ListFacts
  <2>3. flush.todo \in SUBSET Nat
    BY <1>1, <2>2 DEF Pending
  <2> QED
    BY <1>1, <2>3, SmallestOfNumbers
<1>3. /\ \/ /\ published' = published \cup {e}
            /\ flush' = [flush EXCEPT !.todo = flush.todo \ {e}, !.sent = flush.sent \cup {e}]
         \/ /\ published' = published
            /\ flush' = [flush EXCEPT !.todo = flush.todo \ {e}, !.refused = flush.refused \cup {e}]
      /\ UNCHANGED <<tasks, tableVars, outbox>>
  BY <1>1 DEF PublishNext
<1> HIDE DEF e
<1>4. FlushOK'
  <2>1. Pending' = Pending
    BY <1>3 DEF Pending
  <2>2. CASE /\ published' = published \cup {e}
             /\ flush' = [flush EXCEPT !.todo = flush.todo \ {e}, !.sent = flush.sent \cup {e}]
    <3>1. /\ DOMAIN flush' = {"todo", "sent", "refused"} /\ flush'.todo = flush.todo \ {e}
          /\ flush'.sent = flush.sent \cup {e} /\ flush'.refused = flush.refused
      BY <1>1, <2>2
    <3> QED
      BY <1>1, <1>2, <2>1, <2>2, <3>1 DEF FlushOK
  <2>3. CASE /\ published' = published
             /\ flush' = [flush EXCEPT !.todo = flush.todo \ {e}, !.refused = flush.refused \cup {e}]
    <3>1. /\ DOMAIN flush' = {"todo", "sent", "refused"} /\ flush'.todo = flush.todo \ {e}
          /\ flush'.sent = flush.sent /\ flush'.refused = flush.refused \cup {e}
      BY <1>1, <2>3
    <3> QED
      BY <1>1, <1>2, <2>1, <2>3, <3>1 DEF FlushOK
  <2> QED
    BY <1>3, <2>2, <2>3
<1>5. TasksOK' /\ published \subseteq published'
  BY <1>3 DEF CollectorInv, TasksOK
<1> QED
  BY <1>3, <1>4, <1>5, QuietStep

LEMMA RunKeepsInv ==
    ASSUME CollectorInv, NEW t \in 1 .. MaxTasks, RunStep(t)
    PROVE  CollectorInv'
<1>1. CASE Fetch(t)
  <2>1. UNCHANGED <<tableVars, outbox, flush, published>>
    BY <1>1 DEF Fetch
  <2>2. ASSUME NEW c \in Chains, Reached(t, [at |-> "locking", chain |-> c]) PROVE CollectorInv'
    BY <2>1, <2>2, QuietRun
  <2>3. ASSUME NEW status, Reporting(t, status) PROVE CollectorInv'
    BY <2>1, <2>3, QuietRun DEF Reporting
  <2> QED
    BY <1>1, <2>2, <2>3 DEF Fetch
<1>2. CASE AcquireLock(t)
  <2>1. UNCHANGED <<tableVars, outbox, flush, published>> /\ tasks[t].at = "locking"
    BY <1>2 DEF AcquireLock, At
  <2>2. CASE Reached(t, [at |-> "reading"])
    BY <2>1, <2>2, QuietRun
  <2>3. CASE Reporting(t, "success")
    BY <2>1, <2>3, QuietRun DEF Reporting
  <2> QED
    BY <1>2, <2>2, <2>3 DEF AcquireLock
<1>3. CASE ReadPrior(t)
  <2> DEFINE where == [at |-> "writing", prior |-> PriorStrikes(tasks[t].user, tasks[t].bucket)]
  <2>1. /\ UNCHANGED <<tableVars, outbox, flush, published>> /\ tasks[t].at = "reading"
        /\ Reached(t, where)
    BY <1>3 DEF ReadPrior, At
  <2>2. "at" \in DOMAIN where /\ "chain" \notin DOMAIN where
    OBVIOUS
  <2> HIDE DEF where
  <2> QED
    BY <2>1, <2>2, QuietRun
<1>4. CASE SaveSnapshot(t)
  BY <1>4, SaveKeepsInv
<1>5. CASE ReleaseLock(t)
  <2>1. UNCHANGED <<tableVars, outbox, flush, published>>
    BY <1>5 DEF ReleaseLock
  <2>2. ASSUME NEW status, Reporting(t, status) PROVE CollectorInv'
    BY <2>1, <2>2, QuietRun DEF Reporting
  <2> QED
    BY <1>5, <2>2 DEF ReleaseLock
<1>6. CASE StatementFails(t)
  <2>1. UNCHANGED <<tableVars, outbox, flush, published>> /\ Ended(t)
    BY <1>6 DEF StatementFails
  <2>2. FlushOK'
    BY <2>1 DEF CollectorInv, FlushOK, Pending
  <2> QED
    BY <2>1, <2>2, EndedRun, QuietStep
<1>7. CASE UpdateJobStatus(t)
  <2>1. UNCHANGED <<tableVars, outbox, flush, published>>
    BY <1>7 DEF UpdateJobStatus
  <2>2. CASE Reached(t, [at |-> "announcing"])
    BY <2>1, <2>2, QuietRun
  <2>3. CASE Ended(t)
    <3>1. FlushOK'
      BY <2>1 DEF CollectorInv, FlushOK, Pending
    <3> QED
      BY <2>1, <2>3, <3>1, EndedRun, QuietStep
  <2> QED
    BY <1>7, <2>2, <2>3 DEF UpdateJobStatus
<1>8. CASE AnnounceAuthRequired(t)
  BY <1>8, AnnounceKeepsInv
<1> QED
  BY <1>1, <1>2, <1>3, <1>4, <1>5, <1>6, <1>7, <1>8 DEF RunStep

\* A tick, a start, a stop, a crash.
LEMMA SchedulerKeepsInv ==
    ASSUME CollectorInv,
           \/ Minute \/ StartWorker \/ CatchUp \/ Crash
           \/ \E u \in Users : StartCollector(u) \/ StopCollector(u)
    PROVE  CollectorInv'
<1>1. UNCHANGED <<tableVars, outbox, published>>
  BY DEF Minute, StartWorker, CatchUp, Crash, StartCollector, StopCollector
<1>2. flush' \in {flush, None}
  BY DEF Minute, StartWorker, CatchUp, Crash, StartCollector, StopCollector
<1>3. FlushOK'
  BY <1>1, <1>2 DEF CollectorInv, FlushOK, Pending
<1>4. \A u, now, catchUp : Run(u, now, catchUp).at \notin {"locking", "reading", "writing"}
  BY DEF Run, Free
<1>5. TasksOK'
  <2>1. CASE Minute
    <3>1. \/ tasks' = tasks
          \/ /\ DOMAIN tasks' = DOMAIN tasks
             /\ \A t \in DOMAIN tasks :
                   tasks'[t] = tasks[t] \/ tasks'[t].at \notin {"locking", "reading", "writing"}
      <4>1. CASE Dispatch(minute + 1)
        <5> DEFINE now == minute + 1
                   due == {u \in Users : Due(u, now) /\ IsMarketOpen(now)}
                   slots == CHOOSE f \in [due -> FreeTasks] : \A u, v \in due : u # v => f[u] # f[v]
                   who(t) == CHOOSE u \in due : slots[u] = t
        <5>1. tasks' = [t \in DOMAIN tasks |->
                           IF \E u \in due : slots[u] = t THEN Run(who(t), now, FALSE) ELSE tasks[t]]
          BY <4>1, Zenon DEF Dispatch
        <5> HIDE DEF due, slots, who, now
        <5> QED
          BY <1>4, <5>1
      <4>2. CASE tasks' = tasks
        BY <4>2
      <4> QED
        BY <2>1, <4>1, <4>2 DEF Minute
    <3> QED
      BY <3>1 DEF CollectorInv, TasksOK
  <2>2. CASE CatchUp
    <3> DEFINE first == Run(Head(catching), minute, TRUE)
               slot == Min(FreeTasks)
    <3>1. tasks' = [tasks EXCEPT ![slot] = first]
      BY <2>2 DEF CatchUp
    <3>2. first.at \notin {"locking", "reading", "writing"}
      BY <1>4
    <3> HIDE DEF first, slot
    <3> QED
      BY <3>1, <3>2 DEF CollectorInv, TasksOK
  <2>3. CASE Crash
    BY <2>3 DEF Crash, Free, CollectorInv, TasksOK
  <2>4. CASE StartWorker \/ \E u \in Users : StartCollector(u) \/ StopCollector(u)
    BY <2>4 DEF StartWorker, StartCollector, StopCollector, CollectorInv, TasksOK
  <2> QED
    BY <2>1, <2>2, <2>3, <2>4
<1> QED
  BY <1>1, <1>3, <1>5, QuietStep

LEMMA CollectorInvStep ==
    ASSUME CollectorInv, [CollectorNext]_collectorVars
    PROVE  CollectorInv'
<1>1. CASE \/ Minute \/ StartWorker \/ CatchUp \/ Crash
           \/ \E u \in Users : StartCollector(u) \/ StopCollector(u)
  BY <1>1, SchedulerKeepsInv
<1>2. CASE \E t \in 1 .. MaxTasks : RunStep(t)
  BY <1>2, RunKeepsInv
<1>3. CASE OpenFlush
  <2>1. /\ flush' = [todo |-> Pending, sent |-> {}, refused |-> {}]
        /\ UNCHANGED <<tasks, tableVars, outbox, published>>
    BY <1>3 DEF OpenFlush
  <2>2. Pending' = Pending
    BY <2>1 DEF Pending
  <2>3. FlushOK' /\ TasksOK'
    BY <2>1, <2>2 DEF CollectorInv, FlushOK, TasksOK
  <2> QED
    BY <2>1, <2>3, QuietStep
<1>4. CASE PublishNext
  BY <1>4, PublishKeepsInv
<1>5. CASE CommitFlush
  BY <1>5, CommitKeepsInv
<1>6. CASE FlushFails \/ UNCHANGED collectorVars
  <2>1. /\ UNCHANGED <<tasks, tableVars, outbox, published>> /\ flush' \in {flush, None}
    BY <1>6 DEF FlushFails, collectorVars, tableVars
  <2>2. FlushOK' /\ TasksOK'
    BY <2>1 DEF CollectorInv, FlushOK, TasksOK, Pending
  <2> QED
    BY <2>1, <2>2, QuietStep
<1> QED
  BY <1>1, <1>2, <1>3, <1>4, <1>5, <1>6 DEF CollectorNext

LEMMA CollectorInvInit == CollectorInit => CollectorInv
<1> SUFFICES ASSUME CollectorInit PROVE CollectorInv
  OBVIOUS
<1>1. /\ DOMAIN events = {} /\ DOMAIN outbox = {} /\ DOMAIN snapshots = {} /\ DOMAIN bars = {}
      /\ IsList(events) /\ IsList(outbox)
  BY DEF CollectorInit, IsList
<1>2. TasksOK /\ FlushOK
  BY DEF CollectorInit, TasksOK, FlushOK, Free
<1>3. RowsOK /\ StrikesOK /\ BarKeysOK /\ ListsOK
  BY <1>1 DEF RowsOK, StrikesOK, BarKeysOK, ListsOK
<1>4. CollectionsAreWhole
  BY <1>1 DEF CollectionsAreWhole, PublishedIsCommitted, TablesAgree, SnapshotsAreTold, EventsHaveBars,
              BarsAreNewest
<1> QED
  BY <1>2, <1>3, <1>4 DEF CollectorInv

(* However runs overlap, lose their lock, repeat a bucket, fail or are cut *)
(* off by a crash, and whatever the poller published twice or never        *)
(* marked, the snapshots, their strikes, the bars, the events and the      *)
(* outbox agree (snapshot_service.py save_snapshot, event_bus.py           *)
(* flush_outbox).                                                          *)
THEOREM CollectionsAreAlwaysWhole == CollectorSpec => []CollectionsAreWhole
<1>1. CollectorInit => CollectorInv
  BY CollectorInvInit
<1>2. CollectorInv /\ [CollectorNext]_collectorVars => CollectorInv'
  BY CollectorInvStep
<1>3. CollectorInv => CollectionsAreWhole
  BY DEF CollectorInv
<1> QED
  BY <1>1, <1>2, <1>3, PTL DEF CollectorSpec
-----------------------------------------------------------------------------
(* What readers rest on: numbers by their rank.                            *)
LEMMA RankIsPlace ==
    ASSUME NEW S \in SUBSET Int, IsFiniteSet(S), NEW x \in S
    PROVE  /\ Rank(S, x) \in 0 .. Cardinality(S) - 1
           /\ \A y \in S : x < y => Rank(S, x) < Rank(S, y)
<1> DEFINE Below(z) == {y \in S : y < z}
<1>1. \A z : IsFiniteSet(Below(z)) /\ Cardinality(Below(z)) \in Nat
  BY FS_Subset, FS_CardinalityType
<1>2. Cardinality(S) \in Nat /\ Cardinality(S \ {x}) = Cardinality(S) - 1 /\ IsFiniteSet(S \ {x})
  BY FS_RemoveElement, FS_CardinalityType
<1> \A y \in S : y \in Int
  OBVIOUS
<1>3. Below(x) \in SUBSET (S \ {x})
  OBVIOUS
<1>4. Cardinality(Below(x)) <= Cardinality(S) - 1
  <2> HIDE DEF Below
  <2> QED
    BY <1>2, <1>3, FS_Subset
<1>5. ASSUME NEW y \in S, x < y
      PROVE  Cardinality(Below(x)) < Cardinality(Below(y))
  <2>1. x \notin Below(x) /\ Below(x) \cup {x} \in SUBSET Below(y)
    <3>1. \A z \in Below(x) : z \in S /\ z < y
      BY <1>5
    <3>2. x \in Below(y) /\ x \notin Below(x)
      BY <1>5
    <3> QED
      BY <3>1, <3>2
  <2> HIDE DEF Below
  <2>2. Cardinality(Below(x) \cup {x}) = Cardinality(Below(x)) + 1
    BY <1>1, <2>1, FS_AddElement
  <2>3. Cardinality(Below(x) \cup {x}) <= Cardinality(Below(y))
    BY <1>1, <2>1, FS_Subset
  <2> QED
    BY <1>1, <2>2, <2>3
<1>6. \A z : Rank(S, z) = Cardinality(Below(z))
  BY DEF Rank
<1>7. Cardinality(Below(x)) \in 0 .. Cardinality(S) - 1
  <2> HIDE DEF Below
  <2> QED
    BY <1>1, <1>2, <1>4
<1> HIDE DEF Below
<1> QED
  BY <1>5, <1>6, <1>7

LEMMA RankIsTaken ==
    ASSUME NEW S \in SUBSET Int, IsFiniteSet(S), NEW k \in 0 .. Cardinality(S) - 1
    PROVE  \E x \in S : Rank(S, x) = k
<1> DEFINE places == 0 .. Cardinality(S) - 1
           place == [x \in S |-> Rank(S, x)]
<1>1. Cardinality(S) \in Nat
  BY FS_CardinalityType
<1>2. IsFiniteSet(places) /\ Cardinality(places) = Cardinality(S)
  BY <1>1, FS_Interval
<1>3. place \in Injection(S, places)
  <2>1. place \in [S -> places]
    BY RankIsPlace
  <2>2. ASSUME NEW x \in S, NEW y \in S, place[x] = place[y] PROVE x = y
    <3>1. x \in Int /\ y \in Int /\ Rank(S, x) \in Int /\ Rank(S, y) \in Int
      BY RankIsPlace
    <3>2. (x < y => Rank(S, x) < Rank(S, y)) /\ (y < x => Rank(S, y) < Rank(S, x))
      BY RankIsPlace
    <3> QED
      BY <2>2, <3>1, <3>2
  <2> QED
    BY <2>1, <2>2 DEF Injection, IsInjective
<1>4. place \in Surjection(S, places)
  BY <1>2, <1>3, FS_Injection
<1> QED
  BY <1>4 DEF Surjection

(* A finite set of numbers in order: each of them once, ever higher.       *)
LEMMA InOrderIs ==
    ASSUME NEW S \in SUBSET Int, IsFiniteSet(S)
    PROVE  /\ Cardinality(S) \in Nat /\ DOMAIN InOrder(S) = 1 .. Cardinality(S)
           /\ \A i \in DOMAIN InOrder(S) : InOrder(S)[i] \in S
           /\ \A i, j \in DOMAIN InOrder(S) : i < j => InOrder(S)[i] < InOrder(S)[j]
           /\ \A x \in S : \E i \in DOMAIN InOrder(S) : InOrder(S)[i] = x
<1> DEFINE n == Cardinality(S)
           q == InOrder(S)
<1>1. n \in Nat
  BY FS_CardinalityType
<1>2. DOMAIN q = 1 .. n
  BY DEF InOrder
<1>3. ASSUME NEW i \in 1 .. n
      PROVE  q[i] \in S /\ Rank(S, q[i]) = i - 1
  <2>1. i - 1 \in 0 .. n - 1
    BY <1>1
  <2>2. \E x \in S : Rank(S, x) = i - 1
    BY <2>1, RankIsTaken
  <2>3. q[i] = CHOOSE x \in S : Rank(S, x) = i - 1
    BY DEF InOrder
  <2> QED
    BY <2>2, <2>3
<1> HIDE DEF n, q
<1>4. \A x \in S, y \in S : x < y => Rank(S, x) < Rank(S, y)
  BY RankIsPlace
<1>5. \A x \in S : Rank(S, x) \in 0 .. n - 1
  BY RankIsPlace DEF n
<1>6. ASSUME NEW i \in 1 .. n, NEW j \in 1 .. n, i < j
      PROVE  q[i] < q[j]
  <2>1. /\ q[i] \in S /\ q[j] \in S /\ q[i] \in Int /\ q[j] \in Int
        /\ Rank(S, q[i]) = i - 1 /\ Rank(S, q[j]) = j - 1
    BY <1>3
  <2>2. ~(q[j] < q[i])
    <3> SUFFICES ASSUME q[j] < q[i] PROVE FALSE
      OBVIOUS
    <3>1. j - 1 < i - 1
      BY <1>4, <2>1
    <3> QED
      BY <1>1, <1>6, <3>1
  <2>3. q[i] # q[j]
    <3>1. i - 1 # j - 1
      BY <1>6
    <3> QED
      BY <2>1, <3>1
  <2> QED
    BY <2>1, <2>2, <2>3
<1>7. ASSUME NEW x \in S
      PROVE  \E i \in 1 .. n : q[i] = x
  <2> DEFINE i == Rank(S, x) + 1
  <2>1. i \in 1 .. n /\ Rank(S, x) = i - 1 /\ Rank(S, x) \in Int
    BY <1>1, <1>5
  <2>2. q[i] \in S /\ Rank(S, q[i]) = Rank(S, x)
    <3> HIDE DEF i
    <3> QED
      BY <1>3, <2>1
  <2>3. x \in Int /\ q[i] \in Int
    BY <2>2
  <2> HIDE DEF i
  <2>4. ~(q[i] < x) /\ ~(x < q[i])
    <3>1. Rank(S, x) \in Int /\ Rank(S, q[i]) \in Int
      BY <2>1, <2>2
    <3> QED
      BY <1>4, <2>2, <3>1
  <2> QED
    BY <2>1, <2>3, <2>4
<1> QED
  BY <1>1, <1>2, <1>3, <1>6, <1>7 DEF n, q
-----------------------------------------------------------------------------
Figures == Int \cup {None}

\* Strikes with their open interest, there or None.
AreStrikes(f) == \A s \in DOMAIN f : \A side \in OptionSides : f[s][side].oi \in Figures

IsRow(row) ==
    /\ {"spot", "call", "put", "strikes"} \subseteq DOMAIN row
    /\ row.spot \in Figures /\ row.call \in Int /\ row.put \in Int
    /\ DOMAIN row.strikes \in SUBSET Int /\ IsFiniteSet(DOMAIN row.strikes)
    /\ AreStrikes(row.strikes)

SnapshotsOK ==
    /\ IsFiniteSet(DOMAIN snapshots)
    /\ \A key \in DOMAIN snapshots :
          key = <<key[1], key[2]>> /\ key[2] \in Nat /\ IsRow(snapshots[key])

RunsOK ==
    /\ minute \in Nat
    /\ \A t \in 1 .. MaxTasks :
          /\ tasks[t].at # "free" => "bucket" \in DOMAIN tasks[t] /\ tasks[t].bucket \in Nat
          /\ tasks[t].at = "writing" => AreStrikes(tasks[t].prior)

ReadersInv == SnapshotsOK /\ RunsOK /\ SummaryIsSomeones

(* The snapshots of a user, in the order of their times.                   *)
LEMMA RowsAre ==
    ASSUME SnapshotsOK, NEW u
    PROVE  /\ Len(Rows(u)) \in Nat /\ DOMAIN Rows(u) = 1 .. Len(Rows(u))
           /\ \A i \in 1 .. Len(Rows(u)) : Rows(u)[i].ts \in Nat /\ IsRow(Rows(u)[i])
           /\ \A i, j \in 1 .. Len(Rows(u)) : i < j => Rows(u)[i].ts < Rows(u)[j].ts
<1> DEFINE mine == {k \in DOMAIN snapshots : k[1] = u}
           second == [k \in mine |-> k[2]]
           buckets == {k[2] : k \in mine}
           order == InOrder(buckets)
           rows == Rows(u)
<1>1. buckets \in SUBSET Int /\ \A b \in buckets : b \in Nat /\ <<u, b>> \in DOMAIN snapshots
  BY DEF SnapshotsOK
<1>2. IsFiniteSet(buckets)
  <2>1. IsFiniteSet(mine)
    BY FS_Subset DEF SnapshotsOK
  <2>2. IsFiniteSet({second[k] : k \in DOMAIN second})
    <3>1. DOMAIN second = mine
      OBVIOUS
    <3> HIDE DEF second, mine
    <3> QED
      BY <2>1, <3>1, RangeIsFinite
  <2>3. {second[k] : k \in DOMAIN second} = buckets
    OBVIOUS
  <2> QED
    BY <2>2, <2>3
<1>3. rows = [i \in DOMAIN order |-> Upserted([ts |-> order[i]], snapshots[<<u, order[i]>>])]
  BY DEF Rows
<1> HIDE DEF mine, second, buckets, rows
<1>4. /\ Cardinality(buckets) \in Nat /\ DOMAIN order = 1 .. Cardinality(buckets)
      /\ \A i \in DOMAIN order : order[i] \in buckets
      /\ \A i, j \in DOMAIN order : i < j => order[i] < order[j]
  BY <1>1, <1>2, InOrderIs
<1> HIDE DEF order
<1>5. DOMAIN rows = 1 .. Cardinality(buckets) /\ Len(rows) = Cardinality(buckets)
  BY <1>3, <1>4
<1>6. ASSUME NEW i \in DOMAIN order
      PROVE  rows[i].ts = order[i] /\ order[i] \in Nat /\ IsRow(rows[i])
  <2> DEFINE time == [ts |-> order[i]]
             row == snapshots[<<u, order[i]>>]
  <2>1. rows[i] = Upserted(time, row) /\ DOMAIN time = {"ts"} /\ time.ts = order[i]
    BY <1>3
  <2>2. order[i] \in Nat /\ <<u, order[i]>> \in DOMAIN snapshots
    BY <1>1, <1>4
  <2>3. IsRow(row)
    BY <2>2 DEF SnapshotsOK
  <2> HIDE DEF time, row
  <2>4. ReadsFirst(rows[i], time, row)
    BY <2>1, UpsertedOf
  <2>5. DOMAIN row \subseteq DOMAIN rows[i] /\ rows[i].ts = order[i]
    BY <2>1, <2>4 DEF ReadsFirst
  <2>6. rows[i].spot = row.spot /\ rows[i].call = row.call /\ rows[i].put = row.put /\ rows[i].strikes = row.strikes
    BY <2>1, <2>3, <2>4 DEF ReadsFirst, IsRow
  <2> QED
    BY <2>2, <2>3, <2>5, <2>6 DEF IsRow
<1> QED
  BY <1>4, <1>5, <1>6 DEF rows

LEMMA NoRows ==
    ASSUME SnapshotsOK, NEW u, Len(Rows(u)) = 0
    PROVE  Rows(u) = <<>>
<1>1. DOMAIN Rows(u) = {}
  BY RowsAre
<1>2. Rows(u) = [i \in DOMAIN Rows(u) |-> Rows(u)[i]]
  BY DEF Rows
<1> QED
  BY <1>1, <1>2
-----------------------------------------------------------------------------
LEMMA TrendAgrees ==
    ASSUME SnapshotsOK
    PROVE  TrendFollowsTotals
<1> SUFFICES ASSUME NEW u \in Users, NEW i \in DOMAIN TrendingOi(u),
                    TrendingOi(u)[i].callChange # None
             PROVE  /\ i > 1
                    /\ TrendingOi(u)[i].call = TrendingOi(u)[i - 1].call + TrendingOi(u)[i].callChange
  BY DEF TrendFollowsTotals
<1> DEFINE rows == Rows(u)
           shown == TrendingOi(u)
<1>1. /\ DOMAIN shown = DOMAIN rows
      /\ \A j \in DOMAIN rows : shown[j].call = rows[j].call
      /\ shown[i].callChange = IF i = 1 THEN None ELSE ShownChange(rows[i].call, rows[i - 1].call)
  BY DEF TrendingOi
<1>2. /\ Len(rows) \in Nat /\ DOMAIN rows = 1 .. Len(rows)
      /\ \A j \in 1 .. Len(rows) : IsRow(rows[j])
  BY RowsAre
<1> HIDE DEF rows, shown
<1>3. i \in 2 .. Len(rows) /\ i - 1 \in DOMAIN rows
  BY <1>1, <1>2 DEF shown
<1>4. rows[i].call \in Int /\ rows[i - 1].call \in Int
  BY <1>2, <1>3 DEF IsRow
<1>5. shown[i].callChange = rows[i].call - rows[i - 1].call
  BY <1>1, <1>3 DEF ShownChange, shown
<1> QED
  BY <1>1, <1>2, <1>3, <1>4, <1>5 DEF shown

(* A floor of whole frames.                                                *)
LEMMA FloorIs ==
    ASSUME NEW n \in Int, NEW frame \in Nat \ {0}, NEW k \in Int
    PROVE  /\ (n \div frame) * frame \in Int
           /\ (n \div frame) * frame <= n /\ n < (n \div frame) * frame + frame
           /\ ((n - frame * k) \div frame) * frame = (n \div frame) * frame - frame * k
<1>1. \A x \in Int : /\ x \div frame \in Int /\ x % frame \in 0 .. frame - 1
                     /\ x = frame * (x \div frame) + (x % frame)
  OBVIOUS
<1> DEFINE a == n \div frame
           b == (n - frame * k) \div frame
<1>2. frame * k \in Int /\ n - frame * k \in Int
  OBVIOUS
<1>3. /\ a \in Int /\ frame * a <= n /\ n < frame * a + frame
      /\ b \in Int /\ frame * b <= n - frame * k /\ n - frame * k < frame * b + frame
  <2>1. n % frame \in 0 .. frame - 1 /\ (n - frame * k) % frame \in 0 .. frame - 1
    BY <1>1, <1>2
  <2>2. n = frame * a + (n % frame) /\ n - frame * k = frame * b + ((n - frame * k) % frame)
    BY <1>1, <1>2
  <2>3. a \in Int /\ b \in Int
    BY <1>1, <1>2
  <2> HIDE DEF a, b
  <2>4. frame * a \in Int /\ frame * b \in Int
    BY <2>3
  <2> QED
    BY <1>2, <2>1, <2>2, <2>3, <2>4
<1> HIDE DEF a, b
<1>4. a * frame = frame * a /\ b * frame = frame * b /\ frame * a \in Int /\ frame * b \in Int
  BY <1>3
<1>5. b = a - k
  <2> DEFINE d == a - k - b
  <2>1. d \in Int /\ frame * d = frame * a - frame * k - frame * b
    BY <1>3
  <2>2. frame * d < frame /\ -frame < frame * d
    BY <1>2, <1>3, <1>4, <2>1
  <2> HIDE DEF d
  <2>3. d = 0
    <3>1. CASE d >= 1
      <4>1. frame * d >= frame
        BY <2>1, <3>1
      <4> QED
        BY <2>1, <2>2, <4>1
    <3>2. CASE d <= -1
      <4>1. frame * d <= -frame
        <5>1. PICK e \in Nat : d = -1 - e
          BY <2>1, <3>2
        <5>2. frame * d = -frame - frame * e /\ frame * e >= 0
          BY <5>1
        <5> QED
          BY <5>2
      <4> QED
        BY <2>1, <2>2, <4>1
    <3> QED
      BY <2>1, <3>1, <3>2
  <2> QED
    BY <1>3, <2>3 DEF d
<1>6. b * frame = frame * a - frame * k
  BY <1>3, <1>4, <1>5
<1> QED
  BY <1>3, <1>4, <1>6 DEF a, b

(* Floors in UTC and in a zone whole half-hours ahead.                     *)
LEMMA GridsAreOne == GridsAgree
<1> SUFFICES ASSUME NEW frame \in {1, 5, 15, 30}, NEW m \in 0 .. 1439
             PROVE  BucketStart(m, frame) = (m \div frame) * frame
  BY DEF GridsAgree
<1>1. PICK h \in Int : UtcOffset = 30 * h
  <2>1. UtcOffset \in Int /\ UtcOffset % 30 = 0
    BY ReaderAssumption
  <2> QED
    BY <2>1
<1>2. PICK k \in Int : UtcOffset = frame * k
  <2>1. CASE frame = 1
    BY <1>1, <2>1
  <2>2. CASE frame = 5
    <3>1. 6 * h \in Int /\ UtcOffset = 5 * (6 * h)
      BY <1>1
    <3> QED
      BY <2>2, <3>1
  <2>3. CASE frame = 15
    <3>1. 2 * h \in Int /\ UtcOffset = 15 * (2 * h)
      BY <1>1
    <3> QED
      BY <2>3, <3>1
  <2>4. CASE frame = 30
    BY <1>1, <2>4
  <2> QED
    BY <2>1, <2>2, <2>3, <2>4
<1>3. ((m - frame * k) \div frame) * frame = (m \div frame) * frame - frame * k
  BY FloorIs
<1>4. (m \div frame) * frame \in Int /\ frame * k \in Int
  OBVIOUS
<1> QED
  BY <1>2, <1>3, <1>4 DEF BucketStart

(* Of two times the later is not in an earlier bucket.                     *)
LEMMA BucketsFollow ==
    ASSUME NEW frame \in Timeframes, NEW m \in Int, NEW n \in Int, m <= n
    PROVE  /\ BucketStart(m, frame) \in Int /\ BucketStart(n, frame) \in Int
           /\ BucketStart(m, frame) <= BucketStart(n, frame)
<1>1. frame \in Nat \ {0} /\ UtcOffset \in Int
  BY ReaderAssumption
<1> DEFINE x == m - UtcOffset
           y == n - UtcOffset
           a == x \div frame
           b == y \div frame
<1>2. x \in Int /\ y \in Int /\ x <= y
  BY <1>1
<1>3. /\ a \in Int /\ b \in Int
      /\ frame * a <= x /\ y < frame * b + frame
  <2> HIDE DEF x, y
  <2>1. \A z \in Int : /\ z \div frame \in Int /\ z % frame \in 0 .. frame - 1
                       /\ z = frame * (z \div frame) + (z % frame)
    BY <1>1
  <2> QED
    BY <1>1, <1>2, <2>1
<1> HIDE DEF x, y, a, b
<1>4. a <= b
  <2> SUFFICES ASSUME b + 1 <= a PROVE FALSE
    BY <1>3
  <2>1. PICK e \in Nat : a = b + 1 + e
    BY <1>3
  <2>2. frame * a = frame * b + frame + frame * e /\ frame * e >= 0 /\ frame * b \in Int /\ frame * e \in Int
    BY <1>1, <1>3, <2>1
  <2> QED
    BY <1>1, <1>2, <1>3, <2>2
<1>5. PICK e \in Nat : b = a + e
  BY <1>3, <1>4
<1>6. b * frame = a * frame + frame * e /\ frame * e \in Nat /\ a * frame \in Int
  BY <1>1, <1>3, <1>5
<1> QED
  BY <1>1, <1>6 DEF BucketStart, x, y, a, b


(* The strikes that are nearest to the spot lie next to each other.        *)
LEMMA NearestAre ==
    ASSUME NEW S \in SUBSET Int, IsFiniteSet(S), S # {}, NEW spot \in Int
    PROVE  LET near == NearestStrikes(S, spot)
           IN  /\ near # {} /\ near \in SUBSET S /\ Min(near) \in near
               /\ \A s \in near : Rank(S, s) - Rank(S, Min(near)) \in 0 .. 1
<1> DEFINE near == NearestStrikes(S, spot)
           far == [s \in S |-> Distance(s, spot)]
           least == Min({far[s] : s \in DOMAIN far})
<1>1. \A s \in S : s \in Int /\ Distance(s, spot) \in Nat
  BY DEF Distance
<1>2. near # {}
  <2>1. {far[s] : s \in DOMAIN far} \in SUBSET Int /\ {far[s] : s \in DOMAIN far} # {}
    <3>1. PICK s \in S : TRUE
      OBVIOUS
    <3>2. far[s] \in {far[x] : x \in DOMAIN far}
      OBVIOUS
    <3>3. \A x \in DOMAIN far : far[x] \in Int
      BY <1>1
    <3> HIDE DEF far
    <3> QED
      BY <3>2, <3>3
  <2>2. IsFiniteSet({far[s] : s \in DOMAIN far})
    <3>1. IsFiniteSet(DOMAIN far)
      OBVIOUS
    <3> HIDE DEF far
    <3> QED
      BY <3>1, RangeIsFinite
  <2>3. /\ least \in {far[s] : s \in DOMAIN far}
        /\ \A x \in {far[s] : s \in DOMAIN far} : least <= x
    BY <2>1, <2>2, MinOfNumbers
  <2>4. PICK s \in S : far[s] = least
    <3> HIDE DEF least
    <3> QED
      BY <2>3
  <2>5. \A x \in S : Distance(s, spot) <= Distance(x, spot)
    <3> HIDE DEF least
    <3> QED
      BY <2>3, <2>4
  <2> QED
    BY <2>5 DEF NearestStrikes
<1>3. near \in SUBSET S /\ near \in SUBSET Int /\ IsFiniteSet(near)
  <2>1. near \in SUBSET S
    BY DEF NearestStrikes
  <2> QED
    BY <2>1, FS_Subset
<1>4. Min(near) \in near /\ \A s \in near : Min(near) <= s
  <2> HIDE DEF near
  <2> QED
    BY <1>2, <1>3, MinOfNumbers
<1> DEFINE low == Min(near)
<1>5. ASSUME NEW s \in near
      PROVE  Rank(S, s) - Rank(S, low) \in 0 .. 1
  <2>1. low \in S /\ s \in S /\ low \in Int /\ s \in Int /\ low <= s
    BY <1>3, <1>4
  <2>2. \A x \in S : Distance(low, spot) <= Distance(x, spot) /\ Distance(s, spot) <= Distance(x, spot)
    BY <1>4 DEF NearestStrikes
  <2> HIDE DEF near, low
  <2>3. \A x \in S : ~(low < x /\ x < s)
    BY <1>1, <2>1, <2>2 DEF Distance
  <2>4. CASE low = s
    <3>1. Rank(S, s) \in Int
      BY <2>1, RankIsPlace
    <3> QED
      BY <2>4, <3>1
  <2>5. CASE low < s
    <3>1. {y \in S : y < s} = {y \in S : y < low} \cup {low}
      <4>1. \A y \in S : y < s <=> (y < low \/ y = low)
        BY <1>1, <2>1, <2>3, <2>5
      <4> QED
        BY <2>1, <4>1
    <3>2. IsFiniteSet({y \in S : y < low}) /\ low \notin {y \in S : y < low}
      BY <2>1, FS_Subset
    <3>3. Rank(S, s) = Rank(S, low) + 1 /\ Rank(S, low) \in Int
      BY <2>1, <3>1, <3>2, FS_AddElement, RankIsPlace DEF Rank
    <3> QED
      BY <3>3
  <2> QED
    BY <2>1, <2>4, <2>5
<1> QED
  BY <1>2, <1>3, <1>4, <1>5

LEMMA TwoOrThree ==
    ASSUME NEW x, NEW y, x # y
    PROVE  /\ Cardinality({x, y}) = 2
           /\ \A z : z # x /\ z # y => Cardinality({x, y} \cup {z}) = 3
<1>1. IsFiniteSet({x}) /\ Cardinality({x}) = 1
  BY FS_Singleton
<1>2. {x, y} = {x} \cup {y} /\ y \notin {x}
  OBVIOUS
<1>3. IsFiniteSet({x} \cup {y}) /\ Cardinality({x} \cup {y}) = 2
  <2>1. Cardinality({x} \cup {y}) = IF y \in {x} THEN Cardinality({x}) ELSE Cardinality({x}) + 1
    BY <1>1, FS_AddElement
  <2>2. IsFiniteSet({x} \cup {y})
    BY <1>1, FS_AddElement
  <2> QED
    BY <1>1, <1>2, <2>1, <2>2
<1>4. IsFiniteSet({x, y}) /\ Cardinality({x, y}) = 2
  BY <1>2, <1>3
<1>5. ASSUME NEW z, z # x, z # y
      PROVE  Cardinality({x, y} \cup {z}) = 3
  <2> DEFINE both == {x, y}
  <2>1. z \notin both
    BY <1>5
  <2> HIDE DEF both
  <2>2. Cardinality(both \cup {z}) = IF z \in both THEN Cardinality(both) ELSE Cardinality(both) + 1
    BY <1>4, FS_AddElement DEF both
  <2> QED
    BY <1>4, <2>1, <2>2 DEF both
<1> QED
  BY <1>4, <1>5

(* Between two numbers a set misses there are as many as their ranks say.  *)
LEMMA WindowHolds ==
    ASSUME NEW S \in SUBSET Int, IsFiniteSet(S), NEW near \in S, NEW n \in 1 .. 2,
           NEW W, W = {s \in S : Distance(Rank(S, s), Rank(S, near)) <= n},
           NEW s \in S \ W
    PROVE  /\ Cardinality(W) > n
           /\ ~\E low, high \in W : low < s /\ s < high
<1> DEFINE N == Cardinality(S)
           r == Rank(S, near)
           p == Rank(S, s)
<1>1. /\ N \in Nat /\ r \in 0 .. N - 1 /\ p \in 0 .. N - 1
      /\ \A x \in S : Rank(S, x) \in 0 .. N - 1
  BY RankIsPlace, FS_CardinalityType
<1>2. IsFiniteSet(W) /\ Cardinality(W) \in Nat
  <2>1. W \in SUBSET S
    OBVIOUS
  <2> QED
    BY <2>1, FS_Subset, FS_CardinalityType
<1> HIDE DEF N, r, p
<1>3. /\ \A x \in S : x \in W <=> Rank(S, x) - r \in (-n) .. n
      /\ p - r \notin (-n) .. n
  <2>1. \A x \in S : x \in W <=> Distance(Rank(S, x), r) <= n
    BY DEF r
  <2>2. \A x \in S : Distance(Rank(S, x), r) <= n <=> Rank(S, x) - r \in (-n) .. n
    BY <1>1 DEF Distance
  <2> QED
    BY <2>1, <2>2 DEF p
<1>4. ~\E low, high \in W : low < s /\ s < high
  <2> SUFFICES ASSUME NEW low \in W, NEW high \in W, low < s, s < high PROVE FALSE
    OBVIOUS
  <2>1. Rank(S, low) < p /\ p < Rank(S, high)
    BY RankIsPlace DEF p
  <2>2. Rank(S, low) - r \in (-n) .. n /\ Rank(S, high) - r \in (-n) .. n
    BY <1>3
  <2> QED
    BY <1>1, <1>3, <2>1, <2>2
<1>5. Cardinality(W) > n
  <2> DEFINE step == IF p > r THEN 1 ELSE -1
  <2>1. /\ step \in {1, -1} /\ r + step \in 0 .. N - 1
        /\ n = 2 => r + step + step \in 0 .. N - 1
    BY <1>1, <1>3
  <2> HIDE DEF step
  <2>2. PICK x \in S : Rank(S, x) = r + step
    BY <2>1, RankIsTaken DEF N
  <2>3. near \in W /\ x \in W /\ near # x
    BY <1>1, <1>3, <2>1, <2>2 DEF r
  <2>4. CASE n = 1
    <3>1. Cardinality({near, x}) = 2
      BY <2>3, TwoOrThree
    <3>2. {near, x} \in SUBSET W
      BY <2>3
    <3> QED
      BY <1>2, <2>4, <3>1, <3>2, FS_Subset
  <2>5. CASE n = 2
    <3>1. PICK y \in S : Rank(S, y) = r + step + step
      BY <2>1, <2>5, RankIsTaken DEF N
    <3>2. y \in W /\ y # x /\ y # near
      BY <1>1, <1>3, <2>1, <2>2, <2>5, <3>1 DEF r
    <3>3. Cardinality({near, x} \cup {y}) = 3
      <4>1. \A z : z # near /\ z # x => Cardinality({near, x} \cup {z}) = 3
        BY <2>3, TwoOrThree
      <4> QED
        BY <3>2, <4>1
    <3>4. {near, x} \cup {y} \in SUBSET W
      BY <2>3, <3>2
    <3> QED
      BY <1>2, <2>5, <3>3, <3>4, FS_Subset
  <2> QED
    BY <2>4, <2>5
<1> QED
  BY <1>4, <1>5

LEMMA WindowsAgree ==
    ASSUME SnapshotsOK
    PROVE  WindowsNest
<1> SUFFICES ASSUME NEW u \in Users, LatestSnapshot(u) # None, NEW n \in 1 .. 2
             PROVE  LET row == LatestSnapshot(u)
                        window == StrikeOi(row, n)
                    IN  /\ window \subseteq StrikeOi(row, n + 1)
                        /\ row.spot # None => NearestStrikes(DOMAIN row.strikes, row.spot) \subseteq window
                        /\ \A s \in DOMAIN row.strikes \ window :
                              Cardinality(window) > n /\ ~\E low, high \in window : low < s /\ s < high
  BY DEF WindowsNest
<1> DEFINE row == LatestSnapshot(u)
           S == DOMAIN row.strikes
<1>1. IsRow(row)
  <2>1. /\ Len(Rows(u)) \in Nat /\ DOMAIN Rows(u) = 1 .. Len(Rows(u))
        /\ \A i \in 1 .. Len(Rows(u)) : IsRow(Rows(u)[i])
    BY RowsAre
  <2>2. Rows(u) # <<>> /\ row = Rows(u)[Len(Rows(u))]
    BY DEF LatestSnapshot, Last
  <2>3. Len(Rows(u)) # 0
    BY <2>2, NoRows
  <2> QED
    BY <2>1, <2>2, <2>3
<1> HIDE DEF row
<1>2. S \in SUBSET Int /\ IsFiniteSet(S) /\ row.spot \in Int \cup {None}
  BY <1>1 DEF IsRow, Figures
<1>3. CASE row.spot \in {None, 0} \/ S = {}
  <2>1. StrikeOi(row, n) = S /\ StrikeOi(row, n + 1) = S
    BY <1>3 DEF StrikeOi
  <2>2. NearestStrikes(S, row.spot) \subseteq S
    BY DEF NearestStrikes
  <2> QED
    BY <2>1, <2>2 DEF row
<1>4. CASE row.spot \notin {None, 0} /\ S # {}
  <2> DEFINE near == NearestStrikes(S, row.spot)
             window(k) == {s \in S : Distance(Rank(S, s), Rank(S, Min(near))) <= k}
  <2>1. row.spot \in Int
    BY <1>2, <1>4
  <2>2. StrikeOi(row, n) = window(n) /\ StrikeOi(row, n + 1) = window(n + 1)
    <3>1. n # 0 /\ n + 1 # 0
      OBVIOUS
    <3> QED
      BY <1>4, <3>1 DEF StrikeOi
  <2>3. /\ near # {} /\ near \in SUBSET S /\ Min(near) \in near
        /\ \A s \in near : Rank(S, s) - Rank(S, Min(near)) \in 0 .. 1
    BY <1>2, <1>4, <2>1, NearestAre
  <2> HIDE DEF near, S
  <2>4. \A s \in S : Rank(S, s) \in Int
    BY <1>2, RankIsPlace
  <2>5. window(n) \subseteq window(n + 1)
    BY <2>3, <2>4 DEF Distance
  <2>6. near \subseteq window(n)
    BY <2>3, <2>4 DEF Distance
  <2>7. \A s \in S \ window(n) :
           Cardinality(window(n)) > n /\ ~\E low, high \in window(n) : low < s /\ s < high
    <3> DEFINE W == window(n)
               middle == Min(near)
    <3>1. W = {s \in S : Distance(Rank(S, s), Rank(S, middle)) <= n} /\ middle \in S
      BY <2>3
    <3> HIDE DEF window, W, middle
    <3>2. \A s \in S \ W : Cardinality(W) > n /\ ~\E low, high \in W : low < s /\ s < high
      BY <1>2, <3>1, WindowHolds
    <3> QED
      BY <3>2 DEF W
  <2> HIDE DEF window
  <2> QED
    BY <2>2, <2>5, <2>6, <2>7 DEF row, S, near
<1> QED
  BY <1>3, <1>4
-----------------------------------------------------------------------------
AggregateFields == {"start", "openOi", "closeOi", "high", "low", "openLtp", "closeLtp", "oiChange",
                    "ltpChange", "points"}

\* What one bucket's points come to, when each has its open interest.
LEMMA AggregateIs ==
    ASSUME NEW p, NEW frame, DOMAIN p \in SUBSET Int, IsFiniteSet(DOMAIN p), DOMAIN p # {},
           \A i \in DOMAIN p : p[i].oi \in Int
    PROVE  LET first == Min(DOMAIN p)
               last == Max(DOMAIN p)
               agg == AggregatePoints(p, frame)
           IN  /\ first \in DOMAIN p /\ last \in DOMAIN p
               /\ \A i \in DOMAIN p : first <= i /\ i <= last
               /\ DOMAIN agg = AggregateFields
               /\ agg.start = BucketStart(p[first].ts, frame) /\ agg.points = Cardinality(DOMAIN p)
               /\ agg.openOi = p[first].oi /\ agg.closeOi = p[last].oi
               /\ agg.oiChange = p[last].oi - p[first].oi
               /\ \A i \in DOMAIN p : Inside(agg.low, p[i].oi, agg.high)
<1> DEFINE W == DOMAIN p
           first == Min(W)
           last == Max(W)
           V == {p[i].oi : i \in W}
           oi == [i \in W |-> p[i].oi]
           agg == AggregatePoints(p, frame)
<1>1. /\ first \in W /\ last \in W
      /\ \A i \in W : first <= i /\ i <= last
  <2> HIDE DEF W
  <2> QED
    BY MinOfNumbers, MaxOfNumbers DEF W
<1>2. None \notin Int
  BY ReaderAssumption
<1>3. Given(p, "oi") = W
  BY <1>2 DEF Given
<1>4. FirstGiven(p, "oi") = p[first].oi /\ LastGiven(p, "oi") = p[last].oi
  BY <1>3 DEF FirstGiven, LastGiven
<1>5. Values(p, "oi") = V
  BY <1>3 DEF Values
<1>6. V \in SUBSET Int /\ V # {} /\ IsFiniteSet(V)
  <2>1. V = {oi[i] : i \in DOMAIN oi}
    OBVIOUS
  <2>2. IsFiniteSet({oi[i] : i \in DOMAIN oi})
    <3>1. IsFiniteSet(DOMAIN oi)
      OBVIOUS
    <3> HIDE DEF oi
    <3> QED
      BY <3>1, RangeIsFinite
  <2>3. p[first].oi \in V /\ V \in SUBSET Int
    BY <1>1
  <2> QED
    BY <2>1, <2>2, <2>3
<1>7. Highest(p, "oi") = Max(V) /\ Lowest(p, "oi") = Min(V)
  BY <1>5, <1>6 DEF Highest, Lowest
<1>8. \A v \in V : Min(V) <= v /\ v <= Max(V)
  BY <1>6, MinOfNumbers, MaxOfNumbers
<1>9. LtpChange(p[last].oi, p[first].oi) = p[last].oi - p[first].oi
  BY <1>1, <1>2 DEF LtpChange
<1>10. /\ DOMAIN agg = AggregateFields
       /\ agg.start = BucketStart(p[first].ts, frame) /\ agg.points = Cardinality(W)
       /\ agg.openOi = FirstGiven(p, "oi") /\ agg.closeOi = LastGiven(p, "oi")
       /\ agg.oiChange = LtpChange(LastGiven(p, "oi"), FirstGiven(p, "oi"))
       /\ agg.high = Highest(p, "oi") /\ agg.low = Lowest(p, "oi")
  BY DEF AggregatePoints, AggregateFields
<1> HIDE DEF V, oi, agg, first, last
<1>11. ASSUME NEW i \in W PROVE Inside(agg.low, p[i].oi, agg.high)
  <2>1. p[i].oi \in V
    BY DEF V
  <2> QED
    BY <1>7, <1>8, <1>10, <2>1 DEF Inside
<1> QED
  BY <1>1, <1>4, <1>9, <1>10, <1>11 DEF first, last, agg

WithinBucket(rows, frame, b) == {i \in DOMAIN rows : BucketStart(rows[i].ts, frame) = b}

OiAtRow(row) == row.call + row.put

IsBar(bar, rows, W, b) ==
    LET first == Min(W)
        last == Max(W)
    IN  /\ W \in SUBSET DOMAIN rows /\ IsFiniteSet(W) /\ first \in W /\ last \in W
        /\ \A i \in W : first <= i /\ i <= last
        /\ bar.start = b /\ bar.points = Cardinality(W)
        /\ bar.openOi = OiAtRow(rows[first]) /\ bar.closeOi = OiAtRow(rows[last])
        /\ bar.oiChange = OiAtRow(rows[last]) - OiAtRow(rows[first])
        /\ Inside(bar.low, bar.openOi, bar.high) /\ Inside(bar.low, bar.closeOi, bar.high)
        /\ bar.call = rows[last].call /\ bar.put = rows[last].put
        /\ bar.callChange # None /\ bar.putChange # None =>
              /\ W \ {last} # {}
              /\ bar.callChange = rows[last].call - rows[Max(W \ {last})].call
              /\ bar.putChange = rows[last].put - rows[Max(W \ {last})].put

\* A bar is of the snapshots of its bucket.
LEMMA BarIs ==
    ASSUME SnapshotsOK, NEW u, NEW frame \in Timeframes, NEW b \in DOMAIN OiHistoryBars(u, frame)
    PROVE  IsBar(OiHistoryBars(u, frame)[b], Rows(u), WithinBucket(Rows(u), frame, b), b)
<1> DEFINE rows == Rows(u)
           W == WithinBucket(rows, frame, b)
           first == Min(W)
           last == Max(W)
           earlier == W \ {last}
           bar == OiHistoryBars(u, frame)[b]
           point(r) == [ts |-> r.ts, ltp |-> r.spot, oi |-> r.call + r.put]
           p == [i \in W |-> point(rows[i])]
           agg == AggregatePoints(p, frame)
           change(field) == IF earlier = {} THEN None ELSE rows[last][field] - rows[Max(earlier)][field]
           beside == [call |-> rows[last].call, put |-> rows[last].put,
                      callChange |-> change("call"), putChange |-> change("put"),
                      interpretation |-> ClassifyOiInterpretation(agg.ltpChange, agg.oiChange),
                      pcr |-> SafePcr(rows[last].put, rows[last].call),
                      changePcr |-> SafePcr(change("put"), change("call"))]
<1>1. /\ bar = Upserted(agg, beside)
      /\ \E i \in DOMAIN rows : BucketStart(rows[i].ts, frame) = b
  BY DEF OiHistoryBars, WithinBucket
<1>2. /\ Len(rows) \in Nat /\ DOMAIN rows = 1 .. Len(rows)
      /\ \A i \in 1 .. Len(rows) : IsRow(rows[i])
  BY RowsAre
<1> HIDE DEF rows, bar
<1>3. W \in SUBSET DOMAIN rows /\ IsFiniteSet(W) /\ W # {} /\ W \in SUBSET Int
  <2>1. W \in SUBSET (1 .. Len(rows)) /\ W # {}
    BY <1>1, <1>2 DEF WithinBucket
  <2>2. IsFiniteSet(1 .. Len(rows))
    <3>1. 1 \in Int /\ Len(rows) \in Int
      BY <1>2
    <3> QED
      BY <3>1, FS_Interval
  <2> HIDE DEF W
  <2>3. IsFiniteSet(W)
    BY <2>1, <2>2, FS_Subset
  <2> QED
    BY <1>2, <2>1, <2>3
<1>4. \A i \in W : BucketStart(rows[i].ts, frame) = b
  BY DEF WithinBucket
<1> HIDE DEF W
<1>5. /\ DOMAIN p = W
      /\ \A i \in W : p[i].oi = OiAtRow(rows[i]) /\ p[i].oi \in Int /\ p[i].ts = rows[i].ts
  BY <1>2, <1>3 DEF IsRow, OiAtRow
<1> HIDE DEF p, point
<1>6. /\ first \in W /\ last \in W
      /\ \A i \in W : first <= i /\ i <= last
      /\ DOMAIN agg = AggregateFields
      /\ agg.start = BucketStart(p[first].ts, frame) /\ agg.points = Cardinality(W)
      /\ agg.openOi = p[first].oi /\ agg.closeOi = p[last].oi
      /\ agg.oiChange = p[last].oi - p[first].oi
      /\ \A i \in W : Inside(agg.low, p[i].oi, agg.high)
  <2>1. /\ DOMAIN p \in SUBSET Int /\ IsFiniteSet(DOMAIN p) /\ DOMAIN p # {}
        /\ \A i \in DOMAIN p : p[i].oi \in Int
    BY <1>3, <1>5
  <2> HIDE DEF agg, first, last
  <2> QED
    BY <2>1, <1>5, AggregateIs DEF agg, first, last
<1>7. /\ DOMAIN beside = {"call", "put", "callChange", "putChange", "interpretation", "pcr", "changePcr"}
      /\ beside.call = rows[last].call /\ beside.put = rows[last].put
      /\ beside.callChange = change("call") /\ beside.putChange = change("put")
  OBVIOUS
<1> HIDE DEF agg, beside, first, last
<1>8. /\ \A x \in AggregateFields : bar[x] = agg[x]
      /\ \A x \in {"call", "put", "callChange", "putChange"} : bar[x] = beside[x]
  <2>1. ReadsFirst(bar, agg, beside)
    BY <1>1, UpsertedOf
  <2> QED
    BY <1>6, <1>7, <2>1 DEF ReadsFirst, AggregateFields
<1>9. /\ bar.start = b /\ bar.points = Cardinality(W)
      /\ bar.openOi = OiAtRow(rows[first]) /\ bar.closeOi = OiAtRow(rows[last])
      /\ bar.oiChange = OiAtRow(rows[last]) - OiAtRow(rows[first])
      /\ Inside(bar.low, bar.openOi, bar.high) /\ Inside(bar.low, bar.closeOi, bar.high)
  BY <1>4, <1>5, <1>6, <1>8 DEF AggregateFields
<1>10. /\ bar.call = rows[last].call /\ bar.put = rows[last].put
       /\ bar.callChange = change("call") /\ bar.putChange = change("put")
  BY <1>7, <1>8
<1> QED
  BY <1>3, <1>6, <1>9, <1>10 DEF rows, W, first, last, bar, IsBar

LEMMA TotalOfOnes ==
    ASSUME NEW S, IsFiniteSet(S)
    PROVE  TotalOf([x \in S |-> 1]) = Cardinality(S)
<1> DEFINE ones == [x \in S |-> 1]
           less == [x \in S |-> -1]
<1>1. PICK k \in Int : k = -1
  OBVIOUS
<1>2. ones \in [S -> Int] /\ less \in [S -> Int] /\ \A x \in S : less[x] = k * ones[x] /\ ones[x] <= 1 /\ less[x] <= k
  BY <1>1
<1>3. Cardinality(S) \in Nat
  BY FS_CardinalityType
<1> HIDE DEF ones, less
<1>4. TotalOf(ones) <= 1 * Cardinality(S) /\ TotalOf(ones) \in Int
  BY <1>2, TotalOfBounded, TotalOfIntegers
<1>5. TotalOf(less) = k * TotalOf(ones)
  BY <1>2, TotalOfMultiples
<1>6. TotalOf(less) <= k * Cardinality(S)
  BY <1>2, TotalOfBounded
<1> QED
  BY <1>1, <1>3, <1>4, <1>5, <1>6 DEF ones

LEMMA HistoryAgrees ==
    ASSUME SnapshotsOK
    PROVE  HistoryAddsUp
<1> SUFFICES ASSUME NEW u \in Users, NEW frame \in Timeframes
             PROVE  LET rows == Rows(u)
                        hist == OiHistoryBars(u, frame)
                    IN  /\ TotalOf([b \in DOMAIN hist |-> hist[b].points]) = Len(rows)
                        /\ \A b \in DOMAIN hist :
                              LET bar == hist[b]
                              IN  /\ bar.start = b
                                  /\ Inside(bar.low, bar.openOi, bar.high)
                                  /\ Inside(bar.low, bar.closeOi, bar.high)
                                  /\ bar.closeOi = bar.call + bar.put
                                  /\ bar.callChange # None /\ bar.putChange # None /\ bar.points = 2
                                        => bar.oiChange = bar.callChange + bar.putChange
                        /\ rows # <<>> =>
                              /\ hist[Min(DOMAIN hist)].openOi = rows[1].call + rows[1].put
                              /\ hist[Max(DOMAIN hist)].closeOi = Last(rows).call + Last(rows).put
  BY DEF HistoryAddsUp
<1> DEFINE rows == Rows(u)
           hist == OiHistoryBars(u, frame)
           n == Len(rows)
           start == [i \in 1 .. n |-> BucketStart(rows[i].ts, frame)]
           W(b) == WithinBucket(rows, frame, b)
<1>1. /\ n \in Nat /\ DOMAIN rows = 1 .. n
      /\ \A i \in 1 .. n : IsRow(rows[i]) /\ rows[i].ts \in Nat
      /\ \A i, j \in 1 .. n : i < j => rows[i].ts < rows[j].ts
  BY RowsAre
<1>2. DOMAIN hist = {BucketStart(rows[i].ts, frame) : i \in DOMAIN rows}
  BY DEF OiHistoryBars
<1>3. \A b \in DOMAIN hist : IsBar(hist[b], rows, W(b), b)
  BY BarIs
<1> HIDE DEF rows, hist, n
<1>4. /\ start \in [1 .. n -> Int]
      /\ \A i, j \in 1 .. n : i <= j => start[i] <= start[j]
      /\ DOMAIN hist = {start[i] : i \in DOMAIN start}
      /\ \A b : W(b) = {i \in 1 .. n : start[i] = b}
  <2>1. ASSUME NEW i \in 1 .. n, NEW j \in 1 .. n, i <= j
        PROVE  start[i] \in Int /\ start[j] \in Int /\ start[i] <= start[j]
    <3>1. rows[i].ts \in Int /\ rows[j].ts \in Int /\ rows[i].ts <= rows[j].ts
      <4>1. i \in Int /\ j \in Int /\ (i = j \/ i < j)
        BY <2>1
      <4> QED
        BY <1>1, <4>1
    <3> QED
      BY <3>1, BucketsFollow
  <2>2. \A i \in 1 .. n : i <= i
    OBVIOUS
  <2> QED
    BY <1>1, <1>2, <2>1, <2>2 DEF WithinBucket
<1>5. IsFiniteSet(1 .. n) /\ DOMAIN start = 1 .. n
  BY <1>1, FS_Interval
<1> HIDE DEF start, W
<1>6. DOMAIN hist \in SUBSET Int /\ IsFiniteSet(DOMAIN hist) /\ start \in [1 .. n -> DOMAIN hist]
  <2>1. IsFiniteSet({start[i] : i \in DOMAIN start})
    BY <1>5, RangeIsFinite
  <2> QED
    BY <1>4, <1>5, <2>1
<1>7. TotalOf([b \in DOMAIN hist |-> hist[b].points]) = n
  <2> DEFINE ones == [i \in 1 .. n |-> 1]
             G == DOMAIN hist
  <2>1. ones \in [1 .. n -> Int]
    OBVIOUS
  <2>2. TotalOf(GroupTotals(1 .. n, G, start, ones)) = TotalOf(ones)
    <3> HIDE DEF ones
    <3> QED
      BY <1>5, <1>6, <2>1, TotalOfGroups
  <2>3. TotalOf(ones) = n
    <3>1. Cardinality(1 .. n) = n
      BY <1>1, FS_Interval
    <3> QED
      BY <1>5, <3>1, TotalOfOnes
  <2>4. ASSUME NEW b \in G
        PROVE  TotalOf([i \in {m \in 1 .. n : start[m] = b} |-> ones[i]]) = hist[b].points
    <3>1. IsFiniteSet(W(b)) /\ W(b) = {m \in 1 .. n : start[m] = b} /\ hist[b].points = Cardinality(W(b))
      BY <1>3, <1>4 DEF IsBar
    <3>2. [i \in W(b) |-> ones[i]] = [i \in W(b) |-> 1]
      BY <3>1
    <3> HIDE DEF ones
    <3>3. TotalOf([i \in W(b) |-> 1]) = Cardinality(W(b))
      BY <3>1, TotalOfOnes
    <3> QED
      BY <3>1, <3>2, <3>3
  <2> HIDE DEF ones
  <2>5. GroupTotals(1 .. n, G, start, ones) = [b \in G |-> hist[b].points]
    BY <2>4 DEF GroupTotals
  <2> QED
    BY <2>2, <2>3, <2>5
<1>8. ASSUME NEW b \in DOMAIN hist
      PROVE  LET bar == hist[b]
             IN  /\ bar.start = b
                 /\ Inside(bar.low, bar.openOi, bar.high)
                 /\ Inside(bar.low, bar.closeOi, bar.high)
                 /\ bar.closeOi = bar.call + bar.put
                 /\ bar.callChange # None /\ bar.putChange # None /\ bar.points = 2
                       => bar.oiChange = bar.callChange + bar.putChange
  <2> DEFINE bar == hist[b]
             first == Min(W(b))
             last == Max(W(b))
             earlier == W(b) \ {last}
  <2>1. /\ W(b) \in SUBSET (1 .. n) /\ IsFiniteSet(W(b)) /\ first \in W(b) /\ last \in W(b)
        /\ bar.start = b /\ bar.points = Cardinality(W(b))
        /\ bar.openOi = OiAtRow(rows[first]) /\ bar.closeOi = OiAtRow(rows[last])
        /\ bar.oiChange = OiAtRow(rows[last]) - OiAtRow(rows[first])
        /\ Inside(bar.low, bar.openOi, bar.high) /\ Inside(bar.low, bar.closeOi, bar.high)
        /\ bar.call = rows[last].call /\ bar.put = rows[last].put
        /\ bar.callChange # None /\ bar.putChange # None =>
              /\ earlier # {}
              /\ bar.callChange = rows[last].call - rows[Max(earlier)].call
              /\ bar.putChange = rows[last].put - rows[Max(earlier)].put
    BY <1>1, <1>3 DEF IsBar
  <2>2. \A i \in W(b) : first <= i
    BY <1>3 DEF IsBar
  <2> HIDE DEF bar, first, last
  <2>3. ASSUME earlier # {}, Cardinality(W(b)) = 2
        PROVE  Max(earlier) = first
    <3>1. Cardinality(earlier) = 1 /\ IsFiniteSet(earlier)
      BY <2>1, <2>3, FS_RemoveElement
    <3>2. PICK x : earlier = {x}
      BY <3>1, FS_Singleton
    <3>3. x \in W(b) /\ x # last /\ x \in Int /\ first \in Int /\ last \in Int
      BY <2>1, <3>2
    <3>4. first # last
      <4>1. \A i \in W(b) : i <= last
        BY <1>3 DEF last, IsBar
      <4> QED
        BY <2>1, <2>2, <3>3, <4>1
    <3>5. x = first
      BY <2>1, <3>2, <3>4
    <3>6. Max({first}) = first
      BY <3>3 DEF Max
    <3> QED
      BY <3>2, <3>5, <3>6
  <2>4. /\ rows[last].call \in Int /\ rows[last].put \in Int
        /\ rows[first].call \in Int /\ rows[first].put \in Int
    BY <1>1, <2>1 DEF IsRow
  <2>5. ASSUME bar.callChange # None, bar.putChange # None, bar.points = 2
        PROVE  bar.oiChange = bar.callChange + bar.putChange
    <3>1. Max(earlier) = first
      BY <2>1, <2>3, <2>5
    <3>2. bar.callChange = rows[last].call - rows[first].call /\ bar.putChange = rows[last].put - rows[first].put
      BY <2>1, <2>5, <3>1
    <3> QED
      BY <2>1, <2>4, <3>2 DEF OiAtRow
  <2>6. bar.closeOi = bar.call + bar.put
    BY <2>1 DEF OiAtRow
  <2> QED
    BY <2>1, <2>5, <2>6 DEF bar
<1>9. ASSUME rows # <<>>
      PROVE  /\ hist[Min(DOMAIN hist)].openOi = rows[1].call + rows[1].put
             /\ hist[Max(DOMAIN hist)].closeOi = Last(rows).call + Last(rows).put
  <2>1. n >= 1
    <3>1. n # 0
      BY <1>9, NoRows DEF rows, n
    <3> QED
      BY <1>1, <3>1
  <2>2. start[1] \in DOMAIN hist /\ start[n] \in DOMAIN hist /\ 1 \in 1 .. n /\ n \in 1 .. n
    BY <1>1, <1>4, <1>5, <2>1
  <2>3. \A b \in DOMAIN hist : start[1] <= b /\ b <= start[n]
    <3> TAKE b \in DOMAIN hist
    <3>1. PICK i \in 1 .. n : b = start[i]
      BY <1>4, <1>5
    <3> QED
      BY <1>1, <1>4, <2>2, <3>1
  <2>4. Min(DOMAIN hist) = start[1] /\ Max(DOMAIN hist) = start[n]
    <3>1. /\ Min(DOMAIN hist) \in DOMAIN hist /\ Max(DOMAIN hist) \in DOMAIN hist
          /\ \A b \in DOMAIN hist : Min(DOMAIN hist) <= b /\ b <= Max(DOMAIN hist)
      BY <1>6, <2>2, MinOfNumbers, MaxOfNumbers
    <3> QED
      BY <1>6, <2>2, <2>3, <3>1
  <2>5. Min(W(start[1])) = 1
    <3>1. /\ 1 \in W(start[1]) /\ Min(W(start[1])) \in 1 .. n
          /\ \A i \in W(start[1]) : Min(W(start[1])) <= i
      BY <1>1, <1>3, <1>4, <2>2 DEF IsBar
    <3> QED
      BY <3>1
  <2>6. Max(W(start[n])) = n
    <3>1. /\ n \in W(start[n]) /\ Max(W(start[n])) \in 1 .. n
          /\ \A i \in W(start[n]) : i <= Max(W(start[n]))
      BY <1>1, <1>3, <1>4, <2>2 DEF IsBar
    <3> QED
      BY <1>1, <3>1
  <2>7. hist[start[1]].openOi = OiAtRow(rows[1]) /\ hist[start[n]].closeOi = OiAtRow(rows[n])
    <3>1. hist[start[1]].openOi = OiAtRow(rows[Min(W(start[1]))])
      BY <1>3, <2>2 DEF IsBar
    <3>2. hist[start[n]].closeOi = OiAtRow(rows[Max(W(start[n]))])
      BY <1>3, <2>2 DEF IsBar
    <3> QED
      BY <2>5, <2>6, <3>1, <3>2
  <2>8. Last(rows) = rows[n]
    BY DEF Last, n
  <2> QED
    BY <2>4, <2>7, <2>8 DEF OiAtRow
<1> QED
  BY <1>7, <1>8, <1>9 DEF rows, hist, n
-----------------------------------------------------------------------------
LEMMA TotalOfOne ==
    ASSUME NEW x, NEW f, DOMAIN f = {x}, f[x] \in Int
    PROVE  TotalOf(f) = f[x]
<1>1. IsFiniteSet(DOMAIN f) /\ DOMAIN f # {} /\ Picked(DOMAIN f) = x
  <2>1. IsFiniteSet({x})
    BY FS_Singleton
  <2>2. Picked({x}) = x
    BY DEF Picked
  <2> QED
    BY <2>1, <2>2
<1>2. TotalOf(f) = f[x] + TotalOf(Without(f, x))
  BY <1>1, TotalOfSome
<1>3. DOMAIN Without(f, x) = {}
  BY DEF Without
<1>4. TotalOf(Without(f, x)) = 0
  BY <1>3, TotalOfNothing
<1> QED
  BY <1>2, <1>4

\* One side of a bucket's bars, strike by strike.
IsColumnOf(v, h, side, b) ==
    /\ IsFiniteSet(DOMAIN h) /\ h \in [DOMAIN h -> Int]
    /\ v \in [(DOMAIN h) \X {side} \X {b} -> Int]
    /\ \A s \in DOMAIN h : v[<<s, side, b>>] = h[s]

LEMMA TotalByStrike ==
    ASSUME NEW v, NEW h, NEW side, NEW b, IsColumnOf(v, h, side, b)
    PROVE  TotalOf(v) = TotalOf(h)
<1> DEFINE S == DOMAIN h
           K == S \X {side} \X {b}
<1>0. /\ IsFiniteSet(S) /\ h \in [S -> Int] /\ v \in [K -> Int]
      /\ \A s \in S : v[<<s, side, b>>] = h[s]
  BY DEF IsColumnOf
<1> HIDE DEF S
<1> DEFINE key == [s \in S |-> <<s, side, b>>]
           strike == [k \in K |-> k[1]]
<1>1. IsFiniteSet(K)
  <2>1. IsFiniteSet({key[s] : s \in DOMAIN key})
    <3>1. IsFiniteSet(DOMAIN key)
      BY <1>0
    <3> HIDE DEF key
    <3> QED
      BY <3>1, RangeIsFinite
  <2>2. K = {key[s] : s \in DOMAIN key}
    OBVIOUS
  <2> QED
    BY <2>1, <2>2
<1>2. strike \in [K -> S]
  OBVIOUS
<1>3. ASSUME NEW s \in S
      PROVE  TotalOf([k \in {m \in K : strike[m] = s} |-> v[k]]) = h[s]
  <2> DEFINE one == [k \in {m \in K : strike[m] = s} |-> v[k]]
             only == <<s, side, b>>
  <2>1. {m \in K : strike[m] = s} = {only}
    OBVIOUS
  <2>2. DOMAIN one = {only} /\ one[only] = h[s] /\ h[s] \in Int
    BY <1>0, <2>1
  <2> HIDE DEF one, only
  <2>3. TotalOf(one) = h[s]
    BY <2>2, TotalOfOne
  <2> QED
    BY <2>3 DEF one
<1>4. GroupTotals(K, S, strike, v) = h
  <2> HIDE DEF strike, key
  <2>1. GroupTotals(K, S, strike, v) = [s \in S |-> h[s]]
    BY <1>3 DEF GroupTotals
  <2> QED
    BY <1>0, <2>1
<1>5. TotalOf(GroupTotals(K, S, strike, v)) = TotalOf(v)
  <2> HIDE DEF strike, key
  <2> QED
    BY <1>0, <1>1, <1>2, TotalOfGroups
<1> QED
  BY <1>4, <1>5

\* What is summed up of one side's bars of a bucket.
BarTotal(all, b, side, field) ==
    TotalOf([k \in {k \in DOMAIN all : k[2] = side /\ k[3] = b} |-> OrZero(all[k][field])])

LEMMA SummaryIs ==
    ASSUME NEW b
    PROVE  LET sum == OptionsOiSummary(b)
           IN  /\ sum.call = BarTotal(bars, b, "CE", "close") /\ sum.put = BarTotal(bars, b, "PE", "close")
               /\ sum.callChange = BarTotal(bars, b, "CE", "change")
               /\ sum.putChange = BarTotal(bars, b, "PE", "change")
BY DEF OptionsOiSummary, BarTotal

\* Rows whose figures are numbers, or None.
LEMMA StrikeRowsAreFigures ==
    ASSUME NEW chain \in Chains, NEW prior, AreStrikes(prior),
           NEW s \in DOMAIN chain.rows, NEW side \in OptionSides
    PROVE  LET r == StrikeRows(chain, prior)[s][side]
           IN  r.oi \in Figures /\ r.prev \in Figures /\ r.change \in Int /\ OrZero(r.oi) \in Int
<1> DEFINE leg == chain.rows[s][side]
           old == PriorLeg(prior, s, side)
           r == StrikeRows(chain, prior)[s][side]
<1>1. None \notin Int /\ (leg # None => leg.oi \in Figures)
  BY ReaderAssumption DEF Figures
<1>2. old.oi \in Figures
  BY DEF PriorLeg, AreStrikes, Figures
<1>3. r.oi = OiOf(leg) /\ r.prev = old.oi /\ r.change = OrZero(OiOf(leg)) - OrZero(old.oi)
  BY DEF StrikeRows
<1> HIDE DEF leg, old, r
<1>4. OiOf(leg) \in Figures
  BY <1>1 DEF OiOf, Figures
<1>5. OrZero(OiOf(leg)) \in Int /\ OrZero(old.oi) \in Int
  BY <1>2, <1>4 DEF OrZero, Figures
<1> QED
  BY <1>2, <1>3, <1>4, <1>5 DEF r

\* The bars of a bucket in which every leg was listed, when a chain is saved
\* again: they are the chain's, and add up to its rows.
LEMMA SavedTotals ==
    ASSUME NEW chain \in Chains, NEW prior, AreStrikes(prior), NEW b, NEW all,
           \A s \in DOMAIN chain.rows : \A side \in OptionSides : chain.rows[s][side] # None,
           LET rows == StrikeRows(chain, prior)
               made == BarRows(chain, rows, prior, b)
           IN  /\ {k \in DOMAIN all : k[3] = b} = DOMAIN made
               /\ \A k \in DOMAIN made : all[k] = made[k],
           NEW side \in OptionSides
    PROVE  LET rows == StrikeRows(chain, prior)
           IN  /\ BarTotal(all, b, side, "close") = SideTotal(rows, side, "oi")
               /\ BarTotal(all, b, side, "change") = SideTotal(rows, side, "change")
<1> DEFINE rows == StrikeRows(chain, prior)
           made == BarRows(chain, rows, prior, b)
           S == DOMAIN chain.rows
           K == {k \in DOMAIN all : k[2] = side /\ k[3] = b}
           closes == [k \in K |-> OrZero(all[k]["close"])]
           changes == [k \in K |-> OrZero(all[k]["change"])]
           oi == [s \in S |-> OrZero(rows[s][side]["oi"])]
           moved == [s \in S |-> OrZero(rows[s][side]["change"])]
<1>1. DOMAIN rows = S /\ IsFiniteSet(S)
  BY StrikeRowsOf, ReaderAssumption
<1>2. \A s \in S : /\ rows[s][side].change \in Int /\ OrZero(rows[s][side].oi) \in Int
                   /\ rows[s][side].change # None
  BY StrikeRowsAreFigures, ReaderAssumption
<1>3. /\ DOMAIN made = S \X OptionSides \X {b}
      /\ \A s \in S : LET k == <<s, side, b>>
                      IN  made[k].close = rows[s][side].oi /\ made[k].change = rows[s][side].change
  <2> HIDE DEF rows
  <2>1. DOMAIN made = {k \in (DOMAIN rows) \X OptionSides \X {b} : chain.rows[k[1]][k[2]] # None}
    BY DEF BarRows
  <2>2. DOMAIN made = S \X OptionSides \X {b}
    BY <1>1, <2>1
  <2>3. ASSUME NEW s \in S
        PROVE  LET k == <<s, side, b>>
               IN  made[k].close = rows[s][side].oi /\ made[k].change = rows[s][side].change
    <3> DEFINE k == <<s, side, b>>
    <3>1. k \in {j \in (DOMAIN rows) \X OptionSides \X {b} : chain.rows[j[1]][j[2]] # None}
          /\ k[1] = s /\ k[2] = side
      BY <1>1
    <3> HIDE DEF k
    <3> QED
      BY <3>1 DEF BarRows, k
  <2> QED
    BY <2>2, <2>3
<1>4. \A k \in DOMAIN made : k \in DOMAIN all /\ k[3] = b /\ all[k] = made[k]
  OBVIOUS
<1>5. \A k \in DOMAIN all : k[3] = b => k \in DOMAIN made
  OBVIOUS
<1> HIDE DEF rows, made
<1>6. K = S \X {side} \X {b}
  BY <1>3, <1>4, <1>5
<1>7. /\ oi \in [S -> Int] /\ moved \in [S -> Int]
      /\ \A s \in S : OrZero(rows[s][side].change) = rows[s][side].change
  BY <1>2 DEF OrZero
<1>8. \A s \in S : closes[<<s, side, b>>] = oi[s] /\ changes[<<s, side, b>>] = moved[s]
  BY <1>3, <1>4, <1>6
<1>9. closes \in [K -> Int] /\ changes \in [K -> Int]
  <2>1. ASSUME NEW k \in K
        PROVE  closes[k] \in Int /\ changes[k] \in Int
    <3>1. k[1] \in S /\ k = <<k[1], side, b>>
      BY <1>6
    <3>2. closes[k] = oi[k[1]] /\ changes[k] = moved[k[1]]
      <4> HIDE DEF closes, changes, oi, moved, K
      <4> QED
        BY <1>8, <3>1
    <3>3. oi[k[1]] \in Int /\ moved[k[1]] \in Int
      <4> HIDE DEF closes, changes, oi, moved, K
      <4> QED
        BY <1>7, <3>1
    <3> QED
      BY <3>2, <3>3
  <2> QED
    BY <2>1
<1> HIDE DEF closes, changes, oi, moved
<1>10. \A s \in S : closes[<<s, side, b>>] = oi[s] /\ changes[<<s, side, b>>] = moved[s]
  BY <1>8
<1> HIDE DEF K, S
<1>11. TotalOf(closes) = TotalOf(oi)
  <2>1. IsColumnOf(closes, oi, side, b)
    BY <1>1, <1>6, <1>7, <1>9, <1>10 DEF IsColumnOf
  <2> QED
    BY <2>1, TotalByStrike
<1>12. TotalOf(changes) = TotalOf(moved)
  <2>1. IsColumnOf(changes, moved, side, b)
    BY <1>1, <1>6, <1>7, <1>9, <1>10 DEF IsColumnOf
  <2> QED
    BY <2>1, TotalByStrike
<1> QED
  BY <1>1, <1>11, <1>12 DEF BarTotal, SideTotal, K, closes, changes, oi, moved, rows
-----------------------------------------------------------------------------
\* The snapshot of a key is announced with what a bucket's bars add up to.
TellsSummary(key, b) ==
    LET told == outbox[Max(AnnouncementsOf(key))].figures
        sum  == OptionsOiSummary(b)
    IN  /\ sum.call = snapshots[key].call /\ sum.put = snapshots[key].put
        /\ sum.callChange + sum.putChange = told.net

\* Steps that leave the tables and what was announced as they are.
LEMMA SummaryStays ==
    ASSUME SummaryIsSomeones, UNCHANGED tableVars,
           \A key \in DOMAIN snapshots :
              outbox'[Max(AnnouncementsOf(key)')].figures = outbox[Max(AnnouncementsOf(key))].figures
    PROVE  SummaryIsSomeones'
<1>1. snapshots' = snapshots /\ bars' = bars /\ events' = events
  BY DEF tableVars
<1>2. \A b : ListsEveryLeg(b)' = ListsEveryLeg(b) /\ OptionsOiSummary(b)' = OptionsOiSummary(b)
  BY <1>1 DEF ListsEveryLeg, OptionsOiSummary
<1>3. \A b, key : key \in DOMAIN snapshots /\ TellsSummary(key, b) => TellsSummary(key, b)'
  BY <1>1, <1>2 DEF TellsSummary
<1>4. \A b \in {k[3] : k \in DOMAIN bars} : ListsEveryLeg(b) =>
         \E key \in {k \in DOMAIN snapshots : k[2] = b} : TellsSummary(key, b)
  BY DEF SummaryIsSomeones, TellsSummary
<1>5. \A b \in {k[3] : k \in DOMAIN bars'} : ListsEveryLeg(b)' =>
         \E key \in {k \in DOMAIN snapshots' : k[2] = b} : TellsSummary(key, b)'
  <2> HIDE DEF ListsEveryLeg, TellsSummary
  <2> QED
    BY <1>1, <1>2, <1>3, <1>4
<1> QED
  BY <1>5 DEF SummaryIsSomeones, TellsSummary

\* A snapshot was announced: its newest announcement is in the outbox.
LEMMA NewestIsAnnounced ==
    ASSUME CollectorInv, NEW key \in DOMAIN snapshots
    PROVE  Max(AnnouncementsOf(key)) \in DOMAIN outbox
<1>1. DOMAIN outbox = 1 .. Len(outbox) /\ Len(outbox) \in Nat
  BY ListFacts DEF CollectorInv, ListsOK
<1>2. AnnouncementsOf(key) # {} /\ AnnouncementsOf(key) \in SUBSET (1 .. Len(outbox))
  BY <1>1 DEF AnnouncementsOf, SnapshotsAreTold, TablesAgree, CollectionsAreWhole, CollectorInv
<1>3. Max(AnnouncementsOf(key)) \in AnnouncementsOf(key)
  BY <1>1, <1>2, NewestIsThere
<1> QED
  BY <1>1, <1>2, <1>3

\* A run that goes on keeps its bucket; one that is to write has its strikes.
LEMMA RunsStay ==
    ASSUME TasksOK, RunsOK, NEW t \in 1 .. MaxTasks, NEW where, Reached(t, where), minute' = minute,
           tasks[t].at # "free", "at" \in DOMAIN where, "bucket" \notin DOMAIN where,
           where.at = "writing" => "prior" \in DOMAIN where /\ AreStrikes(where.prior)
    PROVE  RunsOK'
<1> DEFINE task == Upserted(where, tasks[t])
<1>1. /\ DOMAIN task = DOMAIN where \cup DOMAIN tasks[t]
      /\ \A x \in DOMAIN where : task[x] = where[x]
      /\ \A x \in DOMAIN tasks[t] \ DOMAIN where : task[x] = tasks[t][x]
  <2>1. ReadsFirst(task, where, tasks[t])
    BY UpsertedOf
  <2> HIDE DEF task
  <2> QED
    BY <2>1 DEF ReadsFirst
<1>2. tasks' = [tasks EXCEPT ![t] = task]
  BY DEF Reached
<1> HIDE DEF task
<1>3. task.at = where.at /\ (where.at = "writing" => AreStrikes(task.prior))
  BY <1>1
<1>4. "bucket" \in DOMAIN task /\ task.bucket \in Nat
  BY <1>1 DEF RunsOK
<1>5. \A r \in 1 .. MaxTasks : tasks'[r] = IF r = t THEN task ELSE tasks[r]
  BY <1>2 DEF TasksOK
<1> QED
  BY <1>3, <1>4, <1>5 DEF RunsOK

\* The strikes a run compares with are those of a snapshot.
LEMMA PriorsAreStrikes ==
    ASSUME SnapshotsOK, NEW u, NEW b \in Nat
    PROVE  AreStrikes(PriorStrikes(u, b))
<1> DEFINE P == PriorKeys(u, b)
           times == {k[2] : k \in P}
           newest == CHOOSE k \in P : \A j \in P : j[2] <= k[2]
<1>1. CASE P = {}
  <2>1. PriorStrikes(u, b) = <<>>
    BY <1>1 DEF PriorStrikes
  <2> QED
    BY <2>1 DEF AreStrikes
<1>2. CASE P # {}
  <2>1. \A k \in P : k \in DOMAIN snapshots /\ k[2] \in Nat /\ k[2] < b
    BY DEF PriorKeys, SnapshotsOK
  <2>2. newest \in P
    <3> DEFINE second == [k \in P |-> k[2]]
    <3>1. IsFiniteSet({second[k] : k \in DOMAIN second})
      <4>1. IsFiniteSet(DOMAIN second)
        BY FS_Subset DEF SnapshotsOK, PriorKeys
      <4> HIDE DEF second, P
      <4> QED
        BY <4>1, RangeIsFinite
    <3> HIDE DEF P
    <3>2. {second[k] : k \in DOMAIN second} = times
      OBVIOUS
    <3>3. times \in SUBSET Int /\ times # {} /\ IsFiniteSet(times)
      <4>1. times \in SUBSET Int /\ times # {}
        BY <1>2, <2>1
      <4>2. IsFiniteSet(times)
        <5> HIDE DEF times, second
        <5> QED
          BY <3>1, <3>2
      <4> QED
        BY <4>1, <4>2
    <3> HIDE DEF times
    <3>4. Max(times) \in times /\ \A n \in times : n <= Max(times)
      BY <3>3, MaxOfNumbers
    <3> QED
      BY <3>4 DEF times
  <2>3. PriorStrikes(u, b) = snapshots[newest].strikes
    BY <1>2 DEF PriorStrikes
  <2> QED
    BY <2>1, <2>2, <2>3 DEF SnapshotsOK, IsRow
<1> QED
  BY <1>1, <1>2

\* What the summary reads of a bucket's bars.
SummaryOf(all, b) ==
    [call |-> BarTotal(all, b, "CE", "close"), put |-> BarTotal(all, b, "PE", "close"),
     callChange |-> BarTotal(all, b, "CE", "change"), putChange |-> BarTotal(all, b, "PE", "change")]

LEMMA SameBarsSameSummary ==
    ASSUME NEW old, NEW new, NEW b,
           {k \in DOMAIN new : k[3] = b} = {k \in DOMAIN old : k[3] = b},
           \A k \in DOMAIN old : k[3] = b => new[k] = old[k]
    PROVE  SummaryOf(new, b) = SummaryOf(old, b)
<1>1. ASSUME NEW side, NEW field
      PROVE  BarTotal(new, b, side, field) = BarTotal(old, b, side, field)
  <2>1. {k \in DOMAIN new : k[2] = side /\ k[3] = b} = {k \in DOMAIN old : k[2] = side /\ k[3] = b}
    OBVIOUS
  <2>2. [k \in {k \in DOMAIN new : k[2] = side /\ k[3] = b} |-> OrZero(new[k][field])] =
           [k \in {k \in DOMAIN old : k[2] = side /\ k[3] = b} |-> OrZero(old[k][field])]
    BY <2>1
  <2> QED
    BY <2>2 DEF BarTotal
<1> QED
  BY <1>1 DEF SummaryOf

(* A snapshot saved in a bucket whose chains all list the same legs: its   *)
(* rows are the bucket's bars.  The other buckets keep theirs, and who     *)
(* tells their sums.                                                       *)
LEMMA SaveKeepsSummary ==
    ASSUME CollectorInv, ReadersInv, NEW t \in 1 .. MaxTasks, SaveSnapshot(t)
    PROVE  SummaryIsSomeones'
<1> DEFINE key == KeyOf(t)
           b == tasks[t].bucket
           chain == tasks[t].chain
           prior == tasks[t].prior
           rows == StrikeRows(chain, prior)
           figures == ComputeSnapshotAnalytics(rows)
           old == IF key \in DOMAIN snapshots THEN snapshots[key].strikes ELSE <<>>
           row == [spot |-> chain.spot, call |-> figures.call, put |-> figures.put,
                   pcr |-> figures.pcr, strikes |-> UpsertedStrikes(old, rows)]
           event == [bucket |-> b, rows |-> chain.rows]
           made == BarRows(chain, rows, prior, b)
           told == Announced(key[1], "snapshot_created", key, figures)
<1>1. /\ snapshots' = Upserted([k \in {key} |-> row], snapshots)
      /\ events' = Append(events, event)
      /\ bars' = Upserted(made, bars)
      /\ outbox' = Append(outbox, told)
      /\ UNCHANGED <<flush, published>>
  BY DEF SaveSnapshot, WriteSnapshot, KeyOf
<1>2. chain \in Chains /\ AreStrikes(prior)
  BY DEF SaveSnapshot, At, CollectorInv, TasksOK, ReadersInv, RunsOK
<1>3. key[2] = b
  BY DEF KeyOf
<1>4. /\ told.kind = "snapshot_created" /\ told.key = key /\ told.figures = figures
      /\ DOMAIN told = RowFields /\ told.retries = 0 /\ told.status = "pending"
  BY DEF Announced, RowFields
<1>5. /\ figures.call = SideTotal(rows, "CE", "oi") /\ figures.put = SideTotal(rows, "PE", "oi")
      /\ figures.net = SideTotal(rows, "CE", "change") + SideTotal(rows, "PE", "change")
      /\ row.call = figures.call /\ row.put = figures.put
  BY DEF ComputeSnapshotAnalytics
<1>6. event.bucket = b /\ event.rows = chain.rows
  OBVIOUS
<1>7. AreBars(made, chain, b)
  BY BarRowsOf
<1> HIDE DEF key, b, chain, prior, rows, figures, row, event, made, told
<1>8. /\ DOMAIN snapshots' = DOMAIN snapshots \cup {key}
      /\ snapshots'[key] = row
      /\ \A k \in DOMAIN snapshots \ {key} : snapshots'[k] = snapshots[k]
  <2> DEFINE written == [k \in {key} |-> row]
  <2>1. snapshots' = Upserted(written, snapshots) /\ DOMAIN written = {key} /\ written[key] = row
    BY <1>1
  <2> HIDE DEF written
  <2>2. ReadsFirst(snapshots', written, snapshots)
    BY <2>1, UpsertedOf
  <2> QED
    BY <2>1, <2>2 DEF ReadsFirst
<1>9. /\ DOMAIN bars' = DOMAIN made \cup DOMAIN bars
      /\ \A k \in DOMAIN made : bars'[k] = made[k]
      /\ \A k \in DOMAIN bars \ DOMAIN made : bars'[k] = bars[k]
  <2>1. ReadsFirst(bars', made, bars)
    BY <1>1, UpsertedOf
  <2> QED
    BY <2>1 DEF ReadsFirst
<1>10. /\ DOMAIN outbox' = 1 .. Len(outbox) + 1
       /\ DOMAIN outbox = 1 .. Len(outbox) /\ Len(outbox) \in Nat
       /\ outbox'[Len(outbox) + 1] = told
       /\ \A e \in DOMAIN outbox : outbox'[e] = outbox[e]
  BY <1>1, <1>4, LongerOutbox
<1>11. /\ Len(events) \in Nat
       /\ DOMAIN events = 1 .. Len(events)
       /\ DOMAIN events' = 1 .. Len(events) + 1
       /\ events'[Len(events) + 1] = event
       /\ \A i \in DOMAIN events : events'[i] = events[i]
  <2>1. IsList(events)
    BY DEF CollectorInv, ListsOK
  <2> QED
    BY <1>1, <2>1, ListIsLonger
<1>12. \A k \in DOMAIN made : k[3] = b
  BY <1>7 DEF AreBars
<1>13. \A a : /\ OptionsOiSummary(a) = SummaryOf(bars, a)
              /\ OptionsOiSummary(a)' = SummaryOf(bars', a)
  BY DEF OptionsOiSummary, SummaryOf, BarTotal
<1> SUFFICES ASSUME NEW a \in {k[3] : k \in DOMAIN bars'}, ListsEveryLeg(a)'
             PROVE  \E k \in {k \in DOMAIN snapshots' : k[2] = a} : TellsSummary(k, a)'
  BY DEF SummaryIsSomeones, TellsSummary
<1>14. CASE a = b
  <2>1. \A i \in DOMAIN events' : events'[i].bucket = b => DOMAIN events'[i].rows = DOMAIN chain.rows
    BY <1>6, <1>11, <1>14 DEF ListsEveryLeg
  <2>2. \A s \in DOMAIN chain.rows : \A side \in OptionSides : chain.rows[s][side] # None
    BY <1>6, <1>11, <1>14 DEF ListsEveryLeg
  <2>3. {k \in DOMAIN bars' : k[3] = b} = DOMAIN made
    <3>1. ASSUME NEW k \in DOMAIN bars, k[3] = b PROVE k \in DOMAIN made
      <4>1. k = <<k[1], k[2], k[3]>> /\ k[2] \in OptionSides /\ EventsOf(k) # {}
        BY DEF CollectorInv, BarKeysOK, CollectionsAreWhole, TablesAgree, BarsAreNewest
      <4>2. PICK i \in DOMAIN events : events[i].bucket = b /\ k[1] \in DOMAIN events[i].rows
        BY <3>1, <4>1 DEF EventsOf
      <4>3. k[1] \in DOMAIN chain.rows
        BY <1>11, <2>1, <4>2
      <4>4. k \in (DOMAIN chain.rows) \X OptionSides \X {b} /\ chain.rows[k[1]][k[2]] # None
        BY <2>2, <3>1, <4>1, <4>3
      <4> QED
        BY <1>7, <4>4 DEF AreBars
    <3> QED
      BY <1>9, <1>12, <3>1
  <2>4. ASSUME NEW side \in OptionSides
        PROVE  /\ BarTotal(bars', b, side, "close") = SideTotal(rows, side, "oi")
               /\ BarTotal(bars', b, side, "change") = SideTotal(rows, side, "change")
    <3>1. \A k \in DOMAIN made : bars'[k] = made[k]
      BY <1>9
    <3> QED
      BY <1>2, <2>2, <2>3, <3>1, SavedTotals DEF made, rows
  <2>5. PICK mine : mine = key
    OBVIOUS
  <2>6. /\ AnnouncementsOf(mine)' \in SUBSET (1 .. Len(outbox) + 1)
        /\ Len(outbox) + 1 \in AnnouncementsOf(mine)'
    BY <1>4, <1>10, <2>5 DEF AnnouncementsOf
  <2>7. Max(AnnouncementsOf(mine)') = Len(outbox) + 1
    BY <1>10, <2>6, NewestOfNumbers
  <2>8. outbox'[Max(AnnouncementsOf(mine)')].figures = figures
    BY <1>4, <1>10, <2>7
  <2>9. "CE" \in OptionSides /\ "PE" \in OptionSides
    BY DEF OptionSides
  <2>10. LET sum == SummaryOf(bars', a)
         IN  /\ sum.call = figures.call /\ sum.put = figures.put
             /\ sum.callChange + sum.putChange = figures.net
    BY <1>5, <1>14, <2>4, <2>9 DEF SummaryOf
  <2>11. snapshots'[mine].call = figures.call /\ snapshots'[mine].put = figures.put
    BY <1>5, <1>8, <2>5
  <2>12. TellsSummary(mine, a)'
    BY <1>13, <2>8, <2>10, <2>11 DEF TellsSummary
  <2> QED
    BY <1>3, <1>8, <1>14, <2>5, <2>12
<1>15. CASE a # b
  <2>1. \A i \in DOMAIN events' : events'[i].bucket = a => i \in DOMAIN events /\ events[i] = events'[i]
    BY <1>6, <1>11, <1>15
  <2>2. ListsEveryLeg(a)
    <3>1. {events'[i].rows : i \in {n \in DOMAIN events' : events'[n].bucket = a}} =
             {events[i].rows : i \in {n \in DOMAIN events : events[n].bucket = a}}
      BY <1>11, <2>1
    <3> QED
      BY <3>1 DEF ListsEveryLeg
  <2>3. /\ {k \in DOMAIN bars' : k[3] = a} = {k \in DOMAIN bars : k[3] = a}
        /\ \A k \in DOMAIN bars : k[3] = a => bars'[k] = bars[k]
    BY <1>9, <1>12, <1>15
  <2>4. OptionsOiSummary(a)' = OptionsOiSummary(a)
    BY <1>13, <2>3, SameBarsSameSummary
  <2>5. PICK other \in {k \in DOMAIN snapshots : k[2] = a} : TellsSummary(other, a)
    <3>1. a \in {k[3] : k \in DOMAIN bars}
      BY <2>3
    <3> QED
      BY <2>2, <3>1 DEF ReadersInv, SummaryIsSomeones, TellsSummary
  <2>6. other # key /\ other \in DOMAIN snapshots' /\ snapshots'[other] = snapshots[other]
    BY <1>3, <1>8, <1>15
  <2>7. \A e \in DOMAIN outbox' : e \in DOMAIN outbox \/ e = Len(outbox) + 1
    BY <1>10
  <2>8. AnnouncementsOf(other)' = AnnouncementsOf(other)
    BY <1>4, <1>10, <2>6, <2>7 DEF AnnouncementsOf
  <2>9. AnnouncementsOf(other) # {} /\ AnnouncementsOf(other) \in SUBSET (1 .. Len(outbox))
    BY <1>10 DEF AnnouncementsOf, SnapshotsAreTold, TablesAgree, CollectionsAreWhole, CollectorInv
  <2>10. Max(AnnouncementsOf(other)) \in AnnouncementsOf(other)
    BY <1>10, <2>9, NewestIsThere
  <2>11. outbox'[Max(AnnouncementsOf(other)')] = outbox[Max(AnnouncementsOf(other))]
    BY <1>10, <2>8, <2>9, <2>10
  <2>12. TellsSummary(other, a)'
    BY <2>4, <2>5, <2>6, <2>11 DEF TellsSummary
  <2> QED
    BY <2>6, <2>12
<1> QED
  BY <1>14, <1>15
-----------------------------------------------------------------------------
\* Strikes kept from an older row with a chain's rows upserted.
LEMMA UpsertedAreStrikes ==
    ASSUME NEW chain \in Chains, NEW prior, AreStrikes(prior), NEW old, AreStrikes(old),
           DOMAIN old \in SUBSET Int, IsFiniteSet(DOMAIN old)
    PROVE  LET kept == UpsertedStrikes(old, StrikeRows(chain, prior))
           IN  DOMAIN kept \in SUBSET Int /\ IsFiniteSet(DOMAIN kept) /\ AreStrikes(kept)
<1> DEFINE rows == StrikeRows(chain, prior)
           kept == UpsertedStrikes(old, rows)
<1>1. /\ DOMAIN rows = DOMAIN chain.rows
      /\ \A s \in DOMAIN chain.rows : \A side \in OptionSides :
            DOMAIN rows[s][side] = {"oi", "ltp", "prev", "change"} /\ rows[s][side].oi \in Figures
  BY StrikeRowsOf, StrikeRowsAreFigures
<1>2. DOMAIN rows \in SUBSET Int /\ IsFiniteSet(DOMAIN rows)
  BY <1>1, ReaderAssumption
<1> HIDE DEF rows
<1>3. DOMAIN kept = DOMAIN old \cup DOMAIN rows
  BY DEF UpsertedStrikes
<1>4. DOMAIN kept \in SUBSET Int /\ IsFiniteSet(DOMAIN kept)
  <2>1. IsFiniteSet((DOMAIN old) \cup (DOMAIN rows))
    BY <1>2, FS_Union
  <2> QED
    BY <1>2, <1>3, <2>1
<1>5. ASSUME NEW s \in DOMAIN kept, NEW side \in OptionSides
      PROVE  kept[s][side].oi \in Figures
  <2>1. CASE s \notin DOMAIN rows
    BY <1>3, <2>1 DEF UpsertedStrikes, AreStrikes
  <2>2. CASE s \in DOMAIN rows /\ s \in DOMAIN old
    <3>1. kept[s][side] = [rows[s][side] EXCEPT !.prev = old[s][side].prev]
      BY <2>2 DEF UpsertedStrikes
    <3>2. kept[s][side].oi = rows[s][side].oi
      BY <1>1, <2>2, <3>1
    <3> QED
      BY <1>1, <2>2, <3>2
  <2>3. CASE s \in DOMAIN rows /\ s \notin DOMAIN old
    <3>1. kept[s][side] = rows[s][side]
      BY <2>3 DEF UpsertedStrikes
    <3> QED
      BY <1>1, <2>3, <3>1
  <2> QED
    BY <2>1, <2>2, <2>3
<1> QED
  BY <1>4, <1>5 DEF AreStrikes, rows

\* The totals of a chain's rows are numbers.
LEMMA TotalsAreNumbers ==
    ASSUME NEW chain \in Chains, NEW prior, AreStrikes(prior), NEW side \in OptionSides
    PROVE  SideTotal(StrikeRows(chain, prior), side, "oi") \in Int
<1> DEFINE rows == StrikeRows(chain, prior)
           S == DOMAIN chain.rows
           oi == [s \in S |-> OrZero(rows[s][side]["oi"])]
<1>1. DOMAIN rows = S /\ IsFiniteSet(S)
  BY StrikeRowsOf, ReaderAssumption
<1>2. oi \in [S -> Int]
  BY StrikeRowsAreFigures
<1>3. SideTotal(rows, side, "oi") = TotalOf(oi)
  <2> HIDE DEF rows
  <2> QED
    BY <1>1 DEF SideTotal
<1> HIDE DEF oi, S
<1> QED
  BY <1>1, <1>2, <1>3, TotalOfIntegers DEF rows

LEMMA SaveKeepsReaders ==
    ASSUME CollectorInv, ReadersInv, NEW t \in 1 .. MaxTasks, SaveSnapshot(t)
    PROVE  ReadersInv'
<1> DEFINE key == KeyOf(t)
           b == tasks[t].bucket
           chain == tasks[t].chain
           prior == tasks[t].prior
           rows == StrikeRows(chain, prior)
           figures == ComputeSnapshotAnalytics(rows)
           old == IF key \in DOMAIN snapshots THEN snapshots[key].strikes ELSE <<>>
           kept == UpsertedStrikes(old, rows)
           row == [spot |-> chain.spot, call |-> figures.call, put |-> figures.put,
                   pcr |-> figures.pcr, strikes |-> kept]
           event == [bucket |-> b, rows |-> chain.rows]
           made == BarRows(chain, rows, prior, b)
           told == Announced(key[1], "snapshot_created", key, figures)
<1>1. /\ snapshots' = Upserted([k \in {key} |-> row], snapshots)
      /\ events' = Append(events, event)
      /\ bars' = Upserted(made, bars)
      /\ outbox' = Append(outbox, told)
      /\ UNCHANGED <<flush, published, minute>> /\ Reached(t, [at |-> "releasing"])
  BY DEF SaveSnapshot, WriteSnapshot, KeyOf
<1>2. chain \in Chains /\ AreStrikes(prior) /\ b \in Nat /\ tasks[t].at = "writing"
  BY DEF SaveSnapshot, At, CollectorInv, TasksOK, ReadersInv, RunsOK
<1>3. key = <<key[1], key[2]>> /\ key[2] = b
  BY DEF KeyOf
<1>4. /\ told.kind = "snapshot_created" /\ told.key = key /\ told.figures = figures
      /\ DOMAIN told = RowFields /\ told.retries = 0 /\ told.status = "pending"
  BY DEF Announced, RowFields
<1>5. /\ figures.call = SideTotal(rows, "CE", "oi") /\ figures.put = SideTotal(rows, "PE", "oi")
      /\ figures.net = SideTotal(rows, "CE", "change") + SideTotal(rows, "PE", "change")
  BY DEF ComputeSnapshotAnalytics
<1>6. AreStrikes(old) /\ DOMAIN old \in SUBSET Int /\ IsFiniteSet(DOMAIN old)
  <2>1. CASE key \in DOMAIN snapshots
    BY <2>1 DEF ReadersInv, SnapshotsOK, IsRow
  <2>2. CASE key \notin DOMAIN snapshots
    <3>1. old = <<>> /\ DOMAIN old = {}
      BY <2>2
    <3> HIDE DEF old
    <3> QED
      BY <3>1, FS_EmptySet DEF AreStrikes
  <2> QED
    BY <2>1, <2>2
<1>7. IsRow(row) /\ row.call = figures.call /\ row.put = figures.put
  <2>1. row.call = figures.call /\ row.put = figures.put /\ row.spot = chain.spot /\ row.strikes = kept
        /\ DOMAIN row = {"spot", "call", "put", "pcr", "strikes"}
    OBVIOUS
  <2>2. figures.call \in Int /\ figures.put \in Int
    <3>1. "CE" \in OptionSides /\ "PE" \in OptionSides
      BY DEF OptionSides
    <3> HIDE DEF figures, chain, prior
    <3> QED
      BY <1>2, <1>5, <3>1, TotalsAreNumbers
  <2>3. chain.spot \in Figures
    BY <1>2, ReaderAssumption DEF Figures
  <2>4. DOMAIN kept \in SUBSET Int /\ IsFiniteSet(DOMAIN kept) /\ AreStrikes(kept)
    <3> HIDE DEF old, chain, prior
    <3> QED
      BY <1>2, <1>6, UpsertedAreStrikes
  <2> HIDE DEF row, figures, kept, chain
  <2> QED
    BY <2>1, <2>2, <2>3, <2>4 DEF IsRow
<1>8. event.bucket = b /\ event.rows = chain.rows
  OBVIOUS
<1>9. AreBars(made, chain, b)
  BY BarRowsOf
<1> HIDE DEF key, b, old, kept, row, event, told, chain, prior
<1>10. /\ DOMAIN snapshots' = DOMAIN snapshots \cup {key}
       /\ snapshots'[key] = row
       /\ \A k \in DOMAIN snapshots \ {key} : snapshots'[k] = snapshots[k]
  <2> DEFINE written == [k \in {key} |-> row]
  <2>1. snapshots' = Upserted(written, snapshots) /\ DOMAIN written = {key} /\ written[key] = row
    BY <1>1
  <2> HIDE DEF written
  <2>2. ReadsFirst(snapshots', written, snapshots)
    BY <2>1, UpsertedOf
  <2> QED
    BY <2>1, <2>2 DEF ReadsFirst
<1>11. SnapshotsOK'
  <2>1. IsFiniteSet(DOMAIN snapshots')
    BY <1>10, FS_AddElement DEF ReadersInv, SnapshotsOK
  <2>2. ASSUME NEW k \in DOMAIN snapshots'
        PROVE  k = <<k[1], k[2]>> /\ k[2] \in Nat /\ IsRow(snapshots'[k])
    <3>1. CASE k = key
      BY <1>2, <1>3, <1>7, <1>10, <3>1
    <3>2. CASE k # key
      BY <1>10, <3>2 DEF ReadersInv, SnapshotsOK
    <3> QED
      BY <3>1, <3>2
  <2>3. (\A k \in DOMAIN snapshots : k = <<k[1], k[2]>> /\ k[2] \in Nat /\ IsRow(snapshots[k]))'
    <3> HIDE DEF IsRow
    <3> QED
      BY <2>2
  <2> QED
    BY <2>1, <2>3 DEF SnapshotsOK
<1>12. RunsOK'
  <2> DEFINE where == [at |-> "releasing"]
  <2>1. "at" \in DOMAIN where /\ "bucket" \notin DOMAIN where /\ where.at = "releasing"
    OBVIOUS
  <2>2. Reached(t, where) /\ minute' = minute
    BY <1>1
  <2> HIDE DEF where
  <2> QED
    BY <1>2, <2>1, <2>2, RunsStay DEF CollectorInv, ReadersInv
<1>13. SummaryIsSomeones'
  BY SaveKeepsSummary
<1> QED
  BY <1>11, <1>12, <1>13 DEF ReadersInv
-----------------------------------------------------------------------------
\* A step that leaves the tables and the outbox alone.
LEMMA QuietReaders ==
    ASSUME ReadersInv, UNCHANGED <<tableVars, outbox>>, RunsOK'
    PROVE  ReadersInv'
<1>1. snapshots' = snapshots /\ outbox' = outbox
  BY DEF tableVars
<1>2. SnapshotsOK'
  BY <1>1 DEF ReadersInv, SnapshotsOK
<1>3. \A key : AnnouncementsOf(key)' = AnnouncementsOf(key)
  BY <1>1 DEF AnnouncementsOf
<1>4. SummaryIsSomeones'
  BY <1>1, <1>3, SummaryStays DEF ReadersInv
<1> QED
  BY <1>2, <1>4 DEF ReadersInv

\* A step of one run that leaves the tables and the outbox alone.
LEMMA QuietRunReaders ==
    ASSUME CollectorInv, ReadersInv, NEW t \in 1 .. MaxTasks, NEW where, Reached(t, where),
           UNCHANGED <<minute, tableVars, outbox>>,
           tasks[t].at # "free", "at" \in DOMAIN where, "bucket" \notin DOMAIN where,
           where.at = "writing" => "prior" \in DOMAIN where /\ AreStrikes(where.prior)
    PROVE  ReadersInv'
<1>1. RunsOK'
  BY RunsStay DEF CollectorInv, ReadersInv
<1> QED
  BY <1>1, QuietReaders

\* A run that ends leaves a free slot.
LEMMA EndedReaders ==
    ASSUME CollectorInv, ReadersInv, NEW t \in 1 .. MaxTasks, Ended(t), UNCHANGED minute
    PROVE  RunsOK'
BY DEF CollectorInv, TasksOK, ReadersInv, RunsOK, Ended, Free

LEMMA RunKeepsReaders ==
    ASSUME CollectorInv, ReadersInv, NEW t \in 1 .. MaxTasks, RunStep(t)
    PROVE  ReadersInv'
<1>1. CASE Fetch(t)
  <2>1. UNCHANGED <<minute, tableVars, outbox>> /\ tasks[t].at # "free"
    BY <1>1 DEF Fetch, At
  <2>2. ASSUME NEW c \in Chains, Reached(t, [at |-> "locking", chain |-> c]) PROVE ReadersInv'
    BY <2>1, <2>2, QuietRunReaders
  <2>3. ASSUME NEW status, Reporting(t, status) PROVE ReadersInv'
    BY <2>1, <2>3, QuietRunReaders DEF Reporting
  <2> QED
    BY <1>1, <2>2, <2>3 DEF Fetch
<1>2. CASE AcquireLock(t)
  <2>1. UNCHANGED <<minute, tableVars, outbox>> /\ tasks[t].at # "free"
    BY <1>2 DEF AcquireLock, At
  <2>2. CASE Reached(t, [at |-> "reading"])
    BY <2>1, <2>2, QuietRunReaders
  <2>3. CASE Reporting(t, "success")
    BY <2>1, <2>3, QuietRunReaders DEF Reporting
  <2> QED
    BY <1>2, <2>2, <2>3 DEF AcquireLock
<1>3. CASE ReadPrior(t)
  <2> DEFINE prior == PriorStrikes(tasks[t].user, tasks[t].bucket)
             where == [at |-> "writing", prior |-> prior]
  <2>1. /\ UNCHANGED <<minute, tableVars, outbox>> /\ tasks[t].at # "free"
        /\ Reached(t, where)
    BY <1>3 DEF ReadPrior, At
  <2>2. AreStrikes(prior)
    <3>1. tasks[t].bucket \in Nat
      BY <2>1 DEF ReadersInv, RunsOK
    <3> QED
      BY <3>1, PriorsAreStrikes DEF ReadersInv
  <2>3. /\ "at" \in DOMAIN where /\ "bucket" \notin DOMAIN where /\ "prior" \in DOMAIN where
        /\ where.prior = prior
    OBVIOUS
  <2> HIDE DEF where, prior
  <2> QED
    BY <2>1, <2>2, <2>3, QuietRunReaders
<1>4. CASE SaveSnapshot(t)
  BY <1>4, SaveKeepsReaders
<1>5. CASE ReleaseLock(t)
  <2>1. UNCHANGED <<minute, tableVars, outbox>> /\ tasks[t].at # "free"
    BY <1>5 DEF ReleaseLock, At
  <2>2. ASSUME NEW status, Reporting(t, status) PROVE ReadersInv'
    BY <2>1, <2>2, QuietRunReaders DEF Reporting
  <2> QED
    BY <1>5, <2>2 DEF ReleaseLock
<1>6. CASE StatementFails(t)
  BY <1>6, EndedReaders, QuietReaders DEF StatementFails
<1>7. CASE UpdateJobStatus(t)
  <2>1. UNCHANGED <<minute, tableVars, outbox>> /\ tasks[t].at # "free"
    BY <1>7 DEF UpdateJobStatus, At
  <2>2. CASE Reached(t, [at |-> "announcing"])
    BY <2>1, <2>2, QuietRunReaders
  <2>3. CASE Ended(t)
    BY <2>1, <2>3, EndedReaders, QuietReaders
  <2> QED
    BY <1>7, <2>2, <2>3 DEF UpdateJobStatus
<1>8. CASE AnnounceAuthRequired(t)
  <2> DEFINE row == Announced(tasks[t].user, "auth_required", KeyOf(t), None)
  <2>1. /\ DOMAIN row = RowFields /\ row.retries = 0 /\ row.status = "pending"
        /\ row.kind = "auth_required"
    BY DEF Announced, RowFields
  <2>2. /\ outbox' = Append(outbox, row) /\ Ended(t)
        /\ UNCHANGED <<minute, tableVars, snapshots, flush, published>>
    BY <1>8 DEF AnnounceAuthRequired, tableVars
  <2> HIDE DEF row
  <2>3. /\ DOMAIN outbox' = 1 .. Len(outbox) + 1
        /\ DOMAIN outbox = 1 .. Len(outbox) /\ Len(outbox) \in Nat
        /\ outbox'[Len(outbox) + 1] = row
        /\ \A e \in DOMAIN outbox : outbox'[e] = outbox[e]
    BY <2>1, <2>2, LongerOutbox
  <2>4. \A e \in DOMAIN outbox' : e \in DOMAIN outbox \/ e = Len(outbox) + 1
    BY <2>3
  <2>5. \A key : AnnouncementsOf(key)' = AnnouncementsOf(key)
    BY <2>1, <2>3, <2>4 DEF AnnouncementsOf
  <2>6. \A key \in DOMAIN snapshots :
           outbox'[Max(AnnouncementsOf(key)')].figures = outbox[Max(AnnouncementsOf(key))].figures
    BY <2>3, <2>5, NewestIsAnnounced
  <2>7. SummaryIsSomeones'
    BY <2>2, <2>6, SummaryStays DEF ReadersInv
  <2>8. RunsOK' /\ SnapshotsOK'
    BY <2>2, EndedReaders DEF ReadersInv, SnapshotsOK
  <2> QED
    BY <2>7, <2>8 DEF ReadersInv
<1> QED
  BY <1>1, <1>2, <1>3, <1>4, <1>5, <1>6, <1>7, <1>8 DEF RunStep

\* A run that begins takes the bucket it is in.
LEMMA BegunRun ==
    ASSUME NEW u, NEW now \in Nat, NEW catchUp
    PROVE  LET task == Run(u, now, catchUp)
           IN  /\ task.at # "free" => "bucket" \in DOMAIN task /\ task.bucket \in Nat
               /\ task.at # "writing"
<1>1. Bucket(now) \in Nat
  <2>1. PICK n \in Nat \ {0} : n = Interval
    OBVIOUS
  <2>2. now \div n \in Nat
    BY <2>1
  <2>3. (now \div n) * n \in Nat
    BY <2>1, <2>2
  <2> QED
    BY <2>1, <2>3 DEF Bucket
<1> QED
  BY <1>1 DEF Run, Free

LEMMA SchedulerKeepsReaders ==
    ASSUME CollectorInv, ReadersInv,
           \/ Minute \/ StartWorker \/ CatchUp \/ Crash
           \/ \E u \in Users : StartCollector(u) \/ StopCollector(u)
    PROVE  ReadersInv'
<1>1. UNCHANGED <<tableVars, outbox>>
  BY DEF Minute, StartWorker, CatchUp, Crash, StartCollector, StopCollector
<1>2. minute \in Nat /\ DOMAIN tasks = 1 .. MaxTasks
  BY DEF CollectorInv, TasksOK, ReadersInv, RunsOK
<1>3. RunsOK'
  <2>1. CASE Minute
    <3> DEFINE now == minute + 1
    <3>1. minute' = now /\ now \in Nat
      BY <1>2, <2>1 DEF Minute
    <3>2. CASE Dispatch(now)
      <4> DEFINE due == {u \in Users : Due(u, now) /\ IsMarketOpen(now)}
                 slots == CHOOSE f \in [due -> FreeTasks] : \A u, v \in due : u # v => f[u] # f[v]
                 who(t) == CHOOSE u \in due : slots[u] = t
      <4>1. tasks' = [t \in DOMAIN tasks |->
                         IF \E u \in due : slots[u] = t THEN Run(who(t), now, FALSE) ELSE tasks[t]]
        BY <3>2, Zenon DEF Dispatch
      <4>2. \A t : LET task == Run(who(t), now, FALSE)
                   IN  /\ task.at # "free" => "bucket" \in DOMAIN task /\ task.bucket \in Nat
                       /\ task.at # "writing"
        <5> HIDE DEF who, now
        <5> QED
          BY <3>1, BegunRun
      <4> HIDE DEF due, slots, who, now
      <4> QED
        BY <1>2, <3>1, <4>1, <4>2 DEF ReadersInv, RunsOK
    <3>3. CASE tasks' = tasks
      BY <3>1, <3>3 DEF ReadersInv, RunsOK
    <3> QED
      BY <2>1, <3>2, <3>3 DEF Minute
  <2>2. CASE CatchUp
    <3> DEFINE first == Run(Head(catching), minute, TRUE)
               slot == Min(FreeTasks)
    <3>1. tasks' = [tasks EXCEPT ![slot] = first] /\ minute' = minute
      BY <2>2 DEF CatchUp
    <3>2. /\ first.at # "free" => "bucket" \in DOMAIN first /\ first.bucket \in Nat
          /\ first.at # "writing"
      BY <1>2, BegunRun
    <3> HIDE DEF first, slot
    <3> QED
      BY <1>2, <3>1, <3>2 DEF ReadersInv, RunsOK
  <2>3. CASE Crash
    BY <1>2, <2>3 DEF Crash, Free, ReadersInv, RunsOK
  <2>4. CASE StartWorker \/ \E u \in Users : StartCollector(u) \/ StopCollector(u)
    BY <2>4 DEF StartWorker, StartCollector, StopCollector, ReadersInv, RunsOK
  <2> QED
    BY <2>1, <2>2, <2>3, <2>4
<1> QED
  BY <1>1, <1>3, QuietReaders

LEMMA ReadersInvStep ==
    ASSUME CollectorInv, ReadersInv, [CollectorNext]_collectorVars
    PROVE  ReadersInv'
<1>1. CASE \/ Minute \/ StartWorker \/ CatchUp \/ Crash
           \/ \E u \in Users : StartCollector(u) \/ StopCollector(u)
  BY <1>1, SchedulerKeepsReaders
<1>2. CASE \E t \in 1 .. MaxTasks : RunStep(t)
  BY <1>2, RunKeepsReaders
<1>3. CASE OpenFlush \/ PublishNext \/ FlushFails \/ UNCHANGED collectorVars
  <2>1. UNCHANGED <<minute, tasks, tableVars, outbox>>
    BY <1>3 DEF OpenFlush, PublishNext, FlushFails, collectorVars, tableVars
  <2>2. RunsOK'
    BY <2>1 DEF ReadersInv, RunsOK
  <2> QED
    BY <2>1, <2>2, QuietReaders
<1>4. CASE CommitFlush
  <2>1. /\ outbox' = [e \in DOMAIN outbox |-> Settled(e, outbox[e])]
        /\ flush # None /\ UNCHANGED <<minute, tasks, tableVars, snapshots>>
    BY <1>4 DEF CommitFlush, tableVars
  <2>2. DOMAIN outbox' = DOMAIN outbox /\ \A e \in DOMAIN outbox : outbox'[e] = Settled(e, outbox[e])
    BY <2>1
  <2>3. \A e \in DOMAIN outbox : /\ outbox'[e].kind = outbox[e].kind /\ outbox'[e].key = outbox[e].key
                                 /\ outbox'[e].figures = outbox[e].figures
    BY <2>1, <2>2, SettledRow
  <2>4. \A key : AnnouncementsOf(key)' = AnnouncementsOf(key)
    BY <2>2, <2>3 DEF AnnouncementsOf
  <2>5. \A key \in DOMAIN snapshots :
           outbox'[Max(AnnouncementsOf(key)')].figures = outbox[Max(AnnouncementsOf(key))].figures
    BY <2>3, <2>4, NewestIsAnnounced
  <2>6. SummaryIsSomeones'
    BY <2>1, <2>5, SummaryStays DEF ReadersInv
  <2>7. RunsOK' /\ SnapshotsOK'
    BY <2>1 DEF ReadersInv, RunsOK, SnapshotsOK
  <2> QED
    BY <2>6, <2>7 DEF ReadersInv
<1> QED
  BY <1>1, <1>2, <1>3, <1>4 DEF CollectorNext

LEMMA ReadersInvInit == CollectorInit => ReadersInv
<1> SUFFICES ASSUME CollectorInit PROVE ReadersInv
  OBVIOUS
<1>1. DOMAIN snapshots = {} /\ DOMAIN bars = {}
  BY DEF CollectorInit
<1>2. SnapshotsOK
  BY <1>1, FS_EmptySet DEF SnapshotsOK
<1>3. RunsOK
  BY DEF CollectorInit, RunsOK, Free
<1>4. SummaryIsSomeones
  BY <1>1 DEF SummaryIsSomeones
<1> QED
  BY <1>2, <1>3, <1>4 DEF ReadersInv

(* Whatever was collected, in whatever order, and whichever user asks for  *)
(* whichever timeframe: the readers agree with each other and with the     *)
(* tables (routes/oi.py, timeframe_service.py).                            *)
THEOREM ReadersAlwaysAgree == CollectorSpec => []ReadersAgree
<1>1. CollectorInit => CollectorInv /\ ReadersInv
  BY CollectorInvInit, ReadersInvInit
<1>2. CollectorInv /\ ReadersInv /\ [CollectorNext]_collectorVars => CollectorInv' /\ ReadersInv'
  BY CollectorInvStep, ReadersInvStep
<1>3. ReadersInv => ReadersAgree
  BY GridsAreOne, HistoryAgrees, WindowsAgree, TrendAgrees DEF ReadersInv, ReadersAgree
<1> QED
  BY <1>1, <1>2, <1>3, PTL DEF CollectorSpec
=============================================================================
