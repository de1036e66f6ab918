-------------------------- MODULE ObservationStore --------------------------
(***************************************************************************)
(* Observations from a provider message to the two stores: normalization   *)
(* (providers/upstox/normalize.py), identity in tiers (identity.py), the   *)
(* append-only stores (store/memory.py, store/postgres.py with the unique  *)
(* indexes of store/schema.py) and reading under a temporal bound          *)
(* (core/timemode.py, persistence/repository.py).                          *)
(*                                                                         *)
(* A message is stamped when it is normalized and stored after an await.   *)
(***************************************************************************)
EXTENDS Naturals, Sequences, FiniteSets, SequencesExt

CONSTANTS
    Messages,       \* [session, id, sequence, content, time, greeks]; 0 where
                    \* the provider supplies none, session 0 for REST
    LastTime,       \* bound: the clock
    MaxDeliveries   \* bound: messages delivered, repeats included

VARIABLES
    clock,
    delivered,      \* the messages normalized, in order
    flight,         \* observations stamped and not yet stored
    memory,         \* rows of InMemoryObservationStore
    table           \* rows of PostgresObservationRepository

storeVars == <<clock, delivered, flight, memory, table>>

StoreInit ==
    /\ clock = 1
    /\ delivered = <<>>
    /\ flight = <<>>
    /\ memory = <<>>
    /\ table = <<>>

Rows(store) == {store[n] : n \in DOMAIN store}

(* The strongest identity the provider supplied.                           *)
Tier(m) ==
    IF m.id # 0 THEN "provider_event_id"
    ELSE IF m.session # 0 /\ m.sequence # 0 THEN "feed_sequence"
    ELSE "content_hash"

(* What the provider's identities promise: within a session an event id,   *)
(* or a sequence number, is of one message.                                *)
ASSUME MessagesAssumption ==
    /\ LastTime \in Nat /\ MaxDeliveries \in Nat
    /\ \A m \in Messages : m.time \in Nat /\ m.greeks \in BOOLEAN
    /\ \A m, n \in Messages :
          (Tier(m) = Tier(n) /\ m.session = n.session) =>
             /\ Tier(m) = "provider_event_id" /\ m.id = n.id => m = n
             /\ Tier(m) = "feed_sequence" /\ m.sequence = n.sequence => m = n

Digest(row) == <<row.message.content, row.observed, row.message.session = 0>>

\* Mutant: event ids taken for unique over sessions.
DedupKeyGlobal(row) ==
    LET m == row.message IN
    CASE Tier(m) = "provider_event_id" -> <<row.kind, "id", 0, m.id>>
      [] Tier(m) = "feed_sequence"     -> <<row.kind, "sequence", m.session, m.sequence>>
      [] OTHER                         -> <<row.kind, "content", Digest(row), 0>>

DedupKey(row) ==
    LET m == row.message IN
    CASE Tier(m) = "provider_event_id" -> <<row.kind, "id", m.session, m.id>>
      [] Tier(m) = "feed_sequence"     -> <<row.kind, "sequence", m.session, m.sequence>>
      [] OTHER                         -> <<row.kind, "content", Digest(row), 0>>

(* The partial unique indexes of a table; each kind has a table.           *)
UniqueIndexes(row) ==
    LET m == row.message IN
    (IF m.id # 0 THEN {<<row.kind, "id", m.session, m.id>>} ELSE {})
    \cup (IF m.session # 0 /\ m.sequence # 0
          THEN {<<row.kind, "sequence", m.session, m.sequence>>} ELSE {})
    \cup (IF m.id = 0 /\ m.session = 0 THEN {<<row.kind, "content", Digest(row), 0>>} ELSE {})

AppendTo(store, row, keys, taken) ==
    IF keys \cap taken # {} THEN store ELSE Append(store, row)
-----------------------------------------------------------------------------
ObservedAt(m) == IF m.time # 0 THEN m.time ELSE clock

(* One quote, and one greeks observation under the same identity.          *)
Normalized(m) ==
    LET row(kind) == [kind |-> kind, message |-> m, observed |-> ObservedAt(m), ingested |-> clock]
    IN  IF m.greeks THEN <<row("quote"), row("greeks")>> ELSE <<row("quote")>>

Deliver(m) ==
    /\ Len(delivered) < MaxDeliveries
    /\ delivered' = Append(delivered, m)
    /\ flight' = flight \o Normalized(m)
    /\ UNCHANGED <<clock, memory, table>>

Store ==
    /\ flight # <<>>
    /\ LET row == Head(flight) IN
       /\ memory' = AppendTo(memory, row, {DedupKey(row)}, {DedupKey(r) : r \in Rows(memory)})
       /\ table' = AppendTo(table, row, UniqueIndexes(row),
                            UNION {UniqueIndexes(r) : r \in Rows(table)})
    /\ flight' = Tail(flight)
    /\ UNCHANGED <<clock, delivered>>

ClockTicks ==
    /\ clock < LastTime
    /\ clock' = clock + 1
    /\ UNCHANGED <<delivered, flight, memory, table>>

StoreNext == (\E m \in Messages : Deliver(m)) \/ Store \/ ClockTicks

StoreSpec == StoreInit /\ [][StoreNext]_storeVars
-----------------------------------------------------------------------------
\* Mutant: market time alone.
FetchTruth(store, valid, knowledge) == {r \in Rows(store) : r.observed <= valid}

(* ResolvedBound: both axes, always.                                       *)
Fetch(store, valid, knowledge) ==
    {r \in Rows(store) : r.observed <= valid /\ r.ingested <= knowledge}

KnowledgeAt(store, t) == Fetch(store, t, t)

MarketTruthAt(store, valid, asOf) == Fetch(store, valid, asOf)

(* Once nothing stamped by then is on its way, what was known at an        *)
(* instant never changes, whatever arrives late or again; nor what was     *)
(* true of an earlier instant as known then.                               *)
KnowledgeSettles ==
    [][\A t \in 1 .. clock - 1 :
          (\A n \in DOMAIN flight : flight[n].ingested > t) =>
              /\ KnowledgeAt(memory, t)' = KnowledgeAt(memory, t)
              /\ \A v \in 1 .. t : MarketTruthAt(table, v, t)' = MarketTruthAt(table, v, t)]_storeVars

InFlight(m, kind) ==
    Cardinality({n \in DOMAIN flight : flight[n].message = m /\ flight[n].kind = kind})

Alike(m, r) ==
    Tier(m) = "content_hash" /\ Tier(r.message) = "content_hash" /\ m.content = r.message.content

(* However often the provider repeats a message, and whichever session     *)
(* counts its ids and sequences anew, the row of each message is there     *)
(* once; only messages told apart by nothing share one.                    *)
EachMessageOnce ==
    \A m \in Messages :
        LET stored == {n \in DOMAIN memory : memory[n].kind = "quote" /\ memory[n].message = m}
            ways   == Cardinality({n \in DOMAIN delivered : delivered[n] = m})
        IN  /\ (Tier(m) # "content_hash" \/ m.time # 0) => Cardinality(stored) <= 1
            /\ ways > InFlight(m, "quote") =>
                  \E n \in DOMAIN memory : memory[n].message = m \/ Alike(m, memory[n])
=============================================================================
