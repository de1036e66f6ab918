----------------------------- MODULE OmsProofs -----------------------------
(***************************************************************************)
(* Inv is an inductive invariant of OmsSystem, for any orders, intents,    *)
(* decisions, bounds, listings and retry policy. The theorems after it     *)
(* read four properties of OmsProperties off it.                           *)
(*                                                                         *)
(* Inv adds three facts to the properties it proves. VenueOK: the venue's  *)
(* executions of an entry are disjoint ranges of its filled lots, so that  *)
(* quantities of different executions add. IdentityOK: a provider id an    *)
(* order holds is that of an entry placed for this order, so that the      *)
(* executions folded into it are its own. LedgerOK: an order holds no more *)
(* than the executions whose dedup keys the reconciler has kept, so that   *)
(* an execution listed again is not counted again.                         *)
(*                                                                         *)
(* OnceInv, on top of Inv, is inductive too: an order has one venue order. *)
(* An entry of an order is one the order knows, or one a search by its     *)
(* client id finds (KnownOrFindable), so that no retry places a second.    *)
(* The same lets the first run of a new process rebuild what the venue     *)
(* holds, once the executions of an entry add up to it (BookAddsUp).       *)
(***************************************************************************)
EXTENDS OmsProperties, FiniteSetTheorems, TLAPS

-----------------------------------------------------------------------------
(* Quantities: an execution is a range of lots of one venue order.         *)

\* The executions of G take lots between 1 and n, and no two the same lot.
Ranges(G, n) ==
    /\ \A f \in G : f.first \in Nat /\ f.last \in Nat /\ 1 <= f.first /\ f.last <= n
    /\ \A f, g \in G : f # g => f.last < g.first \/ g.last < f.first

\* A set of such executions adds up to a number between 0 and n.
LEMMA QuantityType ==
    ASSUME NEW n \in Nat, NEW G, Ranges(G, n)
    PROVE  /\ IsFiniteSet(UNION {Lots(f) : f \in G})
           /\ Quantity(G) \in Nat
           /\ Quantity(G) <= n
<1>1. UNION {Lots(f) : f \in G} \in SUBSET (1 .. n)
  BY DEF Ranges, Lots
<1>2. IsFiniteSet(1 .. n) /\ Cardinality(1 .. n) <= n
  <2>1. 1 \in Int /\ n \in Int
    OBVIOUS
  <2>2. /\ IsFiniteSet(1 .. n)
        /\ Cardinality(1 .. n) = IF 1 > n THEN 0 ELSE n - 1 + 1
    BY ONLY <2>1, FS_Interval
  <2> QED
    BY <2>2
<1> QED
  BY <1>1, <1>2, FS_Subset, FS_CardinalityType DEF Quantity

\* Fewer executions add up to less.
LEMMA QuantityMonotone ==
    ASSUME NEW n \in Nat, NEW G, Ranges(G, n), NEW F \in SUBSET G
    PROVE  Quantity(F) <= Quantity(G)
<1>1. UNION {Lots(f) : f \in F} \in SUBSET UNION {Lots(f) : f \in G}
  OBVIOUS
<1> QED
  BY <1>1, QuantityType, FS_Subset DEF Quantity

\* Quantities of different executions add.
LEMMA QuantityAdds ==
    ASSUME NEW n \in Nat, NEW G, Ranges(G, n),
           NEW E \in SUBSET G, NEW F \in SUBSET G, E \cap F = {}
    PROVE  Quantity(E \cup F) = Quantity(E) + Quantity(F)
<1> DEFINE LotsOf(S) == UNION {Lots(f) : f \in S}
<1>1. LotsOf(E \cup F) = LotsOf(E) \cup LotsOf(F)
  OBVIOUS
<1>2. LotsOf(E) \cap LotsOf(F) = {}
  <2> SUFFICES ASSUME NEW f \in E, NEW g \in F, NEW k \in Lots(f), k \in Lots(g)
               PROVE  FALSE
    OBVIOUS
  <2>1. f # g /\ f \in G /\ g \in G
    OBVIOUS
  <2>2. k \in Int /\ f.first <= k /\ k <= f.last /\ g.first <= k /\ k <= g.last
    BY <2>1 DEF Lots, Ranges
  <2> QED
    BY <2>1, <2>2 DEF Ranges
<1>3. Ranges(E, n) /\ Ranges(F, n)
  BY DEF Ranges
<1>4. IsFiniteSet(LotsOf(E)) /\ IsFiniteSet(LotsOf(F))
  BY <1>3, QuantityType
<1>5. Cardinality(LotsOf(E)) \in Nat /\ Cardinality(LotsOf(F)) \in Nat
  BY <1>4, FS_CardinalityType
<1>6. Cardinality(LotsOf(E) \cup LotsOf(F)) =
        Cardinality(LotsOf(E)) + Cardinality(LotsOf(F)) - Cardinality({})
  BY <1>2, <1>4, FS_Union
<1>7. Cardinality({}) = 0
  BY FS_EmptySet
<1>8. /\ Quantity(E \cup F) = Cardinality(LotsOf(E \cup F))
      /\ Quantity(E) = Cardinality(LotsOf(E))
      /\ Quantity(F) = Cardinality(LotsOf(F))
  BY DEF Quantity
<1> HIDE DEF LotsOf
<1>9. Quantity(E \cup F) = Quantity(E) + Quantity(F) - 0
  BY <1>1, <1>6, <1>7, <1>8, Zenon
<1>10. Quantity(E) \in Nat /\ Quantity(F) \in Nat
  BY <1>5, <1>8, Zenon
<1> QED
  BY <1>9, <1>10

\* No executions, no quantity.
LEMMA QuantityOfNone == Quantity({}) = 0
<1>1. UNION {Lots(f) : f \in {}} = {}
  OBVIOUS
<1> QED
  BY <1>1, FS_EmptySet DEF Quantity

-----------------------------------------------------------------------------
(* The inductive invariant                                                 *)

\* The book is filled from its first id on; what is open is not used up; the
\* executions of an entry are its first lots, each once.
VenueOK ==
    /\ \A p \in ProviderIds : book[p].status # "NONE" <=> p < nextId
    /\ \A p \in ProviderIds :
          book[p].status \in {"NONE", "OPEN", "REJECTED"} => book[p].filled = 0
    /\ \A p \in ProviderIds :
          book[p].status \in Working => book[p].filled < QuantityOf[book[p].order]
    /\ \A f \in trades : 1 <= f.first /\ f.last <= book[f.pid].filled
    /\ \A f, g \in trades :
          f.pid = g.pid /\ f # g => f.last < g.first \/ g.last < f.first

\* A provider id is that of an entry placed for the order; without one nothing
\* was filled; between handlers no order is about to be sent; what is not tracked
\* has no trace.
IdentityOK ==
    \A o \in Orders :
        /\ orders[o].pid # NoPid =>
              orders[o].pid \in Placed /\ book[orders[o].pid].order = o
        /\ orders[o].pid = NoPid => orders[o].filled = 0
        /\ orders[o].state \notin {"CREATED", "SUBMITTING"}
        /\ orders[o].state = "UNTRACKED" => orders[o] = Untracked

\* The executions of an order's entry that the reconciler has seen.
SeenOf(order) == {f \in trades : f.pid = order.pid /\ DedupKey(f) \in applied}

\* An order holds no more than the executions the reconciler has seen of it.
LedgerOK == \A o \in Orders : orders[o].filled <= Quantity(SeenOf(orders[o]))

Inv ==
    /\ TypeOK
    /\ VenueOK
    /\ IdentityOK
    /\ LedgerOK
    /\ PidOfLiveOrder
    /\ AmbiguityNeverCompounds

-----------------------------------------------------------------------------
(* Facts about the operators the actions are built from                    *)

USE OrdersAssumption, DecisionsAssumption, BoundsAssumption, ModesAssumption

\* The executions of one entry are disjoint ranges of its filled lots.
LEMMA EntryRanges ==
    ASSUME TypeOK, VenueOK, NEW p \in ProviderIds
    PROVE  /\ book[p].filled \in Nat
           /\ Ranges({f \in trades : f.pid = p}, book[p].filled)
<1>1. book[p] \in BookEntry
  BY DEF TypeOK
<1>2. trades \subseteq Execution
  BY DEF TypeOK
<1> QED
  BY <1>1, <1>2 DEF VenueOK, Ranges, BookEntry, Execution

\* No order ever holds more than the venue executed of it.
LEMMA InvImpliesLocalNeverAhead == Inv => LocalNeverAhead
<1> SUFFICES ASSUME Inv, NEW o \in Orders, orders[o].filled > 0
             PROVE  /\ orders[o].pid # NoPid
                    /\ orders[o].filled <= book[orders[o].pid].filled
  BY DEF LocalNeverAhead
<1>1. orders[o] \in OrderRecord
  BY DEF Inv, TypeOK
<1>2. orders[o].pid # NoPid /\ orders[o].pid \in ProviderIds
  BY <1>1 DEF Inv, IdentityOK, OrderRecord
<1> DEFINE p == orders[o].pid
           Of == {f \in trades : f.pid = p}
<1>3. book[p].filled \in Nat /\ Ranges(Of, book[p].filled)
  BY <1>2, EntryRanges DEF Inv
<1>4. SeenOf(orders[o]) \in SUBSET Of
  BY DEF SeenOf
<1>5. Ranges(SeenOf(orders[o]), book[p].filled)
  BY <1>3, <1>4 DEF Ranges
<1>6. Quantity(SeenOf(orders[o])) \in Nat /\ Quantity(SeenOf(orders[o])) <= book[p].filled
  BY <1>3, <1>5, QuantityType
<1>7. orders[o].filled <= Quantity(SeenOf(orders[o])) /\ orders[o].filled \in Nat
  BY <1>1 DEF Inv, LedgerOK, OrderRecord
<1> QED
  BY <1>2, <1>3, <1>6, <1>7

\* The object submit works on is a fresh one or the tracked one; what it sends
\* is fresh, because the table lets nothing but a created order be sent.
LEMMA ObjectsAre ==
    ASSUME NEW o \in Orders, NEW obj \in Objects(o)
    PROVE  obj = FreshOrder \/ (obj = orders[o] /\ Tracked(o))
BY DEF Objects

\* An object that may be sent is as the constructor of PaperOrder leaves it.
LEMMA SentIsFresh ==
    ASSUME Inv, NEW o \in Orders, NEW obj \in Objects(o), NEW d \in Decisions,
           Sendable(o, obj, d)
    PROVE  obj = FreshOrder
<1>1. obj.state = "CREATED"
  BY DEF Sendable, Permitted
<1> QED
  BY <1>1, ObjectsAre DEF Inv, IdentityOK

\* Orders that move without being filled, and fills that only accumulate, keep
\* the ledger in order.
LEMMA LedgerKept ==
    ASSUME TypeOK', VenueOK', IdentityOK', LedgerOK, TypeOK,
           \A o \in Orders :
               \/ orders'[o].filled = 0
               \/ /\ orders'[o].pid = orders[o].pid
                  /\ orders'[o].filled = orders[o].filled
                  /\ trades \subseteq trades'
                  /\ applied \subseteq applied'
    PROVE  LedgerOK'
<1> SUFFICES ASSUME NEW o \in Orders
             PROVE  orders'[o].filled <= Quantity(SeenOf(orders[o])')
  BY DEF LedgerOK
<1> DEFINE p == orders'[o].pid
           Seen == SeenOf(orders[o])'
<1>1. orders'[o] \in OrderRecord /\ orders[o] \in OrderRecord
  BY DEF TypeOK
<1>2. CASE p = NoPid
  <2>1. Seen = {}
    <3>1. trades' \subseteq Execution /\ \A f \in Execution : f.pid # NoPid
      BY DEF TypeOK, Execution, NoPid, ProviderIds
    <3> QED
      BY <1>2, <3>1 DEF SeenOf
  <2>2. orders'[o].filled = 0
    BY <1>2 DEF IdentityOK
  <2> QED
    BY <2>1, <2>2, QuantityOfNone
<1>3. CASE p # NoPid
  <2>1. p \in ProviderIds
    BY <1>1, <1>3 DEF OrderRecord
  <2>2. book'[p] \in BookEntry /\ trades' \subseteq Execution
    BY <2>1 DEF TypeOK
  <2> DEFINE n == book'[p].filled
  <2>3. n \in Nat /\ Ranges(Seen, n)
    BY <2>2 DEF VenueOK, Ranges, BookEntry, Execution, SeenOf
  <2>4. Quantity(Seen) \in Nat
    BY <2>3, QuantityType
  <2>5. CASE orders'[o].filled = 0
    BY <2>4, <2>5
  <2>6. CASE /\ p = orders[o].pid
             /\ orders'[o].filled = orders[o].filled
             /\ trades \subseteq trades'
             /\ applied \subseteq applied'
    <3>1. SeenOf(orders[o]) \in SUBSET Seen
      BY <2>6 DEF SeenOf
    <3>2. Quantity(SeenOf(orders[o])) <= Quantity(Seen)
      BY <2>3, <3>1, QuantityMonotone
    <3>3. Ranges(SeenOf(orders[o]), n)
      BY <2>3, <3>1 DEF Ranges
    <3>4. Quantity(SeenOf(orders[o])) \in Nat
      BY <2>3, <3>3, QuantityType
    <3>5. orders[o].filled <= Quantity(SeenOf(orders[o])) /\ orders[o].filled \in Nat
      BY <1>1 DEF LedgerOK, OrderRecord
    <3> QED
      BY <2>4, <2>6, <3>2, <3>4, <3>5
  <2> QED
    BY <2>5, <2>6
<1> QED
  BY <1>2, <1>3

-----------------------------------------------------------------------------
(* Every action keeps the invariant                                        *)

\* The initial states: no order, no entry, no execution.
LEMMA InitInv == Init => Inv
<1> SUFFICES ASSUME Init
             PROVE  Inv
  OBVIOUS
<1> USE DEF Init
<1>0. FreshOrder \in [state : {"CREATED"}, filled : Nat, pid : {NoPid}, attempt : Nat,
                      decision : {NoDecision}]
  BY DEF FreshOrder
<1>1. Untracked \in OrderRecord /\ Untracked.filled = 0 /\ Untracked.pid = NoPid
      /\ Untracked.state = "UNTRACKED"
  BY DEF Untracked, FreshOrder, OrderRecord
<1>2. NoEntry \in BookEntry /\ NoEntry.filled = 0 /\ NoEntry.status = "NONE"
  BY DEF NoEntry, BookEntry, VenueStatuses
<1>3. TypeOK
  <2>1. /\ orders \in [Orders -> OrderRecord]
        /\ \A o \in Orders : orders[o].filled <= QuantityOf[o]
    BY <1>1
  <2>2. /\ book \in [ProviderIds -> BookEntry]
        /\ \A p \in ProviderIds : book[p].filled <= QuantityOf[book[p].order]
    BY <1>2 DEF BookEntry
  <2> QED
    BY <2>1, <2>2 DEF TypeOK
<1>4. VenueOK
  BY <1>2 DEF VenueOK, Working, ProviderIds
<1>5. IdentityOK
  BY <1>1 DEF IdentityOK
<1>6. LedgerOK
  <2> SUFFICES ASSUME NEW o \in Orders
               PROVE  orders[o].filled <= Quantity(SeenOf(orders[o]))
    BY DEF LedgerOK
  <2>1. SeenOf(orders[o]) = {}
    BY DEF SeenOf
  <2>2. Quantity(SeenOf(orders[o])) = 0
    BY <2>1, QuantityOfNone, Zenon
  <2>3. orders[o].filled = 0
    BY <1>1
  <2> QED
    BY <2>2, <2>3
<1>7. PidOfLiveOrder
  BY <1>1 DEF PidOfLiveOrder, Permitted
<1>8. AmbiguityNeverCompounds
  BY <1>1 DEF AmbiguityNeverCompounds, Unresolved
<1> QED
  BY <1>3, <1>4, <1>5, <1>6, <1>7, <1>8 DEF Inv

\* An order moves to another state without a submission and without a fill,
\* and the book keeps its entries and what was executed of them.
LEMMA QuietMove ==
    ASSUME Inv, NEW o \in Orders, NEW s \in OrderStates \ {"CREATED", "SUBMITTING"},
           orders' = [orders EXCEPT ![o].state = s],
           Tracked(o),
           "CANCEL_PENDING" \in Permitted(s) => orders[o].pid # NoPid,
           s \in Unresolved /\ orders[o].pid = NoPid => orders[o].state \in Unresolved,
           UNCHANGED <<attempts, sent, nextId, trades, applied, lastRun, absent>>,
           \/ book' = book
           \/ /\ orders[o].pid # NoPid
              /\ book' = [book EXCEPT ![orders[o].pid].status = "CANCELLED"]
    PROVE  Inv'
<1> DEFINE r == orders[o]
<1>1. /\ r \in OrderRecord
      /\ orders'[o] = [r EXCEPT !.state = s]
      /\ \A p \in Orders \ {o} : orders'[p] = orders[p]
      /\ \A p \in Orders : orders'[p].pid = orders[p].pid /\ orders'[p].filled = orders[p].filled
      /\ \A p \in Orders : p # o => orders'[p].state = orders[p].state
      /\ orders'[o].state = s
  BY DEF Inv, TypeOK, OrderRecord
<1>2. \A p \in ProviderIds :
         /\ book[p] \in BookEntry
         /\ book'[p].order = book[p].order /\ book'[p].filled = book[p].filled
         /\ book'[p].status = book[p].status \/ book'[p].status = "CANCELLED"
         /\ book'[p].status = "NONE" <=> book[p].status = "NONE"
         /\ book'[p] \in BookEntry
  <2> SUFFICES ASSUME NEW p \in ProviderIds
               PROVE  /\ book[p] \in BookEntry
                      /\ book'[p].order = book[p].order /\ book'[p].filled = book[p].filled
                      /\ book'[p].status = book[p].status \/ book'[p].status = "CANCELLED"
                      /\ book'[p].status = "NONE" <=> book[p].status = "NONE"
                      /\ book'[p] \in BookEntry
    OBVIOUS
  <2>1. book[p] \in BookEntry /\ DOMAIN book = ProviderIds
    BY DEF Inv, TypeOK
  <2>2. CASE book' = book
    BY <2>1, <2>2
  <2>3. CASE r.pid # NoPid /\ book' = [book EXCEPT ![r.pid].status = "CANCELLED"]
    <3>1. r.pid \in ProviderIds /\ book[r.pid].status # "NONE"
      BY <1>1, <2>3 DEF Inv, IdentityOK, Placed
    <3>2. CASE p = r.pid
      <4>1. book'[p] = [book[p] EXCEPT !.status = "CANCELLED"]
        BY <2>1, <2>3, <3>2
      <4> QED
        BY <2>1, <3>1, <3>2, <4>1 DEF BookEntry, VenueStatuses
    <3>3. CASE p # r.pid
      BY <2>1, <2>3, <3>3
    <3> QED
      BY <3>2, <3>3
  <2> QED
    BY <2>2, <2>3
<1>3. TypeOK'
  <2>1. orders' \in [Orders -> OrderRecord] /\ \A p \in Orders : orders'[p].filled <= QuantityOf[p]
    BY <1>1 DEF Inv, TypeOK, OrderRecord
  <2>2. book' \in [ProviderIds -> BookEntry]
    BY <1>2 DEF Inv, TypeOK
  <2>3. \A p \in ProviderIds : book'[p].filled <= QuantityOf[book'[p].order]
    BY <1>2 DEF Inv, TypeOK
  <2> QED
    BY <2>1, <2>2, <2>3 DEF Inv, TypeOK
<1>4. VenueOK'
  BY <1>2 DEF Inv, VenueOK, TypeOK, Execution, Working
<1>5. IdentityOK'
  <2> SUFFICES ASSUME NEW p \in Orders
               PROVE  /\ orders'[p].pid # NoPid =>
                            orders'[p].pid \in Placed' /\ book'[orders'[p].pid].order = p
                      /\ orders'[p].pid = NoPid => orders'[p].filled = 0
                      /\ orders'[p].state \notin {"CREATED", "SUBMITTING"}
                      /\ orders'[p].state = "UNTRACKED" => orders'[p] = Untracked
    BY DEF IdentityOK
  <2>1. orders'[p].pid = orders[p].pid /\ orders'[p].filled = orders[p].filled
    BY <1>1
  <2>2. orders[p].pid # NoPid => orders[p].pid \in ProviderIds
    BY DEF Inv, IdentityOK, Placed
  <2>3. orders'[p] = orders[p] \/ orders'[p].state = s
    BY <1>1
  <2>4. s # "UNTRACKED"
    BY DEF OrderStates
  <2> QED
    BY <1>2, <2>1, <2>2, <2>3, <2>4 DEF Inv, IdentityOK, Placed
<1>6. LedgerOK'
  BY <1>1, <1>3, <1>4, <1>5, LedgerKept DEF Inv
<1>7. PidOfLiveOrder'
  BY <1>1 DEF Inv, PidOfLiveOrder
<1>8. AmbiguityNeverCompounds'
  BY <1>1 DEF Inv, AmbiguityNeverCompounds
<1> QED
  BY <1>3, <1>4, <1>5, <1>6, <1>7, <1>8 DEF Inv

\* place_order fills the next entry of the book and leaves the others alone.
LEMMA PlaceOrderEffect ==
    ASSUME TypeOK, NEW o \in Orders, NEW v \in {"OPEN", "REJECTED"}, PlaceOrder(o, v)
    PROVE  /\ nextId \in ProviderIds
           /\ nextId' \in 1 .. MaxVenueOrders + 1
           /\ book' \in [ProviderIds -> BookEntry]
           /\ book'[nextId].status = v /\ book'[nextId].order = o
           /\ book'[nextId].attempt = attempts[o] + 1
           /\ book'[nextId].filled = 0
           /\ \A p \in ProviderIds :
                 \/ book'[p] = book[p] /\ (p < nextId' <=> p < nextId)
                 \/ p = nextId /\ p < nextId'
           /\ \A p \in ProviderIds : p # nextId => book'[p] = book[p]
<1>0. /\ book \in [ProviderIds -> BookEntry]
      /\ attempts \in [Orders -> Nat]
  BY DEF TypeOK
<1> DEFINE e == [status |-> v, order |-> o, attempt |-> attempts[o] + 1, filled |-> 0]
<1>1. /\ e \in BookEntry /\ e.status = v /\ e.order = o /\ e.filled = 0
      /\ e.attempt = attempts[o] + 1
  BY <1>0 DEF BookEntry, VenueStatuses
<1>2. /\ nextId \in ProviderIds /\ nextId' = nextId + 1
      /\ book' = [book EXCEPT ![nextId] = e]
  BY DEF PlaceOrder
<1> HIDE DEF e
<1>3. nextId' \in 1 .. MaxVenueOrders + 1
  BY <1>2 DEF ProviderIds
<1>4. /\ book' \in [ProviderIds -> BookEntry] /\ book'[nextId] = e
      /\ \A p \in ProviderIds : p # nextId => book'[p] = book[p]
  BY <1>0, <1>1, <1>2
<1>5. ASSUME NEW p \in ProviderIds
      PROVE  \/ book'[p] = book[p] /\ (p < nextId' <=> p < nextId)
             \/ p = nextId /\ p < nextId'
  <2>1. p \in Int /\ nextId \in Int
    BY <1>2 DEF ProviderIds
  <2>2. CASE p = nextId
    BY <1>2, <2>1, <2>2
  <2>3. CASE p # nextId
    BY <1>2, <1>4, <2>1, <2>3
  <2> QED
    BY <2>2, <2>3
<1> QED
  BY <1>1, <1>2, <1>3, <1>4, <1>5

\* An order without a fill takes the place of the tracked one, and at most one
\* entry is placed for it.
LEMMA FreshMove ==
    ASSUME Inv, NEW o \in Orders,
           \A p \in Orders : p # o => orders'[p] = orders[p],
           DOMAIN orders' = Orders, orders' = [p \in Orders |-> orders'[p]],
           orders'[o] \in OrderRecord,
           orders'[o].filled = 0,
           orders'[o].state \in {"SUBMITTED", "REJECTED", "UNKNOWN"},
           orders'[o].state = "SUBMITTED" => orders'[o].pid # NoPid,
           orders'[o].state = "UNKNOWN" => ~BlocksNewIntents(o),
           attempts' \in [Orders -> Nat], sent' \subseteq Orders \X Nat,
           absent' \subseteq Orders,
           UNCHANGED <<trades, applied, lastRun>>,
           \/ UNCHANGED <<book, nextId>> /\ orders'[o].pid = NoPid
           \/ PlaceOrder(o, "OPEN") /\ orders'[o].pid \in {NoPid, nextId}
           \/ PlaceOrder(o, "REJECTED") /\ orders'[o].pid \in {NoPid, nextId}
    PROVE  Inv'
<1>0. /\ TypeOK
      /\ nextId \in 1 .. MaxVenueOrders + 1
      /\ book \in [ProviderIds -> BookEntry]
      /\ orders \in [Orders -> OrderRecord]
      /\ trades \subseteq Execution
      /\ \A p \in Orders : QuantityOf[p] \in Nat /\ QuantityOf[p] > 0
  BY DEF Inv, TypeOK
<1>1. \A p \in Orders : p # o => orders'[p] = orders[p]
  OBVIOUS
<1>4. /\ nextId' \in 1 .. MaxVenueOrders + 1
      /\ book' \in [ProviderIds -> BookEntry]
      /\ \A p \in ProviderIds :
            \/ /\ book'[p] = book[p]
               /\ (p < nextId' <=> p < nextId)
            \/ /\ p = nextId /\ p < nextId'
               /\ book'[p] \in BookEntry
               /\ book'[p].status \in {"OPEN", "REJECTED"}
               /\ book'[p].order = o
               /\ book'[p].filled = 0
      /\ orders'[o].pid # NoPid => orders'[o].pid = nextId /\ nextId \in ProviderIds
                                   /\ book'[nextId].order = o
                                   /\ book'[nextId].status # "NONE"
  <2>1. CASE UNCHANGED <<book, nextId>> /\ orders'[o].pid = NoPid
    BY <1>0, <2>1
  <2>2. CASE PlaceOrder(o, "OPEN") /\ orders'[o].pid \in {NoPid, nextId}
    BY <1>0, <2>2, PlaceOrderEffect
  <2>3. CASE PlaceOrder(o, "REJECTED") /\ orders'[o].pid \in {NoPid, nextId}
    BY <1>0, <2>3, PlaceOrderEffect
  <2> QED
    BY <2>1, <2>2, <2>3
<1>5. \A p \in ProviderIds : p < nextId => book'[p] = book[p]
  <2>1. \A p \in ProviderIds : p \in Int
    BY DEF ProviderIds
  <2> QED
    BY <1>0, <1>4, <2>1
<1>6. TypeOK'
  <2>1. orders' \in [Orders -> OrderRecord] /\ \A p \in Orders : orders'[p].filled <= QuantityOf[p]
    <3>1. \A p \in Orders : orders'[p] \in OrderRecord
      BY <1>0, <1>1
    <3>2. \A p \in Orders : orders[p].filled <= QuantityOf[p]
      BY DEF Inv, TypeOK
    <3>3. \A p \in Orders : orders'[p].filled <= QuantityOf[p]
      <4>1. orders'[o].filled <= QuantityOf[o]
        BY <1>0
      <4> QED
        BY <1>1, <3>2, <4>1
    <3> QED
      BY <3>1, <3>3
  <2>2. \A p \in ProviderIds : book'[p].filled <= QuantityOf[book'[p].order]
    BY <1>0, <1>4 DEF Inv, TypeOK
  <2> QED
    BY <1>4, <2>1, <2>2 DEF Inv, TypeOK
<1>7. VenueOK'
  <2>1. \A f \in trades : f.pid \in ProviderIds /\ book[f.pid].filled \in Nat
                          /\ f.first \in Nat /\ f.last \in Nat
    BY <1>0 DEF Execution, BookEntry
  <2>2. \A f \in trades : book'[f.pid].filled = book[f.pid].filled
    <3> SUFFICES ASSUME NEW f \in trades
                 PROVE  book'[f.pid].filled = book[f.pid].filled
      OBVIOUS
    <3>1. f.pid = nextId => book[f.pid].status = "NONE"
      BY <1>0, <2>1 DEF Inv, VenueOK, ProviderIds
    <3>2. f.pid = nextId => book[f.pid].filled = 0
      BY <2>1, <3>1 DEF Inv, VenueOK
    <3> QED
      BY <1>4, <2>1, <3>2
  <2>3. \A p \in ProviderIds :
           /\ book'[p].status # "NONE" <=> p < nextId'
           /\ book'[p].status \in {"NONE", "OPEN", "REJECTED"} => book'[p].filled = 0
           /\ book'[p].status \in Working => book'[p].filled < QuantityOf[book'[p].order]
    BY <1>0, <1>4 DEF Inv, VenueOK
  <2> QED
    BY <2>2, <2>3 DEF Inv, VenueOK
<1>8. IdentityOK'
  <2> SUFFICES ASSUME NEW p \in Orders
               PROVE  /\ orders'[p].pid # NoPid =>
                            orders'[p].pid \in Placed' /\ book'[orders'[p].pid].order = p
                      /\ orders'[p].pid = NoPid => orders'[p].filled = 0
                      /\ orders'[p].state \notin {"CREATED", "SUBMITTING"}
                      /\ orders'[p].state = "UNTRACKED" => orders'[p] = Untracked
    BY DEF IdentityOK
  <2>1. CASE p = o
    BY <1>4, <2>1 DEF Placed
  <2>2. CASE p # o
    <3>1. orders[p].pid # NoPid => /\ orders[p].pid \in ProviderIds
                                   /\ orders[p].pid < nextId
                                   /\ book[orders[p].pid].order = p
                                   /\ book[orders[p].pid].status # "NONE"
      BY DEF Inv, IdentityOK, Placed, VenueOK
    <3> QED
      BY <1>1, <1>5, <2>2, <3>1 DEF Inv, IdentityOK, Placed
  <2> QED
    BY <2>1, <2>2
<1>9. LedgerOK'
  BY <1>1, <1>6, <1>7, <1>8, LedgerKept DEF Inv
<1>10. PidOfLiveOrder'
  BY <1>1 DEF Inv, PidOfLiveOrder, Permitted
<1>11. AmbiguityNeverCompounds'
  BY <1>1 DEF Inv, AmbiguityNeverCompounds, BlocksNewIntents, Unresolved
<1> QED
  BY <1>6, <1>7, <1>8, <1>9, <1>10, <1>11 DEF Inv

\* Handing in an object that is refused.
LEMMA RejectKeepsInv ==
    ASSUME Inv, NEW o \in Orders, NEW obj \in Objects(o), RejectObject(o, obj)
    PROVE  Inv'
<1>0. /\ attempts \in [Orders -> Nat] /\ sent \subseteq Orders \X Nat /\ absent \subseteq Orders
      /\ orders \in [Orders -> OrderRecord]
  BY DEF Inv, TypeOK
<1>1. CASE obj = FreshOrder
  <2> DEFINE r == [FreshOrder EXCEPT !.state = "REJECTED"]
  <2>1. r \in OrderRecord /\ r.filled = 0 /\ r.state = "REJECTED" /\ r.pid = NoPid
    BY DEF FreshOrder, OrderRecord, OrderStates
  <2>2. orders' = [orders EXCEPT ![o] = r] /\ UNCHANGED <<attempts, sent, absent>>
        /\ UNCHANGED <<book, nextId, trades, applied, lastRun>>
    BY <1>1 DEF RejectObject, venueVars, reconcilerVars
  <2> HIDE DEF r
  <2>3. /\ orders'[o] = r /\ DOMAIN orders' = Orders
        /\ orders' = [p \in Orders |-> orders'[p]]
        /\ \A p \in Orders : p # o => orders'[p] = orders[p]
    BY <1>0, <2>2
  <2> QED
    BY <1>0, <2>1, <2>2, <2>3, FreshMove
<1>2. CASE obj = orders[o] /\ Tracked(o)
  <2>1. orders' = [orders EXCEPT ![o].state = "REJECTED"]
    BY <1>0, <1>2 DEF RejectObject
  <2>2. "REJECTED" \in OrderStates /\ "CANCEL_PENDING" \notin Permitted("REJECTED")
        /\ "REJECTED" \notin Unresolved
    BY DEF OrderStates, Permitted, Unresolved
  <2> QED
    BY <1>2, <2>1, <2>2, QuietMove DEF RejectObject, venueVars, reconcilerVars
<1> QED
  BY <1>1, <1>2, ObjectsAre

\* What submit leaves of an order it has sent.
LEMMA SentRecord ==
    ASSUME Inv, NEW o \in Orders, NEW obj \in Objects(o), NEW d \in Decisions,
           Sendable(o, obj, d), NEW s \in {"SUBMITTED", "REJECTED", "UNKNOWN"},
           NEW pid \in ProviderIds \cup {NoPid}, RecordAttempt(o, obj, d, s, pid)
    PROVE  /\ orders'[o] \in OrderRecord
           /\ orders'[o].state = s /\ orders'[o].filled = 0 /\ orders'[o].pid = pid
           /\ orders'[o].attempt = attempts[o] + 1 /\ orders'[o].decision = d
           /\ DOMAIN orders' = Orders
           /\ orders' = [p \in Orders |-> orders'[p]]
           /\ \A p \in Orders : p # o => orders'[p] = orders[p]
           /\ attempts' \in [Orders -> Nat]
           /\ sent' \subseteq Orders \X Nat
           /\ absent' \subseteq Orders
           /\ UNCHANGED <<applied, lastRun>>
           /\ ~BlocksNewIntents(o)
<1> DEFINE r == [obj EXCEPT !.state = s, !.pid = pid, !.attempt = attempts[o] + 1,
                            !.decision = d]
<1>0. /\ attempts \in [Orders -> Nat] /\ sent \subseteq Orders \X Nat /\ absent \subseteq Orders
      /\ orders \in [Orders -> OrderRecord]
  BY DEF Inv, TypeOK
<1>1. obj = FreshOrder
  BY SentIsFresh
<1>2. attempts[o] + 1 \in Nat
  BY <1>0
<1>3. /\ r \in OrderRecord /\ r.state = s /\ r.filled = 0 /\ r.pid = pid
      /\ r.attempt = attempts[o] + 1 /\ r.decision = d
  BY <1>1, <1>2 DEF FreshOrder, OrderRecord, OrderStates
<1>4. /\ orders' = [orders EXCEPT ![o] = r]
      /\ attempts' = [attempts EXCEPT ![o] = attempts[o] + 1]
      /\ sent' = sent \cup {<<o, attempts[o] + 1>>}
      /\ absent' = absent \ {o}
      /\ UNCHANGED <<applied, lastRun>>
  BY DEF RecordAttempt, reconcilerVars
<1> HIDE DEF r
<1>5. /\ orders'[o] = r /\ DOMAIN orders' = Orders
      /\ orders' = [p \in Orders |-> orders'[p]]
      /\ \A p \in Orders : p # o => orders'[p] = orders[p]
  BY <1>0, <1>4
<1>6. attempts' \in [Orders -> Nat] /\ sent' \subseteq Orders \X Nat /\ absent' \subseteq Orders
  BY <1>0, <1>2, <1>4
<1>7. ~BlocksNewIntents(o)
  BY DEF Sendable
<1> QED
  BY <1>3, <1>4, <1>5, <1>6, <1>7

\* What submit hands to the adapter has no provider id yet.
LEMMA SentHasNoPid ==
    ASSUME Inv, NEW o \in Orders, NEW obj \in Objects(o), NEW d \in Decisions,
           Sendable(o, obj, d)
    PROVE  obj.pid = NoPid
BY SentIsFresh DEF FreshOrder

\* OrderManager.submit, in each of its outcomes.
LEMMA SubmitKeepsInv ==
    ASSUME Inv, NEW o \in Orders, Submit(o)
    PROVE  Inv'
<1>2. CASE SubmitNotAuthorized(o)
  BY <1>2, RejectKeepsInv DEF SubmitNotAuthorized
<1>3. CASE SubmitBlocked(o)
  BY <1>3, RejectKeepsInv DEF SubmitBlocked
<1>4. CASE SubmitAcknowledged(o)
  <2>1. PICK obj \in Objects(o), d \in Decisions :
           /\ Sendable(o, obj, d)
           /\ PlaceOrder(o, "OPEN")
           /\ RecordAttempt(o, obj, d, "SUBMITTED", nextId)
    BY <1>4 DEF SubmitAcknowledged
  <2>2. nextId \in ProviderIds /\ nextId # NoPid /\ UNCHANGED trades
    BY <2>1 DEF PlaceOrder, ProviderIds, NoPid
  <2> QED
    BY <2>1, <2>2, SentRecord, FreshMove
<1>5. CASE SubmitRejected(o)
  <2>1. PICK obj \in Objects(o), d \in Decisions :
           /\ Sendable(o, obj, d)
           /\ PlaceOrder(o, "REJECTED")
           /\ RecordAttempt(o, obj, d, "REJECTED", nextId)
    BY <1>5 DEF SubmitRejected
  <2>2. nextId \in ProviderIds /\ UNCHANGED trades
    BY <2>1 DEF PlaceOrder
  <2> QED
    BY <2>1, <2>2, SentRecord, FreshMove
<1>6. CASE SubmitAckLost(o)
  <2>1. PICK obj \in Objects(o), d \in Decisions :
           /\ Sendable(o, obj, d)
           /\ PlaceOrder(o, "OPEN")
           /\ RecordAttempt(o, obj, d, "UNKNOWN", obj.pid)
    BY <1>6 DEF SubmitAckLost
  <2>2. obj.pid = NoPid /\ UNCHANGED trades
    BY <2>1, SentHasNoPid DEF PlaceOrder
  <2> QED
    BY <2>1, <2>2, SentRecord, FreshMove
<1>7. CASE SubmitDropped(o)
  <2>1. PICK obj \in Objects(o), d \in Decisions :
           /\ Sendable(o, obj, d)
           /\ RecordAttempt(o, obj, d, "UNKNOWN", obj.pid)
           /\ UNCHANGED <<book, nextId, trades>>
    BY <1>7 DEF SubmitDropped, venueVars
  <2>2. obj.pid = NoPid
    BY <2>1, SentHasNoPid
  <2> QED
    BY <2>1, <2>2, SentRecord, FreshMove
<1>8. CASE SubmitCapabilityDenied(o)
  <2>1. PICK obj \in Objects(o), d \in Decisions :
           /\ Sendable(o, obj, d)
           /\ RecordAttempt(o, obj, d, "REJECTED", obj.pid)
           /\ UNCHANGED <<book, nextId, trades>>
    BY <1>8 DEF SubmitCapabilityDenied, venueVars
  <2>2. obj.pid = NoPid
    BY <2>1, SentHasNoPid
  <2> QED
    BY <2>1, <2>2, SentRecord, FreshMove
<1> QED
  BY <1>2, <1>3, <1>4, <1>5, <1>6, <1>7, <1>8 DEF Submit

\* OrderManager.escalate_to_reconciliation.
LEMMA EscalateKeepsInv ==
    ASSUME Inv, NEW o \in Orders, EscalateToReconciliation(o)
    PROVE  Inv'
<1>1. orders[o].state = "UNKNOWN"
  BY DEF EscalateToReconciliation, Permitted
<1>2. /\ "PENDING_RECONCILIATION" \in OrderStates \ {"CREATED", "SUBMITTING"}
      /\ "CANCEL_PENDING" \notin Permitted("PENDING_RECONCILIATION")
      /\ "UNKNOWN" \in Unresolved
  BY DEF OrderStates, Permitted, Unresolved
<1>3. /\ orders' = [orders EXCEPT ![o].state = "PENDING_RECONCILIATION"]
      /\ UNCHANGED <<attempts, sent, nextId, trades, applied, lastRun, absent>>
      /\ book' = book
  BY DEF EscalateToReconciliation, MoveTo, venueVars, reconcilerVars
<1> QED
  BY <1>1, <1>2, <1>3, QuietMove DEF Tracked

\* OrderManager.request_cancel, in each of its outcomes.
LEMMA CancelKeepsInv ==
    ASSUME Inv, NEW o \in Orders, RequestCancel(o)
    PROVE  Inv'
<1>1. /\ Cancellable(o)
      /\ \E s \in {"CANCELLED", "CANCEL_PENDING", "UNKNOWN"} : MoveTo(o, s)
      /\ book' = book \/ CancelEntry(orders[o].pid)
  BY DEF RequestCancel, CancelAccepted, CancelRefused, CancelUnanswered
<1>2. PICK s \in {"CANCELLED", "CANCEL_PENDING", "UNKNOWN"} : MoveTo(o, s)
  BY <1>1
<1>3. /\ Tracked(o) /\ orders[o].pid # NoPid
      /\ UNCHANGED <<attempts, sent, nextId, trades, applied, lastRun, absent>>
  BY <1>1 DEF Cancellable, Permitted, Tracked, reconcilerVars
<1>4. /\ s \in OrderStates \ {"CREATED", "SUBMITTING"}
      /\ "CANCEL_PENDING" \notin Permitted(s)
  BY DEF OrderStates, Permitted
<1> QED
  BY <1>1, <1>2, <1>3, <1>4, QuietMove DEF MoveTo, CancelEntry

\* The book changes below its statuses and quantities only as far as a venue may
\* change it by itself, and no order changes.
LEMMA VenueMove ==
    ASSUME Inv, UNCHANGED <<managerVars, reconcilerVars, nextId, absent>>,
           TypeOK', VenueOK', trades \subseteq trades',
           \A p \in ProviderIds :
               /\ book'[p].order = book[p].order
               /\ book[p].status # "NONE" => book'[p].status # "NONE"
    PROVE  Inv'
<1>1. UNCHANGED <<orders, attempts, sent, applied, lastRun>>
  BY DEF managerVars, reconcilerVars
<1>2. IdentityOK'
  BY <1>1 DEF Inv, IdentityOK, Placed
<1>3. LedgerOK'
  BY <1>1, <1>2, LedgerKept DEF Inv
<1>4. PidOfLiveOrder' /\ AmbiguityNeverCompounds'
  BY <1>1 DEF Inv, PidOfLiveOrder, AmbiguityNeverCompounds
<1> QED
  BY <1>2, <1>3, <1>4 DEF Inv

\* A cancellation at the venue that nobody is told of.
LEMMA VenueCancelsKeepsInv ==
    ASSUME Inv, NEW p \in ProviderIds, VenueCancels(p)
    PROVE  Inv'
<1>1. /\ book[p].status \in Working
      /\ book' = [book EXCEPT ![p].status = "CANCELLED"]
      /\ UNCHANGED <<managerVars, reconcilerVars, nextId, trades, absent>>
      /\ UNCHANGED <<orders, attempts, sent, applied, lastRun>>
  BY DEF VenueCancels, CancelEntry, managerVars, reconcilerVars
<1>2. book \in [ProviderIds -> BookEntry] /\ book[p] \in BookEntry
  BY DEF Inv, TypeOK
<1>3. /\ \A q \in ProviderIds : q # p => book'[q] = book[q]
      /\ book'[p] = [book[p] EXCEPT !.status = "CANCELLED"]
  BY <1>1, <1>2
<1>4. /\ book'[p] \in BookEntry /\ book'[p].order = book[p].order
      /\ book'[p].filled = book[p].filled /\ book'[p].status = "CANCELLED"
  BY <1>2, <1>3 DEF BookEntry, VenueStatuses
<1>5. TypeOK'
  <2>1. book' \in [ProviderIds -> BookEntry]
    BY <1>1, <1>2, <1>3, <1>4
  <2>2. \A q \in ProviderIds : book'[q].filled <= QuantityOf[book'[q].order]
    BY <1>3, <1>4 DEF Inv, TypeOK
  <2> QED
    BY <1>1, <2>1, <2>2 DEF Inv, TypeOK
<1>6. VenueOK'
  <2>1. trades \subseteq Execution
    BY DEF Inv, TypeOK
  <2> QED
    BY <1>1, <1>3, <1>4, <2>1 DEF Inv, VenueOK, Working, Execution
<1> QED
  BY <1>1, <1>3, <1>4, <1>5, <1>6, VenueMove DEF Working

\* An execution takes lots above those the entry had filled.
LEMMA VenueFillKeepsInv ==
    ASSUME Inv, NEW p \in ProviderIds, VenueFill(p)
    PROVE  Inv'
<1> DEFINE n == QuantityOf[book[p].order]
<1>1. PICK last \in book[p].filled + 1 .. n, slot \in FillSlots :
         /\ book' = [book EXCEPT ![p].filled = last,
                                 ![p].status = FilledState(last, n)]
         /\ trades' = trades \cup {[pid |-> p, first |-> book[p].filled + 1,
                                    last |-> last, slot |-> slot]}
  BY DEF VenueFill
<1> DEFINE new == [pid |-> p, first |-> book[p].filled + 1, last |-> last, slot |-> slot]
<1>2. /\ book[p].status \in Working
      /\ UNCHANGED <<managerVars, reconcilerVars, nextId, absent>>
      /\ UNCHANGED <<orders, attempts, sent, applied, lastRun, nextId, absent>>
  BY DEF VenueFill, managerVars, reconcilerVars
<1>3. /\ book \in [ProviderIds -> BookEntry] /\ book[p] \in BookEntry
      /\ trades \subseteq Execution /\ book[p].order \in Orders
      /\ n \in Nat /\ book[p].filled \in Nat
  BY DEF Inv, TypeOK, BookEntry
<1>4. last \in Nat /\ last > book[p].filled /\ last <= n
  BY <1>3
<1>5. /\ \A q \in ProviderIds : q # p => book'[q] = book[q]
      /\ book'[p] = [book[p] EXCEPT !.filled = last, !.status = FilledState(last, n)]
  BY <1>1, <1>3
<1>6. /\ book'[p] \in BookEntry /\ book'[p].order = book[p].order
      /\ book'[p].filled = last /\ book'[p].status = FilledState(last, n)
  BY <1>3, <1>4, <1>5 DEF BookEntry, VenueStatuses, FilledState
<1>7. new \in Execution /\ new.pid = p /\ new.first = book[p].filled + 1 /\ new.last = last
  BY <1>3, <1>4 DEF Execution
<1> HIDE DEF new
<1>8. trades' = trades \cup {new}
  BY <1>1 DEF new
<1>9. TypeOK'
  <2>1. book' \in [ProviderIds -> BookEntry]
    BY <1>1, <1>3, <1>5, <1>6
  <2>2. \A q \in ProviderIds : book'[q].filled <= QuantityOf[book'[q].order]
    BY <1>4, <1>5, <1>6 DEF Inv, TypeOK
  <2>3. applied' \subseteq {DedupKey(f) : f \in trades'}
    BY <1>2, <1>8 DEF Inv, TypeOK
  <2> QED
    BY <1>2, <1>3, <1>7, <1>8, <2>1, <2>2, <2>3 DEF Inv, TypeOK
<1>10. VenueOK'
  <2>1. \A q \in ProviderIds :
           /\ book'[q].status # "NONE" <=> q < nextId'
           /\ book'[q].status \in {"NONE", "OPEN", "REJECTED"} => book'[q].filled = 0
           /\ book'[q].status \in Working => book'[q].filled < QuantityOf[book'[q].order]
    <3> SUFFICES ASSUME NEW q \in ProviderIds
                 PROVE  /\ book'[q].status # "NONE" <=> q < nextId'
                        /\ book'[q].status \in {"NONE", "OPEN", "REJECTED"} =>
                              book'[q].filled = 0
                        /\ book'[q].status \in Working =>
                              book'[q].filled < QuantityOf[book'[q].order]
      OBVIOUS
    <3>1. CASE q # p
      BY <1>2, <1>5, <3>1 DEF Inv, VenueOK
    <3>2. CASE q = p
      <4>1. book[p].status # "NONE" /\ p < nextId
        BY <1>2 DEF Inv, VenueOK, Working
      <4> QED
        BY <1>2, <1>3, <1>4, <1>6, <3>2, <4>1 DEF Working, FilledState
    <3> QED
      BY <3>1, <3>2
  <2>2. \A f \in trades : f.pid \in ProviderIds /\ f.first \in Nat /\ f.last \in Nat
                          /\ book[f.pid].filled \in Nat
    BY <1>3 DEF Execution, BookEntry
  <2>3. \A f \in trades' : 1 <= f.first /\ f.last <= book'[f.pid].filled
    <3>1. ASSUME NEW f \in trades
          PROVE  1 <= f.first /\ f.last <= book'[f.pid].filled
      <4>1. 1 <= f.first /\ f.last <= book[f.pid].filled
        BY DEF Inv, VenueOK
      <4>2. book[f.pid].filled <= book'[f.pid].filled
        <5>1. CASE f.pid = p
          BY <1>3, <1>4, <1>6, <5>1
        <5>2. CASE f.pid # p
          <6>1. book'[f.pid] = book[f.pid]
            BY <1>5, <2>2, <5>2
          <6> QED
            BY <2>2, <6>1
        <5> QED
          BY <5>1, <5>2
      <4>3. book'[f.pid].filled \in Nat
        BY <1>4, <1>5, <1>6, <2>2
      <4> QED
        BY <2>2, <4>1, <4>2, <4>3
    <3>2. 1 <= new.first /\ new.last <= book'[new.pid].filled
      BY <1>3, <1>4, <1>6, <1>7
    <3> QED
      BY <1>8, <3>1, <3>2
  <2>4. \A f \in trades : f.pid = p => f.last < new.first
    BY <1>3, <1>7, <2>2 DEF Inv, VenueOK
  <2>5. \A f, g \in trades' :
           f.pid = g.pid /\ f # g => f.last < g.first \/ g.last < f.first
    BY <1>7, <1>8, <2>4 DEF Inv, VenueOK
  <2> QED
    BY <2>1, <2>3, <2>5 DEF VenueOK
<1> QED
  BY <1>2, <1>5, <1>6, <1>8, <1>9, <1>10, VenueMove DEF FilledState

\* A restart leaves shells without a fill, and the book alone.
LEMMA RestartKeepsInv ==
    ASSUME Inv, Restart
    PROVE  Inv'
<1>1. /\ orders' = [o \in Orders |-> Shell(orders[o])]
      /\ attempts' = [o \in Orders |-> 0] /\ sent' = {} /\ applied' = {}
      /\ lastRun' = "none" /\ absent' = {}
      /\ UNCHANGED <<book, nextId, trades>>
  BY DEF Restart, venueVars
<1>2. \A o \in Orders :
         /\ orders'[o] \in OrderRecord /\ orders'[o].filled = 0
         /\ orders'[o].pid = orders[o].pid
         /\ \/ orders'[o].state = "SUBMITTED" /\ orders[o].pid # NoPid
            \/ /\ orders'[o].state = "PENDING_RECONCILIATION"
               /\ orders[o].pid = NoPid /\ orders[o].state \in Unresolved
            \/ orders'[o] = Untracked /\ orders[o].pid = NoPid
  <2> SUFFICES ASSUME NEW o \in Orders
               PROVE  /\ orders'[o] \in OrderRecord /\ orders'[o].filled = 0
                      /\ orders'[o].pid = orders[o].pid
                      /\ \/ orders'[o].state = "SUBMITTED" /\ orders[o].pid # NoPid
                         \/ /\ orders'[o].state = "PENDING_RECONCILIATION"
                            /\ orders[o].pid = NoPid /\ orders[o].state \in Unresolved
                         \/ orders'[o] = Untracked /\ orders[o].pid = NoPid
    OBVIOUS
  <2>1. orders'[o] = Shell(orders[o]) /\ orders[o] \in OrderRecord
    BY <1>1 DEF Inv, TypeOK
  <2>2. CASE orders[o].pid # NoPid
    <3>1. orders'[o] = [orders[o] EXCEPT !.state = "SUBMITTED", !.filled = 0]
      BY <2>1, <2>2 DEF Shell
    <3>2. /\ orders'[o].state = "SUBMITTED" /\ orders'[o].filled = 0
          /\ orders'[o].pid = orders[o].pid
      BY <2>1, <3>1 DEF OrderRecord
    <3>3. "SUBMITTED" \in OrderStates \cup {"UNTRACKED"} /\ 0 \in Nat
      BY DEF OrderStates
    <3>4. orders'[o] \in OrderRecord
      BY <2>1, <3>1, <3>3 DEF OrderRecord
    <3> QED
      BY <2>2, <3>2, <3>4
  <2>3. CASE orders[o].pid = NoPid /\ orders[o].state \in Unresolved
    <3>1. orders'[o] = [orders[o] EXCEPT !.state = "PENDING_RECONCILIATION", !.filled = 0]
      BY <2>1, <2>3 DEF Shell
    <3>2. /\ orders'[o].state = "PENDING_RECONCILIATION" /\ orders'[o].filled = 0
          /\ orders'[o].pid = orders[o].pid
      BY <2>1, <3>1 DEF OrderRecord
    <3>3. "PENDING_RECONCILIATION" \in OrderStates \cup {"UNTRACKED"} /\ 0 \in Nat
      BY DEF OrderStates
    <3>4. orders'[o] \in OrderRecord
      BY <2>1, <3>1, <3>3 DEF OrderRecord
    <3> QED
      BY <2>3, <3>2, <3>4
  <2>4. CASE orders[o].pid = NoPid /\ orders[o].state \notin Unresolved
    <3>1. orders'[o] = Untracked
      BY <2>1, <2>4 DEF Shell
    <3>2. Untracked \in OrderRecord /\ Untracked.filled = 0 /\ Untracked.pid = NoPid
          /\ Untracked.state = "UNTRACKED"
      BY DEF Untracked, FreshOrder, OrderRecord
    <3> QED
      BY <2>4, <3>1, <3>2
  <2> QED
    BY <2>2, <2>3, <2>4
<1>2a. Untracked.state = "UNTRACKED"
  BY DEF Untracked, FreshOrder
<1>3. TypeOK'
  <2>1. orders' \in [Orders -> OrderRecord] /\ \A o \in Orders : orders'[o].filled <= QuantityOf[o]
    BY <1>1, <1>2
  <2> QED
    BY <1>1, <2>1 DEF Inv, TypeOK
<1>4. VenueOK'
  BY <1>1 DEF Inv, VenueOK
<1>5. IdentityOK'
  BY <1>1, <1>2, <1>2a DEF Inv, IdentityOK, Placed
<1>6. LedgerOK'
  BY <1>2, <1>3, <1>4, <1>5, LedgerKept DEF Inv
<1>7. PidOfLiveOrder'
  BY <1>2, <1>2a DEF PidOfLiveOrder, Permitted
<1>8. AmbiguityNeverCompounds'
  BY <1>2, <1>2a DEF Inv, AmbiguityNeverCompounds, Unresolved
<1> QED
  BY <1>3, <1>4, <1>5, <1>6, <1>7, <1>8 DEF Inv

-----------------------------------------------------------------------------
(* Reconciliation                                                          *)

\* What adoption leaves of an order: a provider id it may have gained, and then
\* an entry that carries its attempt.
LEMMA Adopted ==
    ASSUME Inv, NEW listed \in SUBSET Placed, NEW o \in Orders,
           NEW a, a = AdoptIdentities(listed)[o]
    PROVE  /\ a \in OrderRecord
           /\ a.state = orders[o].state /\ a.filled = orders[o].filled
           /\ a.attempt = orders[o].attempt /\ a.decision = orders[o].decision
           /\ \/ a = orders[o]
              \/ /\ orders[o].pid = NoPid /\ a.pid \in ProviderIds
                 /\ a.pid \in AttemptEntries(o, orders[o], listed)
           /\ a.pid = NoPid => First(AttemptEntries(o, orders[o], listed)) = {}
<1> DEFINE found == First(AttemptEntries(o, orders[o], listed))
<1>1. orders[o] \in OrderRecord
  BY DEF Inv, TypeOK
<1>2. a = IF orders[o].pid # NoPid THEN orders[o] ELSE WithPid(orders[o], found)
  BY DEF AdoptIdentities
<1>3. found \subseteq AttemptEntries(o, orders[o], listed) /\ found \subseteq ProviderIds
  BY DEF First, AttemptEntries, Placed
<1> HIDE DEF found
<1>4. CASE orders[o].pid # NoPid
  BY <1>1, <1>2, <1>4
<1>5. CASE orders[o].pid = NoPid /\ found = {}
  <2>1. a = orders[o]
    BY <1>2, <1>5 DEF WithPid
  <2> QED
    BY <1>1, <1>5, <2>1 DEF found
<1>6. CASE orders[o].pid = NoPid /\ found # {}
  <2> DEFINE q == CHOOSE p \in found : TRUE
  <2>1. q \in found
    BY <1>6
  <2>2. a = [orders[o] EXCEPT !.pid = q]
    BY <1>2, <1>6 DEF WithPid
  <2> HIDE DEF q
  <2>3. q \in ProviderIds /\ q # NoPid
    BY <1>3, <2>1 DEF ProviderIds, NoPid
  <2>4. a.pid = q /\ a \in OrderRecord
    BY <1>1, <2>2, <2>3 DEF OrderRecord
  <2>5. /\ a.state = orders[o].state /\ a.filled = orders[o].filled
        /\ a.attempt = orders[o].attempt /\ a.decision = orders[o].decision
    BY <1>1, <2>2 DEF OrderRecord
  <2> QED
    BY <1>3, <1>6, <2>1, <2>3, <2>4, <2>5
<1> QED
  BY <1>4, <1>5, <1>6

\* What the fill pass leaves of an order: its new executions are added, and it
\* moves only if there are some.
LEMMA Filled ==
    ASSUME Inv, NEW listed \in SUBSET Placed, NEW F \in InsertedFills(AdoptIdentities(listed)),
           NEW o \in Orders, NEW a, a = AdoptIdentities(listed)[o],
           NEW b, b = ApplyFills(AdoptIdentities(listed), F)[o]
    PROVE  /\ F \subseteq Unapplied
           /\ b \in OrderRecord /\ b.filled <= QuantityOf[o]
           /\ b.pid = a.pid /\ b.attempt = a.attempt /\ b.decision = a.decision
           /\ b.filled = a.filled + Quantity(FillsFor(F, a))
           /\ Quantity(FillsFor(F, a)) \in Nat
           /\ \/ b = a
              \/ /\ a.pid \in ProviderIds
                 /\ a.state \in Fillable
                 /\ b.state = FilledState(b.filled, QuantityOf[o])
<1> DEFINE mine == FillsFor(F, a)
<1>1. /\ F \subseteq Unapplied /\ Accepts(AdoptIdentities(listed), F)
      /\ F \subseteq trades
  BY DEF InsertedFills, Unapplied
<1>2. /\ a \in OrderRecord /\ a.filled = orders[o].filled
      /\ a.pid \in ProviderIds \cup {NoPid}
      /\ a.filled \in Nat /\ a.filled <= QuantityOf[o]
  BY Adopted DEF OrderRecord, Inv, TypeOK
<1>3. trades \subseteq Execution
  BY DEF Inv, TypeOK
<1>4. mine # {} => a.pid \in ProviderIds
  BY <1>1, <1>3 DEF FillsFor, Execution
<1>5. Quantity(mine) \in Nat /\ (mine = {} => Quantity(mine) = 0)
  <2>1. CASE mine = {}
    <3>1. Quantity(mine) = 0
      BY <2>1, QuantityOfNone, Zenon
    <3> HIDE DEF mine
    <3> QED
      BY <3>1
  <2>2. CASE mine # {}
    <3>1. /\ book[a.pid].filled \in Nat
          /\ Ranges({f \in trades : f.pid = a.pid}, book[a.pid].filled)
      BY <1>4, <2>2, EntryRanges DEF Inv
    <3>2. mine \subseteq {f \in trades : f.pid = a.pid}
      BY <1>1 DEF FillsFor
    <3>3. Ranges(mine, book[a.pid].filled)
      BY <3>1, <3>2 DEF Ranges
    <3> QED
      BY <2>2, <3>1, <3>3, QuantityType
  <2> QED
    BY <2>1, <2>2
<1>6. b = IF mine = {} THEN a
          ELSE [a EXCEPT !.filled = a.filled + Quantity(mine),
                         !.state = FilledState(a.filled + Quantity(mine), QuantityOf[o])]
  BY DEF ApplyFills
<1>7. mine # {} => /\ a.state \in Fillable
                   /\ a.filled + Quantity(mine) <= QuantityOf[o]
  BY <1>1 DEF Accepts
<1>7a. QuantityOf[o] \in Nat
  OBVIOUS
<1> HIDE DEF mine
<1>8. CASE mine = {}
  BY <1>1, <1>2, <1>5, <1>6, <1>7a, <1>8 DEF mine
<1>9. CASE mine # {}
  <2> DEFINE n == a.filled + Quantity(mine)
             s == FilledState(n, QuantityOf[o])
  <2>1. n \in Nat /\ s \in OrderStates
    BY <1>2, <1>5 DEF FilledState, OrderStates
  <2>2. b = [a EXCEPT !.filled = n, !.state = s]
    BY <1>6, <1>9
  <2>3. s = FilledState(n, QuantityOf[o])
    OBVIOUS
  <2>4. n = a.filled + Quantity(mine) /\ n <= QuantityOf[o]
    BY <1>7, <1>9
  <2> HIDE DEF n, s
  <2>5. /\ b.filled = n /\ b.state = s /\ b.pid = a.pid
        /\ b.attempt = a.attempt /\ b.decision = a.decision
    BY <1>2, <2>2 DEF OrderRecord
  <2>6. b \in OrderRecord
    BY <1>2, <2>1, <2>2 DEF OrderRecord
  <2> QED
    BY <1>1, <1>4, <1>5, <1>7, <1>9, <2>3, <2>4, <2>5, <2>6 DEF mine
<1> QED
  BY <1>8, <1>9

\* What an entry of the book establishes is its status.
LEMMA EstablishedIsStatus ==
    ASSUME Inv, NEW p \in Placed
    PROVE  /\ ReconciledState(book[p]) = book[p].status
           /\ book[p].status \in OrderStates \ ({"CREATED", "SUBMITTING"} \cup Unresolved)
<1>1. p \in ProviderIds /\ book[p] \in BookEntry /\ book[p].status # "NONE"
  BY DEF Inv, TypeOK, Placed
<1>2. book[p].status = "OPEN" => book[p].filled = 0
  BY <1>1 DEF Inv, VenueOK
<1> QED
  BY <1>1, <1>2 DEF ReconciledState, BookEntry, VenueStatuses, OrderStates, Unresolved

\* After adoption an order is matched by its provider id or not at all.
LEMMA MatchedByPid ==
    ASSUME Inv, NEW listed \in SUBSET Placed, NEW o \in Orders,
           NEW a, a = AdoptIdentities(listed)[o],
           NEW b \in OrderRecord, b.pid = a.pid, b.attempt = a.attempt
    PROVE  Match(o, b, listed) = {b.pid} \cap listed
<1>1. CASE b.pid # NoPid
  BY <1>1 DEF Match
<1>2. CASE b.pid = NoPid
  <2>1. b.attempt = orders[o].attempt
    BY Adopted
  <2>2. AttemptEntries(o, b, listed) = AttemptEntries(o, orders[o], listed)
    BY <2>1 DEF AttemptEntries
  <2>3. First(AttemptEntries(o, orders[o], listed)) = {}
    BY <1>2, Adopted
  <2>4. Match(o, b, listed) = First(AttemptEntries(o, b, listed))
    BY <1>2 DEF Match
  <2>5. NoPid \notin listed
    BY DEF Placed, ProviderIds, NoPid
  <2> QED
    BY <1>2, <2>2, <2>3, <2>4, <2>5
<1> QED
  BY <1>1, <1>2

\* What the status pass leaves of an order: the status of its entry, if it is
\* listed and the table permits the move.
LEMMA StatusApplied ==
    ASSUME Inv, NEW listed \in SUBSET Placed, NEW o \in Orders,
           NEW a, a = AdoptIdentities(listed)[o],
           NEW b \in OrderRecord, b.pid = a.pid, b.attempt = a.attempt,
           NEW c, c = ReconcileOrder(b, Match(o, b, listed))
    PROVE  /\ c \in OrderRecord
           /\ c.pid = b.pid /\ c.filled = b.filled
           /\ c.attempt = b.attempt /\ c.decision = b.decision
           /\ IF b.pid \in listed /\ book[b.pid].status \in Permitted(b.state)
              THEN c.state = book[b.pid].status
              ELSE c = b
<1>1. Match(o, b, listed) = {b.pid} \cap listed
  BY MatchedByPid
<1>2. CASE b.pid \in listed /\ book[b.pid].status \in Permitted(b.state)
  <2>1. b.pid \in Placed /\ Match(o, b, listed) = {b.pid}
    BY <1>1, <1>2
  <2>2. ReconciledState(book[b.pid]) = book[b.pid].status
    BY <2>1, EstablishedIsStatus
  <2>3. (CHOOSE p \in {b.pid} : TRUE) = b.pid
    OBVIOUS
  <2>4. c = [b EXCEPT !.state = book[b.pid].status]
    BY <1>2, <2>1, <2>2, <2>3 DEF ReconcileOrder
  <2>5. book[b.pid].status \in OrderStates
    BY <2>1, EstablishedIsStatus
  <2> QED
    BY <1>2, <2>4, <2>5 DEF OrderRecord
<1>3. CASE ~(b.pid \in listed /\ book[b.pid].status \in Permitted(b.state))
  <2>1. c = b
    <3>1. \A p \in Match(o, b, listed) : ReconciledState(book[p]) \notin Permitted(b.state)
      <4> SUFFICES ASSUME NEW p \in Match(o, b, listed)
                   PROVE  ReconciledState(book[p]) \notin Permitted(b.state)
        OBVIOUS
      <4>1. p = b.pid /\ p \in listed /\ p \in Placed
        BY <1>1
      <4> QED
        BY <1>3, <4>1, EstablishedIsStatus
    <3> QED
      BY <3>1 DEF ReconcileOrder
  <2> QED
    BY <1>3, <2>1
<1> QED
  BY <1>2, <1>3

\* What a run that lists the entries of listed and inserts the fills of F may
\* leave of order o: c.
MayLeave(c, o, listed, F) ==
    /\ c \in OrderRecord /\ c.filled <= QuantityOf[o]
    /\ c.attempt = orders[o].attempt /\ c.decision = orders[o].decision
    /\ \/ c.pid = orders[o].pid
       \/ /\ orders[o].pid = NoPid /\ c.pid \in ProviderIds
          /\ c.pid \in AttemptEntries(o, orders[o], listed)
    /\ c.pid = NoPid => First(AttemptEntries(o, orders[o], listed)) = {}
    /\ F \subseteq Unapplied
    /\ Quantity({f \in F : f.pid = c.pid}) \in Nat
    /\ c.filled = orders[o].filled + Quantity({f \in F : f.pid = c.pid})
    /\ \/ c.state = orders[o].state /\ (c.pid = orders[o].pid => c = orders[o])
       \/ /\ c.pid \in ProviderIds
          /\ c.state = FilledState(c.filled, QuantityOf[o])
          /\ orders[o].state \in Fillable
       \/ /\ c.pid \in listed
          /\ c.state = book[c.pid].status

\* What a whole run leaves of an order.
LEMMA ReconciledOrder ==
    ASSUME Inv, NEW listed \in SUBSET Placed, NEW F \in InsertedFills(AdoptIdentities(listed)),
           NEW o \in Orders,
           NEW c, c = ReconcileOrders(ApplyFills(AdoptIdentities(listed), F), listed)[o]
    PROVE  MayLeave(c, o, listed, F)
<1> DEFINE ords == ApplyFills(AdoptIdentities(listed), F)
           a == AdoptIdentities(listed)[o]
           b == ords[o]
<1>1. c = ReconcileOrder(b, Match(o, b, listed))
  BY DEF ReconcileOrders
<1>2. /\ a \in OrderRecord
      /\ a.state = orders[o].state /\ a.filled = orders[o].filled
      /\ a.attempt = orders[o].attempt /\ a.decision = orders[o].decision
      /\ \/ a = orders[o]
         \/ /\ orders[o].pid = NoPid /\ a.pid \in ProviderIds
            /\ a.pid \in AttemptEntries(o, orders[o], listed)
      /\ a.pid = NoPid => First(AttemptEntries(o, orders[o], listed)) = {}
  BY Adopted
<1>3. /\ F \subseteq Unapplied
      /\ b \in OrderRecord /\ b.filled <= QuantityOf[o]
      /\ b.pid = a.pid /\ b.attempt = a.attempt /\ b.decision = a.decision
      /\ b.filled = a.filled + Quantity(FillsFor(F, a))
      /\ Quantity(FillsFor(F, a)) \in Nat
      /\ \/ b = a
         \/ /\ a.pid \in ProviderIds
            /\ a.state \in Fillable
            /\ b.state = FilledState(b.filled, QuantityOf[o])
  BY Filled
<1> HIDE DEF a, b, ords
<1>4. /\ c \in OrderRecord
      /\ c.pid = b.pid /\ c.filled = b.filled
      /\ c.attempt = b.attempt /\ c.decision = b.decision
      /\ IF b.pid \in listed /\ book[b.pid].status \in Permitted(b.state)
         THEN c.state = book[b.pid].status
         ELSE c = b
  BY <1>1, <1>2, <1>3, StatusApplied DEF a
<1>5. FillsFor(F, a) = {f \in F : f.pid = c.pid}
  BY <1>3, <1>4 DEF FillsFor
<1>6. \/ a = orders[o]
      \/ a.pid # orders[o].pid
  BY <1>2 DEF ProviderIds, NoPid
<1>7. \/ c.state = orders[o].state /\ (c.pid = orders[o].pid => c = orders[o])
      \/ /\ c.pid \in ProviderIds
         /\ c.state = FilledState(c.filled, QuantityOf[o])
         /\ orders[o].state \in Fillable
      \/ /\ c.pid \in listed
         /\ c.state = book[c.pid].status
  BY <1>2, <1>3, <1>4, <1>6
<1>8. \/ c.pid = orders[o].pid
      \/ /\ orders[o].pid = NoPid /\ c.pid \in ProviderIds
         /\ c.pid \in AttemptEntries(o, orders[o], listed)
  BY <1>2, <1>3, <1>4
<1>9. /\ Quantity({f \in F : f.pid = c.pid}) \in Nat
      /\ c.filled = orders[o].filled + Quantity({f \in F : f.pid = c.pid})
  BY <1>2, <1>3, <1>4, <1>5
<1> QED
  BY <1>2, <1>3, <1>4, <1>7, <1>8, <1>9 DEF MayLeave

\* Reconciler.reconcile, for any listing.
LEMMA ReconcileKeepsInv ==
    ASSUME Inv, Reconcile
    PROVE  Inv'
<1>1. PICK listed \in Listings : ReconcileAgainst(listed)
  BY DEF Reconcile
<1>2. listed \in SUBSET Placed
  BY DEF Listings
<1>3. PICK F \in InsertedFills(AdoptIdentities(listed)) :
         /\ orders' = ReconcileOrders(ApplyFills(AdoptIdentities(listed), F), listed)
         /\ applied' = applied \cup {DedupKey(f) : f \in trades}
         /\ lastRun' \in {"clean", "dirty"}
         /\ absent' = MissingAtProvider(ApplyFills(AdoptIdentities(listed), F), listed)
         /\ UNCHANGED <<attempts, sent, book, nextId, trades>>
  BY <1>1 DEF ReconcileAgainst, venueVars
<1>4. absent' \subseteq Orders
  BY <1>3 DEF MissingAtProvider
<1>5. DOMAIN orders' = Orders /\ orders' = [o \in Orders |-> orders'[o]]
  BY <1>3 DEF ReconcileOrders
<1>6. ASSUME NEW o \in Orders
      PROVE  /\ orders'[o] \in OrderRecord /\ orders'[o].filled <= QuantityOf[o]
             /\ orders'[o].attempt = orders[o].attempt
             /\ orders'[o].decision = orders[o].decision
             /\ \/ orders'[o].pid = orders[o].pid
                \/ /\ orders[o].pid = NoPid /\ orders'[o].pid \in ProviderIds
                   /\ orders'[o].pid \in AttemptEntries(o, orders[o], listed)
             /\ orders'[o].pid = NoPid => First(AttemptEntries(o, orders[o], listed)) = {}
             /\ F \subseteq Unapplied
             /\ Quantity({f \in F : f.pid = orders'[o].pid}) \in Nat
             /\ orders'[o].filled =
                  orders[o].filled + Quantity({f \in F : f.pid = orders'[o].pid})
             /\ \/ /\ orders'[o].state = orders[o].state
                   /\ orders'[o].pid = orders[o].pid => orders'[o] = orders[o]
                \/ /\ orders'[o].pid \in ProviderIds
                   /\ orders'[o].state = FilledState(orders'[o].filled, QuantityOf[o])
                   /\ orders[o].state \in Fillable
                \/ /\ orders'[o].pid \in listed
                   /\ orders'[o].state = book[orders'[o].pid].status
  <2>0. PICK c : c = orders'[o]
    OBVIOUS
  <2>1. c = ReconcileOrders(ApplyFills(AdoptIdentities(listed), F), listed)[o]
    BY <1>3, <2>0
  <2>2. MayLeave(c, o, listed, F)
    BY <1>2, <2>1, ReconciledOrder
  <2> QED
    BY <2>0, <2>2 DEF MayLeave
<1>7. TypeOK'
  <2>1. orders' \in [Orders -> OrderRecord] /\ \A o \in Orders : orders'[o].filled <= QuantityOf[o]
    BY <1>5, <1>6
  <2>2. applied' \subseteq {DedupKey(f) : f \in trades'}
    BY <1>3 DEF Inv, TypeOK
  <2> QED
    BY <1>3, <1>4, <2>1, <2>2 DEF Inv, TypeOK
<1>8. VenueOK'
  BY <1>3 DEF Inv, VenueOK
<1>9. ASSUME NEW o \in Orders, orders'[o].pid # NoPid
      PROVE  orders'[o].pid \in Placed /\ book[orders'[o].pid].order = o
  <2>1. CASE orders'[o].pid = orders[o].pid
    BY <1>9, <2>1 DEF Inv, IdentityOK
  <2>2. CASE orders'[o].pid \in AttemptEntries(o, orders[o], listed)
    BY <1>2, <2>2 DEF AttemptEntries
  <2> QED
    BY <1>6, <2>1, <2>2
<1>10. ASSUME NEW o \in Orders
       PROVE  \/ orders'[o].state = orders[o].state
              \/ /\ orders'[o].pid # NoPid
                 /\ orders'[o].state \in
                      OrderStates \ ({"CREATED", "SUBMITTING"} \cup Unresolved)
  <2>1. CASE /\ orders'[o].pid \in ProviderIds
             /\ orders'[o].state = FilledState(orders'[o].filled, QuantityOf[o])
    BY <2>1 DEF FilledState, OrderStates, Unresolved, ProviderIds, NoPid
  <2>2. CASE /\ orders'[o].pid \in listed
             /\ orders'[o].state = book[orders'[o].pid].status
    <3>1. orders'[o].pid \in Placed /\ orders'[o].pid # NoPid
      BY <1>2, <2>2 DEF Placed, ProviderIds, NoPid
    <3> QED
      BY <2>2, <3>1, EstablishedIsStatus
  <2> QED
    BY <1>6, <2>1, <2>2
<1>11. IdentityOK'
  <2> SUFFICES ASSUME NEW o \in Orders
               PROVE  /\ orders'[o].pid # NoPid =>
                            orders'[o].pid \in Placed' /\ book'[orders'[o].pid].order = o
                      /\ orders'[o].pid = NoPid => orders'[o].filled = 0
                      /\ orders'[o].state \notin {"CREATED", "SUBMITTING"}
                      /\ orders'[o].state = "UNTRACKED" => orders'[o] = Untracked
    BY DEF IdentityOK
  <2>1. Placed' = Placed
    BY <1>3 DEF Placed
  <2>2. orders'[o].pid = NoPid => orders'[o].filled = 0
    <3> SUFFICES ASSUME orders'[o].pid = NoPid
                 PROVE  orders'[o].filled = 0
      OBVIOUS
    <3>1. orders[o].pid = NoPid /\ orders[o].filled = 0
      BY <1>6 DEF Inv, IdentityOK, ProviderIds, NoPid
    <3>2. {f \in F : f.pid = orders'[o].pid} = {}
      <4>1. \A f \in F : f.pid \in ProviderIds
        BY <1>6 DEF Unapplied, Inv, TypeOK, Execution
      <4>2. orders'[o].pid \notin ProviderIds
        BY DEF ProviderIds, NoPid
      <4> QED
        BY <4>1, <4>2
    <3>3. Quantity({f \in F : f.pid = orders'[o].pid}) = 0
      BY <3>2, QuantityOfNone, Zenon
    <3>4. orders'[o].filled = orders[o].filled + Quantity({f \in F : f.pid = orders'[o].pid})
      BY <1>6
    <3>5. orders'[o].filled = 0 + 0
      BY <3>1, <3>3, <3>4, Zenon
    <3> QED
      BY <3>5
  <2>3. orders'[o].state = "UNTRACKED" => orders'[o] = Untracked
    <3> SUFFICES ASSUME orders'[o].state = "UNTRACKED"
                 PROVE  orders'[o] = Untracked
      OBVIOUS
    <3>1. orders[o] = Untracked
      BY <1>10 DEF Inv, IdentityOK, OrderStates
    <3>2. orders[o].attempt = 0 /\ orders[o].pid = NoPid /\ orders[o].state = "UNTRACKED"
      BY <3>1 DEF Untracked, FreshOrder
    <3>3. AttemptEntries(o, orders[o], listed) = {}
      BY <3>2 DEF AttemptEntries
    <3>4. orders'[o].pid = orders[o].pid
      BY <1>6, <3>3
    <3>5. orders'[o].pid \notin listed
      BY <1>2, <3>2, <3>4 DEF Placed, ProviderIds, NoPid
    <3>6. orders'[o].pid \notin ProviderIds
      BY <3>2, <3>4 DEF ProviderIds, NoPid
    <3> QED
      BY <1>6, <3>1, <3>4, <3>5, <3>6
  <2> QED
    BY <1>3, <1>9, <1>10, <2>1, <2>2, <2>3 DEF Inv, IdentityOK
<1>12. LedgerOK'
  <2> SUFFICES ASSUME NEW o \in Orders
               PROVE  orders'[o].filled <= Quantity(SeenOf(orders[o])')
    BY DEF LedgerOK
  <2> DEFINE p == orders'[o].pid
             new == {f \in F : f.pid = p}
             all == {f \in trades : f.pid = p}
  <2>1. SeenOf(orders[o])' = all
    BY <1>3 DEF SeenOf
  <2>2. CASE p = NoPid
    <3>1. orders'[o].filled = 0 /\ all = {}
      BY <1>11, <2>2 DEF IdentityOK, Inv, TypeOK, Execution, ProviderIds, NoPid
    <3>2. Quantity(all) = 0
      BY <3>1, QuantityOfNone, Zenon
    <3> HIDE DEF all
    <3> QED
      BY <2>1, <3>1, <3>2
  <2>3. CASE p # NoPid
    <3>1. p \in ProviderIds
      BY <1>9, <2>3 DEF Placed
    <3>2. book[p].filled \in Nat /\ Ranges(all, book[p].filled)
      BY <3>1, EntryRanges DEF Inv
    <3>3. new \subseteq all /\ F \subseteq Unapplied
      BY <1>6 DEF Unapplied
    <3>4. Quantity(all) \in Nat
      BY <3>2, QuantityType
    <3>5. Quantity(new) <= Quantity(all) /\ Quantity(new) \in Nat
      BY <1>6, <3>2, <3>3, QuantityMonotone
    <3>6. CASE orders[o].pid = NoPid
      <4>1. orders[o].filled = 0
        BY <3>6 DEF Inv, IdentityOK
      <4> HIDE DEF new, all
      <4> QED
        BY <1>6, <2>1, <3>5, <4>1 DEF new
    <3>7. CASE orders[o].pid = p
      <4> DEFINE old == SeenOf(orders[o])
      <4>1. old \subseteq all /\ old \cap new = {}
        BY <3>3, <3>7 DEF SeenOf, Unapplied
      <4>2. Quantity(old \cup new) = Quantity(old) + Quantity(new)
        BY <3>2, <3>3, <4>1, QuantityAdds
      <4>3. Ranges(old, book[p].filled)
        BY <3>2, <4>1 DEF Ranges
      <4>4. Quantity(old) \in Nat
        BY <3>2, <4>3, QuantityType
      <4>5. Quantity(old \cup new) <= Quantity(all)
        <5>1. old \cup new \in SUBSET all
          BY <3>3, <4>1
        <5> HIDE DEF old, new, all
        <5> QED
          BY <3>2, <5>1, QuantityMonotone
      <4>6. orders[o].filled <= Quantity(old) /\ orders[o].filled \in Nat
        BY DEF Inv, LedgerOK, TypeOK, OrderRecord
      <4>7. orders'[o].filled = orders[o].filled + Quantity(new)
        BY <1>6
      <4> HIDE DEF old, new, all
      <4> QED
        BY <2>1, <3>4, <3>5, <4>2, <4>4, <4>5, <4>6, <4>7
    <3> QED
      BY <1>6, <3>6, <3>7
  <2> QED
    BY <2>2, <2>3
<1>13. PidOfLiveOrder'
  <2> SUFFICES ASSUME NEW o \in Orders, "CANCEL_PENDING" \in Permitted(orders'[o].state)
               PROVE  orders'[o].pid # NoPid
    BY DEF PidOfLiveOrder
  <2>1. CASE orders'[o].state = orders[o].state
    BY <1>6, <2>1 DEF Inv, PidOfLiveOrder, ProviderIds, NoPid
  <2> QED
    BY <1>10, <2>1
<1>14. AmbiguityNeverCompounds'
  <2>1. ASSUME NEW o \in Orders, orders'[o].state \in Unresolved, orders'[o].pid = NoPid
        PROVE  orders[o].state \in Unresolved /\ orders[o].pid = NoPid
    BY <1>6, <1>10, <2>1 DEF ProviderIds, NoPid
  <2> QED
    BY <2>1 DEF Inv, AmbiguityNeverCompounds
<1> QED
  BY <1>7, <1>8, <1>11, <1>12, <1>13, <1>14 DEF Inv

-----------------------------------------------------------------------------
(* Theorems of every specification of the OMS                              *)

\* A step of the environment alone.
LEMMA StutterKeepsInv == Inv /\ UNCHANGED vars => Inv'
BY DEF vars, Inv, TypeOK, VenueOK, IdentityOK, LedgerOK, SeenOf, PidOfLiveOrder,
       AmbiguityNeverCompounds, Placed

\* Inv is inductive.
LEMMA NextKeepsInv == Inv /\ [Next]_vars => Inv'
<1> SUFFICES ASSUME Inv, [Next]_vars
             PROVE  Inv'
  OBVIOUS
<1>1. CASE \E o \in Orders : Submit(o)
  BY <1>1, SubmitKeepsInv
<1>2. CASE \E o \in Orders : EscalateToReconciliation(o)
  BY <1>2, EscalateKeepsInv
<1>3. CASE \E o \in Orders : RequestCancel(o)
  BY <1>3, CancelKeepsInv
<1>4. CASE Reconcile
  BY <1>4, ReconcileKeepsInv
<1>5. CASE \E p \in ProviderIds : VenueFill(p)
  BY <1>5, VenueFillKeepsInv
<1>6. CASE \E p \in ProviderIds : VenueCancels(p)
  BY <1>6, VenueCancelsKeepsInv
<1>7. CASE Restart
  BY <1>7, RestartKeepsInv
<1>8. CASE UNCHANGED vars
  BY <1>8, StutterKeepsInv
<1> QED
  BY <1>1, <1>2, <1>3, <1>4, <1>5, <1>6, <1>7, <1>8 DEF Next

\* Inv holds in every reachable state.
LEMMA InvAlways == Spec => []Inv
<1> QED
  BY InitInv, NextKeepsInv, PTL DEF Spec

\* Every variable keeps its type, and neither an order nor an entry of the book
\* exceeds its quantity.
THEOREM TypeCorrect == Spec => []TypeOK
<1>1. Inv => TypeOK
  BY DEF Inv
<1> QED
  BY <1>1, InvAlways, PTL

\* The OMS never holds more of an order than the venue executed, for any number
\* of orders, any retry policy, any listing, and either kind of dedup key.
THEOREM NothingInvented == Spec => []LocalNeverAhead
BY InvAlways, InvImpliesLocalNeverAhead, PTL

\* An order that may be cancelled has a provider id.
THEOREM LiveOrdersAddressable == Spec => []PidOfLiveOrder
<1>1. Inv => PidOfLiveOrder
  BY DEF Inv
<1> QED
  BY <1>1, InvAlways, PTL

\* At most one order of an instrument and strategy is unresolved at an unknown
\* address, whatever its caller retries.
THEOREM AmbiguityContained == Spec => []AmbiguityNeverCompounds
<1>1. Inv => AmbiguityNeverCompounds
  BY DEF Inv
<1> QED
  BY <1>1, InvAlways, PTL

-----------------------------------------------------------------------------
(***************************************************************************)
(* What holds when the caller submits an order only while the manager does *)
(* not track it, or once a run that was shown the whole book has found     *)
(* nothing of it: one order is at the venue at most once, under a decision *)
(* that approved it, and when the OMS closes it nothing of it is left      *)
(* working.                                                                *)
(*                                                                         *)
(* The three need two more facts to be inductive. KnownOrFindable:         *)
(* whatever the venue holds, the OMS either knows its id or is unresolved  *)
(* about the very attempt the entry carries, so that reconciliation finds  *)
(* it. AbsentHaveNone: what a run reported missing is not at the venue.    *)
(*                                                                         *)
(* Last, for any retry policy: what a clean reconciliation run says.       *)
(***************************************************************************)

\* The order of an entry knows its id, or is unresolved with its attempt.
KnownOrFindable ==
    \A p \in Placed :
        LET order == orders[book[p].order] IN
        \/ order.pid = p
        \/ /\ order.pid = NoPid
           /\ order.state \in Unresolved
           /\ order.attempt # 0
           /\ order.attempt = book[p].attempt

\* A decision that covers order o: what HeldOrdersAreAuthorized asks of it.
Covers(d, o) ==
    /\ d # NoDecision
    /\ DecisionRecord[d].intent = IntentOf[o]
    /\ DecisionRecord[d].evaluated
    /\ DecisionRecord[d].verdict # "REJECTED"
    /\ QuantityOf[o] <= DecisionRecord[d].quantity

\* A caller that submits an order again only on evidence that can be trusted.
RetriesAreSafe ==
    RetryPolicy = "never" \/ (RetryPolicy = "evidence" /\ CompleteListing)

\* An order reported missing at the venue has no entry there.
AbsentHaveNone == \A o \in absent : EntriesOf(o) = {}

OnceInv ==
    /\ OneVenueOrderEach
    /\ KnownOrFindable
    /\ HeldOrdersAreAuthorized
    /\ ClosedOrdersAreDead

USE OrdersAssumption, DecisionsAssumption, BoundsAssumption, ModesAssumption

\* An order that has an entry is tracked.
LEMMA HeldIsTracked ==
    ASSUME Inv, OnceInv, NEW o \in Orders, ~Tracked(o)
    PROVE  EntriesOf(o) = {} /\ Objects(o) = {FreshOrder}
<1>1. orders[o].pid = NoPid /\ orders[o].state = "UNTRACKED"
  BY DEF Inv, IdentityOK, Untracked, FreshOrder, Tracked
<1>2. "UNTRACKED" \notin Unresolved
  BY DEF Unresolved
<1>3. NoPid \notin Placed
  BY DEF Placed, ProviderIds, NoPid
<1> QED
  BY <1>1, <1>2, <1>3 DEF OnceInv, KnownOrFindable, EntriesOf, Objects

\* No entry is placed, and an order the venue holds keeps its decision, its
\* attempt and its id, or learns it.
LEMMA HeldOrdersKeep ==
    ASSUME Inv, OnceInv,
           Placed' = Placed,
           \A p \in Placed :
              /\ book'[p].order = book[p].order /\ book'[p].attempt = book[p].attempt
              /\ book'[p].status \in Working => book[p].status \in Working,
           \A o \in Orders : \A p \in EntriesOf(o) :
              /\ orders'[o].decision = orders[o].decision
              /\ orders'[o].attempt = orders[o].attempt
              /\ \/ orders'[o].pid = orders[o].pid
                 \/ orders[o].pid = NoPid /\ orders'[o].pid \in EntriesOf(o)
              /\ orders'[o].pid = NoPid => orders'[o].state \in Unresolved
              /\ orders'[o].state \in Terminal =>
                   orders[o].state \in Terminal \/ book'[p].status \notin Working
    PROVE  OnceInv'
<1>1. \A o \in Orders : EntriesOf(o)' = EntriesOf(o)
  BY DEF EntriesOf
<1>2. OneVenueOrderEach'
  BY <1>1 DEF OnceInv, OneVenueOrderEach
<1>3. KnownOrFindable'
  <2> SUFFICES ASSUME NEW p \in Placed, NEW o \in Orders, o = book[p].order
               PROVE  \/ orders'[o].pid = p
                      \/ /\ orders'[o].pid = NoPid
                         /\ orders'[o].state \in Unresolved
                         /\ orders'[o].attempt # 0
                         /\ orders'[o].attempt = book'[p].attempt
    BY DEF KnownOrFindable, Placed, Inv, TypeOK, BookEntry
  <2>1. p \in EntriesOf(o)
    BY DEF EntriesOf
  <2>2. orders'[o].pid \in EntriesOf(o) => orders'[o].pid = p
    BY <2>1 DEF OnceInv, OneVenueOrderEach
  <2>3. \/ orders[o].pid = p
        \/ /\ orders[o].pid = NoPid
           /\ orders[o].attempt # 0
           /\ orders[o].attempt = book[p].attempt
    BY DEF OnceInv, KnownOrFindable
  <2> QED
    BY <2>1, <2>2, <2>3
<1>4. HeldOrdersAreAuthorized'
  BY <1>1 DEF OnceInv, HeldOrdersAreAuthorized
<1>5. ClosedOrdersAreDead'
  <2> SUFFICES ASSUME NEW o \in Orders, orders'[o].state \in Terminal, NEW p \in EntriesOf(o)
               PROVE  book'[p].status \notin Working
    BY <1>1 DEF ClosedOrdersAreDead
  <2>1. p \in Placed
    BY DEF EntriesOf
  <2> QED
    BY <2>1 DEF OnceInv, ClosedOrdersAreDead
<1> QED
  BY <1>2, <1>3, <1>4, <1>5 DEF OnceInv

\* An order the venue does not hold moves, and nothing is placed for it.
LEMMA UnheldMoves ==
    ASSUME Inv, OnceInv, NEW o \in Orders, EntriesOf(o) = {},
           \A q \in Orders : q # o => orders'[q] = orders[q],
           UNCHANGED book
    PROVE  OnceInv'
<1>1. Placed' = Placed /\ book' = book
  BY DEF Placed
<1>2. \A q \in Orders : EntriesOf(q) # {} => orders'[q] = orders[q]
  OBVIOUS
<1>3. \A p \in Placed : book[p].order \in Orders /\ p \in EntriesOf(book[p].order)
  BY DEF EntriesOf, Placed, Inv, TypeOK, BookEntry
<1>4. \A q \in Orders : EntriesOf(q)' = EntriesOf(q)
  BY <1>1 DEF EntriesOf
<1> QED
  BY <1>1, <1>2, <1>3, <1>4 DEF OnceInv, OneVenueOrderEach, KnownOrFindable,
       HeldOrdersAreAuthorized, ClosedOrdersAreDead

\* An order the venue does not hold is placed, and its record says so.
LEMMA UnheldPlaced ==
    ASSUME Inv, OnceInv, NEW o \in Orders, EntriesOf(o) = {},
           \A q \in Orders : q # o => orders'[q] = orders[q],
           NEW v \in {"OPEN", "REJECTED"}, PlaceOrder(o, v),
           Covers(orders'[o].decision, o),
           \/ orders'[o].pid = nextId
           \/ /\ orders'[o].pid = NoPid /\ orders'[o].state \in Unresolved
              /\ orders'[o].attempt = attempts[o] + 1,
           orders'[o].state \in Terminal => v = "REJECTED"
    PROVE  OnceInv'
<1>1. /\ nextId \in ProviderIds /\ book'[nextId].status = v /\ book'[nextId].order = o
      /\ book'[nextId].attempt = attempts[o] + 1
      /\ \A p \in ProviderIds : p # nextId => book'[p] = book[p]
  BY PlaceOrderEffect DEF Inv
<1>2. attempts[o] + 1 # 0
  BY DEF Inv, TypeOK
<1>3. nextId \notin Placed
  BY <1>1 DEF Inv, VenueOK, Placed, ProviderIds
<1>4. Placed' = Placed \cup {nextId}
  BY <1>1 DEF Placed
<1>5. /\ EntriesOf(o)' = {nextId}
      /\ \A q \in Orders : q # o => EntriesOf(q)' = EntriesOf(q)
  BY <1>1, <1>3, <1>4 DEF EntriesOf, Placed
<1>6. OneVenueOrderEach'
  BY <1>5 DEF OnceInv, OneVenueOrderEach
<1>7. KnownOrFindable'
  <2> SUFFICES ASSUME NEW p \in Placed'
               PROVE  LET order == orders'[book'[p].order] IN
                      \/ order.pid = p
                      \/ /\ order.pid = NoPid
                         /\ order.state \in Unresolved
                         /\ order.attempt # 0
                         /\ order.attempt = book'[p].attempt
    BY DEF KnownOrFindable
  <2>1. CASE p = nextId
    BY <1>1, <1>2, <2>1
  <2>2. CASE p # nextId
    <3>1. p \in Placed /\ book'[p] = book[p]
      BY <1>1, <1>4, <2>2 DEF Placed
    <3>2. book[p].order # o /\ book[p].order \in Orders
      BY <3>1 DEF EntriesOf, Inv, TypeOK, BookEntry, Placed
    <3> QED
      BY <3>1, <3>2 DEF OnceInv, KnownOrFindable
  <2> QED
    BY <2>1, <2>2
<1>8. HeldOrdersAreAuthorized'
  BY <1>5 DEF OnceInv, HeldOrdersAreAuthorized, Covers
<1>9. ClosedOrdersAreDead'
  <2> SUFFICES ASSUME NEW q \in Orders, orders'[q].state \in Terminal, NEW p \in EntriesOf(q)'
               PROVE  book'[p].status \notin Working
    BY DEF ClosedOrdersAreDead
  <2>1. CASE q = o
    BY <1>1, <1>5, <2>1 DEF Working
  <2>2. CASE q # o
    <3>1. p \in EntriesOf(q) /\ p \in Placed /\ p # nextId /\ p \in ProviderIds
      BY <1>3, <1>5, <2>2 DEF EntriesOf, Placed
    <3> QED
      BY <1>1, <2>2, <3>1 DEF OnceInv, ClosedOrdersAreDead
  <2> QED
    BY <2>1, <2>2
<1> QED
  BY <1>6, <1>7, <1>8, <1>9 DEF OnceInv

-----------------------------------------------------------------------------
(* Every action keeps OnceInv                                              *)

\* The initial states: nothing is at the venue and nothing is closed.
LEMMA InitOnce == Init => OnceInv
<1> SUFFICES ASSUME Init
             PROVE  OnceInv
  OBVIOUS
<1>1. Placed = {}
  BY DEF Init, Placed, NoEntry
<1> QED
  BY <1>1 DEF OnceInv, OneVenueOrderEach, KnownOrFindable, HeldOrdersAreAuthorized,
       ClosedOrdersAreDead, EntriesOf

\* What passes the gate is covered.
LEMMA AuthorizedCovers ==
    ASSUME NEW o \in Orders, NEW i, NEW d, NEW at, AuthorizeSubmission(o, i, d, at)
    PROVE  Covers(d, o)
BY DEF AuthorizeSubmission, IsActionableAt, Covers

\* OrderManager.submit, by a caller that submits only what is not tracked or not
\* there.
LEMMA SubmitKeepsOnce ==
    ASSUME RetriesAreSafe, Inv, OnceInv, AbsentHaveNone \/ ~CompleteListing,
           NEW o \in Orders, Submit(o)
    PROVE  OnceInv'
<1>1. ~Tracked(o) \/ (o \in absent /\ AbsentHaveNone)
  BY DEF Submit, SubmitNotAuthorized, SubmitBlocked, SubmitAcknowledged, SubmitRejected,
       SubmitAckLost, SubmitDropped, SubmitCapabilityDenied, Sendable, MaySubmit,
       RetriesAreSafe
<1>2. EntriesOf(o) = {}
  BY <1>1, HeldIsTracked DEF AbsentHaveNone
<1>3. orders \in [Orders -> OrderRecord]
  BY DEF Inv, TypeOK
<1>4. ASSUME NEW obj, RejectObject(o, obj)
      PROVE  OnceInv'
  BY <1>2, <1>3, <1>4, UnheldMoves DEF RejectObject, venueVars
<1>5. ASSUME NEW obj \in Objects(o), NEW d \in Decisions, Sendable(o, obj, d)
      PROVE  Covers(d, o) /\ obj.pid = NoPid
  BY <1>5, AuthorizedCovers, SentHasNoPid DEF Sendable
<1>6. CASE SubmitNotAuthorized(o)
  BY <1>4, <1>6 DEF SubmitNotAuthorized
<1>7. CASE SubmitBlocked(o)
  BY <1>4, <1>7 DEF SubmitBlocked
<1>8. CASE SubmitAcknowledged(o)
  <2>1. PICK obj \in Objects(o), d \in Decisions :
           /\ Sendable(o, obj, d)
           /\ PlaceOrder(o, "OPEN")
           /\ RecordAttempt(o, obj, d, "SUBMITTED", nextId)
    BY <1>8 DEF SubmitAcknowledged
  <2>2. nextId \in ProviderIds /\ "SUBMITTED" \notin Terminal
    BY <2>1 DEF PlaceOrder, Terminal
  <2>3. /\ orders'[o].pid = nextId /\ orders'[o].state = "SUBMITTED"
        /\ orders'[o].decision = d
        /\ \A q \in Orders : q # o => orders'[q] = orders[q]
    BY <2>1, <2>2, SentRecord
  <2> QED
    BY <1>2, <1>5, <2>1, <2>2, <2>3, UnheldPlaced
<1>9. CASE SubmitRejected(o)
  <2>1. PICK obj \in Objects(o), d \in Decisions :
           /\ Sendable(o, obj, d)
           /\ PlaceOrder(o, "REJECTED")
           /\ RecordAttempt(o, obj, d, "REJECTED", nextId)
    BY <1>9 DEF SubmitRejected
  <2>2. nextId \in ProviderIds
    BY <2>1 DEF PlaceOrder
  <2>3. /\ orders'[o].pid = nextId /\ orders'[o].decision = d
        /\ \A q \in Orders : q # o => orders'[q] = orders[q]
    BY <2>1, <2>2, SentRecord
  <2> QED
    BY <1>2, <1>5, <2>1, <2>3, UnheldPlaced
<1>10. CASE SubmitAckLost(o)
  <2>1. PICK obj \in Objects(o), d \in Decisions :
           /\ Sendable(o, obj, d)
           /\ PlaceOrder(o, "OPEN")
           /\ RecordAttempt(o, obj, d, "UNKNOWN", obj.pid)
    BY <1>10 DEF SubmitAckLost
  <2>2. obj.pid = NoPid /\ "UNKNOWN" \notin Terminal /\ "UNKNOWN" \in Unresolved
    BY <1>5, <2>1 DEF Terminal, Unresolved
  <2>3. /\ orders'[o].pid = NoPid /\ orders'[o].state = "UNKNOWN"
        /\ orders'[o].decision = d /\ orders'[o].attempt = attempts[o] + 1
        /\ \A q \in Orders : q # o => orders'[q] = orders[q]
    BY <2>1, <2>2, SentRecord
  <2> QED
    BY <1>2, <1>5, <2>1, <2>2, <2>3, UnheldPlaced
<1>11. CASE SubmitDropped(o) \/ SubmitCapabilityDenied(o)
  <2>1. PICK obj \in Objects(o), d \in Decisions, s \in {"UNKNOWN", "REJECTED"} :
           RecordAttempt(o, obj, d, s, obj.pid) /\ UNCHANGED book
    BY <1>11 DEF SubmitDropped, SubmitCapabilityDenied, venueVars
  <2>2. \A q \in Orders : q # o => orders'[q] = orders[q]
    BY <1>3, <2>1 DEF RecordAttempt
  <2> QED
    BY <1>2, <2>1, <2>2, UnheldMoves
<1> QED
  BY <1>6, <1>7, <1>8, <1>9, <1>10, <1>11 DEF Submit

\* An order moves on to a state that is not terminal; it stays unresolved, or
\* its id is known.
LEMMA EscalateKeepsOnce ==
    ASSUME Inv, OnceInv, NEW o \in Orders, EscalateToReconciliation(o)
    PROVE  OnceInv'
<1>1. orders \in [Orders -> OrderRecord]
  BY DEF Inv, TypeOK
<1>2. orders' = [orders EXCEPT ![o].state = "PENDING_RECONCILIATION"] /\ UNCHANGED book
  BY DEF EscalateToReconciliation, MoveTo, venueVars
<1>3. /\ "PENDING_RECONCILIATION" \notin Terminal
      /\ "PENDING_RECONCILIATION" \in Unresolved
  BY DEF Terminal, Unresolved
<1>4. Placed' = Placed
  BY <1>2 DEF Placed
<1>5. ASSUME NEW q \in Orders, NEW p \in EntriesOf(q)
      PROVE  /\ orders'[q].decision = orders[q].decision
             /\ orders'[q].attempt = orders[q].attempt
             /\ orders'[q].pid = orders[q].pid
             /\ orders'[q].pid = NoPid => orders'[q].state \in Unresolved
             /\ orders'[q].state \in Terminal => orders[q].state \in Terminal
  <2>1. p \in Placed /\ book[p].order = q /\ p # NoPid
    BY DEF EntriesOf, Placed, ProviderIds, NoPid
  <2>2. orders[q].pid = NoPid => orders[q].state \in Unresolved
    BY <2>1 DEF OnceInv, KnownOrFindable
  <2> QED
    BY <1>1, <1>2, <1>3, <2>2 DEF OrderRecord
<1> QED
  BY <1>2, <1>4, <1>5, HeldOrdersKeep

\* A cancelled order's one entry is the one the cancel went to.
LEMMA CancelKeepsOnce ==
    ASSUME Inv, OnceInv, NEW o \in Orders, RequestCancel(o)
    PROVE  OnceInv'
<1>1. /\ orders \in [Orders -> OrderRecord] /\ book \in [ProviderIds -> BookEntry]
      /\ orders[o].pid # NoPid /\ orders[o].pid \in Placed
  BY DEF Inv, TypeOK, IdentityOK, RequestCancel, CancelAccepted, CancelRefused,
       CancelUnanswered, Cancellable
<1>2. PICK s \in {"CANCELLED", "CANCEL_PENDING", "UNKNOWN"} :
         /\ orders' = [orders EXCEPT ![o].state = s]
         /\ \/ UNCHANGED book /\ s # "CANCELLED"
            \/ book' = [book EXCEPT ![orders[o].pid].status = "CANCELLED"]
  BY DEF RequestCancel, CancelAccepted, CancelRefused, CancelUnanswered, CancelEntry, MoveTo
<1>3. \A p \in ProviderIds :
         /\ book'[p].order = book[p].order /\ book'[p].attempt = book[p].attempt
         /\ \/ book'[p].status = book[p].status
            \/ p = orders[o].pid /\ book'[p].status = "CANCELLED"
  BY <1>1, <1>2 DEF BookEntry
<1>4. Placed' = Placed
  BY <1>1, <1>3 DEF Placed
<1>5. ASSUME NEW p \in Placed
      PROVE  /\ book'[p].order = book[p].order /\ book'[p].attempt = book[p].attempt
             /\ book'[p].status \in Working => book[p].status \in Working
  BY <1>3 DEF Placed, Working
<1>6. ASSUME NEW q \in Orders, NEW p \in EntriesOf(q)
      PROVE  /\ orders'[q].decision = orders[q].decision
             /\ orders'[q].attempt = orders[q].attempt
             /\ orders'[q].pid = orders[q].pid
             /\ orders'[q].pid = NoPid => orders'[q].state \in Unresolved
             /\ orders'[q].state \in Terminal =>
                  orders[q].state \in Terminal \/ book'[p].status \notin Working
  <2>1. p \in Placed /\ book[p].order = q /\ p \in ProviderIds
    BY DEF EntriesOf, Placed
  <2>2. orders[q].pid = p \/ (orders[q].pid = NoPid /\ orders[q].state \in Unresolved)
    BY <2>1 DEF OnceInv, KnownOrFindable
  <2>3. CASE q = o
    <3>1. orders[o].pid = p
      BY <1>1, <2>2, <2>3
    <3>2. /\ orders'[o].pid = p /\ orders'[o].state = s
          /\ orders'[o].decision = orders[o].decision
          /\ orders'[o].attempt = orders[o].attempt
      BY <1>1, <1>2, <3>1 DEF OrderRecord
    <3>3. s \in Terminal => book'[p].status = "CANCELLED"
      BY <1>1, <1>2, <2>1, <3>1 DEF Terminal, BookEntry
    <3> QED
      BY <1>1, <2>3, <3>1, <3>2, <3>3 DEF Working
  <2>4. CASE q # o
    <3>1. orders'[q] = orders[q]
      BY <1>1, <1>2, <2>4
    <3>2. p # NoPid
      BY <2>1 DEF ProviderIds, NoPid
    <3> QED
      BY <2>2, <3>1, <3>2
  <2> QED
    BY <2>3, <2>4
<1> QED
  BY <1>4, <1>5, <1>6, HeldOrdersKeep

\* The venue moves an entry it is working.
LEMMA VenueKeepsOnce ==
    ASSUME Inv, OnceInv, NEW p \in ProviderIds, VenueFill(p) \/ VenueCancels(p)
    PROVE  OnceInv'
<1>1. book \in [ProviderIds -> BookEntry] /\ book[p].status \in Working
  BY DEF Inv, TypeOK, VenueFill, VenueCancels
<1>2. PICK e : /\ book' = [book EXCEPT ![p] = e]
               /\ e.order = book[p].order /\ e.attempt = book[p].attempt
               /\ e.status # "NONE"
  <2>1. CASE VenueCancels(p)
    <3> DEFINE e == [book[p] EXCEPT !.status = "CANCELLED"]
    <3>1. book' = [book EXCEPT ![p] = e]
      BY <2>1 DEF VenueCancels, CancelEntry
    <3>2. e.order = book[p].order /\ e.attempt = book[p].attempt /\ e.status # "NONE"
      BY <1>1 DEF BookEntry
    <3> HIDE DEF e
    <3> QED
      BY <3>1, <3>2
  <2>2. CASE VenueFill(p)
    <3> DEFINE e(last) == [book[p] EXCEPT
                             !.filled = last,
                             !.status = FilledState(last, QuantityOf[book[p].order])]
    <3>1. PICK last : book' = [book EXCEPT ![p] = e(last)]
      BY <1>1, <2>2 DEF VenueFill, BookEntry
    <3>2. /\ e(last).order = book[p].order /\ e(last).attempt = book[p].attempt
          /\ e(last).status # "NONE"
      BY <1>1 DEF BookEntry, FilledState
    <3> HIDE DEF e
    <3> QED
      BY <3>1, <3>2
  <2> QED
    BY <2>1, <2>2
<1>3. /\ Placed' = Placed
      /\ \A q \in Placed :
            /\ book'[q].order = book[q].order /\ book'[q].attempt = book[q].attempt
            /\ book'[q].status \in Working => book[q].status \in Working
  BY <1>1, <1>2 DEF Placed, Working
<1>4. orders' = orders
  BY DEF VenueFill, VenueCancels, managerVars
<1>5. \A o \in Orders : \A q \in EntriesOf(o) : orders[o].pid = NoPid => orders[o].state \in Unresolved
  BY DEF OnceInv, KnownOrFindable, EntriesOf, Placed, ProviderIds, NoPid
<1> QED
  BY <1>3, <1>4, <1>5, HeldOrdersKeep

\* A run finds the entry of an order, if anything, and closes an order only on
\* the word of its entry or once all of it is filled.
LEMMA ReconcileKeepsOnce ==
    ASSUME Inv, OnceInv, Reconcile
    PROVE  OnceInv'
<1>1. PICK listed \in Listings : ReconcileAgainst(listed)
  BY DEF Reconcile
<1>2. listed \in SUBSET Placed
  BY DEF Listings
<1>3. PICK F \in InsertedFills(AdoptIdentities(listed)) :
         /\ orders' = ReconcileOrders(ApplyFills(AdoptIdentities(listed), F), listed)
         /\ UNCHANGED <<book, nextId, trades>>
  BY <1>1 DEF ReconcileAgainst, venueVars
<1>4. Inv'
  BY ReconcileKeepsInv
<1>5. Placed' = Placed
  BY <1>3 DEF Placed
<1>6. ASSUME NEW o \in Orders, NEW p \in EntriesOf(o)
      PROVE  /\ orders'[o].decision = orders[o].decision
             /\ orders'[o].attempt = orders[o].attempt
             /\ \/ orders'[o].pid = orders[o].pid
                \/ orders[o].pid = NoPid /\ orders'[o].pid \in EntriesOf(o)
             /\ orders'[o].pid = NoPid => orders'[o].state \in Unresolved
             /\ orders'[o].state \in Terminal =>
                  orders[o].state \in Terminal \/ book'[p].status \notin Working
  <2>1. PICK c : c = orders'[o]
    OBVIOUS
  <2>2. c = ReconcileOrders(ApplyFills(AdoptIdentities(listed), F), listed)[o]
    BY <1>3, <2>1
  <2>3. MayLeave(c, o, listed, F)
    BY <1>2, <2>2, ReconciledOrder
  <2>4. /\ c.decision = orders[o].decision /\ c.attempt = orders[o].attempt
        /\ c.pid = orders[o].pid \/ (orders[o].pid = NoPid /\ c.pid \in EntriesOf(o))
    BY <1>2, <2>3 DEF MayLeave, AttemptEntries, EntriesOf
  <2>5. \/ c.state = orders[o].state
        \/ c.pid \in ProviderIds /\ c.state = FilledState(c.filled, QuantityOf[o])
        \/ c.pid \in listed /\ c.state = book[c.pid].status
    BY <2>3 DEF MayLeave
  <2>6. p \in Placed /\ book[p].order = o /\ p \in ProviderIds
    BY DEF EntriesOf, Placed
  <2>7. c.pid = NoPid => c.state \in Unresolved
    <3> SUFFICES ASSUME c.pid = NoPid
                 PROVE  c.state \in Unresolved
      OBVIOUS
    <3>1. orders[o].pid = NoPid /\ orders[o].pid # p
      BY <2>4, <2>6 DEF EntriesOf, Placed, ProviderIds, NoPid
    <3>2. orders[o].state \in Unresolved
      BY <2>6, <3>1 DEF OnceInv, KnownOrFindable
    <3>3. c.pid \notin ProviderIds /\ c.pid \notin listed
      BY <1>2 DEF Placed, ProviderIds, NoPid
    <3> QED
      BY <2>5, <3>2, <3>3
  <2>8. c.pid # NoPid => c.pid = p
    <3> SUFFICES ASSUME c.pid # NoPid
                 PROVE  c.pid = p
      OBVIOUS
    <3>1. c.pid \in EntriesOf(o)
      BY <1>3, <1>4, <1>5, <2>1 DEF Inv, IdentityOK, EntriesOf
    <3> QED
      BY <3>1 DEF OnceInv, OneVenueOrderEach
  <2>9. c.state = "FILLED" /\ c.pid = p /\ c.filled = QuantityOf[o]
          => book[p].status \notin Working
    <3> SUFFICES ASSUME c.pid = p, c.filled = QuantityOf[o]
                 PROVE  book[p].status \notin Working
      OBVIOUS
    <3>1. QuantityOf[o] \in Nat \ {0} /\ book[p].filled \in Nat
      BY <2>6 DEF Inv, TypeOK, BookEntry
    <3>2. c.filled > 0
      BY <3>1
    <3>3. LocalNeverAhead'
      BY <1>4, InvImpliesLocalNeverAhead, PTL
    <3>4. c.filled <= book[p].filled
      BY <1>3, <2>1, <3>2, <3>3 DEF LocalNeverAhead
    <3>5. book[p].status \in Working => book[p].filled < QuantityOf[o]
      BY <2>6 DEF Inv, VenueOK
    <3> QED
      BY <3>1, <3>4, <3>5
  <2>10. c.state \in Terminal => orders[o].state \in Terminal \/ book[p].status \notin Working
    <3> SUFFICES ASSUME c.state \in Terminal, orders[o].state \notin Terminal
                 PROVE  book[p].status \notin Working
      OBVIOUS
    <3>1. CASE c.pid \in ProviderIds /\ c.state = FilledState(c.filled, QuantityOf[o])
      <4>1. c.pid = p
        BY <2>8, <3>1 DEF ProviderIds, NoPid
      <4>2. c.filled = QuantityOf[o] /\ c.state = "FILLED"
        BY <3>1 DEF FilledState, Terminal
      <4> QED
        BY <2>9, <4>1, <4>2
    <3>2. CASE c.pid \in listed /\ c.state = book[c.pid].status
      <4>1. c.pid = p
        BY <1>2, <2>8, <3>2 DEF Placed, ProviderIds, NoPid
      <4> QED
        BY <3>2, <4>1 DEF Terminal, Working
    <3> QED
      BY <2>5, <3>1, <3>2
  <2> QED
    BY <1>3, <2>1, <2>4, <2>7, <2>10
<1>7. \A p \in Placed : book'[p] = book[p]
  BY <1>3
<1> QED
  BY <1>5, <1>6, <1>7, HeldOrdersKeep

\* The shell of an order the venue holds keeps what identifies it.
LEMMA RestartKeepsOnce ==
    ASSUME Inv, OnceInv, Restart
    PROVE  OnceInv'
<1>1. orders \in [Orders -> OrderRecord]
  BY DEF Inv, TypeOK
<1>2. orders' = [o \in Orders |-> Shell(orders[o])] /\ book' = book
  BY DEF Restart, venueVars
<1>3. Placed' = Placed
  BY <1>2 DEF Placed
<1>4. ASSUME NEW o \in Orders, NEW p \in EntriesOf(o)
      PROVE  /\ orders'[o].decision = orders[o].decision
             /\ orders'[o].attempt = orders[o].attempt
             /\ orders'[o].pid = orders[o].pid
             /\ orders'[o].pid = NoPid => orders'[o].state \in Unresolved
             /\ orders'[o].state \notin Terminal
  <2>1. orders[o].pid # NoPid \/ orders[o].state \in Unresolved
    BY DEF OnceInv, KnownOrFindable, EntriesOf, Placed, ProviderIds, NoPid
  <2>2. PICK s \in {"SUBMITTED", "PENDING_RECONCILIATION"} :
           /\ orders'[o] = [orders[o] EXCEPT !.state = s, !.filled = 0]
           /\ orders[o].pid = NoPid => s = "PENDING_RECONCILIATION"
    BY <1>2, <2>1 DEF Shell
  <2> QED
    BY <1>1, <2>2 DEF OrderRecord, Terminal, Unresolved
<1> QED
  BY <1>2, <1>3, <1>4, HeldOrdersKeep

\* An order reported missing stays without an entry while none is placed for it.
LEMMA AbsentKept ==
    ASSUME AbsentHaveNone, absent' \subseteq absent,
           \A o \in absent' : EntriesOf(o)' \subseteq EntriesOf(o)
    PROVE  AbsentHaveNone'
BY DEF AbsentHaveNone

\* An entry that moves stays the order's.
LEMMA EntryMoves ==
    ASSUME Inv, NEW p \in Placed, NEW e, book' = [book EXCEPT ![p] = e],
           e.order = book[p].order, e.status # "NONE"
    PROVE  \A o : EntriesOf(o)' = EntriesOf(o)
<1>1. p \in ProviderIds /\ book \in [ProviderIds -> BookEntry]
  BY DEF Inv, TypeOK, Placed
<1>2. /\ book'[p] = e
      /\ \A q \in ProviderIds : q # p => book'[q] = book[q]
  BY <1>1
<1>3. Placed' = Placed
  BY <1>1, <1>2 DEF Placed
<1> QED
  BY <1>2, <1>3 DEF EntriesOf, Placed

\* Submitting an order takes it off the list of those reported missing.
LEMMA SubmitKeepsAbsent ==
    ASSUME Inv, AbsentHaveNone, NEW o \in Orders, Submit(o)
    PROVE  AbsentHaveNone'
<1>1. CASE SubmitAcknowledged(o) \/ SubmitRejected(o) \/ SubmitAckLost(o)
  <2>1. PICK v \in {"OPEN", "REJECTED"} : PlaceOrder(o, v) /\ absent' = absent \ {o}
    BY <1>1 DEF SubmitAcknowledged, SubmitRejected, SubmitAckLost, RecordAttempt
  <2>2. /\ nextId \in ProviderIds /\ book'[nextId].order = o
        /\ \A p \in ProviderIds : p # nextId => book'[p] = book[p]
    BY <2>1, PlaceOrderEffect DEF Inv
  <2>3. \A q \in absent' : EntriesOf(q)' \subseteq EntriesOf(q)
    BY <2>1, <2>2 DEF EntriesOf, Placed
  <2> QED
    BY <2>1, <2>3, AbsentKept
<1>2. CASE \/ SubmitNotAuthorized(o) \/ SubmitBlocked(o)
           \/ SubmitDropped(o) \/ SubmitCapabilityDenied(o)
  <2>1. absent' \subseteq absent /\ book' = book
    BY <1>2 DEF SubmitNotAuthorized, SubmitBlocked, SubmitDropped, SubmitCapabilityDenied,
         RejectObject, RecordAttempt, venueVars
  <2>2. \A q : EntriesOf(q)' = EntriesOf(q)
    BY <2>1 DEF EntriesOf, Placed
  <2> QED
    BY <2>1, <2>2, AbsentKept
<1> QED
  BY <1>1, <1>2 DEF Submit

\* A cancel and the venue on its own change entries, and place none.
LEMMA MovesKeepAbsent ==
    ASSUME Inv, AbsentHaveNone,
           \/ \E o \in Orders : EscalateToReconciliation(o) \/ RequestCancel(o)
           \/ \E p \in ProviderIds : VenueFill(p) \/ VenueCancels(p)
    PROVE  AbsentHaveNone'
<1>1. absent' = absent
  BY DEF EscalateToReconciliation, RequestCancel, CancelAccepted, CancelRefused,
       CancelUnanswered, Cancellable, VenueFill, VenueCancels
<1>2. book \in [ProviderIds -> BookEntry]
  BY DEF Inv, TypeOK
<1>3. \/ book' = book
      \/ \E p \in Placed : \E e : /\ book' = [book EXCEPT ![p] = e]
                                  /\ e.order = book[p].order /\ e.status # "NONE"
  <2>1. ASSUME NEW o \in Orders, EscalateToReconciliation(o)
        PROVE  book' = book
    BY <2>1 DEF EscalateToReconciliation, venueVars
  <2>2. ASSUME NEW p \in Placed, CancelEntry(p)
        PROVE  \E e : /\ book' = [book EXCEPT ![p] = e]
                      /\ e.order = book[p].order /\ e.status # "NONE"
    <3>1. book[p] \in BookEntry
      BY <1>2 DEF Placed
    <3> DEFINE e == [book[p] EXCEPT !.status = "CANCELLED"]
    <3>2. book' = [book EXCEPT ![p] = e]
      BY <2>2 DEF CancelEntry
    <3>3. e.order = book[p].order /\ e.status # "NONE"
      BY <3>1 DEF BookEntry
    <3> HIDE DEF e
    <3> QED
      BY <3>2, <3>3
  <2>3. ASSUME NEW o \in Orders, RequestCancel(o)
        PROVE  book' = book \/ (orders[o].pid \in Placed /\ CancelEntry(orders[o].pid))
    BY <2>3 DEF RequestCancel, CancelAccepted, CancelRefused, CancelUnanswered, Cancellable,
         Inv, IdentityOK
  <2>4. ASSUME NEW p \in ProviderIds, VenueCancels(p)
        PROVE  p \in Placed /\ CancelEntry(p)
    BY <2>4 DEF VenueCancels, Working, Placed
  <2>5. ASSUME NEW p \in ProviderIds, VenueFill(p)
        PROVE  \E e : /\ p \in Placed /\ book' = [book EXCEPT ![p] = e]
                      /\ e.order = book[p].order /\ e.status # "NONE"
    <3>1. book[p] \in BookEntry
      BY <1>2
    <3> DEFINE e(last) == [book[p] EXCEPT
                             !.filled = last,
                             !.status = FilledState(last, QuantityOf[book[p].order])]
    <3>2. PICK last : book' = [book EXCEPT ![p] = e(last)] /\ p \in Placed
      BY <1>2, <2>5 DEF VenueFill, BookEntry, Working, Placed
    <3>3. e(last).order = book[p].order /\ e(last).status # "NONE"
      BY <3>1 DEF BookEntry, FilledState
    <3> HIDE DEF e
    <3> QED
      BY <3>2, <3>3
  <2> QED
    BY <2>1, <2>2, <2>3, <2>4, <2>5
<1>4. \A q : EntriesOf(q)' = EntriesOf(q)
  <2>1. CASE book' = book
    BY <2>1 DEF EntriesOf, Placed
  <2> QED
    BY <1>3, <2>1, EntryMoves
<1> QED
  BY <1>1, <1>4, AbsentKept

\* A run that is shown the whole book finds the entry of an unresolved order.
LEMMA ReconcileKeepsAbsent ==
    ASSUME Inv, OnceInv, CompleteListing, Reconcile
    PROVE  AbsentHaveNone'
<1>1. ReconcileAgainst(Placed)
  BY DEF Reconcile, Listings
<1>2. PICK F \in InsertedFills(AdoptIdentities(Placed)) :
         /\ absent' = MissingAtProvider(ApplyFills(AdoptIdentities(Placed), F), Placed)
         /\ UNCHANGED book
  BY <1>1 DEF ReconcileAgainst, venueVars
<1>3. \A q : EntriesOf(q)' = EntriesOf(q)
  BY <1>2 DEF EntriesOf, Placed
<1>4. ASSUME NEW o \in absent', NEW p \in EntriesOf(o)
      PROVE  FALSE
  <2>1. PICK b : b = ApplyFills(AdoptIdentities(Placed), F)[o]
    OBVIOUS
  <2>2. PICK a : a = AdoptIdentities(Placed)[o]
    OBVIOUS
  <2>3. o \in Orders /\ Match(o, b, Placed) = {}
    BY <1>2, <1>4, <2>1 DEF MissingAtProvider
  <2>4. b \in OrderRecord /\ b.pid = a.pid /\ b.attempt = a.attempt
    BY <2>1, <2>2, <2>3, Filled
  <2>5. a.pid \notin Placed
    BY <2>2, <2>3, <2>4, MatchedByPid
  <2>6. p \in Placed /\ p \in ProviderIds /\ book[p].order = o
    BY DEF EntriesOf, Placed
  <2>7. orders[o].pid # NoPid => orders[o].pid \in Placed
    BY <2>3 DEF Inv, IdentityOK
  <2>8. /\ orders[o].pid = NoPid
        /\ First(AttemptEntries(o, orders[o], Placed)) = {}
    BY <2>2, <2>3, <2>5, <2>7, Adopted DEF AttemptEntries
  <2>9. orders[o].attempt # 0 /\ orders[o].attempt = book[p].attempt
    BY <2>6, <2>8 DEF OnceInv, KnownOrFindable, ProviderIds, NoPid
  <2>10. p \in AttemptEntries(o, orders[o], Placed)
    BY <2>6, <2>9 DEF AttemptEntries
  <2>11. \A q \in AttemptEntries(o, orders[o], Placed) : q = p
    BY <2>3, <2>6 DEF AttemptEntries, EntriesOf, OnceInv, OneVenueOrderEach
  <2>12. p \in First(AttemptEntries(o, orders[o], Placed))
    BY <2>6, <2>10, <2>11 DEF First, ProviderIds
  <2> QED
    BY <2>8, <2>12
<1> QED
  BY <1>3, <1>4 DEF AbsentHaveNone

\* With complete listings, what is reported missing is not there.
LEMMA NextKeepsAbsent ==
    ASSUME CompleteListing
    PROVE  Inv /\ OnceInv /\ AbsentHaveNone /\ [Next]_vars => AbsentHaveNone'
<1> SUFFICES ASSUME Inv, OnceInv, AbsentHaveNone, [Next]_vars
             PROVE  AbsentHaveNone'
  OBVIOUS
<1>1. CASE \E o \in Orders : Submit(o)
  BY <1>1, SubmitKeepsAbsent
<1>2. CASE \/ \E o \in Orders : EscalateToReconciliation(o) \/ RequestCancel(o)
           \/ \E p \in ProviderIds : VenueFill(p) \/ VenueCancels(p)
  BY <1>2, MovesKeepAbsent
<1>3. CASE Reconcile
  BY <1>3, ReconcileKeepsAbsent
<1>4. CASE Restart
  BY <1>4 DEF Restart, AbsentHaveNone
<1>5. CASE UNCHANGED vars
  BY <1>5 DEF vars, AbsentHaveNone, EntriesOf, Placed
<1> QED
  BY <1>1, <1>2, <1>3, <1>4, <1>5 DEF Next

\* OnceInv is inductive, given Inv and the policy.
LEMMA NextKeepsOnce ==
    ASSUME RetriesAreSafe
    PROVE  Inv /\ OnceInv /\ (AbsentHaveNone \/ ~CompleteListing) /\ [Next]_vars => OnceInv'
<1> SUFFICES ASSUME Inv, OnceInv, AbsentHaveNone \/ ~CompleteListing, [Next]_vars
             PROVE  OnceInv'
  OBVIOUS
<1>1. CASE \E o \in Orders : Submit(o)
  BY <1>1, SubmitKeepsOnce
<1>2. CASE \E o \in Orders : EscalateToReconciliation(o)
  BY <1>2, EscalateKeepsOnce
<1>3. CASE \E o \in Orders : RequestCancel(o)
  BY <1>3, CancelKeepsOnce
<1>4. CASE Reconcile
  BY <1>4, ReconcileKeepsOnce
<1>5. CASE \E p \in ProviderIds : VenueFill(p) \/ VenueCancels(p)
  BY <1>5, VenueKeepsOnce
<1>6. CASE Restart
  BY <1>6, RestartKeepsOnce
<1>7. CASE UNCHANGED vars
  BY <1>7 DEF vars, OnceInv, OneVenueOrderEach, KnownOrFindable, HeldOrdersAreAuthorized,
       ClosedOrdersAreDead, EntriesOf, Placed
<1> QED
  BY <1>1, <1>2, <1>3, <1>4, <1>5, <1>6, <1>7 DEF Next

\* OnceInv holds in every reachable state.
LEMMA OnceAlways ==
    ASSUME RetriesAreSafe
    PROVE  Spec => []OnceInv
<1> DEFINE Both == OnceInv /\ (AbsentHaveNone \/ ~CompleteListing)
<1>1. Init => Both
  BY InitOnce DEF Init, AbsentHaveNone
<1>2. Inv /\ Both /\ [Next]_vars => Both'
  BY NextKeepsOnce, NextKeepsAbsent
<1>3. Both => OnceInv
  OBVIOUS
<1> QED
  BY <1>1, <1>2, <1>3, InvAlways, PTL DEF Spec

\* An order submitted only while it is not tracked, or again on trusted evidence
\* that it is missing, is at the venue at most once, across lost answers and
\* restarts.
THEOREM NeverDoubled ==
    ASSUME RetriesAreSafe
    PROVE  Spec => []OneVenueOrderEach
<1>1. OnceInv => OneVenueOrderEach
  BY DEF OnceInv
<1> QED
  BY <1>1, OnceAlways, PTL

\* Whatever such an order went through, the decision it names covers it.
THEOREM HeldUnderDecision ==
    ASSUME RetriesAreSafe
    PROVE  Spec => []HeldOrdersAreAuthorized
<1>1. OnceInv => HeldOrdersAreAuthorized
  BY DEF OnceInv
<1> QED
  BY <1>1, OnceAlways, PTL

\* Once the OMS has closed such an order, nothing of it is working.
THEOREM ClosedMeansDead ==
    ASSUME RetriesAreSafe
    PROVE  Spec => []ClosedOrdersAreDead
<1>1. OnceInv => ClosedOrdersAreDead
  BY DEF OnceInv
<1> QED
  BY <1>1, OnceAlways, PTL
-----------------------------------------------------------------------------
(* For any retry policy, a clean reconciliation run means what the startup  *)
(* gate takes it to mean.                                                  *)

\* Both passes of a run over one order: b after the fills, c after the status.
\* What the discrepancy recorded for a clean order says of c.
LEMMA CleanOrder ==
    ASSUME Inv, NEW listed \in SUBSET Placed, NEW F \in InsertedFills(AdoptIdentities(listed)),
           NEW o \in Orders,
           NEW b, b = ApplyFills(AdoptIdentities(listed), F)[o],
           NEW c, c = ReconcileOrder(b, Match(o, b, listed)),
           OrderIsClean(b, Match(o, b, listed))
    PROVE  /\ Match(o, b, listed) = {c.pid} \cap listed
           /\ c.pid \in listed => c.state = ReconciledState(book[c.pid])
           /\ c.pid \notin listed => c.state \in Terminal
<1>1. PICK a : a = AdoptIdentities(listed)[o]
  OBVIOUS
<1>2. b \in OrderRecord /\ b.pid = a.pid /\ b.attempt = a.attempt
  BY <1>1, Filled
<1>3. Match(o, b, listed) = {b.pid} \cap listed
  BY <1>1, <1>2, MatchedByPid
<1>4. /\ c.pid = b.pid
      /\ IF b.pid \in listed /\ book[b.pid].status \in Permitted(b.state)
         THEN c.state = book[b.pid].status
         ELSE c = b
  BY <1>1, <1>2, StatusApplied
<1>5. CASE b.pid \in listed
  <2>1. b.pid \in Placed /\ Match(o, b, listed) = {b.pid}
    BY <1>3, <1>5
  <2>2. ReconciledState(book[b.pid]) = book[b.pid].status
    BY <2>1, EstablishedIsStatus
  <2>3. \/ b.state = ReconciledState(book[b.pid])
        \/ ReconciledState(book[b.pid]) \in Permitted(b.state)
    BY <2>1 DEF OrderIsClean
  <2> QED
    BY <1>3, <1>4, <1>5, <2>2, <2>3
<1>6. CASE b.pid \notin listed
  <2>1. Match(o, b, listed) = {}
    BY <1>3, <1>6
  <2>2. b.state \in Terminal
    BY <2>1 DEF OrderIsClean
  <2> QED
    BY <1>3, <1>4, <1>6, <2>2
<1> QED
  BY <1>5, <1>6

\* An order that is not tracked is matched with nothing and left alone.
LEMMA UntrackedUnmatched ==
    ASSUME Inv, NEW listed \in SUBSET Placed, NEW F \in InsertedFills(AdoptIdentities(listed)),
           NEW o \in Orders, ~Tracked(o)
    PROVE  /\ ApplyFills(AdoptIdentities(listed), F)[o] = orders[o]
           /\ Match(o, orders[o], listed) = {}
<1>0. PICK b : b = ApplyFills(AdoptIdentities(listed), F)[o]
  OBVIOUS
<1>1. PICK a : a = AdoptIdentities(listed)[o]
  OBVIOUS
<1>2. b \in OrderRecord /\ b.pid = a.pid /\ b.attempt = a.attempt
  BY <1>0, <1>1, Filled
<1>3. orders[o].attempt = 0 /\ orders[o].pid = NoPid
  BY DEF Inv, IdentityOK, Tracked, Untracked, FreshOrder
<1>4. AttemptEntries(o, orders[o], listed) = {}
  BY <1>3 DEF AttemptEntries
<1>5. a = orders[o]
  BY <1>1, <1>4, Adopted
<1>6. NoPid \notin listed
  BY DEF Placed, ProviderIds, NoPid
<1>7. Match(o, b, listed) = {b.pid} \cap listed
  BY <1>1, <1>2, MatchedByPid
<1>8. a.pid \notin ProviderIds
  BY <1>3, <1>5 DEF ProviderIds, NoPid
<1>9. b = a
  BY <1>0, <1>1, <1>8, Filled
<1> QED
  BY <1>0, <1>3, <1>5, <1>6, <1>7, <1>9

LEMMA UntrackedStays ==
    ASSUME Inv, NEW listed \in SUBSET Placed, NEW F \in InsertedFills(AdoptIdentities(listed)),
           NEW o \in Orders, ~Tracked(o)
    PROVE  ReconcileOrders(ApplyFills(AdoptIdentities(listed), F), listed)[o] = orders[o]
<1> DEFINE after == ApplyFills(AdoptIdentities(listed), F)
<1>1. after[o] = orders[o] /\ Match(o, orders[o], listed) = {}
  BY UntrackedUnmatched
<1> HIDE DEF after
<1>2. ReconcileOrders(after, listed)[o] = ReconcileOrder(after[o], Match(o, after[o], listed))
  BY DEF ReconcileOrders
<1>3. ReconcileOrder(orders[o], {}) = orders[o]
  BY DEF ReconcileOrder
<1>4. ReconcileOrders(after, listed)[o] = orders[o]
  BY <1>1, <1>2, <1>3
<1> QED
  BY <1>4 DEF after

\* One clean run.
LEMMA CleanRun ==
    ASSUME Inv, NEW listed \in Listings, ReconcileAgainst(listed), lastRun' = "clean"
    PROVE  AgreesWith(listed)'
<1>1. listed \in SUBSET Placed
  BY DEF Listings
<1> DEFINE ords(F) == ApplyFills(AdoptIdentities(listed), F)
<1>2. PICK F \in InsertedFills(AdoptIdentities(listed)) :
         /\ orders' = ReconcileOrders(ords(F), listed)
         /\ RunIsClean(ords(F), F, listed)
         /\ UNCHANGED book
  BY DEF ReconcileAgainst, venueVars
<1>3. ASSUME NEW o \in Orders, Tracked(o)
      PROVE  /\ Match(o, ords(F)[o], listed) = {orders'[o].pid} \cap listed
             /\ orders'[o].pid \in listed =>
                  orders'[o].state = ReconciledState(book[orders'[o].pid])
             /\ orders'[o].pid \notin listed => orders'[o].state \in Terminal
  <2>1. PICK b : b = ords(F)[o]
    OBVIOUS
  <2>2. PICK c : c = orders'[o]
    OBVIOUS
  <2>3. c = ReconcileOrder(b, Match(o, b, listed))
    BY <1>2, <2>1, <2>2 DEF ReconcileOrders
  <2>4. OrderIsClean(b, Match(o, b, listed))
    BY <1>2, <1>3, <2>1 DEF RunIsClean
  <2>5. /\ Match(o, b, listed) = {c.pid} \cap listed
        /\ c.pid \in listed => c.state = ReconciledState(book[c.pid])
        /\ c.pid \notin listed => c.state \in Terminal
    BY <1>1, <2>1, <2>3, <2>4, CleanOrder
  <2> QED
    BY <2>1, <2>2, <2>5
<1>4. ASSUME NEW p \in listed
      PROVE  \E o \in Orders : /\ orders'[o].pid = p
                               /\ orders'[o].state = ReconciledState(book'[p])
  <2>1. PICK o \in Orders : p \in Match(o, ords(F)[o], listed)
    BY <1>2 DEF RunIsClean
  <2>2. Tracked(o)
    BY <1>1, <2>1, UntrackedUnmatched
  <2>3. orders'[o].pid = p
    BY <1>3, <2>1, <2>2
  <2> QED
    BY <1>2, <1>3, <2>2, <2>3
<1>5. ASSUME NEW o \in Orders, orders'[o].state # "UNTRACKED", orders'[o].pid \notin listed
      PROVE  orders'[o].state \in Terminal
  <2>1. Tracked(o)
    <3> SUFFICES ASSUME ~Tracked(o)
                 PROVE  FALSE
      OBVIOUS
    <3>1. orders'[o] = orders[o]
      BY <1>1, <1>2, UntrackedStays
    <3> QED
      BY <1>5, <3>1 DEF Tracked
  <2> QED
    BY <1>3, <1>5, <2>1
<1> QED
  BY <1>2, <1>4, <1>5 DEF AgreesWith, Tracked

\* For any orders, venue, listing and retry policy: when a run reports itself
\* clean, the orders agree with what the venue listed.
THEOREM CleanRunsAgree == Spec => CleanRunAgrees
<1>1. Inv /\ [Next]_vars =>
        [\A listed \in Listings :
            ReconcileAgainst(listed) /\ lastRun' = "clean" => AgreesWith(listed)']_vars
  BY CleanRun
<1> QED
  BY <1>1, InvAlways, PTL DEF Spec, CleanRunAgrees
-----------------------------------------------------------------------------
(***************************************************************************)
(* What the first run after a restart rebuilds. It needs three facts more: *)
(* the executions of an entry are all of its filled lots, and its status   *)
(* says how many these are (BookAddsUp); a process that has not reconciled *)
(* has applied nothing (NothingApplied); and the entry of every order can  *)
(* be found (OnceInv). Where executions carry an id, the run then inserts  *)
(* every one of them, because all of them together are acceptable.         *)
(***************************************************************************)

\* The executions of an entry make up what it has filled, which its status tells.
BookAddsUp ==
    /\ \A f \in trades : f.first <= f.last
    /\ \A p \in ProviderIds :
          /\ UNION {Lots(f) : f \in {g \in trades : g.pid = p}} = 1 .. book[p].filled
          /\ book[p].status = "FILLED" <=> book[p].filled = QuantityOf[book[p].order]
          /\ book[p].status = "PARTIALLY_FILLED" => book[p].filled > 0

\* Before its first run a process has applied no execution.
NothingApplied ==
    lastRun = "none" => applied = {} /\ \A o \in Orders : orders[o].filled = 0

\* The book adds up as long as an entry's filled quantity moves with its
\* executions, and with its status.
LEMMA BookStays ==
    ASSUME BookAddsUp, trades' = trades,
           \A p \in ProviderIds :
              \/ book'[p] = book[p]
              \/ /\ book'[p].order = book[p].order /\ book'[p].filled = book[p].filled
                 /\ book'[p].status = "CANCELLED" /\ book[p].status # "FILLED"
    PROVE  BookAddsUp'
<1> SUFFICES ASSUME NEW p \in ProviderIds
             PROVE  /\ UNION {Lots(f) : f \in {g \in trades : g.pid = p}} = 1 .. book'[p].filled
                    /\ book'[p].status = "FILLED" <=>
                         book'[p].filled = QuantityOf[book'[p].order]
                    /\ book'[p].status = "PARTIALLY_FILLED" => book'[p].filled > 0
  BY DEF BookAddsUp
<1>1. CASE book'[p] = book[p]
  BY <1>1 DEF BookAddsUp
<1>2. CASE /\ book'[p].order = book[p].order /\ book'[p].filled = book[p].filled
           /\ book'[p].status = "CANCELLED" /\ book[p].status # "FILLED"
  BY <1>2 DEF BookAddsUp
<1> QED
  BY <1>1, <1>2

\* A new entry is open or rejected, and has filled nothing.
LEMMA PlacedAddsUp ==
    ASSUME Inv, BookAddsUp, NEW o \in Orders, NEW v \in {"OPEN", "REJECTED"}, PlaceOrder(o, v)
    PROVE  BookAddsUp'
<1>1. /\ nextId \in ProviderIds /\ book'[nextId].status = v /\ book'[nextId].order = o
      /\ book'[nextId].filled = 0
      /\ \A p \in ProviderIds : p # nextId => book'[p] = book[p]
  BY PlaceOrderEffect DEF Inv
<1>2. book[nextId].filled = 0
  <2>1. book[nextId].status = "NONE"
    BY <1>1 DEF Inv, VenueOK, ProviderIds
  <2> QED
    BY <1>1, <2>1 DEF Inv, VenueOK
<1>3. trades' = trades
  BY DEF PlaceOrder
<1>4. ASSUME NEW p \in ProviderIds
      PROVE  /\ UNION {Lots(f) : f \in {g \in trades : g.pid = p}} = 1 .. book'[p].filled
             /\ book'[p].status = "FILLED" <=> book'[p].filled = QuantityOf[book'[p].order]
             /\ book'[p].status = "PARTIALLY_FILLED" => book'[p].filled > 0
  <2>1. CASE p = nextId
    <3>1. UNION {Lots(f) : f \in {g \in trades : g.pid = p}} = 1 .. book'[p].filled
      BY <1>1, <1>2, <2>1 DEF BookAddsUp
    <3>2. QuantityOf[o] # 0 /\ v # "FILLED" /\ v # "PARTIALLY_FILLED"
      OBVIOUS
    <3> QED
      BY <1>1, <2>1, <3>1, <3>2
  <2>2. CASE p # nextId
    BY <1>1, <2>2 DEF BookAddsUp
  <2> QED
    BY <2>1, <2>2
<1> QED
  BY <1>3, <1>4 DEF BookAddsUp

\* PaperBrokerAdapter.venue_fill fills the next lots.
LEMMA FillAddsUp ==
    ASSUME Inv, BookAddsUp, NEW q \in ProviderIds, VenueFill(q)
    PROVE  BookAddsUp'
<1>1. /\ book \in [ProviderIds -> BookEntry] /\ book[q].filled \in Nat
      /\ QuantityOf[book[q].order] \in Nat \ {0}
  BY DEF Inv, TypeOK, BookEntry
<1> DEFINE full == QuantityOf[book[q].order]
           from == book[q].filled
           e(last) == [book[q] EXCEPT !.filled = last, !.status = FilledState(last, full)]
           x(last, slot) == [pid |-> q, first |-> from + 1, last |-> last, slot |-> slot]
<1>2. PICK last, slot :
         /\ last \in from + 1 .. full
         /\ book' = [book EXCEPT ![q] = e(last)]
         /\ trades' = trades \cup {x(last, slot)}
  BY <1>1 DEF VenueFill, BookEntry
<1>3. /\ last \in Nat /\ from < last /\ last <= full
  BY <1>1, <1>2
<1>4. /\ book'[q].filled = last /\ book'[q].status = FilledState(last, full)
      /\ book'[q].order = book[q].order
      /\ \A p \in ProviderIds : p # q => book'[p] = book[p]
  BY <1>1, <1>2 DEF BookEntry
<1>5. /\ x(last, slot).pid = q /\ x(last, slot).first = from + 1
      /\ x(last, slot).last = last
  OBVIOUS
<1> DEFINE new == x(last, slot)
<1>6. new.pid = q /\ new.first = from + 1 /\ new.last = last /\ trades' = trades \cup {new}
  BY <1>2, <1>5
<1> HIDE DEF x, e, new
<1>7. \A f \in trades' : f.first <= f.last
  BY <1>1, <1>3, <1>6 DEF BookAddsUp
<1>8. ASSUME NEW p \in ProviderIds
      PROVE  /\ UNION {Lots(f) : f \in {g \in trades' : g.pid = p}} = 1 .. book'[p].filled
             /\ book'[p].status = "FILLED" <=> book'[p].filled = QuantityOf[book'[p].order]
             /\ book'[p].status = "PARTIALLY_FILLED" => book'[p].filled > 0
  <2>1. CASE p = q
    <3>1. {g \in trades' : g.pid = q} = {g \in trades : g.pid = q} \cup {new}
      BY <1>6
    <3>2. UNION {Lots(f) : f \in {g \in trades : g.pid = q}} = 1 .. from
      BY DEF BookAddsUp
    <3>3. Lots(new) = from + 1 .. last
      BY <1>6 DEF Lots
    <3>4. UNION {Lots(f) : f \in {g \in trades' : g.pid = q}} = (1 .. from) \cup (from + 1 .. last)
      <4>1. UNION {Lots(f) : f \in {g \in trades : g.pid = q} \cup {new}}
              = (UNION {Lots(f) : f \in {g \in trades : g.pid = q}}) \cup Lots(new)
        OBVIOUS
      <4> QED
        BY <3>1, <3>2, <3>3, <4>1, Zenon
    <3>5. (1 .. from) \cup (from + 1 .. last) = 1 .. last
      BY <1>1, <1>3
    <3>6. UNION {Lots(f) : f \in {g \in trades' : g.pid = p}} = 1 .. book'[p].filled
      BY <1>4, <2>1, <3>4, <3>5
    <3>7. book'[p].status = "FILLED" <=> book'[p].filled = QuantityOf[book'[p].order]
      BY <1>4, <2>1 DEF FilledState
    <3>8. book'[p].filled > 0
      BY <1>1, <1>3, <1>4, <2>1
    <3> QED
      BY <3>6, <3>7, <3>8
  <2>2. CASE p # q
    <3>1. {g \in trades' : g.pid = p} = {g \in trades : g.pid = p}
      BY <1>6, <2>2
    <3> QED
      BY <1>4, <2>2, <3>1 DEF BookAddsUp
  <2> QED
    BY <2>1, <2>2
<1> QED
  BY <1>7, <1>8 DEF BookAddsUp

\* The book always adds up.
LEMMA NextAddsUp == Inv /\ BookAddsUp /\ [Next]_vars => BookAddsUp'
<1> SUFFICES ASSUME Inv, BookAddsUp, [Next]_vars
             PROVE  BookAddsUp'
  OBVIOUS
<1>1. CASE UNCHANGED <<book, trades>>
  BY <1>1, BookStays
<1>2. ASSUME NEW o \in Orders, Submit(o)
      PROVE  BookAddsUp'
  <2>1. \/ UNCHANGED <<book, trades>>
        \/ \E v \in {"OPEN", "REJECTED"} : PlaceOrder(o, v)
    BY <1>2 DEF Submit, SubmitNotAuthorized, SubmitBlocked, SubmitAcknowledged, SubmitRejected,
         SubmitAckLost, SubmitDropped, SubmitCapabilityDenied, RejectObject, venueVars
  <2> QED
    BY <1>1, <2>1, PlacedAddsUp
<1>3. ASSUME NEW p \in Placed, book[p].status # "FILLED", CancelEntry(p), trades' = trades
      PROVE  BookAddsUp'
  <2>1. p \in ProviderIds /\ book \in [ProviderIds -> BookEntry]
    BY DEF Inv, TypeOK, Placed
  <2>2. \A q \in ProviderIds :
           \/ book'[q] = book[q]
           \/ /\ book'[q].order = book[q].order /\ book'[q].filled = book[q].filled
              /\ book'[q].status = "CANCELLED" /\ book[q].status # "FILLED"
    BY <1>3, <2>1 DEF CancelEntry, BookEntry
  <2> QED
    BY <1>3, <2>2, BookStays
<1>4. ASSUME NEW o \in Orders, RequestCancel(o)
      PROVE  BookAddsUp'
  <2>1. trades' = trades /\ orders[o].pid \in Placed
    BY <1>4 DEF RequestCancel, CancelAccepted, CancelRefused, CancelUnanswered, Cancellable,
         Inv, IdentityOK
  <2>2. \/ UNCHANGED book
        \/ book[orders[o].pid].status # "FILLED" /\ CancelEntry(orders[o].pid)
    BY <1>4 DEF RequestCancel, CancelAccepted, CancelRefused, CancelUnanswered
  <2> QED
    BY <1>1, <1>3, <2>1, <2>2
<1>5. ASSUME NEW p \in ProviderIds, VenueCancels(p)
      PROVE  BookAddsUp'
  BY <1>3, <1>5 DEF VenueCancels, Working, Placed
<1>6. CASE \/ \E o \in Orders : EscalateToReconciliation(o)
           \/ Reconcile \/ Restart \/ UNCHANGED vars
  BY <1>1, <1>6 DEF EscalateToReconciliation, Reconcile, ReconcileAgainst, Restart, venueVars, vars
<1> QED
  BY <1>2, <1>4, <1>5, <1>6, FillAddsUp DEF Next

\* Only a run applies executions, and a restart forgets them.
LEMMA NextKeepsNothing == Inv /\ NothingApplied /\ [Next]_vars => NothingApplied'
<1> SUFFICES ASSUME Inv, NothingApplied, [Next]_vars, lastRun' = "none"
             PROVE  applied' = {} /\ \A o \in Orders : orders'[o].filled = 0
  BY DEF NothingApplied
<1>0. orders \in [Orders -> OrderRecord]
  BY DEF Inv, TypeOK
<1>1. FreshOrder.filled = 0 /\ Untracked.filled = 0
  BY DEF FreshOrder, Untracked
<1>2. ASSUME NEW o \in Orders, Submit(o)
      PROVE  applied' = {} /\ \A q \in Orders : orders'[q].filled = 0
  <2>1. applied' = {} /\ \A q \in Orders : orders[q].filled = 0
    BY <1>2 DEF NothingApplied, Submit, SubmitNotAuthorized, SubmitBlocked, SubmitAcknowledged,
         SubmitRejected, SubmitAckLost, SubmitDropped, SubmitCapabilityDenied, RejectObject,
         RecordAttempt, reconcilerVars
  <2>2. PICK obj \in Objects(o) :
           \/ RejectObject(o, obj)
           \/ \E d \in Decisions : \E s, pid : RecordAttempt(o, obj, d, s, pid)
    BY <1>2 DEF Submit, SubmitNotAuthorized, SubmitBlocked, SubmitAcknowledged, SubmitRejected,
         SubmitAckLost, SubmitDropped, SubmitCapabilityDenied
  <2>3. obj.filled = 0 /\ obj \in OrderRecord
    <3>1. FreshOrder \in OrderRecord
      BY DEF FreshOrder, OrderRecord, OrderStates
    <3> QED
      BY <1>0, <1>1, <2>1, <3>1, ObjectsAre
  <2>4. CASE RejectObject(o, obj)
    BY <1>0, <2>1, <2>3, <2>4 DEF RejectObject, OrderRecord
  <2>5. ASSUME NEW d, NEW s, NEW pid, RecordAttempt(o, obj, d, s, pid)
        PROVE  \A q \in Orders : orders'[q].filled = 0
    <3> DEFINE n == attempts[o] + 1
    <3>1. orders' = [orders EXCEPT ![o] =
                       [obj EXCEPT !.state = s, !.pid = pid, !.attempt = n, !.decision = d]]
      BY <2>5 DEF RecordAttempt
    <3> HIDE DEF n
    <3> QED
      BY <1>0, <2>1, <2>3, <3>1 DEF OrderRecord
  <2> QED
    BY <2>1, <2>2, <2>4, <2>5
<1>3. CASE \E o \in Orders : EscalateToReconciliation(o) \/ RequestCancel(o)
  <2>1. PICK o, s : orders' = [orders EXCEPT ![o].state = s]
    BY <1>3 DEF EscalateToReconciliation, RequestCancel, CancelAccepted, CancelRefused,
         CancelUnanswered, MoveTo
  <2>2. applied' = {} /\ \A q \in Orders : orders[q].filled = 0
    BY <1>3 DEF NothingApplied, EscalateToReconciliation, RequestCancel, CancelAccepted,
         CancelRefused, CancelUnanswered, Cancellable, reconcilerVars
  <2> QED
    BY <1>0, <2>1, <2>2 DEF OrderRecord
<1>4. CASE Reconcile
  BY <1>4 DEF Reconcile, ReconcileAgainst
<1>5. CASE Restart
  <2>1. applied' = {} /\ orders' = [o \in Orders |-> Shell(orders[o])]
    BY <1>5 DEF Restart
  <2>2. ASSUME NEW o \in Orders
        PROVE  Shell(orders[o]).filled = 0
    <3>1. \/ \E s : Shell(orders[o]) = [orders[o] EXCEPT !.state = s, !.filled = 0]
          \/ Shell(orders[o]) = Untracked
      BY DEF Shell
    <3> QED
      BY <1>0, <1>1, <3>1 DEF OrderRecord
  <2> QED
    BY <2>1, <2>2
<1>6. CASE \/ \E p \in ProviderIds : VenueFill(p) \/ VenueCancels(p)
           \/ UNCHANGED vars
  BY <1>6 DEF NothingApplied, VenueFill, VenueCancels, managerVars, reconcilerVars, vars
<1> QED
  BY <1>2, <1>3, <1>4, <1>5, <1>6 DEF Next

\* A run that is shown the whole book matches each entry with its order.
LEMMA EntryAdopted ==
    ASSUME Inv, OnceInv, NEW p \in Placed, NEW o, o = book[p].order
    PROVE  o \in Orders /\ AdoptIdentities(Placed)[o].pid = p
<1>1. o \in Orders /\ p \in ProviderIds /\ p # NoPid
  BY DEF Inv, TypeOK, BookEntry, Placed, ProviderIds, NoPid
<1>2. PICK a : a = AdoptIdentities(Placed)[o]
  OBVIOUS
<1>3. CASE orders[o].pid = p
  BY <1>1, <1>3 DEF AdoptIdentities
<1>4. CASE /\ orders[o].pid = NoPid
           /\ orders[o].attempt # 0 /\ orders[o].attempt = book[p].attempt
  <2>1. p \in AttemptEntries(o, orders[o], Placed)
    BY <1>4 DEF AttemptEntries
  <2>2. \A q \in AttemptEntries(o, orders[o], Placed) : q = p
    BY <1>1 DEF AttemptEntries, EntriesOf, OnceInv, OneVenueOrderEach
  <2>3. p \in First(AttemptEntries(o, orders[o], Placed))
    BY <1>1, <2>1, <2>2 DEF First, ProviderIds
  <2>4. a.pid # NoPid
    <3>1. a.pid = NoPid => First(AttemptEntries(o, orders[o], Placed)) = {}
      BY <1>1, <1>2, Adopted
    <3> QED
      BY <2>3, <3>1
  <2>5. a.pid \in AttemptEntries(o, orders[o], Placed)
    BY <1>1, <1>2, <1>4, <2>4, Adopted
  <2> QED
    BY <1>1, <1>2, <2>2, <2>5
<1> QED
  BY <1>1, <1>3, <1>4 DEF OnceInv, KnownOrFindable

\* The executions of an entry come to what it has filled.
LEMMA AllOfAnEntry ==
    ASSUME Inv, BookAddsUp, NEW p \in ProviderIds
    PROVE  /\ Quantity({f \in trades : f.pid = p}) = book[p].filled
           /\ {f \in trades : f.pid = p} = {} <=> book[p].filled = 0
<1>1. book[p].filled \in Nat
  BY EntryRanges DEF Inv
<1> DEFINE mine == {f \in trades : f.pid = p}
           n == book[p].filled
<1>2. UNION {Lots(f) : f \in mine} = 1 .. n
  BY DEF BookAddsUp
<1>3. Cardinality(1 .. n) = n
  <2>1. 1 \in Int /\ n \in Int
    BY <1>1
  <2>2. Cardinality(1 .. n) = IF 1 > n THEN 0 ELSE n - 1 + 1
    BY ONLY <2>1, FS_Interval
  <2> QED
    BY <1>1, <2>2
<1>4. mine = {} => n = 0
  <2> SUFFICES ASSUME mine = {}, n # 0
               PROVE  FALSE
    OBVIOUS
  <2>1. 1 \in 1 .. n
    BY <1>1
  <2> QED
    BY <1>2, <2>1
<1>5. mine # {} => n # 0
  <2> SUFFICES ASSUME NEW f \in mine, n = 0
               PROVE  FALSE
    OBVIOUS
  <2>1. f \in Execution /\ f \in trades
    BY DEF Inv, TypeOK
  <2>2. f.first \in Lots(f)
    BY <2>1 DEF Lots, BookAddsUp, Execution
  <2>3. f.first \in 1 .. n
    BY <1>2, <2>2
  <2> QED
    BY <2>3
<1> QED
  BY <1>2, <1>3, <1>4, <1>5 DEF Quantity

\* Where executions carry an id, all of them together can be applied by a
\* process that has applied none, and so can any of them.
LEMMA AllAcceptable ==
    ASSUME Inv, OnceInv, BookAddsUp, NothingApplied, VenueIdentifiesFills, OnlyShells,
           NEW G \in SUBSET trades
    PROVE  Accepts(AdoptIdentities(Placed), G)
<1> DEFINE ords == AdoptIdentities(Placed)
<1>0. trades \subseteq Execution /\ \A o \in Orders : orders[o].filled = 0
  BY DEF Inv, TypeOK, OnlyShells, NothingApplied
<1>1. ASSUME NEW f \in G, NEW g \in G, DedupKey(f) = DedupKey(g)
      PROVE  f = g
  <2>1. f.pid = g.pid /\ f.first = g.first
    BY <1>1 DEF DedupKey
  <2>2. f \in trades /\ g \in trades /\ f \in Execution /\ g \in Execution
    BY <1>0
  <2>3. f.first <= f.last /\ g.first <= g.last
    BY <2>2 DEF BookAddsUp
  <2>4. f # g => f.last < g.first \/ g.last < f.first
    BY <2>1, <2>2 DEF Inv, VenueOK
  <2>5. f.first \in Nat /\ f.last \in Nat /\ g.last \in Nat
    BY <2>2 DEF Execution
  <2> QED
    BY <2>1, <2>3, <2>4, <2>5
<1>2. ASSUME NEW f \in G
      PROVE  \E o \in Orders : ords[o].pid = f.pid
  <2>1. f \in trades /\ f.pid \in ProviderIds
    BY <1>0 DEF Execution
  <2>2. book[f.pid].filled # 0
    BY <2>1, AllOfAnEntry
  <2>3. f.pid \in Placed
    BY <2>1, <2>2 DEF Inv, VenueOK, Placed
  <2> QED
    BY <2>3, EntryAdopted
<1>3. ASSUME NEW o \in Orders, FillsFor(G, ords[o]) # {}
      PROVE  /\ ords[o].state \in Fillable
             /\ ords[o].filled + Quantity(FillsFor(G, ords[o])) <= QuantityOf[o]
  <2>1. PICK a : a = ords[o]
    OBVIOUS
  <2>2. PICK f \in G : f.pid = a.pid
    BY <1>3, <2>1 DEF FillsFor
  <2>3. a.pid \in ProviderIds
    BY <1>0, <2>2 DEF Execution
  <2>4. /\ a.state = orders[o].state /\ a.filled = 0
        /\ a = orders[o] \/ a.pid \in AttemptEntries(o, orders[o], Placed)
    BY <1>0, <2>1, Adopted
  <2>5. book[a.pid].order = o
    BY <2>3, <2>4 DEF Inv, IdentityOK, AttemptEntries, ProviderIds, NoPid
  <2>6. a.state \in {"SUBMITTED", "PENDING_RECONCILIATION"}
    <3>1. orders[o].state # "UNTRACKED"
      <4> SUFFICES ASSUME orders[o].state = "UNTRACKED"
                   PROVE  FALSE
        OBVIOUS
      <4>1. orders[o].pid = NoPid /\ orders[o].attempt = 0
        BY DEF Inv, IdentityOK, Untracked, FreshOrder
      <4> QED
        BY <2>3, <2>4, <4>1 DEF AttemptEntries, ProviderIds, NoPid
    <3> QED
      BY <2>4, <3>1 DEF OnlyShells
  <2>7. a.state \in Fillable
    BY <2>6 DEF Fillable, Permitted, OrderStates
  <2> DEFINE all == {g \in trades : g.pid = a.pid}
             n == book[a.pid].filled
  <2>8. n \in Nat /\ Ranges(all, n) /\ Quantity(all) = n
    BY <2>3, EntryRanges, AllOfAnEntry DEF Inv
  <2>9. FillsFor(G, a) \in SUBSET all
    BY DEF FillsFor
  <2>10. Quantity(FillsFor(G, a)) <= n /\ Quantity(FillsFor(G, a)) \in Nat
    <3>1. Ranges(FillsFor(G, a), n)
      BY <2>8, <2>9 DEF Ranges
    <3> HIDE DEF n
    <3> QED
      BY <2>8, <3>1, QuantityType
  <2>11. n <= QuantityOf[o]
    BY <2>3, <2>5 DEF Inv, TypeOK
  <2>12. QuantityOf[o] \in Nat
    OBVIOUS
  <2> HIDE DEF n
  <2> QED
    BY <2>1, <2>4, <2>7, <2>8, <2>10, <2>11, <2>12
<1> QED
  BY <1>1, <1>2, <1>3 DEF Accepts

\* One rebuild.
LEMMA FirstRunRebuilds ==
    ASSUME Inv, OnceInv, BookAddsUp, NothingApplied, VenueIdentifiesFills, OnlyShells,
           ReconcileAgainst(Placed), NEW p \in Placed
    PROVE  \E o \in Orders : /\ orders'[o].pid = p
                             /\ orders'[o].state = ReconciledState(book[p])
                             /\ orders'[o].filled = book[p].filled
<1> DEFINE ords == AdoptIdentities(Placed)
<1>1. PICK F \in InsertedFills(ords) : orders' = ReconcileOrders(ApplyFills(ords, F), Placed)
  BY DEF ReconcileAgainst
<1>2. F = trades
  <2>1. Unapplied = trades
    BY DEF Unapplied, OnlyShells, NothingApplied
  <2>2. F \subseteq trades /\ \A f \in trades \ F : ~Accepts(ords, F \cup {f})
    BY <2>1 DEF InsertedFills
  <2>3. \A f \in trades : Accepts(ords, F \cup {f})
    <3> TAKE f \in trades
    <3>1. F \cup {f} \in SUBSET trades
      BY <2>2
    <3> QED
      BY <3>1, AllAcceptable
  <2> QED
    BY <2>2, <2>3
<1>3. PICK o \in Orders : o = book[p].order /\ ords[o].pid = p
  BY EntryAdopted
<1>4. PICK a : a = ords[o]
  OBVIOUS
<1>5. PICK b : b = ApplyFills(ords, F)[o]
  OBVIOUS
<1>6. PICK c : c = orders'[o]
  OBVIOUS
<1>7. /\ p \in ProviderIds /\ p # NoPid /\ book[p].filled \in Nat /\ QuantityOf[o] \in Nat \ {0}
      /\ book[p].status \in VenueStatuses \ {"NONE"}
  BY DEF Inv, TypeOK, BookEntry, Placed, ProviderIds, NoPid
<1>8. /\ a.pid = p /\ a.filled = 0 /\ a.state = orders[o].state
      /\ a = orders[o] \/ a.pid \in AttemptEntries(o, orders[o], Placed)
  BY <1>3, <1>4, Adopted DEF OnlyShells, NothingApplied
<1>9. a.state \in {"SUBMITTED", "PENDING_RECONCILIATION"}
  <2>1. orders[o].state # "UNTRACKED"
    <3> SUFFICES ASSUME orders[o].state = "UNTRACKED"
                 PROVE  FALSE
      OBVIOUS
    <3>1. orders[o].pid = NoPid /\ orders[o].attempt = 0
      BY DEF Inv, IdentityOK, Untracked, FreshOrder
    <3> QED
      BY <1>7, <1>8, <3>1 DEF AttemptEntries
  <2> QED
    BY <1>8, <2>1 DEF OnlyShells
<1>10. /\ b \in OrderRecord /\ b.pid = p /\ b.attempt = a.attempt
       /\ b.filled = a.filled + Quantity(FillsFor(F, a))
  BY <1>1, <1>4, <1>5, <1>8, Filled
<1>11. FillsFor(F, a) = {f \in trades : f.pid = p}
  BY <1>2, <1>8 DEF FillsFor
<1>12. b.filled = book[p].filled
  BY <1>7, <1>8, <1>10, <1>11, AllOfAnEntry
<1>13. IF book[p].filled = 0 THEN b.state = a.state
       ELSE b.state = FilledState(book[p].filled, QuantityOf[o])
  <2>1. FillsFor(F, a) = {} <=> book[p].filled = 0
    BY <1>7, <1>11, AllOfAnEntry
  <2>2. a \in OrderRecord
    BY <1>4, Adopted
  <2> DEFINE k == a.filled + Quantity(FillsFor(F, a))
  <2>3. k = book[p].filled
    BY <1>7, <1>8, <1>11, AllOfAnEntry
  <2>4. b = IF FillsFor(F, a) = {} THEN a
            ELSE [a EXCEPT !.filled = k, !.state = FilledState(k, QuantityOf[o])]
    BY <1>4, <1>5 DEF ApplyFills
  <2> HIDE DEF k
  <2> QED
    BY <2>1, <2>2, <2>3, <2>4 DEF OrderRecord
<1>14. c = ReconcileOrder(b, Match(o, b, Placed))
  BY <1>1, <1>5, <1>6 DEF ReconcileOrders
<1>15. /\ c.pid = p /\ c.filled = b.filled
       /\ IF book[p].status \in Permitted(b.state) THEN c.state = book[p].status ELSE c = b
  BY <1>4, <1>8, <1>10, <1>14, StatusApplied
<1>16. /\ book[p].status = "FILLED" <=> book[p].filled = QuantityOf[o]
       /\ book[p].status = "PARTIALLY_FILLED" => book[p].filled > 0
       /\ book[p].status \in {"OPEN", "REJECTED"} => book[p].filled = 0
  BY <1>3, <1>7 DEF BookAddsUp, Inv, VenueOK
<1>17. b.state = book[p].status \/ book[p].status \in Permitted(b.state)
  <2>1. CASE book[p].filled = 0
    <3>1. b.state \in {"SUBMITTED", "PENDING_RECONCILIATION"}
      BY <1>9, <1>13, <2>1
    <3>2. book[p].status \in {"OPEN", "CANCELLED", "REJECTED"}
      BY <1>7, <1>16, <2>1 DEF VenueStatuses
    <3> QED
      BY <3>1, <3>2 DEF Permitted
  <2>2. CASE book[p].filled # 0 /\ book[p].filled = QuantityOf[o]
    BY <1>13, <1>16, <2>2 DEF FilledState
  <2>3. CASE book[p].filled # 0 /\ book[p].filled # QuantityOf[o]
    <3>1. b.state = "PARTIALLY_FILLED"
      BY <1>13, <2>3 DEF FilledState
    <3>2. book[p].status \in {"PARTIALLY_FILLED", "CANCELLED"}
      BY <1>7, <1>16, <2>3 DEF VenueStatuses
    <3> QED
      BY <3>1, <3>2 DEF Permitted
  <2> QED
    BY <2>1, <2>2, <2>3
<1>18. ReconciledState(book[p]) = book[p].status
  BY EstablishedIsStatus
<1> QED
  BY <1>6, <1>12, <1>15, <1>17, <1>18

\* For any orders and restarts, a venue that gives its executions an id, and a
\* caller whose retries are safe: the first run after a restart, shown the whole
\* book, brings every order to the state and the quantity the venue has.
THEOREM RebuildIsTheVenue ==
    ASSUME RetriesAreSafe, VenueIdentifiesFills
    PROVE  Spec => RebuildMatchesVenue
<1> DEFINE All == Inv /\ OnceInv /\ BookAddsUp /\ NothingApplied
<1>1. Init => BookAddsUp
  <2> SUFFICES ASSUME Init, NEW p \in ProviderIds
               PROVE  /\ UNION {Lots(f) : f \in {g \in trades : g.pid = p}} = 1 .. book[p].filled
                      /\ book[p].status # "FILLED" /\ book[p].status # "PARTIALLY_FILLED"
                      /\ book[p].filled # QuantityOf[book[p].order]
    BY DEF Init, BookAddsUp
  <2>1. trades = {} /\ book[p] = NoEntry
    BY DEF Init
  <2>2. NoEntry.filled = 0 /\ NoEntry.status = "NONE" /\ NoEntry.order \in Orders
    BY DEF NoEntry
  <2>3. 1 .. 0 = {}
    OBVIOUS
  <2> QED
    BY <2>1, <2>2, <2>3
<1>2. Init => NothingApplied
  BY DEF Init, NothingApplied, Untracked, FreshOrder
<1>3. All /\ [Next]_vars =>
        [OnlyShells /\ ReconcileAgainst(Placed) =>
           \A p \in Placed : \E o \in Orders :
              /\ orders'[o].pid = p
              /\ orders'[o].state = ReconciledState(book[p])
              /\ orders'[o].filled = book[p].filled]_vars
  BY FirstRunRebuilds
<1> QED
  BY <1>1, <1>2, <1>3, NextAddsUp, NextKeepsNothing, InvAlways, OnceAlways, PTL
     DEF Spec, RebuildMatchesVenue
=============================================================================
