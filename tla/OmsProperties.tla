--------------------------- MODULE OmsProperties ---------------------------
(***************************************************************************)
(* What the OMS, the venue and the reconciler of OmsSystem promise, and    *)
(* what the documentation promises of them.                                *)
(***************************************************************************)
EXTENDS OmsSystem

OrderRecord ==
    [state : OrderStates \cup {"UNTRACKED"}, filled : Nat,
     pid : ProviderIds \cup {NoPid}, attempt : Nat,
     decision : Decisions \cup {NoDecision}]

BookEntry ==
    [status : VenueStatuses, order : Orders, attempt : Nat, filled : Nat]

Execution == [pid : ProviderIds, first : Nat, last : Nat, slot : FillSlots]

\* Every variable keeps its type; an order never holds more than its quantity
\* (orders.py __post_init__), and neither does an entry of the book.
TypeOK ==
    /\ orders \in [Orders -> OrderRecord]
    /\ \A o \in Orders : orders[o].filled <= QuantityOf[o]
    /\ attempts \in [Orders -> Nat]
    /\ sent \subseteq Orders \X Nat
    /\ book \in [ProviderIds -> BookEntry]
    /\ \A p \in ProviderIds : book[p].filled <= QuantityOf[book[p].order]
    /\ nextId \in 1 .. MaxVenueOrders + 1
    /\ trades \subseteq Execution
    /\ applied \subseteq {DedupKey(f) : f \in trades}
    /\ lastRun \in {"none", "clean", "dirty"}
    /\ absent \subseteq Orders

-----------------------------------------------------------------------------
(* Invariants                                                              *)

\* An order the OMS has closed has nothing left working at the venue, however
\* it was closed: by an answer, a lost answer found again, or a fill.
ClosedOrdersAreDead ==
    \A o \in Orders :
        orders[o].state \in Terminal =>
            \A p \in EntriesOf(o) : book[p].status \notin Working

\* The OMS never holds more of an order than the venue executed of it, whatever
\* runs repeat, whatever is listed twice and whatever a restart forgets.
LocalNeverAhead ==
    \A o \in Orders :
        orders[o].filled > 0 =>
            /\ orders[o].pid # NoPid
            /\ orders[o].filled <= book[orders[o].pid].filled

\* An order that may be cancelled can be addressed: request_cancel never meets
\* an order whose provider id was not learned.
PidOfLiveOrder ==
    \A o \in Orders :
        "CANCEL_PENDING" \in Permitted(orders[o].state) => orders[o].pid # NoPid

\* Ambiguity does not compound: of the orders of one instrument and strategy,
\* at most one is unresolved at an address nobody knows.
AmbiguityNeverCompounds ==
    \A o, p \in Orders :
        /\ orders[o].state \in Unresolved /\ orders[o].pid = NoPid
        /\ orders[p].state \in Unresolved /\ orders[p].pid = NoPid
        /\ ScopeOf[o] = ScopeOf[p]
        => o = p

\* Whatever became of it since, an order the venue may hold names a decision
\* that approved that much of its own intent.
HeldOrdersAreAuthorized ==
    \A o \in Orders :
        EntriesOf(o) # {} =>
            LET d == orders[o].decision IN
            /\ d # NoDecision
            /\ DecisionRecord[d].intent = IntentOf[o]
            /\ DecisionRecord[d].evaluated
            /\ DecisionRecord[d].verdict # "REJECTED"
            /\ QuantityOf[o] <= DecisionRecord[d].quantity

\* One order is at the venue at most once, even when its caller retries, as
\* long as it retries only what a run reported missing.
OneVenueOrderEach ==
    \A o \in Orders : \A p, q \in EntriesOf(o) : p = q

-----------------------------------------------------------------------------
(* Action properties                                                       *)

\* Every listed entry has an order in the state it establishes, and an order
\* without a listed entry is closed.
AgreesWith(listed) ==
    /\ \A p \in listed : \E o \in Orders :
         /\ orders[o].pid = p
         /\ orders[o].state = ReconciledState(book[p])
    /\ \A o \in Orders :
         Tracked(o) /\ orders[o].pid \notin listed => orders[o].state \in Terminal

\* A clean run settles everything it was shown: no order is left unresolved, and
\* the orders agree with the listing.
CleanRunAgrees ==
    [][\A listed \in Listings :
          ReconcileAgainst(listed) /\ lastRun' = "clean" => AgreesWith(listed)']_vars

\* All a process knows after a restart is in the shells it was given.
OnlyShells ==
    /\ lastRun = "none"
    /\ \A o \in Orders :
          orders[o].state \in {"UNTRACKED", "SUBMITTED", "PENDING_RECONCILIATION"}

\* The first run after a restart, shown the whole book, brings every order the
\* venue holds to the state and the filled quantity the venue has (11-TRADING
\* section 6: wiping local state and reconciling must match the broker).
RebuildMatchesVenue ==
    [][OnlyShells /\ ReconcileAgainst(Placed) =>
         \A p \in Placed : \E o \in Orders :
            /\ orders'[o].pid = p
            /\ orders'[o].state = ReconciledState(book[p])
            /\ orders'[o].filled = book[p].filled]_vars

-----------------------------------------------------------------------------
(* Liveness                                                                *)

\* An unresolved order that is at the venue does not stay unresolved, when
\* listings are complete, what is UNKNOWN is escalated and runs keep coming.
HeldOrdersAreResolved ==
    \A o \in Orders :
        orders[o].state \in Unresolved /\ EntriesOf(o) # {}
            ~> orders[o].state \notin Unresolved

-----------------------------------------------------------------------------
(* Claims of the documentation that the code does not keep                 *)

\* orders.py apply_fill and engine.py reconcile: an order is not marked FILLED
\* while quantity is outstanding.
FilledMeansFilled ==
    \A o \in Orders :
        orders[o].state = "FILLED" => orders[o].filled = QuantityOf[o]

\* manager.py: a timeout never moves an order to a terminal state; the only
\* exit from UNKNOWN is PENDING_RECONCILIATION.
NeverAssumedRejected ==
    \A o \in Orders :
        orders[o].state = "REJECTED" =>
            \A p \in EntriesOf(o) : book[p].status \notin Working

=============================================================================
