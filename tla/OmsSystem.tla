----------------------------- MODULE OmsSystem -----------------------------
(***************************************************************************)
(* The order management system, the simulated venue it submits to, and the *)
(* reconciler that brings the two back into agreement:                     *)
(*                                                                         *)
(*   oipulse/trading/oms/manager.py          OrderManager                  *)
(*   oipulse/trading/oms/authorization.py    authorize_submission          *)
(*   oipulse/trading/brokers/paper.py        PaperBrokerAdapter            *)
(*   oipulse/trading/reconciliation/engine.py  Reconciler, startup_gate    *)
(*                                                                         *)
(* The paper adapter never suspends inside an await, so a handler of the   *)
(* manager or of the reconciler runs to its end before another starts: one *)
(* handler is one action. Between handlers the venue acts on its own, the  *)
(* process may restart, and the caller chooses what to ask for next.       *)
(*                                                                         *)
(* An order of quantity n is n lots, and an execution takes the next ones: *)
(* the fill record [first, last] stands for a fill of last - first + 1.    *)
(***************************************************************************)
EXTENDS OrderLifecycle, Integers, FiniteSets

CONSTANTS
    Orders,               \* order ids (derived from intent, leg and account)
    Intents,
    IntentOf,             \* order -> the intent it is a leg of
    ScopeOf,              \* order -> its (instrument, strategy)
    QuantityOf,           \* order -> lots
    Decisions,            \* risk decision ids
    DecisionRecord,       \* decision -> what it recorded
    NoDecision,
    Times,                \* market times a caller may submit at
    MaxAttempts,          \* bound: submission attempts of an order
    MaxVenueOrders,       \* bound: entries of the venue's book
    FillSlots,            \* (price, time) pairs an execution may carry
    VenueIdentifiesFills, \* does the venue give executions an id?
    CompleteListing,      \* does list_orders show every entry of the book?
    RetryPolicy           \* what the caller resubmits, see MaySubmit

NoPid == 0
NoHorizon == 0
ProviderIds == 1 .. MaxVenueOrders

ASSUME OrdersAssumption ==
    /\ Orders # {}
    /\ IntentOf \in [Orders -> Intents]
    /\ DOMAIN ScopeOf = Orders
    /\ QuantityOf \in [Orders -> Nat \ {0}]

ASSUME DecisionsAssumption ==
    /\ DecisionRecord \in
         [Decisions -> [intent : Intents, evaluated : BOOLEAN,
                        verdict : {"APPROVED", "MODIFIED", "REJECTED"},
                        quantity : Nat, until : Nat]]
    /\ NoDecision \notin Decisions
    /\ Times \subseteq Nat \ {0}

ASSUME BoundsAssumption ==
    /\ MaxAttempts \in Nat \ {0}
    /\ MaxVenueOrders \in Nat \ {0}
    /\ FillSlots \subseteq Nat \ {0}

ASSUME ModesAssumption ==
    /\ VenueIdentifiesFills \in BOOLEAN
    /\ CompleteListing \in BOOLEAN
    /\ RetryPolicy \in {"never", "evidence", "any"}

VARIABLES
    orders,    \* OrderManager._orders: order -> the tracked PaperOrder
    attempts,  \* OrderManager._attempts
    sent,      \* OrderManager._sent: the attempts already sent
    book,      \* PaperBrokerAdapter._book: provider id -> entry
    nextId,    \* PaperBrokerAdapter._next_id
    trades,    \* PaperBrokerAdapter._trades: the executions
    applied,   \* Reconciler._applied_fills: dedup keys
    lastRun,   \* the outcome startup_gate reads: "none", "clean" or "dirty"
    absent     \* the caller's: orders a run found MISSING_AT_PROVIDER

managerVars == <<orders, attempts, sent>>
venueVars == <<book, nextId, trades>>
reconcilerVars == <<applied, lastRun>>
vars == <<orders, attempts, sent, book, nextId, trades, applied, lastRun, absent>>

-----------------------------------------------------------------------------
(* Orders, attempts and the entries of the venue's book.                   *)

\* A PaperOrder as its constructor leaves it: no venue, no attempt, no fill.
FreshOrder ==
    [state |-> "CREATED", filled |-> 0, pid |-> NoPid, attempt |-> 0,
     decision |-> NoDecision]

\* Not in OrderManager._orders.
Untracked == [FreshOrder EXCEPT !.state = "UNTRACKED"]

Tracked(o) == orders[o].state # "UNTRACKED"

NoEntry == [status |-> "NONE", order |-> CHOOSE o \in Orders : TRUE,
            attempt |-> 0, filled |-> 0]

VenueStatuses ==
    {"NONE", "OPEN", "PARTIALLY_FILLED", "FILLED", "CANCELLED", "REJECTED"}

\* The statuses at which an order is working at the venue.
Working == {"OPEN", "PARTIALLY_FILLED"}

Placed == {p \in ProviderIds : book[p].status # "NONE"}

\* The entries of the book that carry an attempt of order o.
EntriesOf(o) == {p \in Placed : book[p].order = o}

Init ==
    /\ orders = [o \in Orders |-> Untracked]
    /\ attempts = [o \in Orders |-> 0]
    /\ sent = {}
    /\ book = [p \in ProviderIds |-> NoEntry]
    /\ nextId = 1
    /\ trades = {}
    /\ applied = {}
    /\ lastRun = "none"
    /\ absent = {}

-----------------------------------------------------------------------------
(* OrderManager.submit                                                     *)

\* RiskDecisionRecord.is_actionable_at; the horizon is inclusive.
IsActionableAt(d, at) ==
    LET r == DecisionRecord[d] IN
    /\ r.evaluated
    /\ r.verdict \in {"APPROVED", "MODIFIED"}
    /\ r.quantity > 0
    /\ \/ r.until = NoHorizon
       \/ at <= r.until

\* Mutant: the gate forgets to compare quantities.
AuthorizeAnyQuantity(o, i, d, at) ==
    /\ IntentOf[o] = i
    /\ d # NoDecision
    /\ DecisionRecord[d].intent = i
    /\ IsActionableAt(d, at)

\* authorize_submission: order o, said to belong to intent i, under decision d.
AuthorizeSubmission(o, i, d, at) ==
    /\ IntentOf[o] = i
    /\ d # NoDecision
    /\ DecisionRecord[d].intent = i
    /\ IsActionableAt(d, at)
    /\ QuantityOf[o] <= DecisionRecord[d].quantity

\* Mutant: an order handed to reconciliation is thought to be dealt with.
BlocksWhileUnknown(o) ==
    \E other \in Orders :
        ScopeOf[other] = ScopeOf[o] /\ orders[other].state = "UNKNOWN"

\* OrderManager.blocks_new_intents, asked for the instrument and strategy of o.
BlocksNewIntents(o) ==
    \E other \in Orders :
        /\ ScopeOf[other] = ScopeOf[o]
        /\ orders[other].state \in Unresolved

\* When the caller may call submit for an order: once per order; again when a
\* reconciliation reported that no order exists at the venue; or at any time.
MaySubmit(o) ==
    \/ ~Tracked(o)
    \/ RetryPolicy = "evidence" /\ o \in absent
    \/ RetryPolicy = "any"

\* The objects a caller may hold for it: rebuilt from the intent, or tracked.
Objects(o) == {FreshOrder} \cup {orders[p] : p \in {o} \cap {q \in Orders : Tracked(q)}}

\* submit, refused: the object handed in is rejected and becomes the tracked
\* one. PaperOrder.reject raises, and nothing changes, where it is not permitted.
RejectObject(o, obj) ==
    /\ "REJECTED" \in Permitted(obj.state)
    /\ orders' = [orders EXCEPT ![o] = [obj EXCEPT !.state = "REJECTED"]]
    /\ UNCHANGED <<attempts, sent, absent>>
    /\ UNCHANGED <<venueVars, reconcilerVars>>

SubmitNotAuthorized(o) ==
    /\ MaySubmit(o)
    /\ \E obj \in Objects(o), i \in Intents, d \in Decisions \cup {NoDecision}, at \in Times :
          /\ ~AuthorizeSubmission(o, i, d, at)
          /\ RejectObject(o, obj)

SubmitBlocked(o) ==
    /\ MaySubmit(o)
    /\ BlocksNewIntents(o)
    /\ \E obj \in Objects(o), d \in Decisions, at \in Times :
          /\ AuthorizeSubmission(o, IntentOf[o], d, at)
          /\ RejectObject(o, obj)

\* submit, past both gates: attempt attempts[o] + 1 of obj goes out under d.
Sendable(o, obj, d) ==
    /\ MaySubmit(o)
    /\ \E at \in Times : AuthorizeSubmission(o, IntentOf[o], d, at)
    /\ ~BlocksNewIntents(o)
    /\ attempts[o] < MaxAttempts
    /\ <<o, attempts[o] + 1>> \notin sent
    /\ "SUBMITTING" \in Permitted(obj.state)

\* Mutant: the attempt id is stored with the answer, not before the request.
RecordAttemptOnAnswer(o, obj, d, state, pid) ==
    /\ orders' = [orders EXCEPT ![o] =
                    [obj EXCEPT !.state = state, !.pid = pid, !.decision = d,
                                !.attempt = IF state = "UNKNOWN" THEN @
                                            ELSE attempts[o] + 1]]
    /\ attempts' = [attempts EXCEPT ![o] = @ + 1]
    /\ sent' = sent \cup {<<o, attempts[o] + 1>>}
    /\ absent' = absent \ {o}
    /\ UNCHANGED reconcilerVars

\* What the manager records of the attempt once the adapter has answered.
RecordAttempt(o, obj, d, state, pid) ==
    /\ orders' = [orders EXCEPT ![o] =
                    [obj EXCEPT !.state = state, !.pid = pid,
                                !.attempt = attempts[o] + 1, !.decision = d]]
    /\ attempts' = [attempts EXCEPT ![o] = @ + 1]
    /\ sent' = sent \cup {<<o, attempts[o] + 1>>}
    /\ absent' = absent \ {o}
    /\ UNCHANGED reconcilerVars

\* PaperBrokerAdapter.place_order reaching the book.
PlaceOrder(o, status) ==
    /\ nextId \in ProviderIds
    /\ book' = [book EXCEPT ![nextId] =
                  [status |-> status, order |-> o, attempt |-> attempts[o] + 1,
                   filled |-> 0]]
    /\ nextId' = nextId + 1
    /\ UNCHANGED trades

SubmitAcknowledged(o) ==
    \E obj \in Objects(o), d \in Decisions :
        /\ Sendable(o, obj, d)
        /\ PlaceOrder(o, "OPEN")
        /\ RecordAttempt(o, obj, d, "SUBMITTED", nextId)

SubmitRejected(o) ==
    \E obj \in Objects(o), d \in Decisions :
        /\ Sendable(o, obj, d)
        /\ PlaceOrder(o, "REJECTED")
        /\ RecordAttempt(o, obj, d, "REJECTED", nextId)

\* Mutant: a timeout is taken for a rejection.
SubmitTimeoutRejects(o) ==
    \E obj \in Objects(o), d \in Decisions :
        /\ Sendable(o, obj, d)
        /\ PlaceOrder(o, "OPEN")
        /\ RecordAttempt(o, obj, d, "REJECTED", obj.pid)

\* The venue takes the order and its answer is lost (faults.lose_ack_for).
SubmitAckLost(o) ==
    \E obj \in Objects(o), d \in Decisions :
        /\ Sendable(o, obj, d)
        /\ PlaceOrder(o, "OPEN")
        /\ RecordAttempt(o, obj, d, "UNKNOWN", obj.pid)

\* The request never arrives (faults.drop_request_for): the same timeout.
SubmitDropped(o) ==
    \E obj \in Objects(o), d \in Decisions :
        /\ Sendable(o, obj, d)
        /\ RecordAttempt(o, obj, d, "UNKNOWN", obj.pid)
        /\ UNCHANGED venueVars

\* The adapter lacks the capability (LiveExecutionDisabled): nothing left.
SubmitCapabilityDenied(o) ==
    \E obj \in Objects(o), d \in Decisions :
        /\ Sendable(o, obj, d)
        /\ RecordAttempt(o, obj, d, "REJECTED", obj.pid)
        /\ UNCHANGED venueVars

Submit(o) ==
    \/ SubmitNotAuthorized(o)
    \/ SubmitBlocked(o)
    \/ SubmitAcknowledged(o)
    \/ SubmitRejected(o)
    \/ SubmitAckLost(o)
    \/ SubmitDropped(o)
    \/ SubmitCapabilityDenied(o)

-----------------------------------------------------------------------------
(* OrderManager.escalate_to_reconciliation and request_cancel              *)

MoveTo(o, state) == orders' = [orders EXCEPT ![o].state = state]

EscalateToReconciliation(o) ==
    /\ "PENDING_RECONCILIATION" \in Permitted(orders[o].state)
    /\ MoveTo(o, "PENDING_RECONCILIATION")
    /\ UNCHANGED <<attempts, sent, absent>>
    /\ UNCHANGED <<venueVars, reconcilerVars>>

\* request_cancel up to the call of cancel_order. An order it may be called for
\* always has a provider id (PidOfLiveOrder), so the branch for an order
\* without one is not an action of its own.
Cancellable(o) ==
    /\ "CANCEL_PENDING" \in Permitted(orders[o].state)
    /\ orders[o].pid # NoPid
    /\ UNCHANGED <<attempts, sent, absent, nextId, trades>>
    /\ UNCHANGED reconcilerVars

CancelEntry(p) == book' = [book EXCEPT ![p].status = "CANCELLED"]

CancelAccepted(o) ==
    /\ Cancellable(o)
    /\ book[orders[o].pid].status # "FILLED"
    /\ CancelEntry(orders[o].pid)
    /\ MoveTo(o, "CANCELLED")

\* The order filled before the cancel landed; it stays CANCEL_PENDING.
CancelRefused(o) ==
    /\ Cancellable(o)
    /\ book[orders[o].pid].status = "FILLED"
    /\ MoveTo(o, "CANCEL_PENDING")
    /\ UNCHANGED book

\* cancel_order times out: the venue has cancelled the order or it has not.
CancelUnanswered(o) ==
    /\ Cancellable(o)
    /\ MoveTo(o, "UNKNOWN")
    /\ \/ UNCHANGED book
       \/ /\ book[orders[o].pid].status # "FILLED"
          /\ CancelEntry(orders[o].pid)

RequestCancel(o) == CancelAccepted(o) \/ CancelRefused(o) \/ CancelUnanswered(o)

-----------------------------------------------------------------------------
(* Reconciler.reconcile, given the ids list_orders reports                 *)

Listings == IF CompleteListing THEN {Placed} ELSE SUBSET Placed

\* The listed entries that carry the attempt of an order.
AttemptEntries(o, order, listed) ==
    {p \in listed : /\ order.attempt # 0
                    /\ book[p].order = o
                    /\ book[p].attempt = order.attempt}

\* The first of a set of entries, as a set; list_orders is sorted by id.
First(S) == {p \in S : \A q \in S : p <= q}

WithPid(order, found) ==
    IF found = {} THEN order ELSE [order EXCEPT !.pid = CHOOSE p \in found : TRUE]

\* Mutant: a provider id is matched on, and not remembered.
AdoptNothing(listed) == orders

\* _adopt_identities: an order with an attempt and no provider id takes the id
\* of the first listed entry that carries its attempt.
AdoptIdentities(listed) ==
    [o \in Orders |->
        IF orders[o].pid # NoPid THEN orders[o]
        ELSE WithPid(orders[o], First(AttemptEntries(o, orders[o], listed)))]

\* _match: the entry a listing shows of an order, as a set of at most one; by
\* provider id or, for want of one, by attempt.
Match(o, order, listed) ==
    IF order.pid # NoPid THEN {order.pid} \cap listed
    ELSE First(AttemptEntries(o, order, listed))

\* BrokerFill.dedup_key: the venue's id, or a digest of what the fill says.
DedupKey(f) ==
    IF VenueIdentifiesFills THEN <<f.pid, f.first>>
    ELSE <<f.pid, f.last - f.first, f.slot>>

Lots(f) == f.first .. f.last

\* The quantity a set of executions of one venue order adds up to.
Quantity(F) == Cardinality(UNION {Lots(f) : f \in F})

FillsFor(F, order) == {f \in F : f.pid = order.pid}

\* Mutant: the dedup keys of earlier runs are not consulted.
AllTrades == trades

Unapplied == {f \in trades : DedupKey(f) \notin applied}

\* record_fill accepts every fill of F: each has an owner among ords, the owner
\* is in a state that takes fills, and its remaining quantity suffices.
Accepts(ords, F) ==
    /\ \A f, g \in F : DedupKey(f) = DedupKey(g) => f = g
    /\ \A f \in F : \E o \in Orders : ords[o].pid = f.pid
    /\ \A o \in Orders :
          FillsFor(F, ords[o]) # {} =>
            /\ ords[o].state \in Fillable
            /\ ords[o].filled + Quantity(FillsFor(F, ords[o])) <= QuantityOf[o]

\* The fills one pass inserts. It goes through them in the order of their keys,
\* which says nothing of time, and takes what it can: a maximal set.
InsertedFills(ords) ==
    {F \in SUBSET Unapplied :
        /\ Accepts(ords, F)
        /\ \A f \in Unapplied \ F : ~Accepts(ords, F \cup {f})}

\* Mutant: the quantity of all executions is added where that of the new ones is.
ApplyTotals(ords, F) ==
    [o \in Orders |->
        LET filled == ords[o].filled + Quantity(FillsFor(trades, ords[o]))
        IN  IF FillsFor(F, ords[o]) = {} THEN ords[o]
            ELSE [ords[o] EXCEPT !.filled = filled,
                                 !.state = FilledState(filled, QuantityOf[o])]]

\* _apply_fills: the orders once the fills of F are folded in.
ApplyFills(ords, F) ==
    [o \in Orders |->
        LET mine == FillsFor(F, ords[o])
            filled == ords[o].filled + Quantity(mine)
        IN  IF mine = {} THEN ords[o]
            ELSE [ords[o] EXCEPT !.filled = filled,
                                 !.state = FilledState(filled, QuantityOf[o])]]

\* mapping.reconciled_state: what an entry of the book establishes.
ReconciledState(entry) ==
    IF entry.status = "OPEN" /\ entry.filled > 0
    THEN FilledState(entry.filled, QuantityOf[entry.order])
    ELSE entry.status

\* Mutant: evidence is applied to the orders the process is sure of.
ReconcileResolved(order, observed) ==
    IF /\ order.state \notin Unresolved
       /\ \E p \in observed : ReconciledState(book[p]) \in Permitted(order.state)
    THEN [order EXCEPT !.state = ReconciledState(book[CHOOSE p \in observed : TRUE])]
    ELSE order

\* _reconcile_order and _apply_provider_state: the evidence moves the order if
\* the table permits the move; otherwise the order keeps its state.
ReconcileOrder(order, observed) ==
    IF \E p \in observed : ReconciledState(book[p]) \in Permitted(order.state)
    THEN [order EXCEPT !.state = ReconciledState(book[CHOOSE p \in observed : TRUE])]
    ELSE order

ReconcileOrders(ords, listed) ==
    [o \in Orders |-> ReconcileOrder(ords[o], Match(o, ords[o], listed))]

\* Mutant: what the venue does not list is nothing to worry about.
AbsentIsClean(order, observed) ==
    \A p \in observed :
        \/ /\ order.state = ReconciledState(book[p])
           /\ order.filled = book[p].filled
        \/ /\ order.state # ReconciledState(book[p])
           /\ ReconciledState(book[p]) \in Permitted(order.state)

\* The discrepancy recorded for an order needs no attention: not listed and
\* terminal; or listed and in agreement, or brought to agree.
OrderIsClean(order, observed) ==
    IF observed = {} THEN order.state \in Terminal
    ELSE \A p \in observed :
            \/ /\ order.state = ReconciledState(book[p])
               /\ order.filled = book[p].filled
            \/ /\ order.state # ReconciledState(book[p])
               /\ ReconciledState(book[p]) \in Permitted(order.state)

\* ReconciliationOutcome.is_clean, over the orders as the fill pass left them:
\* every new fill was inserted, every order is clean, every entry has an order.
RunIsClean(ords, F, listed) ==
    /\ {DedupKey(f) : f \in Unapplied} = {DedupKey(f) : f \in F}
    /\ \A o \in Orders : Tracked(o) => OrderIsClean(ords[o], Match(o, ords[o], listed))
    /\ \A p \in listed : \E o \in Orders : p \in Match(o, ords[o], listed)

\* The orders an unresolved MISSING_AT_PROVIDER finding is recorded for.
MissingAtProvider(ords, listed) ==
    {o \in Orders : ords[o].state \in Unresolved /\ Match(o, ords[o], listed) = {}}

\* All of reconcile. Every listed fill is marked applied, inserted or not.
ReconcileAgainst(listed) ==
    LET adopted == AdoptIdentities(listed) IN
    \E F \in InsertedFills(adopted) :
        LET filled == ApplyFills(adopted, F) IN
        /\ orders' = ReconcileOrders(filled, listed)
        /\ applied' = applied \cup {DedupKey(f) : f \in trades}
        /\ lastRun' = IF RunIsClean(filled, F, listed) THEN "clean" ELSE "dirty"
        /\ absent' = MissingAtProvider(filled, listed)
        /\ UNCHANGED <<attempts, sent>>
        /\ UNCHANGED venueVars

Reconcile == \E listed \in Listings : ReconcileAgainst(listed)

-----------------------------------------------------------------------------
(* What the venue does on its own, and a restart of the process            *)

\* PaperBrokerAdapter.venue_fill, on an order the venue is working.
VenueFill(p) ==
    /\ book[p].status \in Working
    /\ \E last \in book[p].filled + 1 .. QuantityOf[book[p].order], slot \in FillSlots :
          /\ book' = [book EXCEPT
                        ![p].filled = last,
                        ![p].status = FilledState(last, QuantityOf[book[p].order])]
          /\ trades' = trades \cup {[pid |-> p, first |-> book[p].filled + 1,
                                     last |-> last, slot |-> slot]}
    /\ UNCHANGED <<managerVars, reconcilerVars, nextId, absent>>

\* PaperVenueFaults.venue_cancelled: cancelled at the venue, nobody is told.
VenueCancels(p) ==
    /\ book[p].status \in Working
    /\ CancelEntry(p)
    /\ UNCHANGED <<managerVars, reconcilerVars, nextId, trades, absent>>

\* What a fresh process is given of an order: its identities, and nothing that
\* was learned. An order that is known never to have reached the venue is not
\* brought back.
Shell(order) ==
    CASE order.pid # NoPid -> [order EXCEPT !.state = "SUBMITTED", !.filled = 0]
      [] order.pid = NoPid /\ order.state \in Unresolved ->
           [order EXCEPT !.state = "PENDING_RECONCILIATION", !.filled = 0]
      [] OTHER -> Untracked

\* Mutant: the dedup keys survive the orders whose fills they stand for.
RestartKeepingKeys ==
    /\ orders' = [o \in Orders |-> Shell(orders[o])]
    /\ attempts' = [o \in Orders |-> 0]
    /\ sent' = {}
    /\ lastRun' = "none"
    /\ absent' = {}
    /\ UNCHANGED <<venueVars, applied>>

Restart ==
    /\ orders' = [o \in Orders |-> Shell(orders[o])]
    /\ attempts' = [o \in Orders |-> 0]
    /\ sent' = {}
    /\ applied' = {}
    /\ lastRun' = "none"
    /\ absent' = {}
    /\ UNCHANGED venueVars

-----------------------------------------------------------------------------
Next ==
    \/ \E o \in Orders : Submit(o) \/ EscalateToReconciliation(o) \/ RequestCancel(o)
    \/ Reconcile
    \/ \E p \in ProviderIds : VenueFill(p) \/ VenueCancels(p)
    \/ Restart

Spec == Init /\ [][Next]_vars

\* The periodic reconciliation runs, and what is UNKNOWN is escalated to it.
Fairness ==
    /\ WF_vars(Reconcile)
    /\ \A o \in Orders : WF_vars(EscalateToReconciliation(o))

FairSpec == Spec /\ Fairness
=============================================================================
