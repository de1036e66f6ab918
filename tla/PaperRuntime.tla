---------------------------- MODULE PaperRuntime ----------------------------
(***************************************************************************)
(* One paper account's runtime: oipulse/trading/runtime.py with the        *)
(* execution model it wraps (execution.py), its ledger and the account     *)
(* lifecycle (accounts.py).  An intent goes through idempotency, account   *)
(* status, expiry, the risk gate, one order per leg, and the venue; every  *)
(* call runs to its end before the next begins.                            *)
(***************************************************************************)
EXTENDS Ledger, FillModel

CONSTANTS
    Intents,        \* intent ids
    IntentOf,       \* intent -> [key, legs, validUntil, allOrNone, timeInForce];
                    \* a leg is [instrument, side, quantity, limit]
    Model,          \* the account's fill model
    Quotes,         \* what the venue may show of an instrument
    OpeningCash,
    MaxOrderQuantity,
    MaxOrderNotional,
    ReserveCash,    \* PaperAccountConfig.reserve_cash_on_open_orders
    MaxTime,        \* bound: market time
    MaxStatusChanges \* bound: account status changes

(* What an intent, a fill model and a quote are made with: at least one    *)
(* leg, and a quantity of every leg; an account does not open in debt.     *)
ASSUME RuntimeAssumption ==
    /\ IsFiniteSet(Intents) /\ OpeningCash \in Nat
    /\ \A i \in Intents :
          /\ IntentOf[i].validUntil \in Nat
          /\ IntentOf[i].legs # <<>>
          /\ IntentOf[i].legs \in Seq([instrument : Instruments, side : Sides,
                                      quantity : Nat \ {0}, limit : Nat])
    /\ Model.fee \in Nat
    /\ Model.slippage \in {"MID", "TOUCH", "FRACTION", "IMPACT"}
    /\ \A x \in {"parameter", "halfSpread", "participation"} : Model[x] \in Nat \X (Nat \ {0})
    /\ \A quote \in Quotes, x \in {"bid", "ask", "ltp", "volume"} : quote[x] \in Nat

VARIABLES
    now,            \* market time
    account,        \* [status, changes]
    killed,         \* the kill switch
    seen,           \* keys and intent ids stored -> the intent stored
    verdict,        \* intent -> its risk decision
    orders,         \* <<intent, leg>> -> order, NoOrder when none
    book,           \* the ledger
    reserved,       \* order -> cash reserved for it
    fills,          \* the fills, in the order applied, each with its time
    emitted         \* order -> event sequences emitted as domain events

vars == <<now, account, killed, seen, verdict, orders, book, reserved, fills, emitted>>

Legs(i) == IntentOf[i].legs
OrderIds == UNION {{i} \X (1 .. Len(Legs(i))) : i \in Intents}
LegOf(o) == Legs(o[1])[o[2]]
Keys == {IntentOf[i].key : i \in Intents}

NoOrder == [quantity |-> 0, filled |-> 0, state |-> "NONE", log |-> <<>>]
NoVerdict == [approved |-> FALSE, actionable |-> FALSE, quantity |-> <<>>]

Open == {"SUBMITTING", "SUBMITTED", "ACCEPTED", "OPEN", "PARTIALLY_FILLED", "CANCEL_PENDING"}

AccountTransitions ==
    [INITIALISED |-> {"ACTIVE", "CLOSED"},
     ACTIVE      |-> {"SUSPENDED", "CLOSED"},
     SUSPENDED   |-> {"ACTIVE", "CLOSED"},
     CLOSED      |-> {}]

(* with_status raises for any other, and the account stays as it is.       *)
MayBecome(status) == status \in AccountTransitions[account.status]

Init ==
    /\ now = 0
    /\ account = [status |-> "INITIALISED", changes |-> 0]
    /\ killed = FALSE
    /\ seen = {}
    /\ verdict = [i \in Intents |-> NoVerdict]
    /\ orders = [o \in OrderIds |-> NoOrder]
    /\ book = EmptyBook(OpeningCash)
    /\ reserved = [o \in OrderIds |-> 0]
    /\ fills = <<>>
    /\ emitted = [o \in OrderIds |-> {}]

AvailableCash == book.cash - TotalOf(reserved)
-----------------------------------------------------------------------------
HasExpired(i, at) == IntentOf[i].validUntil < at

(* A decision: refused, or approved with a quantity per leg that risk may  *)
(* have cut down; a gate that evaluates nothing approves without effect.   *)
(* With the kill switch engaged the real gate refuses.                     *)
Decisions(i) ==
    {[approved |-> FALSE, actionable |-> FALSE, quantity |-> [n \in DOMAIN Legs(i) |-> 0]],
     [approved |-> TRUE, actionable |-> FALSE, quantity |-> [n \in DOMAIN Legs(i) |-> 0]]}
    \cup
    {d \in [approved : {TRUE}, actionable : {TRUE},
            quantity : [DOMAIN Legs(i) -> 0 .. Max({Legs(i)[n].quantity : n \in DOMAIN Legs(i)})]] :
        /\ ~killed
        /\ \A n \in DOMAIN Legs(i) : d.quantity[n] <= Legs(i)[n].quantity
        /\ \E n \in DOMAIN Legs(i) : d.quantity[n] > 0}

Known(i) == IntentOf[i].key \in seen

\* Mutant: only the intent's own id is remembered.
StoreIntentId(i) == seen' = seen \cup {i}

StoreIntent(i) == seen' = seen \cup {i, IntentOf[i].key}

Move(order, state) == [order EXCEPT !.state = state, !.log = Append(@, state)]

(* The order a refusal leaves: a partially filled one is cancelled.        *)
Refused(order) ==
    Move(order, IF order.state = "PARTIALLY_FILLED" THEN "CANCELLED" ELSE "REJECTED")

Affordable(side, quantity, price, costs, cash) ==
    side = "SELL" \/ price * quantity + costs <= cash

(* What the simulated outcome makes of an accepted order.                  *)
Settle(o, order, reliable, cash, out) ==
    LET filled == order.filled + out.quantity
    IN  IF HasExpired(o[1], now) THEN [order |-> Move(order, "EXPIRED"), out |-> Unfilled("INTENT_EXPIRED")]
        ELSE IF \/ ~reliable
                \/ out.rejection # ""
                \/ IntentOf[o[1]].allOrNone /\ filled < order.quantity
                \/ ~Affordable(LegOf(o).side, out.quantity, out.price, out.costs, cash)
             THEN [order |-> Refused(order), out |-> Unfilled("EXECUTION_REJECTED")]
        ELSE [order |-> [Move(order, IF filled = order.quantity THEN "FILLED"
                                     ELSE "PARTIALLY_FILLED") EXCEPT !.filled = filled],
              out |-> out]

(* PaperExecutionModel.execute on an accepted order.                       *)
Execute(o, order, quote, reliable, cash) ==
    Settle(o, order, reliable, cash,
           SimulateFill([id |-> o, side |-> LegOf(o).side, limit |-> LegOf(o).limit,
                         quantity |-> order.quantity - order.filled], quote, Model))

\* Mutant: the ledger is told what was asked for.
FillOfAsked(o, out) ==
    [intent |-> o, instrument |-> LegOf(o).instrument, side |-> LegOf(o).side,
     quantity |-> LegOf(o).quantity, price |-> out.price, costs |-> out.costs]

FillOf(o, out) ==
    [intent |-> o, instrument |-> LegOf(o).instrument, side |-> LegOf(o).side,
     quantity |-> out.quantity, price |-> out.price, costs |-> out.costs]

(* Every appended transition that has not been emitted, in sequence.       *)
EventsToEmit(order) == DOMAIN order.log

Created(quantity) == [quantity |-> quantity, filled |-> 0, state |-> "CREATED", log |-> <<>>]

(* The order, and what was filled of it, is stored.                        *)
Recorded(acc, o, result) ==
    LET fill == FillOf(o, result.out)
    IN  IF result.out.rejection # "" THEN [acc EXCEPT !.orders[o] = result.order]
        ELSE [orders  |-> [acc.orders EXCEPT ![o] = result.order],
              book    |-> Apply(acc.book, fill),
              fills   |-> Append(acc.fills, [fill |-> fill, at |-> now]),
              emitted |-> [acc.emitted EXCEPT ![o] = EventsToEmit(result.order)]]

\* Mutant: every leg is afforded from the cash there was before the first.
SubmitLegFromOpeningCash(acc, o, quantity, quote, reliable) ==
    Recorded(acc, o, Execute(o, Move(Created(quantity), "ACCEPTED"), quote, reliable, AvailableCash))

(* One turn of submit's loop over the legs.                                *)
SubmitLeg(acc, o, quantity, quote, reliable) ==
    LET spent == book.cash - acc.book.cash
    IN  IF quantity = 0 THEN acc
        ELSE IF quantity > MaxOrderQuantity \/ LegOf(o).limit * quantity > MaxOrderNotional
          THEN [acc EXCEPT !.orders[o] = Refused(Created(quantity))]
        ELSE Recorded(acc, o, Execute(o, Move(Created(quantity), "ACCEPTED"), quote, reliable,
                                      AvailableCash - spent))

SubmitLegs(i, quantity, quote, reliable) ==
    LET after[n \in 0 .. Len(Legs(i))] ==
            IF n = 0 THEN [orders |-> orders, book |-> book, fills |-> fills, emitted |-> emitted]
            ELSE SubmitLeg(after[n - 1], <<i, n>>, quantity[n],
                           quote[Legs(i)[n].instrument], reliable)
    IN  after[Len(Legs(i))]
-----------------------------------------------------------------------------
(* Already processed: nothing is applied again.                            *)
SubmitDuplicate(i) ==
    /\ Known(i)
    /\ UNCHANGED vars

(* Refused before the gate: the account, or the intent's time.             *)
SubmitRefused(i) ==
    /\ ~Known(i)
    /\ account.status # "ACTIVE" \/ HasExpired(i, now)
    /\ StoreIntent(i)
    /\ verdict' = [verdict EXCEPT ![i] = NoVerdict]
    /\ UNCHANGED <<now, account, killed, orders, book, reserved, fills, emitted>>

\* Mutant: the account's status is not looked at.
JudgedAnyStatus(i, d) ==
    /\ ~Known(i)
    /\ ~HasExpired(i, now)
    /\ StoreIntent(i)
    /\ verdict' = [verdict EXCEPT ![i] = d]

Judged(i, d) ==
    /\ ~Known(i)
    /\ account.status = "ACTIVE"
    /\ ~HasExpired(i, now)
    /\ StoreIntent(i)
    /\ verdict' = [verdict EXCEPT ![i] = d]

NotAuthorized(i, d) ==
    /\ ~(d.approved /\ d.actionable)
    /\ Judged(i, d)
    /\ UNCHANGED <<now, account, killed, orders, book, reserved, fills, emitted>>

(* The loop over the legs: a shared book, so a leg sees what an earlier    *)
(* one spent.                                                              *)
Authorized(i, d) ==
    /\ d.approved /\ d.actionable
    /\ Judged(i, d)
    /\ \E quote \in [Instruments -> Quotes], reliable \in BOOLEAN :
          \E after \in {SubmitLegs(i, d.quantity, quote, reliable)} :
              /\ orders' = after.orders
              /\ book' = after.book
              /\ fills' = after.fills
              /\ emitted' = after.emitted
              /\ reserved' = [o \in OrderIds |->
                    IF after.orders[o].filled # orders[o].filled THEN 0 ELSE reserved[o]]
    /\ UNCHANGED <<now, account, killed>>

SubmitNotAuthorized(i) == \E d \in Decisions(i) : NotAuthorized(i, d)
SubmitAuthorized(i) == \E d \in Decisions(i) : Authorized(i, d)

(* cancel and expire_stale_orders end an open order the same way.          *)
End(O, state) ==
    /\ orders' = [o \in OrderIds |-> IF o \in O THEN Move(orders[o], state) ELSE orders[o]]
    /\ reserved' = [o \in OrderIds |-> IF o \in O THEN 0 ELSE reserved[o]]
    /\ emitted' = [o \in OrderIds |->
            IF o \in O THEN emitted[o] \cup EventsToEmit(orders'[o]) ELSE emitted[o]]
    /\ UNCHANGED <<now, account, killed, seen, verdict, book, fills>>

Cancel(o) == orders[o].state \in Open /\ End({o}, "CANCELLED")

ExpireStaleOrders ==
    LET stale == {o \in OrderIds : orders[o].state \in Open /\ HasExpired(o[1], now)}
    IN  stale # {} /\ End(stale, "EXPIRED")

SetStatus(status) ==
    /\ account.changes < MaxStatusChanges
    /\ MayBecome(status)
    /\ account' = [status |-> status, changes |-> account.changes + 1]
    /\ UNCHANGED <<now, killed, seen, verdict, orders, book, reserved, fills, emitted>>

SetKillSwitch ==
    /\ killed' = ~killed
    /\ UNCHANGED <<now, account, seen, verdict, orders, book, reserved, fills, emitted>>

AdvanceTime ==
    /\ now < MaxTime
    /\ now' = now + 1
    /\ UNCHANGED <<account, killed, seen, verdict, orders, book, reserved, fills, emitted>>

Submit(i) ==
    \/ SubmitDuplicate(i)
    \/ SubmitRefused(i)
    \/ SubmitNotAuthorized(i)
    \/ SubmitAuthorized(i)

Next ==
    \/ \E i \in Intents : Submit(i)
    \/ \E o \in OrderIds : Cancel(o)
    \/ ExpireStaleOrders
    \/ \E status \in DOMAIN AccountTransitions : SetStatus(status)
    \/ SetKillSwitch
    \/ AdvanceTime

Spec == Init /\ [][Next]_vars
-----------------------------------------------------------------------------
Traded(x) == [o \in {p \in OrderIds : LegOf(p).instrument = x} |->
                Sign(LegOf(o).side) * orders[o].filled]

FillsApplied == [n \in DOMAIN fills |-> fills[n].fill]

SalesCoverTheirCosts ==
    \A n \in DOMAIN fills :
        LET f == fills[n].fill IN f.side = "SELL" => f.costs <= f.price * f.quantity

(* What the orders say was filled is what the ledger holds, and what a     *)
(* rebuild from the fills gives (_store, PaperLedger.apply, _fills and     *)
(* rebuild_ledger_from_fills must never part); and no sequence of buys,    *)
(* over legs and intents, spends more than there is (execute's cash check  *)
(* sees what earlier legs of the intent spent): only a sale that earns     *)
(* less than its costs, which nothing checks, can leave cash below zero.   *)
OrdersMatchLedger ==
    /\ SalesCoverTheirCosts => book.cash >= 0
    /\ \A x \in Instruments : book.positions[x].quantity = TotalOf(Traded(x))
    /\ ReplayFills(OpeningCash, FillsApplied) = book

(* Of the intents that share an idempotency key, one trades at most, and   *)
(* an intent's orders are not submitted twice.                             *)
OneIntentPerKey ==
    \A o, p \in OrderIds :
        (/\ IntentOf[o[1]].key = IntentOf[p[1]].key
         /\ orders[o] # NoOrder /\ orders[p] # NoOrder) => o[1] = p[1]

(* Nothing is filled after its intent's valid_until, nor twice, nor while  *)
(* the account is not active or the kill switch is engaged: what was       *)
(* resting stays as it is or ends.                                         *)
NothingTradesWhileHalted ==
    [][\A o \in OrderIds : orders'[o].filled # orders[o].filled =>
            /\ orders[o] = NoOrder
            /\ account.status = "ACTIVE" /\ ~killed
            /\ now <= IntentOf[o[1]].validUntil]_vars
=============================================================================
