--------------------------- MODULE LedgerRecovery ---------------------------
(***************************************************************************)
(* The account ledger of oipulse/trading/ledger.py as the paper venue uses *)
(* it: fills that may be delivered again, cash reserved for orders, and a  *)
(* process that stops and rebuilds its book from the recorded fills.       *)
(***************************************************************************)
EXTENDS Ledger

CONSTANTS
    Orders,         \* the orders fills belong to and cash is reserved for
    Lots,           \* the quantities of a fill
    Prices,         \* the prices of a fill
    Fee,            \* what one fill costs
    OpeningCash,    \* the account's starting cash
    MaxFills,       \* bound: fills recorded; nothing is reserved after the last
    MaxEndings      \* bound: reservations ended by a cancel or a restart

(* A sale covers its fee.                                                  *)
ASSUME AccountAssumption ==
    /\ IsFiniteSet(Orders) /\ IsFiniteSet(Instruments)
    /\ Lots \subseteq Nat /\ Prices \subseteq Nat /\ OpeningCash \in Nat
    /\ Fee \in Nat /\ \A q \in Lots, p \in Prices : Fee <= q * p

VARIABLES
    book,           \* the ledger
    recorded,       \* the authoritative stream of fills
    reservations,   \* order -> cash committed to it, 0 when none
    endings         \* how often a cancel or a restart ended reservations

recoveryVars == <<book, recorded, reservations, endings>>

Fills == [intent : Orders, instrument : Instruments, side : Sides,
          quantity : Lots, price : Prices, costs : {Fee}]

NoReservations == [o \in Orders |-> 0]

ReservedCash == TotalOf(reservations)

AvailableCash == book.cash - ReservedCash

RecoveryInit ==
    /\ book = EmptyBook(OpeningCash)
    /\ recorded = <<>>
    /\ reservations = NoReservations
    /\ endings = 0

\* Mutant: against the whole cash, reserved or not.
CanAffordTotal(f) ==
    \/ f.side = "SELL"
    \/ f.price * f.quantity + f.costs <= book.cash

CanAfford(f) ==
    \/ f.side = "SELL"
    \/ f.price * f.quantity + f.costs <= AvailableCash

(* A fill that is new to the book releases what its order had reserved.    *)
ApplyFill(f) ==
    /\ book' = Apply(book, f)
    /\ reservations' =
         IF FillKey(f) \in book.applied THEN reservations
         ELSE [reservations EXCEPT ![f.intent] = 0]

NewFill(f) ==
    /\ Len(recorded) < MaxFills
    /\ FillKey(f) \notin book.applied
    /\ CanAfford(f)
    /\ ApplyFill(f)
    /\ recorded' = Append(recorded, f)
    /\ UNCHANGED endings

Redeliver(n) ==
    /\ ApplyFill(recorded[n])
    /\ UNCHANGED <<recorded, endings>>

(* Replaces the order's own reservation; refused above the total cash.     *)
Reserve(o, amount) ==
    /\ Len(recorded) < MaxFills
    /\ ReservedCash - reservations[o] + amount <= book.cash
    /\ reservations' = [reservations EXCEPT ![o] = amount]
    /\ UNCHANGED <<book, recorded, endings>>

(* A cancel or an expiry; safe when nothing is reserved.                   *)
Release(o) ==
    /\ endings < MaxEndings
    /\ reservations' = [reservations EXCEPT ![o] = 0]
    /\ endings' = endings + 1
    /\ UNCHANGED <<book, recorded>>

(* Reservations belong to open orders and are not rebuilt from history.    *)
Restart ==
    /\ endings < MaxEndings
    /\ book' = ReplayFills(OpeningCash, recorded)
    /\ reservations' = NoReservations
    /\ endings' = endings + 1
    /\ UNCHANGED recorded

RecoveryNext ==
    \/ \E f \in Fills : NewFill(f)
    \/ \E n \in DOMAIN recorded : Redeliver(n)
    \/ \E o \in Orders, q \in Lots, p \in Prices : Reserve(o, q * p)
    \/ \E o \in Orders : Release(o)
    \/ Restart

RecoverySpec == RecoveryInit /\ [][RecoveryNext]_recoveryVars
-----------------------------------------------------------------------------
(* Whatever was bought, sold, reduced or reversed, cash and the cost basis *)
(* of what is still open add up to the opening cash, what was realised and *)
(* the fees: LedgerSnapshot.equity equals opening_cash + net_pnl.  And cash *)
(* committed to orders is cash the account has, as long as buys are checked *)
(* against available cash.                                                 *)
BooksBalance ==
    /\ Plus(Whole(book.cash), Basis(book)) =
       Plus(Whole(OpeningCash), Minus(book.realized, Whole(book.fees)))
    /\ AvailableCash >= 0

(* A book rebuilt from the recorded fills is the book that ran all along,  *)
(* redeliveries included (the docstrings of replay_fills and               *)
(* rebuild_ledger_from_fills).                                             *)
RebuildAgrees == ReplayFills(OpeningCash, recorded) = book
=============================================================================
