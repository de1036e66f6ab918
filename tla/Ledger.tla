------------------------------- MODULE Ledger -------------------------------
(***************************************************************************)
(* One account's book as oipulse/backtest/ledger.py folds it from fills:   *)
(* cash, positions with an average cost basis, realised P&L, fees, and the *)
(* keys of the fills already applied.  Operators only; the books of the    *)
(* paper runtime, of recovery and of the portfolio are values of Book.     *)
(*                                                                         *)
(* A fill is a record [intent, instrument, side, quantity, price, costs].  *)
(***************************************************************************)
EXTENDS Fractions, Sequences, FiniteSets, FiniteSetsExt

CONSTANT Instruments

Sides == {"BUY", "SELL"}
Sign(side) == IF side = "BUY" THEN 1 ELSE -1

(* Two fills of one intent with the same quantity and price are one event. *)
FillKey(f) == <<f.intent, f.quantity, f.price>>

Flat == [quantity |-> 0, average |-> Whole(0)]

EmptyBook(opening) ==
    [cash      |-> opening,
     positions |-> [i \in Instruments |-> Flat],
     realized  |-> Whole(0),
     fees      |-> 0,
     applied   |-> {}]

SameDirection(a, b) == (a > 0) = (b > 0)

Closing(p, signed) ==
    IF p.quantity = 0 \/ SameDirection(p.quantity, signed) THEN 0
    ELSE Min({AbsInt(signed), AbsInt(p.quantity)})

(* What the closed part earns against the basis it was opened at.          *)
RealizedBy(p, signed, price) ==
    Times(Minus(Whole(price), p.average),
          Whole(Closing(p, signed) * (IF p.quantity > 0 THEN 1 ELSE -1)))

\* Mutant: a reversal keeps the basis of the position it closed.
MergeKeepsBasis(p, signed, price) ==
    LET remaining == p.quantity + signed
        average ==
            IF p.quantity = 0 THEN Whole(price)
            ELSE IF SameDirection(p.quantity, signed)
              THEN Over(Plus(Times(p.average, Whole(p.quantity)),
                             Whole(price * signed)),
                        Whole(remaining))
            ELSE IF remaining = 0 THEN Whole(0)
            ELSE p.average
    IN  [quantity |-> remaining, average |-> average]

Merge(p, signed, price) ==
    LET remaining == p.quantity + signed
        average ==
            IF p.quantity = 0 THEN Whole(price)
            ELSE IF SameDirection(p.quantity, signed)
              THEN Over(Plus(Times(p.average, Whole(p.quantity)),
                             Whole(price * signed)),
                        Whole(remaining))
            ELSE IF remaining = 0 THEN Whole(0)
            ELSE IF SameDirection(remaining, p.quantity) THEN p.average
            ELSE Whole(price)
    IN  [quantity |-> remaining, average |-> average]

\* Mutant: a fill is folded in whenever it comes.
ApplyAgain(book, f) ==
    LET signed == f.quantity * Sign(f.side)
        p == book.positions[f.instrument]
    IN  [cash      |-> book.cash - signed * f.price - f.costs,
         positions |-> [book.positions EXCEPT
                           ![f.instrument] = Merge(p, signed, f.price)],
         realized  |-> Plus(book.realized, RealizedBy(p, signed, f.price)),
         fees      |-> book.fees + f.costs,
         applied   |-> book.applied \cup {FillKey(f)}]

Apply(book, f) ==
    IF FillKey(f) \in book.applied THEN book
    ELSE LET signed == f.quantity * Sign(f.side)
             p == book.positions[f.instrument]
         IN  [cash      |-> book.cash - signed * f.price - f.costs,
              positions |-> [book.positions EXCEPT
                                ![f.instrument] = Merge(p, signed, f.price)],
              realized  |-> Plus(book.realized, RealizedBy(p, signed, f.price)),
              fees      |-> book.fees + f.costs,
              applied   |-> book.applied \cup {FillKey(f)}]

(* One fill after the other.                                               *)
FoldFills(start, fills) ==
    LET after[n \in 0 .. Len(fills)] ==
            IF n = 0 THEN start ELSE Apply(after[n - 1], fills[n])
    IN  after[Len(fills)]

(* The one reconstruction path: the same loop over the recorded fills.     *)
ReplayFills(opening, fills) == FoldFills(EmptyBook(opening), fills)

SumOf(f) == FoldSet(LAMBDA x, acc : Plus(acc, f[x]), Whole(0), DOMAIN f)

Basis(book) ==
    SumOf([i \in Instruments |-> Times(book.positions[i].average,
                                       Whole(book.positions[i].quantity))])

(* Positions without a mark contribute nothing; marks is a function on a   *)
(* subset of the instruments.                                              *)
Unrealized(book, marks) ==
    SumOf([i \in DOMAIN marks |-> Times(Minus(Whole(marks[i]), book.positions[i].average),
                                        Whole(book.positions[i].quantity))])

Equity(book, marks) ==
    Plus(Plus(Whole(book.cash), Basis(book)), Unrealized(book, marks))

NetPnl(book, marks) ==
    Minus(Plus(book.realized, Unrealized(book, marks)), Whole(book.fees))
=============================================================================
