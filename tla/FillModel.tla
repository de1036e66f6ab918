----------------------------- MODULE FillModel -----------------------------
(***************************************************************************)
(* What the simulated venue makes of one order and one quote:              *)
(* oipulse/backtest/fills.py.  Pure: the paper runtime and the backtest    *)
(* runner share it.  Money is counted in half ticks, so that a mid price   *)
(* is a whole number; a fill price is a multiple of Tick.                  *)
(*                                                                         *)
(* A leg is [bid, ask, ltp, volume, stale]; 0 stands for a price or a      *)
(* volume that was not observed, or for no limit (prices are positive, and *)
(* the code treats a volume of zero as none).  A model is [slippage,       *)
(* parameter, halfSpread, partial, participation, draw, refuseStale, fee], *)
(* with parameter, halfSpread and participation fractions, and draw the    *)
(* orders its deterministic draw rejects.                                  *)
(***************************************************************************)
EXTENDS Fractions, FiniteSets, FiniteSetsExt

Unobserved == 0
Tick == 2

(* Both sides observed and not crossed, or a spread assumed around ltp.    *)
QuoteFor(leg, model) ==
    IF leg.bid # Unobserved /\ leg.ask # Unobserved /\ leg.ask >= leg.bid
    THEN [bid |-> Whole(leg.bid), ask |-> Whole(leg.ask), assumed |-> FALSE]
    ELSE LET half == Times(Whole(leg.ltp), model.halfSpread)
         IN  [bid |-> Minus(Whole(leg.ltp), half),
              ask |-> Plus(Whole(leg.ltp), half), assumed |-> TRUE]

Priceable(leg, quote) == ~quote.assumed \/ leg.ltp # Unobserved

SignOf(side) == IF side = "BUY" THEN 1 ELSE -1

Mid(quote) == Over(Plus(quote.bid, quote.ask), Whole(2))

\* Mutant: the slippage of a sale is a buyer's.
RawPriceUnsigned(quote, volume, side, quantity, model) ==
    LET spread == Minus(quote.ask, quote.bid)
    IN  CASE model.slippage = "MID" -> Mid(quote)
          [] model.slippage = "TOUCH" -> quote.ask
          [] model.slippage = "FRACTION" -> Plus(Mid(quote), Times(spread, model.parameter))
          [] model.slippage = "IMPACT" -> Plus(Mid(quote), Over(spread, Whole(2)))

RawPrice(quote, volume, side, quantity, model) ==
    LET spread == Minus(quote.ask, quote.bid)
        worse(f) == Plus(Mid(quote), Times(f, Whole(SignOf(side))))
    IN  CASE model.slippage = "MID" -> Mid(quote)
          [] model.slippage = "TOUCH" -> IF side = "BUY" THEN quote.ask ELSE quote.bid
          [] model.slippage = "FRACTION" -> worse(Times(spread, model.parameter))
          [] model.slippage = "IMPACT" ->
               worse(Plus(Over(spread, Whole(2)),
                          IF volume = Unobserved THEN Whole(0)
                          ELSE Times(Times(spread, model.parameter),
                                     Ratio(quantity, volume))))

(* To the nearest tick, half a tick upwards.                               *)
RoundToTick(price) ==
    Tick * ((2 * price[1] + Tick * price[2]) \div (2 * Tick * price[2]))

FillableQuantity(requested, volume, model) ==
    IF ~model.partial \/ volume = Unobserved THEN requested
    ELSE Min({requested,
              (volume * model.participation[1]) \div model.participation[2]})

Marketable(side, price, limit) ==
    limit = Unobserved \/ IF side = "BUY" THEN price <= limit ELSE price >= limit

Unfilled(reason) == [rejection |-> reason, quantity |-> 0, price |-> 0,
                     reference |-> Whole(0), assumed |-> FALSE, costs |-> 0]

(* An order is [id, side, quantity, limit]; a limit order that is          *)
(* marketable after slippage fills at its limit.                           *)
SimulateFill(order, leg, model) ==
    LET quote == QuoteFor(leg, model)
        quantity == FillableQuantity(order.quantity, leg.volume, model)
        slipped == RoundToTick(RawPrice(quote, leg.volume, order.side, quantity, model))
    IN  IF ~Priceable(leg, quote) THEN Unfilled("NO_PRICE_AVAILABLE")
        ELSE IF leg.stale /\ model.refuseStale THEN Unfilled("STALE_QUOTE")
        ELSE IF order.id \in model.draw THEN Unfilled("MODELLED_REJECTION")
        ELSE IF quantity <= 0 THEN Unfilled("NO_LIQUIDITY")
        ELSE IF ~Marketable(order.side, slipped, order.limit)
             THEN Unfilled("LIMIT_NOT_MARKETABLE")
        ELSE [rejection |-> "", quantity |-> quantity,
              price |-> IF order.limit = Unobserved THEN slipped ELSE order.limit,
              reference |-> Mid(quote), assumed |-> quote.assumed,
              costs |-> model.fee]
-----------------------------------------------------------------------------
Filled(outcome) == outcome.rejection = ""

(* b is no better a price than a for who is on this side.                  *)
Sided(side, a, b) == IF side = "BUY" THEN a <= b ELSE a >= b

(* "Slippage is always applied against the trader", up to the tick the     *)
(* price is rounded to: no market order fills at a price better than the   *)
(* mid it is measured against by more than half a tick.                    *)
SlippageAgainstTraderToTheTick(order, leg, model) ==
    LET o == SimulateFill(order, leg, model)
    IN  Filled(o) /\ order.limit = Unobserved =>
            AtMost(Whole(-1), Times(Minus(Whole(o.price), o.reference), Whole(SignOf(order.side))))

(* A larger order never fills less, nor at a better price.                 *)
LargerIsNeverBetter(order, leg, model) ==
    LET smaller == SimulateFill(order, leg, model)
        larger == SimulateFill([order EXCEPT !.quantity = @ + 1], leg, model)
    IN  (Filled(smaller) /\ Filled(larger)) =>
           /\ smaller.quantity <= larger.quantity
           /\ Sided(order.side, smaller.price, larger.price)

(* What an order gets from a quote is fair: slippage never favours the     *)
(* trader, and asking for more neither loses quantity nor gains price.     *)
FillIsFair(order, leg, model) ==
    SlippageAgainstTraderToTheTick(order, leg, model) /\ LargerIsNeverBetter(order, leg, model)
=============================================================================
