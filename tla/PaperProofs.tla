---------------------------- MODULE PaperProofs ----------------------------
(***************************************************************************)
(* A paper account, alone and behind the risk engine, for any intents,     *)
(* fill model, quotes, policy and market states.                           *)
(*                                                                         *)
(* The books agree (Agree) after every leg of a submission, not only after *)
(* every action: a leg fills an order that had none, so its fill is new to *)
(* the ledger, and moves one position by what it filled (AfterLegs).  The  *)
(* engine decides what a gate may (JudgedAsDecided): all it cuts down is   *)
(* cut down by at least one (SizeBreached), and some of it is left         *)
(* (LegsCutDown); then a position ends between where it was and where the  *)
(* approved leg would take it (OnTheWay).  Last, the consumers of the      *)
(* account's events.                                                       *)
(***************************************************************************)
EXTENDS PaperRiskAccount, EventDelivery, RiskProofs

States == {"NONE", "CREATED", "ACCEPTED", "PARTIALLY_FILLED", "FILLED", "REJECTED", "CANCELLED",
           "EXPIRED"}

OrderRecords == [quantity : Nat, filled : Nat, state : States, log : Seq(States)]

FillRecords == [intent : OrderIds, instrument : Instruments, side : Sides,
                quantity : Nat \ {0}, price : Int, costs : Nat]

FillEntries == [fill : FillRecords, at : Nat]

QuoteFacts(quote) ==
    quote.bid \in Nat /\ quote.ask \in Nat /\ quote.ltp \in Nat /\ quote.volume \in Nat

LEMMA LegFacts ==
    ASSUME NEW o \in OrderIds
    PROVE  /\ o[1] \in Intents /\ o[2] \in DOMAIN Legs(o[1]) /\ o = <<o[1], o[2]>>
           /\ LegOf(o) \in LegRecords /\ IntentOf[o[1]].validUntil \in Nat
<1>1. PICK i \in Intents : o \in {i} \X (1 .. Len(Legs(i)))
  BY DEF OrderIds
<1>2. Legs(i) \in Seq(LegRecords) /\ IntentOf[i].validUntil \in Nat
  BY RuntimeAssumption DEF Legs, LegRecords
<1>3. o[1] = i /\ o[2] \in DOMAIN Legs(i) /\ o = <<o[1], o[2]>>
  BY <1>1, <1>2
<1> QED
  BY <1>2, <1>3 DEF LegOf

LEMMA LegOrder ==
    ASSUME NEW i \in Intents, NEW n \in DOMAIN Legs(i)
    PROVE  <<i, n>> \in OrderIds /\ LegOf(<<i, n>>) = Legs(i)[n]
<1>1. Legs(i) \in Seq(LegRecords)
  BY RuntimeAssumption DEF Legs, LegRecords
<1>2. n \in 1 .. Len(Legs(i))
  BY <1>1
<1> QED
  BY <1>2 DEF OrderIds, LegOf

LEMMA LegsAre ==
    ASSUME NEW i \in Intents
    PROVE  /\ Legs(i) \in Seq(LegRecords) /\ Len(Legs(i)) \in Nat \ {0}
           /\ DOMAIN Legs(i) = 1 .. Len(Legs(i))
<1>1. Legs(i) \in Seq(LegRecords) /\ Legs(i) # <<>>
  BY RuntimeAssumption DEF Legs, LegRecords
<1> QED
  BY <1>1

LEMMA OrdersAreFinite == IsFiniteSet(OrderIds)
<1> DEFINE slice == [i \in Intents |-> {i} \X (1 .. Len(Legs(i)))]
<1> DEFINE Slices == {slice[i] : i \in Intents}
<1>1. IsFiniteSet(Intents)
  BY RuntimeAssumption
<1>2. slice \in Surjection(Intents, Slices)
  BY DEF Surjection
<1>3. IsFiniteSet(Slices)
  BY <1>1, <1>2, FS_Surjection
<1>4. ASSUME NEW T \in Slices
      PROVE  IsFiniteSet(T)
  <2>1. PICK i \in Intents : T = {i} \X (1 .. Len(Legs(i)))
    OBVIOUS
  <2>2. IsFiniteSet({i}) /\ IsFiniteSet(1 .. Len(Legs(i)))
    <3>1. Len(Legs(i)) \in Int
      BY LegsAre
    <3>2. IsFiniteSet(1 .. Len(Legs(i)))
      BY <3>1, FS_Interval
    <3>3. IsFiniteSet({i})
      BY FS_Singleton
    <3> QED
      BY <3>2, <3>3
  <2> QED
    BY <2>1, <2>2, FS_Product
<1>5. OrderIds = UNION Slices
  BY DEF OrderIds
<1> QED
  BY <1>3, <1>4, <1>5, FS_UNION
-----------------------------------------------------------------------------
LEMMA ModelFacts ==
    /\ Model.fee \in Nat /\ Model.slippage \in {"MID", "TOUCH", "FRACTION", "IMPACT"}
    /\ Model["parameter"] \in FractionSet /\ Model["halfSpread"] \in FractionSet
    /\ Model["participation"][1] \in Nat /\ Model["participation"][2] \in Nat \ {0}
BY RuntimeAssumption DEF FractionSet

LEMMA QuoteAround ==
    ASSUME NEW quote, QuoteFacts(quote)
    PROVE  QuoteFor(quote, Model).bid \in FractionSet /\ QuoteFor(quote, Model).ask \in FractionSet
<1>1. /\ Whole(quote.bid) \in FractionSet /\ Whole(quote.ask) \in FractionSet
      /\ Whole(quote.ltp) \in FractionSet
  BY WholeIsFraction DEF QuoteFacts
<1>2. Times(Whole(quote.ltp), Model.halfSpread) \in FractionSet
  BY <1>1, ModelFacts, FractionArithmetic
<1>3. /\ Minus(Whole(quote.ltp), Times(Whole(quote.ltp), Model.halfSpread)) \in FractionSet
      /\ Plus(Whole(quote.ltp), Times(Whole(quote.ltp), Model.halfSpread)) \in FractionSet
  BY <1>1, <1>2, FractionArithmetic
<1> QED
  BY <1>1, <1>3 DEF QuoteFor

LEMMA RawPriceIsFraction ==
    ASSUME NEW q, q.bid \in FractionSet, q.ask \in FractionSet,
           NEW volume \in Nat, NEW side \in Sides, NEW quantity \in Nat
    PROVE  RawPrice(q, volume, side, quantity, Model) \in FractionSet
<1> DEFINE spread == Minus(q.ask, q.bid)
<1> DEFINE worse(f) == Plus(Mid(q), Times(f, Whole(SignOf(side))))
<1>1. spread \in FractionSet /\ Whole(2) \in FractionSet /\ Whole(0) \in FractionSet
  BY FractionArithmetic, WholeIsFraction
<1>2. Whole(2)[1] # 0
  BY DEF Whole
<1>3. Mid(q) \in FractionSet
  BY <1>1, <1>2, FractionArithmetic DEF Mid
<1>4. Whole(SignOf(side)) \in FractionSet
  BY WholeIsFraction DEF SignOf
<1>5. ASSUME NEW f \in FractionSet
      PROVE  worse(f) \in FractionSet
  BY <1>3, <1>4, FractionArithmetic
<1>6. Times(spread, Model.parameter) \in FractionSet
  BY <1>1, ModelFacts, FractionArithmetic
<1>7. Over(spread, Whole(2)) \in FractionSet
  BY <1>1, <1>2, FractionArithmetic
<1>8. volume # 0 => Ratio(quantity, volume) \in FractionSet
  BY RatioIsFraction
<1>9. volume # 0 => Times(Times(spread, Model.parameter), Ratio(quantity, volume)) \in FractionSet
  BY <1>6, <1>8, FractionArithmetic
<1>10. Plus(Over(spread, Whole(2)),
            IF volume = Unobserved THEN Whole(0)
            ELSE Times(Times(spread, Model.parameter), Ratio(quantity, volume))) \in FractionSet
  BY <1>1, <1>7, <1>9, FractionArithmetic DEF Unobserved
<1>11. CASE Model.slippage = "MID"
  BY <1>3, <1>11 DEF RawPrice
<1>12. CASE Model.slippage = "TOUCH"
  BY <1>12 DEF RawPrice
<1>13. CASE Model.slippage = "FRACTION"
  BY <1>5, <1>6, <1>13 DEF RawPrice
<1>14. CASE Model.slippage = "IMPACT"
  BY <1>5, <1>10, <1>14 DEF RawPrice
<1> QED
  BY <1>11, <1>12, <1>13, <1>14, ModelFacts

LEMMA TickIsWhole ==
    ASSUME NEW p \in FractionSet
    PROVE  RoundToTick(p) \in Int
<1>1. p[1] \in Int /\ p[2] \in Nat \ {0}
  BY DEF FractionSet
<1>2. 2 * p[1] + Tick * p[2] \in Int /\ 2 * Tick * p[2] \in Nat \ {0}
  BY <1>1 DEF Tick
<1>3. (2 * p[1] + Tick * p[2]) \div (2 * Tick * p[2]) \in Int
  BY <1>2
<1> QED
  BY <1>3 DEF RoundToTick, Tick

(* A fill is of some of what was asked, at a whole price.                  *)
LEMMA FillIsOfSome ==
    ASSUME NEW quote, QuoteFacts(quote), NEW order,
           order.side \in Sides, order.limit \in Nat, order.quantity \in Nat \ {0}
    PROVE  LET out == SimulateFill(order, quote, Model)
           IN  out.rejection = "" => /\ out.quantity \in 1 .. order.quantity
                                     /\ out.price \in Int /\ out.costs \in Nat
<1> DEFINE quantity == FillableQuantity(order.quantity, quote.volume, Model)
<1> DEFINE raw == RawPrice(QuoteFor(quote, Model), quote.volume, order.side, quantity, Model)
<1> DEFINE share == (quote.volume * Model.participation[1]) \div Model.participation[2]
<1>1. share \in Nat
  <2>1. quote.volume * Model["participation"][1] \in Nat
    BY ModelFacts DEF QuoteFacts
  <2> QED
    BY <2>1, ModelFacts
<1>2. quantity \in 0 .. order.quantity
  <2> HIDE DEF share
  <2>1. Min({order.quantity, share}) = IF order.quantity <= share THEN order.quantity ELSE share
    BY <1>1 DEF Min
  <2> QED
    BY <1>1, <2>1 DEF FillableQuantity, share
<1>3. RoundToTick(raw) \in Int
  <2>1. quantity \in Nat
    BY <1>2
  <2> HIDE DEF quantity
  <2> QED
    BY <2>1, QuoteAround, RawPriceIsFraction, TickIsWhole DEF QuoteFacts
<1> HIDE DEF quantity, raw
<1> QED
  BY <1>2, <1>3, ModelFacts DEF SimulateFill, Unfilled, quantity, raw
-----------------------------------------------------------------------------
LEMMA Moved ==
    ASSUME NEW order \in OrderRecords, NEW state \in States
    PROVE  /\ Move(order, state) \in OrderRecords
           /\ Move(order, state).filled = order.filled
           /\ Move(order, state).quantity = order.quantity
           /\ Move(order, state).state = state
<1>2. order.quantity \in Nat /\ order.filled \in Nat /\ Append(order.log, state) \in Seq(States)
  BY DEF OrderRecords
<1> QED
  BY <1>2 DEF Move, OrderRecords

(* What executing a new order of a leg gives.                              *)
IsExecution(o, q, cash, r) ==
    /\ r.order \in OrderRecords /\ r.order.quantity = q
    /\ r.out.rejection # "" => r.order.filled = 0
    /\ r.out.rejection = "" =>
          /\ r.out.quantity \in 1 .. q /\ r.order.filled = r.out.quantity
          /\ r.out.price \in Int /\ r.out.costs \in Nat
          /\ LegOf(o).side = "BUY" => r.out.price * r.out.quantity + r.out.costs <= cash

LEMMA CreatedOrder ==
    ASSUME NEW q \in Nat
    PROVE  /\ Created(q) \in OrderRecords /\ Created(q).quantity = q /\ Created(q).filled = 0
           /\ Created(q).state = "CREATED"
BY DEF Created, OrderRecords, States

LEMMA ExecutedLeg ==
    ASSUME NEW o \in OrderIds, NEW q \in Nat \ {0}, NEW quote, QuoteFacts(quote),
           NEW reliable \in BOOLEAN, NEW cash
    PROVE  IsExecution(o, q, cash, Execute(o, Move(Created(q), "ACCEPTED"), quote, reliable, cash))
<1> DEFINE order == Move(Created(q), "ACCEPTED")
<1> DEFINE asked == [id |-> o, side |-> LegOf(o).side, limit |-> LegOf(o).limit,
                     quantity |-> order.quantity - order.filled]
<1> DEFINE out == SimulateFill(asked, quote, Model)
<1> DEFINE r == Execute(o, order, quote, reliable, cash)
<1>1. order \in OrderRecords /\ order.quantity = q /\ order.filled = 0 /\ order.state = "ACCEPTED"
  BY CreatedOrder, Moved DEF States
<1>2. out.rejection = "" => out.quantity \in 1 .. q /\ out.price \in Int /\ out.costs \in Nat
  <2>1. asked.side \in Sides /\ asked.limit \in Nat /\ asked.quantity = q
    BY <1>1, LegFacts DEF LegRecords
  <2> HIDE DEF asked
  <2> QED
    BY <2>1, FillIsOfSome
<1>3. r = Settle(o, order, reliable, cash, out)
  BY DEF Execute
<1> SUFFICES IsExecution(o, q, cash, r)
  OBVIOUS
<1> HIDE DEF order, out, r
<1>4. \A state \in States : Move(order, state) \in OrderRecords /\ Move(order, state).filled = 0
                            /\ Move(order, state).quantity = q
  BY <1>1, Moved
<1>5. \A reason \in {"INTENT_EXPIRED", "EXECUTION_REJECTED"} : Unfilled(reason).rejection # ""
  BY DEF Unfilled
<1>6. CASE HasExpired(o[1], now)
  <2>1. r = [order |-> Move(order, "EXPIRED"), out |-> Unfilled("INTENT_EXPIRED")]
    BY <1>3, <1>6 DEF Settle
  <2>2. "EXPIRED" \in States
    BY DEF States
  <2> QED
    BY <1>4, <1>5, <2>1, <2>2 DEF IsExecution
<1> DEFINE filled == order.filled + out.quantity
<1> DEFINE refuse == \/ ~reliable \/ out.rejection # ""
                     \/ IntentOf[o[1]].allOrNone /\ filled < order.quantity
                     \/ ~Affordable(LegOf(o).side, out.quantity, out.price, out.costs, cash)
<1>7. CASE ~HasExpired(o[1], now) /\ refuse
  <2>1. r = [order |-> Refused(order), out |-> Unfilled("EXECUTION_REJECTED")]
    BY <1>3, <1>7 DEF Settle
  <2>2. Refused(order) = Move(order, "REJECTED") /\ "REJECTED" \in States
    BY <1>1 DEF Refused, States
  <2> QED
    BY <1>4, <1>5, <2>1, <2>2 DEF IsExecution
<1>8. CASE ~HasExpired(o[1], now) /\ ~refuse
  <2> DEFINE next == Move(order, IF filled = order.quantity THEN "FILLED" ELSE "PARTIALLY_FILLED")
  <2>1. r = [order |-> [next EXCEPT !.filled = filled], out |-> out]
    BY <1>3, <1>8 DEF Settle
  <2>2. out.rejection = "" /\ filled = out.quantity /\ filled \in Nat
    <3>1. out.rejection = ""
      BY <1>8
    <3>2. out.quantity \in 1 .. q
      BY <3>1, <1>2
    <3>3. filled = out.quantity /\ filled \in Nat
      BY <3>2, <1>1
    <3> QED
      BY <3>1, <3>3
  <2>3. next \in OrderRecords /\ next.quantity = q
    <3>1. "FILLED" \in States /\ "PARTIALLY_FILLED" \in States
      BY DEF States
    <3> QED
      BY <3>1, <1>4
  <2> HIDE DEF next, filled
  <2>4. [next EXCEPT !.filled = filled] \in OrderRecords /\ [next EXCEPT !.filled = filled].quantity = q
        /\ [next EXCEPT !.filled = filled].filled = filled
    BY <2>2, <2>3 DEF OrderRecords
  <2>5. LegOf(o).side = "BUY" => out.price * out.quantity + out.costs <= cash
    BY <1>8 DEF Affordable
  <2> QED
    BY <1>2, <1>8, <2>1, <2>2, <2>4, <2>5 DEF IsExecution
<1> QED
  BY <1>6, <1>7, <1>8
-----------------------------------------------------------------------------
SignedFills(O, x) == [o \in {p \in OrderIds : LegOf(p).instrument = x} |->
                         Sign(LegOf(o).side) * O[o].filled]

ListOf(F) == [n \in DOMAIN F |-> F[n].fill]

Covers(f) == f.side = "SELL" => f.costs <= f.price * f.quantity

(* A book and the fills on record agree with the orders.                   *)
Agree(O, B, F) ==
    /\ O \in [OrderIds -> OrderRecords]
    /\ F \in Seq(FillEntries)
    /\ B.cash \in Int
    /\ DOMAIN B.positions = Instruments
    /\ \A x \in Instruments : B.positions[x].quantity = TotalOf(SignedFills(O, x))
    /\ \A k \in B.applied : k[1] \in OrderIds /\ O[k[1]] # NoOrder
    /\ ReplayFills(OpeningCash, ListOf(F)) = B
    /\ (\A n \in DOMAIN F : Covers(F[n].fill)) => B.cash >= 0

LEMMA SignedFillsAre ==
    ASSUME NEW O \in [OrderIds -> OrderRecords], NEW x
    PROVE  /\ IsFiniteSet({p \in OrderIds : LegOf(p).instrument = x})
           /\ SignedFills(O, x) \in [{p \in OrderIds : LegOf(p).instrument = x} -> Int]
           /\ TotalOf(SignedFills(O, x)) \in Int
<1>1. IsFiniteSet({p \in OrderIds : LegOf(p).instrument = x})
  BY OrdersAreFinite, FS_Subset
<1>2. ASSUME NEW o \in OrderIds
      PROVE  Sign(LegOf(o).side) * O[o].filled \in Int
  BY DEF OrderRecords, Sign
<1>3. SignedFills(O, x) \in [{p \in OrderIds : LegOf(p).instrument = x} -> Int]
  BY <1>2 DEF SignedFills
<1> QED
  BY <1>1, <1>3, TotalOfIntegers

(* Orders that end or are refused fill nothing.                            *)
LEMMA AgreeWithoutFill ==
    ASSUME NEW O, NEW B, NEW F, Agree(O, B, F), NEW P \in [OrderIds -> OrderRecords],
           \A o \in OrderIds : P[o].filled = O[o].filled /\ (O[o] # NoOrder => P[o] # NoOrder)
    PROVE  Agree(P, B, F)
<1>1. \A x \in Instruments : SignedFills(P, x) = SignedFills(O, x)
  BY DEF SignedFills
<1> QED
  BY <1>1 DEF Agree

LEMMA FillsInOrder ==
    ASSUME NEW F \in Seq(FillEntries), NEW e \in FillEntries
    PROVE  /\ Append(F, e) \in Seq(FillEntries)
           /\ ListOf(F) \in Seq(FillRecords)
           /\ ListOf(Append(F, e)) = Append(ListOf(F), e.fill)
           /\ \A n \in DOMAIN F : n \in DOMAIN Append(F, e) /\ Append(F, e)[n] = F[n]
           /\ Len(F) + 1 \in DOMAIN Append(F, e) /\ Append(F, e)[Len(F) + 1] = e
<1> DEFINE G == Append(F, e)
<1>1. /\ G \in Seq(FillEntries) /\ Len(G) = Len(F) + 1 /\ Len(F) \in Nat
      /\ \A n \in 1 .. Len(F) : G[n] = F[n]
      /\ G[Len(F) + 1] = e
  OBVIOUS
<1>2. DOMAIN F = 1 .. Len(F) /\ DOMAIN G = 1 .. Len(F) + 1
  BY <1>1
<1>0. ASSUME NEW H \in Seq(FillEntries)
      PROVE  ListOf(H) \in Seq(FillRecords) /\ Len(ListOf(H)) = Len(H)
  <2>1. DOMAIN H = 1 .. Len(H) /\ Len(H) \in Nat /\ \A n \in 1 .. Len(H) : H[n] \in FillEntries
    OBVIOUS
  <2>2. \A n \in 1 .. Len(H) : H[n].fill \in FillRecords
    BY <2>1 DEF FillEntries
  <2>3. ListOf(H) \in [1 .. Len(H) -> FillRecords]
    BY <2>1, <2>2 DEF ListOf
  <2> QED
    BY <2>1, <2>3
<1>3. ListOf(F) \in Seq(FillRecords) /\ Len(ListOf(F)) = Len(F)
  BY <1>0
<1>4. ListOf(G) \in Seq(FillRecords) /\ Len(ListOf(G)) = Len(F) + 1
  BY <1>0, <1>1
<1>5. Append(ListOf(F), e.fill) \in Seq(FillRecords) /\ Len(Append(ListOf(F), e.fill)) = Len(F) + 1
  <2>1. e.fill \in FillRecords
    BY DEF FillEntries
  <2> QED
    BY <1>3, <2>1
<1>6. ASSUME NEW n \in 1 .. Len(F) + 1
      PROVE  ListOf(G)[n] = Append(ListOf(F), e.fill)[n]
  <2>1. ListOf(G)[n] = G[n].fill
    BY <1>2 DEF ListOf
  <2>2. CASE n = Len(F) + 1
    BY <1>1, <1>3, <2>1, <2>2
  <2>3. CASE n \in 1 .. Len(F)
    <3>1. Append(ListOf(F), e.fill)[n] = ListOf(F)[n] /\ ListOf(F)[n] = F[n].fill
      BY <1>2, <1>3, <2>3 DEF ListOf
    <3> QED
      BY <1>1, <2>1, <2>3, <3>1
  <2>4. n = Len(F) + 1 \/ n \in 1 .. Len(F)
    BY <1>1
  <2> QED
    BY <2>2, <2>3, <2>4
<1>7. ListOf(G) = Append(ListOf(F), e.fill)
  BY <1>1, <1>4, <1>5, <1>6
<1> QED
  BY <1>1, <1>2, <1>3, <1>7
OtherOrders(O, P, o) ==
    /\ P \in [OrderIds -> OrderRecords]
    /\ \A p \in OrderIds \ {o} : P[p] = O[p]

(* A fill of an order that had none is new to the book, which takes it.    *)
LEMMA AgreeWithFill ==
    ASSUME NEW O, NEW B, NEW F, Agree(O, B, F), NEW o \in OrderIds, O[o] = NoOrder,
           NEW P, OtherOrders(O, P, o), P[o] # NoOrder, now \in Nat,
           NEW fill \in FillRecords, fill.intent = o, fill.quantity = P[o].filled,
           fill.instrument = LegOf(o).instrument, fill.side = LegOf(o).side,
           fill.side = "BUY" => fill.price * fill.quantity + fill.costs <= B.cash
    PROVE  /\ Agree(P, Apply(B, fill), Append(F, [fill |-> fill, at |-> now]))
           /\ \A x \in Instruments :
                 Apply(B, fill).positions[x].quantity =
                    B.positions[x].quantity
                    + IF x = fill.instrument THEN Sign(fill.side) * fill.quantity ELSE 0
<1> DEFINE C == Apply(B, fill)
<1> DEFINE entry == [fill |-> fill, at |-> now]
<1> DEFINE G == Append(F, entry)
<1> DEFINE signed == fill.quantity * Sign(fill.side)
<1>1. /\ O \in [OrderIds -> OrderRecords] /\ P \in [OrderIds -> OrderRecords]
      /\ F \in Seq(FillEntries)
      /\ B.cash \in Int /\ DOMAIN B.positions = Instruments
  BY DEF Agree, OtherOrders
<1>2. FillKey(fill) \notin B.applied
  <2>1. FillKey(fill)[1] = o
    BY DEF FillKey
  <2> QED
    BY <2>1 DEF Agree
<1>3. C = [cash      |-> B.cash - signed * fill.price - fill.costs,
           positions |-> [B.positions EXCEPT ![fill.instrument] =
                             Merge(B.positions[fill.instrument], signed, fill.price)],
           realized  |-> Plus(B.realized, RealizedBy(B.positions[fill.instrument], signed, fill.price)),
           fees      |-> B.fees + fill.costs,
           applied   |-> B.applied \cup {FillKey(fill)}]
  BY <1>2 DEF Apply
<1> HIDE DEF C
<1>4. /\ fill.quantity \in Nat \ {0} /\ fill.price \in Int /\ fill.costs \in Nat
      /\ fill.instrument \in Instruments /\ fill.side \in Sides
  BY DEF FillRecords
<1>5. signed \in Int /\ signed = Sign(fill.side) * fill.quantity
  BY <1>4 DEF Sign
<1>6. \A x \in Instruments : B.positions[x].quantity \in Int
  <2> SUFFICES ASSUME NEW x \in Instruments
               PROVE  B.positions[x].quantity \in Int
    OBVIOUS
  <2>1. B.positions[x].quantity = TotalOf(SignedFills(O, x))
    BY DEF Agree
  <2>2. TotalOf(SignedFills(O, x)) \in Int
    BY <1>1, SignedFillsAre
  <2> QED
    BY <2>1, <2>2
<1>7. ASSUME NEW x \in Instruments
      PROVE  C.positions[x].quantity = B.positions[x].quantity
                + IF x = fill.instrument THEN Sign(fill.side) * fill.quantity ELSE 0
  <2>1. CASE x = fill.instrument
    <3>1. C.positions[x] = Merge(B.positions[x], signed, fill.price)
      BY <1>1, <1>3, <2>1
    <3>2. C.positions[x].quantity = B.positions[x].quantity + signed
      BY <3>1 DEF Merge
    <3> QED
      BY <1>5, <2>1, <3>2
  <2>2. CASE x # fill.instrument
    <3>1. C.positions[x] = B.positions[x]
      BY <1>1, <1>3, <2>2
    <3> QED
      BY <1>6, <2>2, <3>1
  <2> QED
    BY <2>1, <2>2
<1>8. ASSUME NEW x \in Instruments
      PROVE  C.positions[x].quantity = TotalOf(SignedFills(P, x))
  <2> DEFINE S == {p \in OrderIds : LegOf(p).instrument = x}
  <2>1. /\ IsFiniteSet(S) /\ SignedFills(O, x) \in [S -> Int] /\ SignedFills(P, x) \in [S -> Int]
        /\ TotalOf(SignedFills(O, x)) \in Int
    BY <1>1, SignedFillsAre
  <2>2. B.positions[x].quantity = TotalOf(SignedFills(O, x))
    BY DEF Agree
  <2>3. \A p \in S \ {o} : SignedFills(O, x)[p] = SignedFills(P, x)[p]
    BY DEF SignedFills, OtherOrders
  <2>4. CASE x = fill.instrument
    <3>1. o \in S
      BY <2>4
    <3>2. SignedFills(O, x)[o] = 0 /\ SignedFills(P, x)[o] = Sign(fill.side) * fill.quantity
      BY <3>1 DEF SignedFills, NoOrder, Sign
    <3>3. TotalOf(SignedFills(P, x))
             = TotalOf(SignedFills(O, x)) + SignedFills(P, x)[o] - SignedFills(O, x)[o]
      BY <2>1, <2>3, <3>1, TotalOfOneChange
    <3> QED
      BY <1>5, <1>7, <2>1, <2>2, <2>4, <3>2, <3>3
  <2>5. CASE x # fill.instrument
    <3>1. o \notin S
      BY <2>5
    <3>2. SignedFills(P, x) = SignedFills(O, x)
      BY <2>3, <3>1 DEF SignedFills
    <3> QED
      BY <1>7, <2>1, <2>2, <2>5, <3>2
  <2> QED
    BY <2>4, <2>5
<1>9. ASSUME NEW k \in C.applied
      PROVE  k[1] \in OrderIds /\ P[k[1]] # NoOrder
  <2>1. CASE k = FillKey(fill)
    BY <2>1 DEF FillKey
  <2>2. CASE k \in B.applied
    <3>1. k[1] \in OrderIds /\ O[k[1]] # NoOrder
      BY <2>2 DEF Agree
    <3>2. P[k[1]] = O[k[1]]
      BY <3>1 DEF OtherOrders
    <3> QED
      BY <3>1, <3>2
  <2> QED
    BY <1>3, <2>1, <2>2
<1>10. /\ G \in Seq(FillEntries) /\ ListOf(F) \in Seq(FillRecords)
       /\ ListOf(G) = Append(ListOf(F), fill)
       /\ \A n \in DOMAIN F : n \in DOMAIN G /\ G[n] = F[n]
       /\ Len(F) + 1 \in DOMAIN G /\ G[Len(F) + 1].fill = fill
  <2>1. entry \in FillEntries /\ entry.fill = fill
    BY DEF FillEntries
  <2> HIDE DEF entry
  <2>2. /\ G \in Seq(FillEntries) /\ ListOf(F) \in Seq(FillRecords)
        /\ ListOf(G) = Append(ListOf(F), entry.fill)
        /\ \A n \in DOMAIN F : n \in DOMAIN G /\ G[n] = F[n]
        /\ Len(F) + 1 \in DOMAIN G /\ G[Len(F) + 1] = entry
    BY <1>1, <2>1, FillsInOrder, Zenon
  <2> QED
    BY <2>1, <2>2, Zenon
<1> HIDE DEF G, entry
<1>11. ReplayFills(OpeningCash, ListOf(G)) = C
  <2>1. ReplayFills(OpeningCash, ListOf(F)) = B
    BY DEF Agree
  <2>2. ReplayFills(OpeningCash, Append(ListOf(F), fill)) = Apply(ReplayFills(OpeningCash, ListOf(F)), fill)
    BY <1>10, ReplayOneMore
  <2> QED
    BY <1>10, <2>1, <2>2 DEF C
<1>12. ASSUME \A n \in DOMAIN G : Covers(G[n].fill)
       PROVE  C.cash >= 0
  <2>1. (\A n \in DOMAIN F : Covers(F[n].fill)) /\ Covers(fill)
    <3>1. \A n \in DOMAIN F : Covers(F[n].fill)
      BY <1>10, <1>12
    <3>2. Covers(G[Len(F) + 1].fill)
      BY <1>10, <1>12
    <3> QED
      BY <1>10, <3>1, <3>2
  <2>2. B.cash >= 0
    BY <2>1 DEF Agree
  <2>3. C.cash = B.cash - signed * fill.price - fill.costs
    BY <1>3
  <2>4. CASE fill.side = "BUY"
    <3>1. signed = fill.quantity
      BY <1>4, <2>4 DEF Sign
    <3>2. fill.price * fill.quantity + fill.costs <= B.cash
      BY <2>4
    <3> QED
      BY <1>1, <1>4, <2>3, <3>1, <3>2
  <2>5. CASE fill.side = "SELL"
    <3>1. signed = -fill.quantity
      BY <1>4, <2>5 DEF Sign
    <3>2. fill.costs <= fill.price * fill.quantity
      BY <2>1, <2>5 DEF Covers
    <3> QED
      BY <1>1, <1>4, <2>2, <2>3, <3>1, <3>2
  <2> QED
    BY <1>4, <2>4, <2>5 DEF Sides
<1>13. C.cash \in Int /\ DOMAIN C.positions = Instruments
  BY <1>1, <1>3, <1>4, <1>5
<1>14. Agree(P, C, G)
  BY <1>1, <1>8, <1>9, <1>10, <1>11, <1>12, <1>13 DEF Agree
<1> QED
  BY <1>7, <1>14 DEF C, G, entry
-----------------------------------------------------------------------------
Instrument(i, n) == Legs(i)[n].instrument
Quantity(B, x) == B.positions[x].quantity

(* How far the first n legs of an intent may have moved the positions.     *)
Moves(i, quantity, n, B) ==
    /\ \A x \in Instruments :
          (\A m \in 1 .. n : Instrument(i, m) # x) => Quantity(B, x) = Quantity(book, x)
    /\ OneLegEach(i) =>
          \A m \in 1 .. n : \E k \in 0 .. quantity[m] :
             Quantity(B, Instrument(i, m)) = Quantity(book, Instrument(i, m)) + Sign(Legs(i)[m].side) * k

AfterLegs(i, quantity, n, acc) ==
    /\ DOMAIN acc = {"orders", "book", "fills", "emitted"}
    /\ Agree(acc.orders, acc.book, acc.fills)
    /\ \A o \in OrderIds : o \notin {i} \X (1 .. n) => acc.orders[o] = orders[o]
    /\ Moves(i, quantity, n, acc.book)

LEMMA QuantitiesAreWhole ==
    ASSUME NEW O, NEW B, NEW F, Agree(O, B, F), NEW x \in Instruments
    PROVE  Quantity(B, x) \in Int
BY SignedFillsAre DEF Agree, Quantity

LEMMA NextMove ==
    ASSUME NEW i \in Intents, NEW quantity \in [DOMAIN Legs(i) -> Nat], NEW n \in DOMAIN Legs(i),
           NEW B, Moves(i, quantity, n - 1, B), \A x \in Instruments : Quantity(B, x) \in Int,
           NEW k \in 0 .. quantity[n], NEW C,
           \A x \in Instruments : Quantity(C, x) = Quantity(B, x)
                + IF x = Instrument(i, n) THEN Sign(Legs(i)[n].side) * k ELSE 0
    PROVE  Moves(i, quantity, n, C)
<1>1. /\ n \in Nat \ {0} /\ n \in 1 .. n /\ \A m \in 1 .. n : m \in DOMAIN Legs(i)
      /\ \A m \in 1 .. n : m # n => m \in 1 .. n - 1
      /\ \A m \in 1 .. n - 1 : m \in 1 .. n /\ m # n
  BY LegsAre
<1>2. ASSUME NEW m \in DOMAIN Legs(i)
      PROVE  Instrument(i, m) \in Instruments /\ Legs(i)[m].side \in Sides
  <2>1. Legs(i) \in Seq(LegRecords)
    BY LegsAre
  <2>2. Legs(i)[m] \in LegRecords
    BY <2>1
  <2> QED
    BY <2>2 DEF Instrument, LegRecords
<1>3. ASSUME NEW x \in Instruments, \A m \in 1 .. n : Instrument(i, m) # x
      PROVE  Quantity(C, x) = Quantity(book, x)
  <2>1. Quantity(B, x) = Quantity(book, x)
    BY <1>1, <1>3 DEF Moves
  <2>2. Quantity(C, x) = Quantity(B, x) + 0
    BY <1>1, <1>3
  <2> QED
    BY <2>1, <2>2
<1>4. ASSUME OneLegEach(i), NEW m \in 1 .. n
      PROVE  \E j \in 0 .. quantity[m] :
                Quantity(C, Instrument(i, m))
                  = Quantity(book, Instrument(i, m)) + Sign(Legs(i)[m].side) * j
  <2>1. CASE m = n
    <3>1. \A l \in 1 .. n - 1 : Instrument(i, l) # Instrument(i, n)
      BY <1>1, <1>4 DEF OneLegEach, Instrument
    <3>2. Quantity(B, Instrument(i, n)) = Quantity(book, Instrument(i, n))
      BY <1>1, <1>2, <3>1 DEF Moves
    <3>3. Quantity(C, Instrument(i, n)) = Quantity(B, Instrument(i, n)) + Sign(Legs(i)[n].side) * k
      BY <1>1, <1>2
    <3> QED
      BY <2>1, <3>2, <3>3
  <2>2. CASE m # n
    <3>1. m \in 1 .. n - 1 /\ Instrument(i, m) # Instrument(i, n) /\ Instrument(i, m) \in Instruments
      BY <1>1, <1>2, <1>4, <2>2 DEF OneLegEach, Instrument
    <3>2. Quantity(C, Instrument(i, m)) = Quantity(B, Instrument(i, m)) + 0
      BY <3>1
    <3>3. Quantity(C, Instrument(i, m)) = Quantity(B, Instrument(i, m))
      BY <3>1, <3>2
    <3> QED
      BY <1>4, <3>1, <3>3 DEF Moves
  <2> QED
    BY <2>1, <2>2
<1> QED
  BY <1>3, <1>4 DEF Moves

LEMMA LegSubmitted ==
    ASSUME now \in Nat, TotalOf(reserved) = 0, book.cash \in Int,
           NEW i \in Intents, NEW quantity \in [DOMAIN Legs(i) -> Nat], NEW n \in DOMAIN Legs(i),
           orders[<<i, n>>] = NoOrder,
           NEW acc, AfterLegs(i, quantity, n - 1, acc),
           NEW quote \in Quotes, NEW reliable \in BOOLEAN
    PROVE  AfterLegs(i, quantity, n, SubmitLeg(acc, <<i, n>>, quantity[n], quote, reliable))
<1> DEFINE o == <<i, n>>
<1> DEFINE q == quantity[n]
<1>1. o \in OrderIds /\ LegOf(o) = Legs(i)[n] /\ LegOf(o) \in LegRecords /\ q \in Nat
  BY LegOrder, LegFacts
<1>2. /\ n \in Nat \ {0} /\ \A m \in 1 .. n : m # n => m \in 1 .. n - 1
      /\ o \notin {i} \X (1 .. n - 1) /\ o \in {i} \X (1 .. n)
      /\ \A p \in OrderIds : p \notin {i} \X (1 .. n) => p # o /\ p \notin {i} \X (1 .. n - 1)
  BY LegsAre
<1>3. /\ DOMAIN acc = {"orders", "book", "fills", "emitted"}
      /\ Agree(acc.orders, acc.book, acc.fills)
      /\ \A p \in OrderIds : p \notin {i} \X (1 .. n - 1) => acc.orders[p] = orders[p]
      /\ Moves(i, quantity, n - 1, acc.book)
      /\ acc.orders \in [OrderIds -> OrderRecords] /\ acc.book.cash \in Int
  BY DEF AfterLegs, Agree
<1>4. acc.orders[o] = NoOrder
  BY <1>1, <1>2, <1>3
<1>5. \A x \in Instruments : Quantity(acc.book, x) \in Int
  BY <1>3, QuantitiesAreWhole
<1>6. Moves(i, quantity, n, acc.book)
  <2>1. 0 \in 0 .. q /\ Sign(Legs(i)[n].side) * 0 = 0
    BY <1>1 DEF Sign
  <2>2. \A x \in Instruments : Quantity(acc.book, x) = Quantity(acc.book, x)
            + IF x = Instrument(i, n) THEN Sign(Legs(i)[n].side) * 0 ELSE 0
    BY <1>5, <2>1
  <2> QED
    BY <1>3, <1>5, <2>1, <2>2, NextMove
<1> HIDE DEF o, q
<1>7. ASSUME NEW order \in OrderRecords, order.filled = 0, order # NoOrder
      PROVE  AfterLegs(i, quantity, n, [acc EXCEPT !.orders[o] = order])
  <2> DEFINE P == [acc.orders EXCEPT ![o] = order]
  <2> DEFINE next == [acc EXCEPT !.orders[o] = order]
  <2>1. /\ DOMAIN next = {"orders", "book", "fills", "emitted"}
        /\ next.orders = P /\ next.book = acc.book /\ next.fills = acc.fills
    BY <1>3
  <2>2. /\ P \in [OrderIds -> OrderRecords] /\ P[o] = order
        /\ \A p \in OrderIds : p # o => P[p] = acc.orders[p]
    BY <1>1, <1>3
  <2> HIDE DEF P, next
  <2>3. Agree(P, acc.book, acc.fills)
    <3>1. \A p \in OrderIds : /\ P[p].filled = acc.orders[p].filled
                              /\ acc.orders[p] # NoOrder => P[p] # NoOrder
      BY <1>4, <1>7, <2>2 DEF NoOrder
    <3> QED
      BY <1>3, <2>2, <3>1, AgreeWithoutFill
  <2>4. \A p \in OrderIds : p \notin {i} \X (1 .. n) => P[p] = orders[p]
    BY <1>2, <1>3, <2>2
  <2> QED
    BY <1>6, <2>1, <2>3, <2>4 DEF AfterLegs, next
<1>8. CASE q = 0
  <2>1. SubmitLeg(acc, o, q, quote, reliable) = acc
    BY <1>8 DEF SubmitLeg
  <2>2. \A p \in OrderIds : p \notin {i} \X (1 .. n) => acc.orders[p] = orders[p]
    BY <1>2, <1>3
  <2> QED
    BY <1>3, <1>6, <2>1, <2>2 DEF AfterLegs, o, q
<1>9. CASE q # 0 /\ (q > MaxOrderQuantity \/ LegOf(o).limit * q > MaxOrderNotional)
  <2>1. SubmitLeg(acc, o, q, quote, reliable) = [acc EXCEPT !.orders[o] = Refused(Created(q))]
    BY <1>9 DEF SubmitLeg
  <2>2. Refused(Created(q)) = Move(Created(q), "REJECTED") /\ "REJECTED" \in States
    BY CreatedOrder, <1>1 DEF Refused, States
  <2>3. /\ Refused(Created(q)) \in OrderRecords /\ Refused(Created(q)).filled = 0
        /\ Refused(Created(q)).quantity = q
    BY <1>1, <2>2, CreatedOrder, Moved
  <2>4. Refused(Created(q)) # NoOrder
    BY <1>9, <2>3 DEF NoOrder
  <2> QED
    BY <1>7, <2>1, <2>3, <2>4 DEF o, q
<1>10. CASE q # 0 /\ ~(q > MaxOrderQuantity \/ LegOf(o).limit * q > MaxOrderNotional)
  <2> DEFINE r == Execute(o, Move(Created(q), "ACCEPTED"), quote, reliable, acc.book.cash)
  <2> DEFINE fill == FillOf(o, r.out)
  <2>1. SubmitLeg(acc, o, q, quote, reliable) = Recorded(acc, o, r)
    <3>1. AvailableCash - (book.cash - acc.book.cash) = acc.book.cash
      BY <1>3 DEF AvailableCash
    <3> QED
      BY <1>10, <3>1 DEF SubmitLeg
  <2>2. IsExecution(o, q, acc.book.cash, r)
    <3>1. QuoteFacts(quote) /\ q \in Nat \ {0}
      BY <1>1, <1>10, RuntimeAssumption DEF QuoteFacts
    <3> QED
      BY <1>1, <3>1, ExecutedLeg
  <2> HIDE DEF r
  <2>3. r.order \in OrderRecords /\ r.order # NoOrder
    <3>1. r.order \in OrderRecords /\ r.order.quantity = q
      BY <2>2 DEF IsExecution
    <3>2. NoOrder.quantity = 0
      BY DEF NoOrder
    <3> QED
      BY <1>10, <3>1, <3>2
  <2>4. CASE r.out.rejection # ""
    <3>1. Recorded(acc, o, r) = [acc EXCEPT !.orders[o] = r.order]
      BY <2>4 DEF Recorded
    <3> QED
      BY <1>7, <2>1, <2>2, <2>3, <2>4, <3>1 DEF IsExecution, o, q
  <2>5. CASE r.out.rejection = ""
    <3> DEFINE P == [acc.orders EXCEPT ![o] = r.order]
    <3> DEFINE next == [orders  |-> P,
                        book    |-> Apply(acc.book, fill),
                        fills   |-> Append(acc.fills, [fill |-> fill, at |-> now]),
                        emitted |-> [acc.emitted EXCEPT ![o] = EventsToEmit(r.order)]]
    <3>1. Recorded(acc, o, r) = next
      BY <2>5 DEF Recorded
    <3>2. OtherOrders(acc.orders, P, o) /\ P[o] = r.order
      BY <1>1, <1>3, <2>3 DEF OtherOrders
    <3>3. /\ fill = [intent |-> o, instrument |-> LegOf(o).instrument, side |-> LegOf(o).side,
                     quantity |-> r.out.quantity, price |-> r.out.price, costs |-> r.out.costs]
          /\ fill \in FillRecords
      <4>1. fill = [intent |-> o, instrument |-> LegOf(o).instrument, side |-> LegOf(o).side,
                    quantity |-> r.out.quantity, price |-> r.out.price, costs |-> r.out.costs]
        BY DEF FillOf
      <4>2. r.out.quantity \in 1 .. q /\ r.out.price \in Int /\ r.out.costs \in Nat
        BY <2>2, <2>5 DEF IsExecution
      <4>3. r.out.quantity \in Nat \ {0}
        BY <1>1, <4>2
      <4>4. LegOf(o).instrument \in Instruments /\ LegOf(o).side \in Sides
        BY <1>1 DEF LegRecords
      <4> QED
        BY <1>1, <4>1, <4>2, <4>3, <4>4 DEF FillRecords
    <3> HIDE DEF P, fill
    <3>4. fill.quantity = P[o].filled /\ fill.quantity \in 0 .. q
      <4>1. r.out.quantity \in 1 .. q /\ r.order.filled = r.out.quantity
        BY <2>2, <2>5 DEF IsExecution
      <4>2. fill.quantity = r.out.quantity
        BY <3>3
      <4> QED
        BY <1>1, <3>2, <4>1, <4>2
    <3>5. fill.side = "BUY" => fill.price * fill.quantity + fill.costs <= acc.book.cash
      BY <2>2, <2>5, <3>3 DEF IsExecution
    <3>6. /\ Agree(P, Apply(acc.book, fill), Append(acc.fills, [fill |-> fill, at |-> now]))
          /\ \A x \in Instruments :
                 Apply(acc.book, fill).positions[x].quantity =
                    acc.book.positions[x].quantity
                    + IF x = fill.instrument THEN Sign(fill.side) * fill.quantity ELSE 0
      BY <1>1, <1>3, <1>4, <2>3, <3>2, <3>3, <3>4, <3>5, AgreeWithFill
    <3>7. \A x \in Instruments :
             Quantity(Apply(acc.book, fill), x) = Quantity(acc.book, x)
                + IF x = Instrument(i, n) THEN Sign(Legs(i)[n].side) * fill.quantity ELSE 0
      BY <1>1, <3>3, <3>6 DEF Quantity, Instrument
    <3>8. Moves(i, quantity, n, Apply(acc.book, fill))
      BY <1>3, <1>5, <3>4, <3>7, NextMove DEF q
    <3>9. \A p \in OrderIds : p \notin {i} \X (1 .. n) => P[p] = orders[p]
      BY <1>2, <1>3, <3>2 DEF OtherOrders
    <3>10. /\ DOMAIN next = {"orders", "book", "fills", "emitted"} /\ next.orders = P
           /\ next.book = Apply(acc.book, fill)
           /\ next.fills = Append(acc.fills, [fill |-> fill, at |-> now])
      OBVIOUS
    <3> HIDE DEF next
    <3>11. AfterLegs(i, quantity, n, next)
      BY <3>6, <3>8, <3>9, <3>10 DEF AfterLegs
    <3> QED
      BY <2>1, <3>1, <3>11 DEF o, q
  <2> QED
    BY <2>4, <2>5
<1> QED
  BY <1>8, <1>9, <1>10 DEF o, q
-----------------------------------------------------------------------------
(* What the loop over the legs has stored after each of them.              *)
IsRun(i, quantity, quote, reliable, m, g) ==
    g = [n \in 0 .. m |->
            IF n = 0 THEN [orders |-> orders, book |-> book, fills |-> fills, emitted |-> emitted]
            ELSE SubmitLeg(g[n - 1], <<i, n>>, quantity[n], quote[Legs(i)[n].instrument], reliable)]

LEMMA RunExists ==
    ASSUME NEW i, NEW quantity, NEW quote, NEW reliable, NEW m \in Nat
    PROVE  \E g : IsRun(i, quantity, quote, reliable, m, g)
<1> DEFINE T == {k \in Nat : ~(\E g : IsRun(i, quantity, quote, reliable, k, g))}
<1> DEFINE start == [orders |-> orders, book |-> book, fills |-> fills, emitted |-> emitted]
<1> DEFINE turn(acc, n) == SubmitLeg(acc, <<i, n>>, quantity[n], quote[Legs(i)[n].instrument], reliable)
<1> SUFFICES ASSUME T # {} PROVE FALSE
  OBVIOUS
<1>1. PICK k \in T : \A j \in T : k <= j
  BY LeastNumber
<1>2. k # 0
  <2>1. IsRun(i, quantity, quote, reliable, 0, [n \in 0 .. 0 |-> start])
    BY DEF IsRun
  <2> QED
    BY <1>1, <2>1
<1>3. k - 1 \in Nat /\ k - 1 \notin T
  BY <1>1, <1>2
<1>4. PICK g : IsRun(i, quantity, quote, reliable, k - 1, g)
  BY <1>3
<1>0. ASSUME NEW f, NEW j, f = [n \in 0 .. j |-> IF n = 0 THEN start ELSE turn(f[n - 1], n)]
      PROVE  IsRun(i, quantity, quote, reliable, j, f)
  BY <1>0 DEF IsRun
<1>01. g = [n \in 0 .. k - 1 |-> IF n = 0 THEN start ELSE turn(g[n - 1], n)]
  BY <1>4 DEF IsRun
<1> HIDE DEF start, turn
<1> DEFINE h == [n \in 0 .. k |-> IF n = k THEN turn(g[k - 1], k) ELSE g[n]]
<1>5. ASSUME NEW n \in 0 .. k
      PROVE  h[n] = IF n = 0 THEN start ELSE turn(h[n - 1], n)
  <2>1. CASE n = k
    BY <2>1, <1>1, <1>2
  <2>2. CASE n # k
    <3>1. n \in 0 .. k - 1
      BY <2>2, <1>1
    <3>2. g[n] = IF n = 0 THEN start ELSE turn(g[n - 1], n)
      BY <3>1, <1>01
    <3>3. n # 0 => n - 1 \in 0 .. k /\ n - 1 # k
      BY <3>1, <1>1
    <3> QED
      BY <2>2, <3>2, <3>3
  <2> QED
    BY <2>1, <2>2
<1>6. IsRun(i, quantity, quote, reliable, k, h)
  <2>1. h = [n \in 0 .. k |-> IF n = 0 THEN start ELSE turn(h[n - 1], n)]
    BY <1>5, Zenon
  <2> HIDE DEF h
  <2> QED
    BY <2>1, <1>0
<1> QED
  BY <1>1, <1>6

LEMMA RunIs ==
    ASSUME NEW i \in Intents, NEW quantity, NEW quote, NEW reliable
    PROVE  \E g : /\ IsRun(i, quantity, quote, reliable, Len(Legs(i)), g)
                  /\ SubmitLegs(i, quantity, quote, reliable) = g[Len(Legs(i))]
<1> DEFINE after == CHOOSE g : IsRun(i, quantity, quote, reliable, Len(Legs(i)), g)
<1>0. Len(Legs(i)) \in Nat
  BY LegsAre
<1>1. IsRun(i, quantity, quote, reliable, Len(Legs(i)), after)
  BY <1>0, RunExists
<1>2. SubmitLegs(i, quantity, quote, reliable) = after[Len(Legs(i))]
  BY Zenon DEF SubmitLegs, IsRun
<1> QED
  BY <1>1, <1>2

LEMMA LegsSubmitted ==
    ASSUME now \in Nat, TotalOf(reserved) = 0, Agree(orders, book, fills),
           NEW i \in Intents, NEW quantity \in [DOMAIN Legs(i) -> Nat],
           \A n \in DOMAIN Legs(i) : orders[<<i, n>>] = NoOrder,
           NEW quote \in [Instruments -> Quotes], NEW reliable \in BOOLEAN
    PROVE  AfterLegs(i, quantity, Len(Legs(i)), SubmitLegs(i, quantity, quote, reliable))
<1> DEFINE m == Len(Legs(i))
<1>1. m \in Nat /\ DOMAIN Legs(i) = 1 .. m
  BY LegsAre
<1>2. PICK g : /\ IsRun(i, quantity, quote, reliable, m, g)
               /\ SubmitLegs(i, quantity, quote, reliable) = g[m]
  BY RunIs
<1> DEFINE T == {k \in Nat : k <= m /\ ~AfterLegs(i, quantity, k, g[k])}
<1>3. SUFFICES ASSUME T # {} PROVE FALSE
  BY <1>1, <1>2
<1>4. PICK k \in T : \A j \in T : k <= j
  <2>1. T \in SUBSET Nat
    OBVIOUS
  <2> HIDE DEF T
  <2> QED
    BY <1>3, <2>1, LeastNumber
<1>5. k \in Nat /\ k <= m /\ ~AfterLegs(i, quantity, k, g[k])
  BY <1>4
<1> HIDE DEF m
<1>6. CASE k = 0
  <2>1. g[0] = [orders |-> orders, book |-> book, fills |-> fills, emitted |-> emitted]
    BY <1>1, <1>2 DEF IsRun
  <2>2. Moves(i, quantity, 0, book)
    BY DEF Moves
  <2>3. AfterLegs(i, quantity, 0, g[0])
    BY <2>1, <2>2 DEF AfterLegs
  <2> QED
    BY <1>5, <1>6, <2>3
<1>7. CASE k # 0
  <2>1. k - 1 \in Nat /\ k - 1 <= m /\ k - 1 \notin T /\ k \in DOMAIN Legs(i) /\ k \in 0 .. m
    BY <1>1, <1>4, <1>5, <1>7
  <2>2. AfterLegs(i, quantity, k - 1, g[k - 1])
    BY <2>1
  <2>3. g[k] = SubmitLeg(g[k - 1], <<i, k>>, quantity[k], quote[Legs(i)[k].instrument], reliable)
    BY <1>2, <1>7, <2>1 DEF IsRun
  <2>4. quote[Legs(i)[k].instrument] \in Quotes
    <3>1. Legs(i) \in Seq(LegRecords)
      BY LegsAre
    <3>2. Legs(i)[k] \in LegRecords
      BY <2>1, <3>1
    <3> QED
      BY <3>2 DEF LegRecords
  <2>5. orders[<<i, k>>] = NoOrder /\ book.cash \in Int
    BY <2>1 DEF Agree
  <2> DEFINE shown == quote[Legs(i)[k].instrument]
  <2> HIDE DEF shown, T
  <2>6. AfterLegs(i, quantity, k, SubmitLeg(g[k - 1], <<i, k>>, quantity[k], shown, reliable))
    BY <2>1, <2>2, <2>4, <2>5, LegSubmitted DEF shown
  <2> QED
    BY <1>5, <2>3, <2>6 DEF shown
<1> QED
  BY <1>6, <1>7
-----------------------------------------------------------------------------
(* The inductive invariant of the runtime: the books agree, cash is not    *)
(* held back, and an order exists only under a key that is stored.         *)
KeysAreStored == \A o \in OrderIds : orders[o] # NoOrder => IntentOf[o[1]].key \in seen

PaperInv ==
    /\ now \in Nat
    /\ Agree(orders, book, fills)
    /\ reserved \in [OrderIds -> {0}]
    /\ KeysAreStored
    /\ OneIntentPerKey

LEMMA PaperInitially == Init => PaperInv
<1> SUFFICES ASSUME Init PROVE PaperInv
  OBVIOUS
<1>1. /\ now = 0 /\ orders = [o \in OrderIds |-> NoOrder] /\ book = EmptyBook(OpeningCash)
      /\ fills = <<>> /\ reserved = [o \in OrderIds |-> 0]
  BY DEF Init
<1>2. orders \in [OrderIds -> OrderRecords]
  <2>1. <<>> \in Seq(States) /\ "NONE" \in States
    BY DEF States
  <2>2. NoOrder \in OrderRecords
    BY <2>1 DEF NoOrder, OrderRecords
  <2> QED
    BY <1>1, <2>2
<1>3. /\ book.cash = OpeningCash /\ OpeningCash \in Nat /\ DOMAIN book.positions = Instruments
      /\ \A x \in Instruments : book.positions[x].quantity = 0
      /\ book.applied = {}
  BY <1>1, RuntimeAssumption DEF EmptyBook, Flat
<1>4. ASSUME NEW x \in Instruments
      PROVE  TotalOf(SignedFills(orders, x)) = 0
  <2> DEFINE S == {p \in OrderIds : LegOf(p).instrument = x}
  <2>1. IsFiniteSet(S)
    BY <1>2, SignedFillsAre
  <2>2. SignedFills(orders, x) \in [S -> {0}]
    BY <1>1 DEF SignedFills, NoOrder, Sign
  <2> QED
    BY <2>1, <2>2, TotalOfZeros
<1>5. ReplayFills(OpeningCash, ListOf(fills)) = book
  <2>1. ListOf(fills) = <<>>
    BY <1>1 DEF ListOf
  <2> QED
    BY <1>1, <2>1, ReplayNothing
<1>6. fills \in Seq(FillEntries)
  BY <1>1
<1>7. Agree(orders, book, fills)
  BY <1>2, <1>3, <1>4, <1>5, <1>6 DEF Agree
<1>8. KeysAreStored /\ OneIntentPerKey
  BY <1>1 DEF KeysAreStored, OneIntentPerKey
<1> QED
  BY <1>1, <1>7, <1>8 DEF PaperInv

(* A step that leaves the orders and the books alone.                      *)
LEMMA BooksUntouched ==
    ASSUME PaperInv, UNCHANGED <<orders, book, reserved, fills>>, now' \in Nat, seen \subseteq seen'
    PROVE  PaperInv'
<1>1. Agree(orders', book', fills')
  BY DEF PaperInv
<1>2. KeysAreStored' /\ OneIntentPerKey'
  BY DEF PaperInv, KeysAreStored, OneIntentPerKey
<1> QED
  BY <1>1, <1>2 DEF PaperInv

LEMMA OrdersEnd ==
    ASSUME PaperInv, NEW O \in SUBSET OrderIds, \A o \in O : orders[o].state \in Open,
           NEW state \in {"CANCELLED", "EXPIRED"}, End(O, state)
    PROVE  PaperInv' /\ \A o \in OrderIds : orders'[o].filled = orders[o].filled
<1>1. /\ orders \in [OrderIds -> OrderRecords] /\ Agree(orders, book, fills)
      /\ reserved \in [OrderIds -> {0}] /\ now \in Nat
  BY DEF PaperInv, Agree
<1>2. state \in States /\ state # "NONE"
  BY DEF States
<1>3. /\ orders' = [o \in OrderIds |-> IF o \in O THEN Move(orders[o], state) ELSE orders[o]]
      /\ reserved' = [o \in OrderIds |-> IF o \in O THEN 0 ELSE reserved[o]]
      /\ UNCHANGED <<now, account, killed, seen, verdict, book, fills>>
  BY DEF End
<1>4. ASSUME NEW o \in OrderIds
      PROVE  /\ orders'[o] \in OrderRecords /\ orders'[o].filled = orders[o].filled
             /\ orders[o] # NoOrder <=> orders'[o] # NoOrder
  <2>1. CASE o \in O
    <3>1. orders[o] \in OrderRecords
      BY <1>1
    <3>2. orders'[o] = Move(orders[o], state)
      BY <1>3, <2>1
    <3>3. orders[o] # NoOrder
      BY <2>1 DEF NoOrder, Open
    <3>4. /\ orders'[o] \in OrderRecords /\ orders'[o].filled = orders[o].filled
          /\ orders'[o].state = state
      BY <1>2, <3>1, <3>2, Moved
    <3>5. orders'[o] # NoOrder
      BY <1>2, <3>4 DEF NoOrder
    <3> QED
      BY <3>3, <3>4, <3>5
  <2>2. CASE o \notin O
    BY <1>1, <1>3, <2>2
  <2> QED
    BY <2>1, <2>2
<1>5. orders' \in [OrderIds -> OrderRecords]
  BY <1>3, <1>4
<1>6. Agree(orders', book', fills')
  <2>1. Agree(orders', book, fills)
    BY <1>1, <1>4, <1>5, AgreeWithoutFill
  <2> QED
    BY <1>3, <2>1
<1>7. reserved' \in [OrderIds -> {0}]
  BY <1>1, <1>3
<1>8. KeysAreStored' /\ OneIntentPerKey'
  BY <1>3, <1>4 DEF PaperInv, KeysAreStored, OneIntentPerKey
<1> QED
  BY <1>1, <1>3, <1>4, <1>6, <1>7, <1>8 DEF PaperInv

(* What an authorized submission does to the books.                        *)
LEMMA Submitted ==
    ASSUME PaperInv, NEW i \in Intents, NEW d, d.quantity \in [DOMAIN Legs(i) -> Nat], Authorized(i, d)
    PROVE  /\ \A n \in DOMAIN Legs(i) : orders[<<i, n>>] = NoOrder
           /\ Agree(orders', book', fills')
           /\ \A o \in OrderIds : o[1] # i => orders'[o] = orders[o]
           /\ reserved' \in [OrderIds -> {0}]
           /\ Moves(i, d.quantity, Len(Legs(i)), book')
<1>1. /\ Judged(i, d) /\ now \in Nat /\ Agree(orders, book, fills)
      /\ reserved \in [OrderIds -> {0}]
  BY DEF PaperInv, Authorized
<1>2. ASSUME NEW n \in DOMAIN Legs(i)
      PROVE  orders[<<i, n>>] = NoOrder
  <2>1. IntentOf[i].key \notin seen
    BY <1>1 DEF Judged, Known
  <2>2. <<i, n>> \in OrderIds /\ <<i, n>>[1] = i
    BY LegOrder
  <2> QED
    BY <2>1, <2>2 DEF PaperInv, KeysAreStored
<1>3. TotalOf(reserved) = 0
  BY <1>1, OrdersAreFinite, TotalOfZeros
<1>4. PICK quote \in [Instruments -> Quotes], reliable \in BOOLEAN :
          LET after == SubmitLegs(i, d.quantity, quote, reliable)
          IN  /\ orders' = after.orders
              /\ book' = after.book
              /\ fills' = after.fills
              /\ reserved' = [o \in OrderIds |->
                    IF after.orders[o].filled # orders[o].filled THEN 0 ELSE reserved[o]]
  BY DEF Authorized
<1> DEFINE quantity == d.quantity
<1> DEFINE after == SubmitLegs(i, quantity, quote, reliable)
<1>5. AfterLegs(i, quantity, Len(Legs(i)), after)
  <2>1. quantity \in [DOMAIN Legs(i) -> Nat]
    OBVIOUS
  <2> HIDE DEF quantity
  <2> QED
    BY <1>1, <1>2, <1>3, <2>1, LegsSubmitted DEF after
<1>6. /\ Agree(after.orders, after.book, after.fills)
      /\ \A o \in OrderIds : o \notin {i} \X (1 .. Len(Legs(i))) => after.orders[o] = orders[o]
      /\ Moves(i, quantity, Len(Legs(i)), after.book)
  BY <1>5 DEF AfterLegs
<1>7. /\ orders' = after.orders /\ book' = after.book /\ fills' = after.fills
      /\ reserved' = [o \in OrderIds |->
            IF after.orders[o].filled # orders[o].filled THEN 0 ELSE reserved[o]]
  BY <1>4
<1> HIDE DEF after
<1>8. reserved' \in [OrderIds -> {0}]
  BY <1>1, <1>7
<1>9. \A o \in OrderIds : o[1] # i => o \notin {i} \X (1 .. Len(Legs(i)))
  OBVIOUS
<1> QED
  BY <1>2, <1>6, <1>7, <1>8, <1>9

LEMMA SubmissionKeepsBooks ==
    ASSUME PaperInv, NEW i \in Intents, NEW d, d.quantity \in [DOMAIN Legs(i) -> Nat], Authorized(i, d)
    PROVE  PaperInv'
<1>1. /\ Agree(orders', book', fills') /\ reserved' \in [OrderIds -> {0}]
      /\ \A o \in OrderIds : o[1] # i => orders'[o] = orders[o]
  BY Submitted
<1>2. /\ now' = now /\ seen' = seen \cup {i, IntentOf[i].key} /\ IntentOf[i].key \notin seen
  BY DEF Authorized, Judged, StoreIntent, Known
<1>3. KeysAreStored'
  <2>1. ASSUME NEW o \in OrderIds, orders'[o] # NoOrder
        PROVE  IntentOf[o[1]].key \in seen'
    <3>1. CASE o[1] = i
      BY <1>2, <3>1
    <3>2. CASE o[1] # i
      BY <1>1, <1>2, <2>1, <3>2 DEF PaperInv, KeysAreStored
    <3> QED
      BY <3>1, <3>2
  <2> QED
    BY <2>1 DEF KeysAreStored
<1>4. OneIntentPerKey'
  <2>1. ASSUME NEW o \in OrderIds, NEW p \in OrderIds, IntentOf[o[1]].key = IntentOf[p[1]].key,
               orders'[o] # NoOrder, orders'[p] # NoOrder
        PROVE  o[1] = p[1]
    <3>1. ASSUME NEW q \in OrderIds, q[1] # i, orders'[q] # NoOrder
          PROVE  orders[q] # NoOrder /\ IntentOf[q[1]].key # IntentOf[i].key
      BY <1>1, <1>2, <3>1 DEF PaperInv, KeysAreStored
    <3>2. CASE o[1] = i \/ p[1] = i
      BY <2>1, <3>1, <3>2
    <3>3. CASE o[1] # i /\ p[1] # i
      <4>1. orders[o] # NoOrder /\ orders[p] # NoOrder
        BY <2>1, <3>1, <3>3
      <4> QED
        BY <2>1, <4>1 DEF PaperInv, OneIntentPerKey
    <3> QED
      BY <3>2, <3>3
  <2> QED
    BY <2>1 DEF OneIntentPerKey
<1> QED
  BY <1>1, <1>2, <1>3, <1>4 DEF PaperInv

LEMMA QuantitiesDecided ==
    ASSUME NEW i \in Intents, NEW d \in Decisions(i)
    PROVE  /\ d.quantity \in [DOMAIN Legs(i) -> Nat]
           /\ d.actionable => ~killed
<1>1. CASE d \in {[approved |-> FALSE, actionable |-> FALSE, quantity |-> [n \in DOMAIN Legs(i) |-> 0]],
                  [approved |-> TRUE, actionable |-> FALSE, quantity |-> [n \in DOMAIN Legs(i) |-> 0]]}
  BY <1>1
<1>2. CASE d \in [approved : {TRUE}, actionable : {TRUE},
                  quantity : [DOMAIN Legs(i) -> 0 .. Max({Legs(i)[n].quantity : n \in DOMAIN Legs(i)})]]
           /\ ~killed
  <2> DEFINE most == Max({Legs(i)[n].quantity : n \in DOMAIN Legs(i)})
  <2>1. d.quantity \in [DOMAIN Legs(i) -> 0 .. most] /\ ~killed
    BY <1>2
  <2>2. most \in Int
    <3> DEFINE S == {Legs(i)[n].quantity : n \in DOMAIN Legs(i)}
    <3>1. /\ Legs(i) \in Seq(LegRecords) /\ DOMAIN Legs(i) = 1 .. Len(Legs(i))
          /\ Len(Legs(i)) \in Nat \ {0}
      BY LegsAre
    <3>2. \A n \in DOMAIN Legs(i) : Legs(i)[n] \in LegRecords
      BY <3>1
    <3>3. S \in SUBSET Int
      BY <3>2 DEF LegRecords
    <3>4. IsFiniteSet(S) /\ S # {}
      <4> DEFINE f == [n \in DOMAIN Legs(i) |-> Legs(i)[n].quantity]
      <4>1. f \in Surjection(DOMAIN Legs(i), S)
        BY DEF Surjection
      <4>2. IsFiniteSet(DOMAIN Legs(i))
        BY <3>1, FS_Interval
      <4>3. 1 \in DOMAIN Legs(i)
        BY <3>1
      <4>4. S # {}
        BY <4>3
      <4>5. IsFiniteSet(S)
        BY <4>1, <4>2, FS_Surjection
      <4> QED
        BY <4>4, <4>5
    <3> HIDE DEF S
    <3>5. Max(S) \in S
      BY <3>3, <3>4, MaxOfNumbers
    <3> QED
      BY <3>3, <3>5 DEF S
  <2> HIDE DEF most
  <2> QED
    BY <2>1, <2>2
<1> QED
  BY <1>1, <1>2 DEF Decisions
-----------------------------------------------------------------------------
LEMMA PaperStep == PaperInv /\ [Next]_vars => PaperInv'
<1> SUFFICES ASSUME PaperInv, [Next]_vars PROVE PaperInv'
  OBVIOUS
<1>0. now \in Nat
  BY DEF PaperInv
<1>1. CASE UNCHANGED vars
  BY <1>0, <1>1, BooksUntouched DEF vars
<1>2. ASSUME NEW i \in Intents, Submit(i)
      PROVE  PaperInv'
  <2>1. CASE SubmitDuplicate(i)
    BY <1>0, <2>1, BooksUntouched DEF SubmitDuplicate, vars
  <2>2. CASE SubmitRefused(i)
    BY <1>0, <2>2, BooksUntouched DEF SubmitRefused, StoreIntent
  <2>3. CASE SubmitNotAuthorized(i)
    BY <1>0, <2>3, BooksUntouched DEF SubmitNotAuthorized, NotAuthorized, Judged, StoreIntent
  <2>4. CASE SubmitAuthorized(i)
    <3>1. PICK d \in Decisions(i) : Authorized(i, d)
      BY <2>4 DEF SubmitAuthorized
    <3>2. d.quantity \in [DOMAIN Legs(i) -> Nat]
      BY QuantitiesDecided
    <3> QED
      BY <3>1, <3>2, SubmissionKeepsBooks
  <2> QED
    BY <1>2, <2>1, <2>2, <2>3, <2>4 DEF Submit
<1>3. ASSUME NEW o \in OrderIds, Cancel(o)
      PROVE  PaperInv'
  <2>1. orders[o].state \in Open /\ End({o}, "CANCELLED")
    BY <1>3 DEF Cancel
  <2>2. {o} \in SUBSET OrderIds /\ \A p \in {o} : orders[p].state \in Open
    BY <2>1
  <2> QED
    BY <2>1, <2>2, OrdersEnd
<1>4. CASE ExpireStaleOrders
  <2> DEFINE stale == {o \in OrderIds : orders[o].state \in Open /\ HasExpired(o[1], now)}
  <2>1. End(stale, "EXPIRED")
    BY <1>4 DEF ExpireStaleOrders
  <2>2. stale \in SUBSET OrderIds /\ \A p \in stale : orders[p].state \in Open
    OBVIOUS
  <2> HIDE DEF stale
  <2> QED
    BY <2>1, <2>2, OrdersEnd
<1>5. ASSUME NEW status, SetStatus(status)
      PROVE  PaperInv'
  BY <1>0, <1>5, BooksUntouched DEF SetStatus
<1>6. CASE SetKillSwitch
  BY <1>0, <1>6, BooksUntouched DEF SetKillSwitch
<1>7. CASE AdvanceTime
  BY <1>0, <1>7, BooksUntouched DEF AdvanceTime
<1> QED
  BY <1>1, <1>2, <1>3, <1>4, <1>5, <1>6, <1>7 DEF Next

LEMMA PaperAlways == Spec => []PaperInv
<1>1. Init => PaperInv
  BY PaperInitially
<1>2. PaperInv /\ [Next]_vars => PaperInv'
  BY PaperStep
<1> QED
  BY <1>1, <1>2, PTL DEF Spec

(* Whatever is submitted, cancelled and expired, and in whatever order,    *)
(* the orders, the ledger and a rebuild from the recorded fills agree, and *)
(* as long as every sale covers its costs the account is never overdrawn:  *)
(* submit's loop over the legs passes on what the earlier legs spent.      *)
THEOREM LedgerFollowsOrders == Spec => []OrdersMatchLedger
<1>1. PaperInv => OrdersMatchLedger
  <2> SUFFICES ASSUME PaperInv PROVE OrdersMatchLedger
    OBVIOUS
  <2>1. Agree(orders, book, fills)
    BY DEF PaperInv
  <2>2. SalesCoverTheirCosts => \A n \in DOMAIN fills : Covers(fills[n].fill)
    BY DEF SalesCoverTheirCosts, Covers
  <2>3. \A x \in Instruments : Traded(x) = SignedFills(orders, x)
    BY DEF Traded, SignedFills
  <2>4. FillsApplied = ListOf(fills)
    BY DEF FillsApplied, ListOf
  <2> QED
    BY <2>1, <2>2, <2>3, <2>4 DEF OrdersMatchLedger, Agree
<1> QED
  BY <1>1, PaperAlways, PTL

(* The runtime never lets two intents of one idempotency key both have     *)
(* orders: what it has stored under the key refuses the second.            *)
THEOREM KeysTradeOnce == Spec => []OneIntentPerKey
<1>1. PaperInv => OneIntentPerKey
  BY DEF PaperInv
<1> QED
  BY <1>1, PaperAlways, PTL

(* No step fills an order while the account is halted, after its intent's  *)
(* valid_until, or a second time.                                          *)
THEOREM HaltedMeansHalted == Spec => NothingTradesWhileHalted
<1> DEFINE Quiet == \A o \in OrderIds : orders'[o].filled # orders[o].filled =>
                        /\ orders[o] = NoOrder
                        /\ account.status = "ACTIVE" /\ ~killed
                        /\ now <= IntentOf[o[1]].validUntil
<1>1. PaperInv /\ [Next]_vars => [Quiet]_vars
  <2> SUFFICES ASSUME PaperInv, Next PROVE Quiet
    OBVIOUS
  <2>1. ASSUME UNCHANGED orders
        PROVE  Quiet
    BY <2>1
  <2>2. ASSUME NEW i \in Intents, NEW d \in Decisions(i), Authorized(i, d)
        PROVE  Quiet
    <3>1. d.quantity \in [DOMAIN Legs(i) -> Nat] /\ (d.actionable => ~killed)
      BY QuantitiesDecided
    <3>2. /\ \A n \in DOMAIN Legs(i) : orders[<<i, n>>] = NoOrder
          /\ \A o \in OrderIds : o[1] # i => orders'[o] = orders[o]
      BY <2>2, <3>1, Submitted
    <3>3. /\ account.status = "ACTIVE" /\ ~HasExpired(i, now) /\ d.actionable
      BY <2>2 DEF Authorized, Judged
    <3>4. ASSUME NEW o \in OrderIds, orders'[o].filled # orders[o].filled
          PROVE  o[1] = i /\ orders[o] = NoOrder /\ IntentOf[i].validUntil \in Nat
      <4>1. o[1] = i
        BY <3>2, <3>4
      <4> QED
        BY <3>2, <4>1, LegFacts
    <3>5. now \in Nat
      BY DEF PaperInv
    <3> QED
      BY <3>1, <3>3, <3>4, <3>5 DEF HasExpired
  <2>3. ASSUME NEW o \in OrderIds, Cancel(o)
        PROVE  Quiet
    <3>1. orders[o].state \in Open /\ End({o}, "CANCELLED")
      BY <2>3 DEF Cancel
    <3>2. {o} \in SUBSET OrderIds /\ \A p \in {o} : orders[p].state \in Open
      BY <3>1
    <3> QED
      BY <3>1, <3>2, OrdersEnd
  <2>4. CASE ExpireStaleOrders
    <3> DEFINE stale == {o \in OrderIds : orders[o].state \in Open /\ HasExpired(o[1], now)}
    <3>1. End(stale, "EXPIRED")
      BY <2>4 DEF ExpireStaleOrders
    <3>2. stale \in SUBSET OrderIds /\ \A p \in stale : orders[p].state \in Open
      OBVIOUS
    <3> HIDE DEF stale
    <3> QED
      BY <3>1, <3>2, OrdersEnd
  <2>5. ASSUME NEW i \in Intents, Submit(i)
        PROVE  Quiet
    <3>1. CASE SubmitDuplicate(i)
      BY <2>1, <3>1 DEF SubmitDuplicate, vars
    <3>2. CASE SubmitRefused(i)
      BY <2>1, <3>2 DEF SubmitRefused
    <3>3. CASE SubmitNotAuthorized(i)
      BY <2>1, <3>3 DEF SubmitNotAuthorized, NotAuthorized
    <3>4. CASE SubmitAuthorized(i)
      BY <2>2, <3>4 DEF SubmitAuthorized
    <3> QED
      BY <2>5, <3>1, <3>2, <3>3, <3>4 DEF Submit
  <2>6. CASE (\E status \in DOMAIN AccountTransitions : SetStatus(status)) \/ SetKillSwitch \/ AdvanceTime
    BY <2>1, <2>6 DEF SetStatus, SetKillSwitch, AdvanceTime
  <2> QED
    BY <2>3, <2>4, <2>5, <2>6 DEF Next
<1> QED
  BY <1>1, PaperAlways, PTL DEF Spec, NothingTradesWhileHalted
-----------------------------------------------------------------------------
(* The checks on size, and the kill switch, are among all of them.         *)
LEMMA ChecksAre ==
    ASSUME NEW i, NEW S, NEW L
    PROVE  /\ "kill_switch" \in DOMAIN EvaluateAll(i, S, L)
           /\ EvaluateAll(i, S, L)["kill_switch"] = Flag(~Halts(S, i.strategy))
           /\ EvaluateAll(i, S, L)["max_order_quantity"] = OrderChecks(i, S, L)["max_order_quantity"]
           /\ \A id \in {"max_position_per_instrument", "max_position_per_underlying",
                         "max_position_per_strategy"} :
                 /\ id \in DOMAIN EvaluateAll(i, S, L)
                 /\ EvaluateAll(i, S, L)[id] = PositionChecks(i, S, L)[id]
<1>1. EvaluateAll(i, S, L)["kill_switch"] = Flag(~Halts(S, i.strategy))
  BY EveryCheck DEF HaltLimits, HaltChecks
<1> QED
  BY <1>1, EveryCheck DEF HaltLimits, OrderLimits, PositionLimits
-----------------------------------------------------------------------------
Asked(i, n) == Legs(i)[n].quantity

LEMMA LegIs ==
    ASSUME NEW i \in Intents, NEW n \in DOMAIN Legs(i)
    PROVE  /\ Legs(i)[n] \in LegRecords /\ Asked(i, n) \in Nat \ {0}
           /\ Instrument(i, n) \in Instruments /\ Sign(Legs(i)[n].side) \in {1, -1}
<1>1. Legs(i) \in Seq(LegRecords)
  BY LegsAre
<1>2. Legs(i)[n] \in LegRecords
  BY <1>1
<1> QED
  BY <1>2 DEF LegRecords, Asked, Instrument, Sign

LEMMA LegsAreFinite ==
    ASSUME NEW i \in Intents
    PROVE  IsFiniteSet(DOMAIN Legs(i)) /\ 1 \in DOMAIN Legs(i)
BY LegsAre, FS_Interval

LEMMA MaxOverLegs ==
    ASSUME NEW i \in Intents, NEW f \in [DOMAIN Legs(i) -> Int]
    PROVE  /\ Max({f[n] : n \in DOMAIN Legs(i)}) \in Int
           /\ \A n \in DOMAIN Legs(i) : f[n] <= Max({f[m] : m \in DOMAIN Legs(i)})
<1> DEFINE S == {f[n] : n \in DOMAIN Legs(i)}
<1>1. f \in Surjection(DOMAIN Legs(i), S)
  BY DEF Surjection
<1>2. IsFiniteSet(S) /\ S # {} /\ S \in SUBSET Int
  <2>1. IsFiniteSet(S)
    BY <1>1, LegsAreFinite, FS_Surjection
  <2>2. S # {}
    BY LegsAreFinite
  <2> QED
    BY <2>1, <2>2
<1>3. \A n \in DOMAIN Legs(i) : f[n] \in S
  OBVIOUS
<1> HIDE DEF S
<1>4. Max(S) \in S /\ \A y \in S : y <= Max(S)
  BY <1>2, MaxOfNumbers
<1>5. Max(S) \in Int /\ \A n \in DOMAIN Legs(i) : f[n] <= Max(S)
  BY <1>2, <1>3, <1>4
<1> QED
  BY <1>5 DEF S

LEMMA TotalAsked ==
    ASSUME NEW i \in Intents
    PROVE  /\ LegsOf(IntentOf[i]) = DOMAIN Legs(i)
           /\ Quantities(IntentOf[i]) \in [DOMAIN Legs(i) -> Nat]
           /\ \A n \in DOMAIN Legs(i) : Quantities(IntentOf[i])[n] = Asked(i, n)
           /\ TotalQuantity(IntentOf[i]) \in Nat
           /\ \A n \in DOMAIN Legs(i) : Asked(i, n) <= TotalQuantity(IntentOf[i])
<1>1. LegsOf(IntentOf[i]) = DOMAIN Legs(i)
  BY DEF LegsOf, Legs
<1>2. Quantities(IntentOf[i]) = [n \in DOMAIN Legs(i) |-> Asked(i, n)]
  BY <1>1 DEF Quantities, Asked, Legs
<1>3. \A n \in DOMAIN Legs(i) : Asked(i, n) \in Nat
  BY LegIs
<1>4. Quantities(IntentOf[i]) \in [DOMAIN Legs(i) -> Nat]
  BY <1>2, <1>3
<1> DEFINE f == Quantities(IntentOf[i])
<1>5. TotalQuantity(IntentOf[i]) = TotalOf(f)
  BY DEF TotalQuantity
<1>6. f \in [DOMAIN Legs(i) -> Nat] /\ \A n \in DOMAIN Legs(i) : f[n] = Asked(i, n)
  BY <1>2, <1>4
<1> HIDE DEF f
<1>7. TotalOf(f) \in Nat /\ \A n \in DOMAIN Legs(i) : f[n] <= TotalOf(f)
  BY <1>6, LegsAreFinite, TotalOfNaturals
<1> QED
  BY <1>1, <1>5, <1>6, <1>7 DEF f

(* Cut down, some legs keep some of what was asked and none gets more; of  *)
(* a single leg exactly what was approved is left.                         *)
LEMMA LegsCutDown ==
    ASSUME NEW i \in Intents, NEW r \in Nat \ {0}, r < TotalQuantity(IntentOf[i])
    PROVE  /\ ScaleLegs(IntentOf[i], r) \in [DOMAIN Legs(i) -> Nat]
           /\ \A n \in DOMAIN Legs(i) : ScaleLegs(IntentOf[i], r)[n] <= Asked(i, n)
           /\ \E n \in DOMAIN Legs(i) : ScaleLegs(IntentOf[i], r)[n] > 0
           /\ Len(Legs(i)) = 1 =>
                 ScaleLegs(IntentOf[i], r)[1] = r /\ TotalQuantity(IntentOf[i]) = Asked(i, 1)
<1> DEFINE total == TotalQuantity(IntentOf[i])
<1> DEFINE floors == [n \in DOMAIN Legs(i) |-> (Asked(i, n) * r) \div total]
<1> DEFINE rest == r - TotalOf(floors)
<1> DEFINE scaled == ScaleLegs(IntentOf[i], r)
<1>1. /\ total \in Nat /\ r < total /\ LegsOf(IntentOf[i]) = DOMAIN Legs(i)
      /\ DOMAIN Legs(i) = 1 .. Len(Legs(i)) /\ Len(Legs(i)) \in Nat \ {0}
      /\ IsFiniteSet(DOMAIN Legs(i)) /\ 1 \in DOMAIN Legs(i)
  BY TotalAsked, LegsAre, LegsAreFinite
<1>2. scaled = [n \in DOMAIN Legs(i) |-> floors[n] + IF n <= rest THEN 1 ELSE 0]
  BY <1>1 DEF ScaleLegs, Asked, Legs
<1> HIDE DEF total, scaled
<1>3. \A n \in DOMAIN Legs(i) : floors[n] \in 0 .. Asked(i, n) - 1 /\ Asked(i, n) \in Nat \ {0}
  BY <1>1, LegIs, Shares
<1>4. floors \in [DOMAIN Legs(i) -> Nat]
  BY <1>3
<1> HIDE DEF floors
<1>5. TotalOf(floors) \in Nat
  BY <1>1, <1>4, TotalOfNaturals
<1>6. rest \in Int /\ rest = r - TotalOf(floors)
  BY <1>5
<1> HIDE DEF rest
<1>7. ASSUME NEW n \in DOMAIN Legs(i)
      PROVE  scaled[n] \in Nat /\ scaled[n] <= Asked(i, n) /\ floors[n] <= scaled[n]
             /\ (n <= rest => scaled[n] > 0)
  BY <1>1, <1>2, <1>3, <1>6
<1>8. \E n \in DOMAIN Legs(i) : scaled[n] > 0
  <2>1. CASE rest >= 1
    BY <1>1, <1>7, <2>1
  <2>2. CASE rest < 1
    <3>1. TotalOf(floors) # 0
      BY <1>5, <1>6, <2>2
    <3>2. floors \notin [DOMAIN Legs(i) -> {0}]
      BY <1>1, <3>1, TotalOfZeros
    <3>3. PICK n \in DOMAIN Legs(i) : floors[n] # 0
      BY <1>4, <3>2
    <3> QED
      BY <1>4, <1>7, <3>3
  <2> QED
    BY <1>6, <2>1, <2>2
<1>9. ASSUME Len(Legs(i)) = 1
      PROVE  scaled[1] = r /\ total = Asked(i, 1)
  <2>1. DOMAIN Legs(i) = {1}
    BY <1>1, <1>9
  <2>2. \A f \in [{1} -> Nat] : TotalOf(f) = f[1]
    <3> TAKE f \in [{1} -> Nat]
    <3> DEFINE g == [n \in {1} |-> 0]
    <3>1. TotalOf(g) = 0 /\ g \in [{1} -> Int] /\ f \in [{1} -> Int] /\ g[1] = 0 /\ IsFiniteSet({1})
      BY TotalOfZeros, FS_Singleton
    <3> HIDE DEF g
    <3>2. TotalOf(f) = TotalOf(g) + f[1] - g[1]
      BY <3>1, TotalOfOneChange
    <3> QED
      BY <3>1, <3>2
  <2>3. total = Asked(i, 1)
    BY <2>1, <2>2, TotalAsked DEF total, TotalQuantity
  <2>4. TotalOf(floors) = floors[1]
    BY <1>4, <2>1, <2>2
  <2>5. floors[1] = r
    <3>1. floors[1] = (total * r) \div total
      BY <1>1, <2>3 DEF floors
    <3>2. total \in Nat \ {0}
      BY <1>1
    <3> QED
      BY <3>1, <3>2
  <2> QED
    BY <1>1, <1>2, <1>6, <2>3, <2>4, <2>5
<1> QED
  BY <1>1, <1>2, <1>7, <1>8, <1>9 DEF scaled, total
-----------------------------------------------------------------------------
LEMMA StateIs ==
    ASSUME PaperInv, NEW m
    PROVE  /\ RiskState(m).positions = [x \in Instruments |-> book.positions[x].quantity]
           /\ \A x \in Instruments : Quantity(book, x) \in Int /\ RiskState(m).positions[x] = Quantity(book, x)
           /\ RiskState(m).positionByStrategy = PositionByStrategy
           /\ RiskState(m).engaged = killed /\ RiskState(m).haltedStrategies = {}
           /\ RiskState(m).knowledgeTime = now /\ now \in Nat
<1>1. /\ RiskState(m).positions = [x \in Instruments |-> book.positions[x].quantity]
      /\ RiskState(m).positionByStrategy = PositionByStrategy
      /\ RiskState(m).engaged = killed /\ RiskState(m).haltedStrategies = {}
      /\ RiskState(m).knowledgeTime = now
  BY Zenon DEF RiskState
<1>2. \A x \in Instruments : Quantity(book, x) \in Int
  BY QuantitiesAreWhole DEF PaperInv
<1> QED
  BY <1>1, <1>2 DEF PaperInv, Quantity

(* The position a leg would leave.                                         *)
Resulting(i, n) == AbsInt(Quantity(book, Instrument(i, n)) + Sign(Legs(i)[n].side) * Asked(i, n))

LEMMA WorstInstrumentIs ==
    ASSUME PaperInv, NEW m, NEW i \in Intents
    PROVE  /\ WorstInstrument(IntentOf[i], RiskState(m)) \in Int
           /\ \A n \in DOMAIN Legs(i) : Resulting(i, n) <= WorstInstrument(IntentOf[i], RiskState(m))
           /\ Len(Legs(i)) = 1 => WorstInstrument(IntentOf[i], RiskState(m)) = Resulting(i, 1)
<1> DEFINE f == [n \in DOMAIN Legs(i) |-> Resulting(i, n)]
<1>1. f \in [DOMAIN Legs(i) -> Int]
  <2>1. ASSUME NEW n \in DOMAIN Legs(i)
        PROVE  Resulting(i, n) \in Int
    <3>1. Quantity(book, Instrument(i, n)) \in Int
      BY LegIs, StateIs
    <3>2. Sign(Legs(i)[n].side) * Asked(i, n) \in Int
      BY LegIs
    <3> QED
      BY <3>1, <3>2 DEF Resulting, AbsInt
  <2> QED
    BY <2>1
<1>2. WorstInstrument(IntentOf[i], RiskState(m)) = Max({f[n] : n \in DOMAIN Legs(i)})
  <2> DEFINE S == RiskState(m)
  <2>1. /\ LegsOf(IntentOf[i]) = DOMAIN Legs(i) /\ IntentOf[i].legs = Legs(i)
    BY TotalAsked DEF Legs
  <2>2. \A n \in DOMAIN Legs(i) :
           S.positions[Legs(i)[n].instrument] = Quantity(book, Instrument(i, n))
    BY LegIs, StateIs DEF Instrument
  <2> HIDE DEF S
  <2>3. \A n \in DOMAIN Legs(i) :
           f[n] = AbsInt(S.positions[Legs(i)[n].instrument] + Sign(Legs(i)[n].side) * Legs(i)[n].quantity)
    BY <2>2 DEF Resulting, Asked
  <2> HIDE DEF f
  <2>4. WorstInstrument(IntentOf[i], S) =
          Max({AbsInt(S.positions[Legs(i)[n].instrument]
                      + Sign(Legs(i)[n].side) * Legs(i)[n].quantity) : n \in DOMAIN Legs(i)})
    BY <2>1 DEF WorstInstrument
  <2>5. {AbsInt(S.positions[Legs(i)[n].instrument]
                + Sign(Legs(i)[n].side) * Legs(i)[n].quantity) : n \in DOMAIN Legs(i)}
           = {f[n] : n \in DOMAIN Legs(i)}
    BY <2>3
  <2> QED
    BY <2>4, <2>5 DEF S
<1>3. \A n \in DOMAIN Legs(i) : f[n] = Resulting(i, n)
  OBVIOUS
<1> HIDE DEF f
<1>4. Max({f[n] : n \in DOMAIN Legs(i)}) \in Int
      /\ \A n \in DOMAIN Legs(i) : f[n] <= Max({f[k] : k \in DOMAIN Legs(i)})
  BY <1>1, MaxOverLegs
<1>5. ASSUME Len(Legs(i)) = 1
      PROVE  Max({f[n] : n \in DOMAIN Legs(i)}) = Resulting(i, 1)
  <2>1. DOMAIN Legs(i) = {1}
    BY <1>5, LegsAre
  <2>2. {f[n] : n \in DOMAIN Legs(i)} = {f[1]} /\ f[1] \in Int
    BY <1>1, <2>1
  <2>3. IsFiniteSet({f[1]}) /\ {f[1]} \in SUBSET Int /\ {f[1]} # {}
    BY <2>2, FS_Singleton
  <2>4. Max({f[1]}) \in {f[1]}
    BY <2>3, MaxOfNumbers
  <2> QED
    BY <1>3, <2>1, <2>2, <2>4
<1> QED
  BY <1>2, <1>3, <1>4, <1>5

LEMMA WorstUnderlyingIs ==
    ASSUME PaperInv, NEW m, NEW i \in Intents, None \notin Underlyings(IntentOf[i], RiskState(m))
    PROVE  WorstUnderlying(IntentOf[i], RiskState(m)) \in Int
<1> DEFINE S == RiskState(m)
<1> DEFINE of(n) == InUnderlying(S, S.groups[Legs(i)[n].instrument].underlying)
<1>1. /\ LegsOf(IntentOf[i]) = DOMAIN Legs(i) /\ IntentOf[i].legs = Legs(i)
  BY TotalAsked DEF Legs
<1>2. \A x \in Instruments : S.positions[x] \in Int
  BY StateIs
<1>3. ASSUME NEW u, InUnderlying(S, u) # None
      PROVE  InUnderlying(S, u) \in Int
  <2> HIDE DEF S
  <2> DEFINE X == {y \in Held(S) : S.groups[y].underlying = u}
  <2>1. InUnderlying(S, u) = TotalOf([x \in X |-> AbsInt(S.positions[x])])
    BY <1>3 DEF InUnderlying
  <2>2. X \in SUBSET Instruments
    BY DEF Held
  <2>3. IsFiniteSet(X)
    BY <2>2, PolicyAssumption, FS_Subset
  <2>4. [x \in X |-> AbsInt(S.positions[x])] \in [X -> Int]
    BY <1>2, <2>2 DEF AbsInt
  <2> HIDE DEF X
  <2> QED
    BY <2>1, <2>3, <2>4, TotalOfIntegers
<1>4. \A n \in DOMAIN Legs(i) : of(n) # None
  BY <1>1 DEF Underlyings
<1>5. \A n \in DOMAIN Legs(i) : of(n) \in Int
  BY <1>3, <1>4
<1> DEFINE f == [n \in DOMAIN Legs(i) |-> of(n) + Asked(i, n)]
<1>6. WorstUnderlying(IntentOf[i], S) = Max({f[n] : n \in DOMAIN Legs(i)})
  <2>1. WorstUnderlying(IntentOf[i], S) = Max({of(n) + Asked(i, n) : n \in DOMAIN Legs(i)})
    BY <1>1 DEF WorstUnderlying, Asked
  <2>2. {of(n) + Asked(i, n) : n \in DOMAIN Legs(i)} = {f[n] : n \in DOMAIN Legs(i)}
    OBVIOUS
  <2> QED
    BY <2>1, <2>2
<1>7. f \in [DOMAIN Legs(i) -> Int]
  <2> HIDE DEF of
  <2> QED
    BY <1>5, LegIs
<1> HIDE DEF f
<1> QED
  BY <1>6, <1>7, MaxOverLegs DEF S

LEMMA PositionByStrategyIs ==
    ASSUME PaperInv, NEW s \in Strategies
    PROVE  PositionByStrategy[s] \in Int
<1>1. orders \in [OrderIds -> OrderRecords]
  BY DEF PaperInv, Agree
<1> DEFINE f == [o \in OrdersOf(s) |-> orders[o].filled]
<1>2. PositionByStrategy[s] = TotalOf(f)
  BY DEF PositionByStrategy
<1>3. OrdersOf(s) \in SUBSET OrderIds
  BY DEF OrdersOf
<1>4. IsFiniteSet(OrdersOf(s))
  BY <1>3, OrdersAreFinite, FS_Subset
<1>5. f \in [OrdersOf(s) -> Int]
  BY <1>1, <1>3 DEF OrderRecords
<1> HIDE DEF f
<1> QED
  BY <1>2, <1>4, <1>5, TotalOfIntegers

(* A breach of a size limit is by a whole number, never by nothing.        *)
LEMMA SizeBreached ==
    ASSUME PaperInv, NEW m, NEW i \in Intents, NEW id \in Resizable,
           EvaluateAll(IntentOf[i], RiskState(m), Policy.limits)[id].status = "BREACHED"
    PROVE  /\ EvaluateAll(IntentOf[i], RiskState(m), Policy.limits)[id].excess \in Nat \ {0}
           /\ id = "max_position_per_instrument" =>
                 EvaluateAll(IntentOf[i], RiskState(m), Policy.limits)[id].excess
                   = WorstInstrument(IntentOf[i], RiskState(m)) - Policy.limits[id]
<1> DEFINE S == RiskState(m)
<1> DEFINE L == Policy.limits
<1> DEFINE x == IntentOf[i]
<1> DEFINE E == EvaluateAll(x, S, L)
<1>1. L[id] \in Int \cup {None}
  BY PolicyAssumption DEF Resizable
<1>2. CASE id = "max_order_quantity"
  <2>1. E[id] = OrderChecks(x, S, L)["max_order_quantity"]
    BY <1>2, ChecksAre
  <2>2. OrderChecks(x, S, L)["max_order_quantity"]
          = Check(L.max_order_quantity, {}, Compare(Max(Range(Quantities(x))), L.max_order_quantity))
    BY DEF OrderChecks
  <2>3. /\ L.max_order_quantity # None
        /\ E[id] = Compare(Max(Range(Quantities(x))), L.max_order_quantity)
    BY <2>1, <2>2, Checked
  <2>4. Max(Range(Quantities(x))) \in Int
    <3>1. Quantities(x) \in [DOMAIN Legs(i) -> Int]
      BY TotalAsked
    <3>2. Range(Quantities(x)) = {Quantities(x)[n] : n \in DOMAIN Legs(i)}
      BY <3>1 DEF Range
    <3> QED
      BY <3>1, <3>2, MaxOverLegs
  <2> QED
    BY <1>1, <1>2, <2>3, <2>4, Compared
<1>3. CASE id = "max_position_per_instrument"
  <2>1. E[id] = PositionChecks(x, S, L)[id]
    BY <1>3, ChecksAre
  <2>2. PositionChecks(x, S, L)[id] = Check(L[id], {}, Compare(WorstInstrument(x, S), L[id]))
    BY <1>3 DEF PositionChecks
  <2>3. L[id] # None /\ E[id] = Compare(WorstInstrument(x, S), L[id])
    BY <2>1, <2>2, Checked
  <2>4. WorstInstrument(x, S) \in Int
    BY WorstInstrumentIs
  <2> QED
    BY <1>1, <2>3, <2>4, Compared
<1>4. CASE id = "max_position_per_underlying"
  <2>1. E[id] = PositionChecks(x, S, L)[id]
    BY <1>4, ChecksAre
  <2>2. PositionChecks(x, S, L)[id] = Check(L[id], Underlyings(x, S), Compare(WorstUnderlying(x, S), L[id]))
    BY <1>4 DEF PositionChecks
  <2>3. /\ L[id] # None /\ None \notin Underlyings(x, S)
        /\ E[id] = Compare(WorstUnderlying(x, S), L[id])
    BY <2>1, <2>2, Checked
  <2>4. WorstUnderlying(x, S) \in Int
    BY <2>3, WorstUnderlyingIs
  <2> QED
    BY <1>1, <1>4, <2>3, <2>4, Compared
<1>5. CASE id = "max_position_per_strategy"
  <2> DEFINE observed == S.positionByStrategy[x.strategy] + TotalQuantity(x)
  <2>1. E[id] = PositionChecks(x, S, L)[id]
    BY <1>5, ChecksAre
  <2>2. PositionChecks(x, S, L)[id] = Check(L[id], {x.strategy}, Compare(observed, L[id]))
    BY <1>5 DEF PositionChecks
  <2>3. L[id] # None /\ E[id] = Compare(observed, L[id])
    BY <2>1, <2>2, Checked
  <2>4. observed \in Int
    <3>1. x.strategy \in Strategies
      BY DEF Strategies
    <3>2. S.positionByStrategy[x.strategy] \in Int
      BY <3>1, StateIs, PositionByStrategyIs
    <3> QED
      BY <3>2, TotalAsked
  <2> HIDE DEF observed
  <2> QED
    BY <1>1, <1>5, <2>3, <2>4, Compared
<1> QED
  BY <1>2, <1>3, <1>4, <1>5 DEF Resizable
-----------------------------------------------------------------------------
Evaluations(i, m) == EvaluateAll(IntentOf[i], RiskState(m), Policy.limits)
Breaches(i, m) == WithStatus(Evaluations(i, m), "BREACHED")

Approved(i) ==
    [verdict |-> "APPROVED", quantity |-> Quantities(IntentOf[i]), until |-> now + Policy.validity]
Modified(i, r) ==
    [verdict |-> "MODIFIED", quantity |-> ScaleLegs(IntentOf[i], r), until |-> now + Policy.validity]

(* The engine refuses, approves when nothing is breached, or cuts down by  *)
(* at least every excess.                                                  *)
LEMMA DecisionIs ==
    ASSUME PaperInv, NEW m, NEW i \in Intents
    PROVE  \/ RiskDecision(i, RiskState(m)) = Rejected(IntentOf[i], now)
           \/ Breaches(i, m) = {} /\ RiskDecision(i, RiskState(m)) = Approved(i)
           \/ \E r \in Nat \ {0} :
                 /\ r < TotalQuantity(IntentOf[i]) /\ Breaches(i, m) \subseteq Resizable
                 /\ \A id \in Breaches(i, m) :
                       r <= TotalQuantity(IntentOf[i]) - Evaluations(i, m)[id].excess
                 /\ RiskDecision(i, RiskState(m)) = Modified(i, r)
<1> DEFINE E == Evaluations(i, m)
<1> DEFINE B == WithStatus(E, "BREACHED")
<1> DEFINE x == IntentOf[i]
<1> DEFINE d == RiskDecision(i, RiskState(m))
<1> DEFINE r == IF Policy.allowResizing THEN Resize(x, E) ELSE 0
<1>1. \/ d = Rejected(x, now)
      \/ B = {} /\ d = [verdict |-> "APPROVED", quantity |-> Quantities(x), until |-> now + Policy.validity]
      \/ B # {} /\ r # 0
         /\ d = [verdict |-> "MODIFIED", quantity |-> ScaleLegs(x, r), until |-> now + Policy.validity]
  BY Zenon DEF RiskDecision, Evaluate, Evaluations
<1>2. ASSUME B # {}, r # 0
      PROVE  /\ r \in Nat \ {0} /\ r < TotalQuantity(x) /\ B \subseteq Resizable
             /\ \A id \in B : r <= TotalQuantity(x) - E[id].excess
  <2> DEFINE X == {E[id].excess : id \in B}
  <2>1. B \subseteq Resizable /\ r = Max({0, TotalQuantity(x) - Max(X)})
    BY <1>2 DEF Resize
  <2>2. \A id \in B : E[id].excess \in Nat \ {0}
    BY <2>1, SizeBreached DEF WithStatus, Evaluations
  <2>3. IsFiniteSet(B)
    <3>1. IsFiniteSet(Resizable)
      <4>1. /\ IsFiniteSet({"max_order_quantity"}) /\ IsFiniteSet({"max_position_per_instrument"})
            /\ IsFiniteSet({"max_position_per_underlying"}) /\ IsFiniteSet({"max_position_per_strategy"})
        BY FS_Singleton
      <4>2. /\ IsFiniteSet({"max_order_quantity"} \cup {"max_position_per_instrument"})
            /\ IsFiniteSet({"max_position_per_underlying"} \cup {"max_position_per_strategy"})
        BY <4>1, FS_Union
      <4>3. IsFiniteSet(({"max_order_quantity"} \cup {"max_position_per_instrument"})
                        \cup ({"max_position_per_underlying"} \cup {"max_position_per_strategy"}))
        BY <4>2, FS_Union
      <4>4. Resizable = ({"max_order_quantity"} \cup {"max_position_per_instrument"})
                        \cup ({"max_position_per_underlying"} \cup {"max_position_per_strategy"})
        BY DEF Resizable
      <4> QED
        BY <4>3, <4>4
    <3> QED
      BY <2>1, <3>1, FS_Subset
  <2>4. IsFiniteSet(X)
    <3> DEFINE f == [id \in B |-> E[id].excess]
    <3>1. f \in Surjection(B, X)
      BY DEF Surjection
    <3> QED
      BY <2>3, <3>1, FS_Surjection
  <2>5. X \in SUBSET Int /\ X # {} /\ X \subseteq Nat \ {0}
    BY <1>2, <2>2
  <2>6. \A id \in B : E[id].excess \in X
    OBVIOUS
  <2> HIDE DEF E, B, X, r
  <2>7. Max(X) \in Nat \ {0} /\ \A e \in X : e <= Max(X)
    BY <2>4, <2>5, MaxOfNumbers
  <2> DEFINE left == TotalQuantity(x) - Max(X)
  <2>8. left \in Int /\ left < TotalQuantity(x) /\ TotalQuantity(x) \in Nat
    BY <2>7, TotalAsked
  <2>9. r = IF left > 0 THEN left ELSE 0
    <3> HIDE DEF left
    <3>1. IsFiniteSet({0, left}) /\ {0, left} \in SUBSET Int /\ {0, left} # {}
      <4>1. IsFiniteSet({0}) /\ IsFiniteSet({left})
        BY FS_Singleton
      <4>2. IsFiniteSet({0} \cup {left})
        BY <4>1, FS_Union
      <4>3. {0, left} = {0} \cup {left}
        OBVIOUS
      <4> QED
        BY <2>8, <4>2, <4>3
    <3>2. Max({0, left}) \in {0, left} /\ \A y \in {0, left} : y <= Max({0, left})
      BY <3>1, MaxOfNumbers
    <3>3. r = Max({0, left})
      BY <2>1 DEF left
    <3> QED
      BY <2>8, <3>2, <3>3
  <2>10. r \in Nat \ {0} /\ r = left
    BY <1>2, <2>8, <2>9
  <2>11. \A id \in B : r <= TotalQuantity(x) - E[id].excess
    BY <2>2, <2>6, <2>7, <2>8, <2>10
  <2> QED
    BY <2>1, <2>8, <2>10, <2>11
<1> HIDE DEF r, d
<1>3. CASE B # {} /\ r # 0
           /\ d = [verdict |-> "MODIFIED", quantity |-> ScaleLegs(x, r), until |-> now + Policy.validity]
  BY <1>2, <1>3 DEF Modified, Breaches, d
<1> QED
  BY <1>1, <1>3 DEF Approved, Breaches, d

LEMMA SwitchStops ==
    ASSUME PaperInv, NEW m, NEW i \in Intents, Breaches(i, m) \subseteq Resizable
    PROVE  ~killed
<1>1. SUFFICES ASSUME killed PROVE FALSE
  OBVIOUS
<1>2. "kill_switch" \notin Resizable
  BY DEF Resizable
<1>3. Halts(RiskState(m), IntentOf[i].strategy)
  BY <1>1, StateIs DEF Halts
<1>4. Evaluations(i, m)["kill_switch"].status = "BREACHED"
  <2>1. Evaluations(i, m)["kill_switch"] = Flag(~Halts(RiskState(m), IntentOf[i].strategy))
    BY ChecksAre DEF Evaluations
  <2>2. Flag(~Halts(RiskState(m), IntentOf[i].strategy)) = [status |-> "BREACHED", excess |-> 0]
    BY <1>3, Zenon DEF Flag
  <2> QED
    BY <2>1, <2>2
<1>5. "kill_switch" \in Breaches(i, m)
  BY <1>4, ChecksAre DEF Breaches, WithStatus, Evaluations
<1> QED
  BY <1>2, <1>5

(* Some of what was asked, of some leg, and of none more.                  *)
LEMMA SomeOfIt ==
    ASSUME NEW i \in Intents, NEW q \in [DOMAIN Legs(i) -> Nat], ~killed,
           \A n \in DOMAIN Legs(i) : q[n] <= Asked(i, n),
           \E n \in DOMAIN Legs(i) : q[n] > 0
    PROVE  [approved |-> TRUE, actionable |-> TRUE, quantity |-> q] \in Decisions(i)
<1> DEFINE f == [n \in DOMAIN Legs(i) |-> Asked(i, n)]
<1> DEFINE most == Max({Legs(i)[n].quantity : n \in DOMAIN Legs(i)})
<1>1. f \in [DOMAIN Legs(i) -> Int] /\ \A n \in DOMAIN Legs(i) : f[n] = Asked(i, n)
  BY LegIs
<1>2. most = Max({f[n] : n \in DOMAIN Legs(i)})
  <2>1. {Legs(i)[n].quantity : n \in DOMAIN Legs(i)} = {f[n] : n \in DOMAIN Legs(i)}
    BY DEF Asked
  <2> QED
    BY <2>1
<1> HIDE DEF f, most
<1>3. most \in Int /\ \A n \in DOMAIN Legs(i) : Asked(i, n) <= most
  BY <1>1, <1>2, MaxOverLegs
<1>4. q \in [DOMAIN Legs(i) -> 0 .. most]
  <2>1. ASSUME NEW n \in DOMAIN Legs(i)
        PROVE  q[n] \in 0 .. most
    BY <1>3, LegIs
  <2> QED
    BY <2>1
<1> DEFINE d == [approved |-> TRUE, actionable |-> TRUE, quantity |-> q]
<1>5. /\ d \in [approved : {TRUE}, actionable : {TRUE}, quantity : [DOMAIN Legs(i) -> 0 .. most]]
      /\ d.quantity = q
  BY <1>4
<1>6. \A n \in DOMAIN Legs(i) : d.quantity[n] <= Legs(i)[n].quantity
  BY DEF Asked
<1>7. \E n \in DOMAIN Legs(i) : d.quantity[n] > 0
  OBVIOUS
<1> HIDE DEF d
<1>8. d \in {e \in [approved : {TRUE}, actionable : {TRUE}, quantity : [DOMAIN Legs(i) -> 0 .. most]] :
               /\ ~killed
               /\ \A n \in DOMAIN Legs(i) : e.quantity[n] <= Legs(i)[n].quantity
               /\ \E n \in DOMAIN Legs(i) : e.quantity[n] > 0}
  BY <1>5, <1>6, <1>7
<1> QED
  BY <1>8 DEF d, Decisions, most

LEMMA JudgedAsDecided ==
    ASSUME PaperInv, NEW m, NEW i \in Intents
    PROVE  AsVerdict(RiskDecision(i, RiskState(m))) \in Decisions(i)
<1> DEFINE d == RiskDecision(i, RiskState(m))
<1>0. now \in Nat /\ Policy.validity \in Nat /\ now <= now + Policy.validity
  BY PolicyAssumption DEF PaperInv
<1>1. CASE d = Rejected(IntentOf[i], now)
  <2>1. AsVerdict(d) = [approved |-> FALSE, actionable |-> FALSE,
                        quantity |-> [n \in DOMAIN Legs(i) |-> 0]]
    <3>1. d.verdict = "REJECTED" /\ d.quantity = [n \in DOMAIN Legs(i) |-> 0]
      BY <1>1, TotalAsked DEF Rejected
    <3> HIDE DEF d
    <3>2. (d.verdict # "REJECTED") = FALSE /\ IsActionableAt(d, now) = FALSE
      BY <3>1 DEF IsActionableAt
    <3> QED
      BY <3>1, <3>2, Zenon DEF AsVerdict
  <2> QED
    BY <2>1 DEF Decisions
<1>2. CASE Breaches(i, m) = {} /\ d = Approved(i)
  <2> DEFINE q == Quantities(IntentOf[i])
  <2>1. AsVerdict(d) = [approved |-> TRUE, actionable |-> TRUE, quantity |-> q]
    <3>1. d.verdict = "APPROVED" /\ d.quantity = q /\ d.until = now + Policy.validity
      BY <1>2 DEF Approved
    <3> HIDE DEF d, q
    <3>2. (d.verdict # "REJECTED") = TRUE /\ IsActionableAt(d, now) = TRUE
      BY <1>0, <3>1 DEF IsActionableAt
    <3> QED
      BY <3>1, <3>2, Zenon DEF AsVerdict
  <2>2. ~killed
    BY <1>2, SwitchStops
  <2>3. /\ q \in [DOMAIN Legs(i) -> Nat] /\ \A n \in DOMAIN Legs(i) : q[n] = Asked(i, n)
    BY TotalAsked
  <2> HIDE DEF q
  <2>4. \A n \in DOMAIN Legs(i) : q[n] <= Asked(i, n) /\ q[n] > 0
    BY <2>3, LegIs
  <2>5. \E n \in DOMAIN Legs(i) : q[n] > 0
    BY <2>4, LegsAreFinite
  <2> QED
    BY <2>1, <2>2, <2>3, <2>4, <2>5, SomeOfIt
<1>3. ASSUME NEW r \in Nat \ {0}, r < TotalQuantity(IntentOf[i]), Breaches(i, m) \subseteq Resizable,
             d = Modified(i, r)
      PROVE  AsVerdict(d) \in Decisions(i)
  <2> DEFINE q == ScaleLegs(IntentOf[i], r)
  <2>1. AsVerdict(d) = [approved |-> TRUE, actionable |-> TRUE, quantity |-> q]
    <3>1. d.verdict = "MODIFIED" /\ d.quantity = q /\ d.until = now + Policy.validity
      BY <1>3 DEF Modified
    <3> HIDE DEF d, q
    <3>2. (d.verdict # "REJECTED") = TRUE /\ IsActionableAt(d, now) = TRUE
      BY <1>0, <3>1 DEF IsActionableAt
    <3> QED
      BY <3>1, <3>2, Zenon DEF AsVerdict
  <2>2. ~killed
    BY <1>3, SwitchStops
  <2>3. /\ q \in [DOMAIN Legs(i) -> Nat] /\ \A n \in DOMAIN Legs(i) : q[n] <= Asked(i, n)
        /\ \E n \in DOMAIN Legs(i) : q[n] > 0
    BY <1>3, LegsCutDown
  <2> HIDE DEF q
  <2> QED
    BY <2>1, <2>2, <2>3, SomeOfIt
<1> HIDE DEF d
<1> QED
  BY <1>1, <1>2, <1>3, DecisionIs DEF d
-----------------------------------------------------------------------------
LEMMA RiskStep == PaperInv /\ [RiskNext]_riskVars => [Next]_vars
<1> SUFFICES ASSUME PaperInv, [RiskNext]_riskVars PROVE [Next]_vars
  OBVIOUS
<1>1. ASSUME NEW i \in Intents, SubmitJudged(i)
      PROVE  Next
  <2>1. PICK m \in MarketStates :
           LET d == AsVerdict(RiskDecision(i, RiskState(m))) IN NotAuthorized(i, d) \/ Authorized(i, d)
    BY <1>1 DEF SubmitJudged
  <2>2. AsVerdict(RiskDecision(i, RiskState(m))) \in Decisions(i)
    BY JudgedAsDecided
  <2>3. SubmitNotAuthorized(i) \/ SubmitAuthorized(i)
    BY <2>1, <2>2 DEF SubmitNotAuthorized, SubmitAuthorized
  <2> QED
    BY <2>3 DEF Next, Submit
<1>2. CASE UNCHANGED riskVars
  BY <1>2 DEF riskVars
<1>3. CASE RiskNext
  BY <1>1, <1>3 DEF RiskNext, Next, Submit
<1> QED
  BY <1>2, <1>3

LEMMA RiskAlways == RiskSpec => []PaperInv /\ [][Next]_vars
<1>1. RiskInit => PaperInv
  BY PaperInitially DEF RiskInit
<1>2. PaperInv /\ [RiskNext]_riskVars => PaperInv'
  BY RiskStep, PaperStep
<1> QED
  BY <1>1, <1>2, RiskStep, PTL DEF RiskSpec

(* Behind the real engine the runtime does only what PaperRuntime allows   *)
(* with some decision of a gate: RiskEngine.evaluate never approves more   *)
(* of a leg than was asked, never approves nothing, and never approves     *)
(* under the kill switch; so all that holds of PaperRuntime holds here.    *)
THEOREM EngineIsAGate == RiskSpec => RefinesRuntime
<1>1. RiskInit => Init
  BY DEF RiskInit
<1> QED
  BY <1>1, RiskAlways, PTL DEF RiskSpec, RefinesRuntime, Spec
-----------------------------------------------------------------------------
PositionLimit == Policy.limits.max_position_per_instrument

LEMMA NotBreached ==
    ASSUME PaperInv, NEW m, NEW i \in Intents, PositionLimit \in Nat,
           "max_position_per_instrument" \notin Breaches(i, m)
    PROVE  WorstInstrument(IntentOf[i], RiskState(m)) <= PositionLimit
<1> DEFINE S == RiskState(m)
<1> DEFINE x == IntentOf[i]
<1> DEFINE E == EvaluateAll(x, S, Policy.limits)
<1> DEFINE worst == WorstInstrument(x, S)
<1>1. worst \in Int
  BY WorstInstrumentIs
<1>2. /\ "max_position_per_instrument" \in DOMAIN E
      /\ E["max_position_per_instrument"]
           = PositionChecks(x, S, Policy.limits)["max_position_per_instrument"]
  BY ChecksAre
<1>3. PositionChecks(x, S, Policy.limits)["max_position_per_instrument"]
        = Check(PositionLimit, {}, Compare(worst, PositionLimit))
  BY DEF PositionChecks, PositionLimit
<1>4. PositionLimit # None
  BY NoneAssumption
<1>5. E["max_position_per_instrument"] = Compare(worst, PositionLimit)
  BY <1>2, <1>3, <1>4 DEF Check
<1>6. E["max_position_per_instrument"].status # "BREACHED"
  BY <1>2 DEF Breaches, WithStatus, Evaluations
<1> HIDE DEF worst, E
<1>7. ~(worst > PositionLimit)
  BY <1>5, <1>6 DEF Compare
<1> QED
  BY <1>1, <1>7 DEF worst

LEMMA OnTheWay ==
    ASSUME NEW limit \in Nat, NEW p \in Int, AbsInt(p) <= limit, NEW s \in {1, -1},
           NEW asked \in Nat, NEW q \in 0 .. asked, NEW k \in 0 .. q,
           \/ AbsInt(p + s * asked) <= limit
           \/ q <= asked - (AbsInt(p + s * asked) - limit)
    PROVE  AbsInt(p + s * k) <= limit
<1>1. CASE s = 1
  BY <1>1 DEF AbsInt
<1>2. CASE s = -1
  BY <1>2 DEF AbsInt
<1> QED
  BY <1>1, <1>2

(* What is approved of a leg keeps its position within the limit.          *)
LEMMA ApprovedWithin ==
    ASSUME PaperInv, NEW m, NEW i \in Intents, PositionLimit \in Nat,
           AsVerdict(RiskDecision(i, RiskState(m))).approved,
           RiskDecision(i, RiskState(m)).verdict = "MODIFIED" => Len(Legs(i)) = 1,
           NEW n \in DOMAIN Legs(i)
    PROVE  LET q == RiskDecision(i, RiskState(m)).quantity[n]
           IN  /\ q \in 0 .. Asked(i, n)
               /\ \/ Resulting(i, n) <= PositionLimit
                  \/ q <= Asked(i, n) - (Resulting(i, n) - PositionLimit)
<1> DEFINE d == RiskDecision(i, RiskState(m))
<1> DEFINE worst == WorstInstrument(IntentOf[i], RiskState(m))
<1>0. /\ Asked(i, n) \in Nat \ {0} /\ worst \in Int /\ Resulting(i, n) <= worst
      /\ Resulting(i, n) \in Int
  <2>1. Quantity(book, Instrument(i, n)) \in Int
    BY LegIs, StateIs
  <2>2. Sign(Legs(i)[n].side) * Asked(i, n) \in Int
    BY LegIs
  <2>3. Resulting(i, n) \in Int
    BY <2>1, <2>2 DEF Resulting, AbsInt
  <2> QED
    BY <2>3, LegIs, WorstInstrumentIs
<1>1. d # Rejected(IntentOf[i], now)
  <2>1. Rejected(IntentOf[i], now).verdict = "REJECTED"
    BY DEF Rejected
  <2>2. AsVerdict(d).approved = (d.verdict # "REJECTED")
    BY DEF AsVerdict
  <2>3. d.verdict # "REJECTED"
    BY <2>2, Zenon
  <2> QED
    BY <2>1, <2>3
<1>2. ASSUME "max_position_per_instrument" \notin Breaches(i, m)
      PROVE  Resulting(i, n) <= PositionLimit
  BY <1>0, <1>2, NotBreached
<1>3. CASE Breaches(i, m) = {} /\ d = Approved(i)
  <2>1. d.quantity = Quantities(IntentOf[i])
    BY <1>3 DEF Approved
  <2>2. d.quantity[n] = Asked(i, n)
    BY <2>1, TotalAsked
  <2> QED
    BY <1>0, <1>2, <1>3, <2>2
<1>4. ASSUME NEW r \in Nat \ {0}, r < TotalQuantity(IntentOf[i]), Breaches(i, m) \subseteq Resizable,
             \A id \in Breaches(i, m) : r <= TotalQuantity(IntentOf[i]) - Evaluations(i, m)[id].excess,
             d = Modified(i, r)
      PROVE  LET q == d.quantity[n]
             IN  /\ q \in 0 .. Asked(i, n)
                 /\ \/ Resulting(i, n) <= PositionLimit
                    \/ q <= Asked(i, n) - (Resulting(i, n) - PositionLimit)
  <2>1. d.verdict = "MODIFIED" /\ d.quantity = ScaleLegs(IntentOf[i], r)
    BY <1>4 DEF Modified
  <2>2. Len(Legs(i)) = 1 /\ n = 1
    BY <2>1, LegsAre
  <2>3. d.quantity[n] = r /\ TotalQuantity(IntentOf[i]) = Asked(i, n)
    BY <1>4, <2>1, <2>2, LegsCutDown
  <2> HIDE DEF d
  <2>4. d.quantity[n] \in 0 .. Asked(i, n)
    BY <1>0, <1>4, <2>3
  <2>5. CASE "max_position_per_instrument" \notin Breaches(i, m)
    BY <1>2, <2>4, <2>5
  <2>6. CASE "max_position_per_instrument" \in Breaches(i, m)
    <3>1. Evaluations(i, m)["max_position_per_instrument"].excess = worst - PositionLimit
      <4>1. "max_position_per_instrument" \in Resizable
        BY DEF Resizable
      <4>2. EvaluateAll(IntentOf[i], RiskState(m), Policy.limits)["max_position_per_instrument"].status
              = "BREACHED"
        BY <2>6 DEF Breaches, WithStatus, Evaluations
      <4> QED
        BY <4>1, <4>2, SizeBreached DEF Evaluations, PositionLimit
    <3>2. worst = Resulting(i, n)
      BY <2>2, WorstInstrumentIs
    <3> HIDE DEF worst
    <3>3. r <= Asked(i, n) - (Resulting(i, n) - PositionLimit)
      BY <1>4, <2>3, <2>6, <3>1, <3>2
    <3> QED
      BY <2>3, <2>4, <3>3
  <2> QED
    BY <2>5, <2>6
<1> HIDE DEF d
<1> QED
  BY <1>1, <1>3, <1>4, DecisionIs DEF d

LEMMA PositionsAfter ==
    ASSUME PaperInv, NEW m, NEW i \in Intents, PositionLimit \in Nat,
           Authorized(i, AsVerdict(RiskDecision(i, RiskState(m)))), OneLegEach(i),
           RiskDecision(i, RiskState(m)).verdict = "MODIFIED" => Len(Legs(i)) = 1,
           NEW x \in Instruments, AbsInt(Quantity(book, x)) <= PositionLimit
    PROVE  AbsInt(Quantity(book', x)) <= PositionLimit
<1> DEFINE d == AsVerdict(RiskDecision(i, RiskState(m)))
<1> DEFINE q == RiskDecision(i, RiskState(m)).quantity
<1>1. d.quantity \in [DOMAIN Legs(i) -> Nat] /\ d.approved /\ d.quantity = q
  <2>1. d \in Decisions(i)
    BY JudgedAsDecided
  <2>2. d.quantity = q
    BY DEF AsVerdict
  <2>3. d.approved
    BY DEF Authorized
  <2> HIDE DEF d
  <2> QED
    BY <2>1, <2>2, <2>3, QuantitiesDecided
<1>2. Moves(i, d.quantity, Len(Legs(i)), book')
  BY <1>1, Submitted
<1>3. DOMAIN Legs(i) = 1 .. Len(Legs(i))
  BY LegsAre
<1>4. CASE \A n \in DOMAIN Legs(i) : Instrument(i, n) # x
  <2>1. Quantity(book', x) = Quantity(book, x)
    BY <1>2, <1>3, <1>4 DEF Moves
  <2> QED
    BY <2>1
<1>5. ASSUME NEW n \in DOMAIN Legs(i), Instrument(i, n) = x
      PROVE  AbsInt(Quantity(book', x)) <= PositionLimit
  <2>1. PICK k \in 0 .. q[n] :
           Quantity(book', x) = Quantity(book, x) + Sign(Legs(i)[n].side) * k
    BY <1>1, <1>2, <1>3, <1>5 DEF Moves
  <2>2. /\ q[n] \in 0 .. Asked(i, n)
        /\ \/ Resulting(i, n) <= PositionLimit
           \/ q[n] <= Asked(i, n) - (Resulting(i, n) - PositionLimit)
    BY <1>1, ApprovedWithin
  <2>3. Resulting(i, n) = AbsInt(Quantity(book, x) + Sign(Legs(i)[n].side) * Asked(i, n))
    BY <1>5 DEF Resulting
  <2>4. Quantity(book, x) \in Int /\ Sign(Legs(i)[n].side) \in {1, -1} /\ Asked(i, n) \in Nat
    BY LegIs, StateIs
  <2> HIDE DEF q
  <2> QED
    BY <2>1, <2>2, <2>3, <2>4, OnTheWay
<1> QED
  BY <1>4, <1>5

(* An intent is judged once: its key is stored with the decision.          *)
RiskInv ==
    /\ PaperInv
    /\ \A i \in Evaluated : i \in Intents /\ IntentOf[i].key \in seen
    /\ PositionsStayWithinPolicy

Lawful == \A i \in Evaluated : OneLegEach(i) /\ (CutDown(i) => Len(Legs(i)) = 1)

LEMMA RiskInitially == RiskInit => RiskInv
<1> SUFFICES ASSUME RiskInit PROVE RiskInv
  OBVIOUS
<1>1. PaperInv /\ audit = <<>> /\ book = EmptyBook(OpeningCash)
  BY PaperInitially DEF RiskInit, Init
<1>2. Evaluated = {}
  BY <1>1 DEF Evaluated
<1>3. \A x \in Instruments : book.positions[x].quantity = 0
  BY <1>1 DEF EmptyBook, Flat
<1>4. PositionsStayWithinPolicy
  BY <1>3 DEF PositionsStayWithinPolicy, WithinPosition, AbsInt
<1> QED
  BY <1>1, <1>2, <1>4 DEF RiskInv

LEMMA Judging ==
    ASSUME RiskInv, NEW i \in Intents, SubmitJudged(i)
    PROVE  /\ \A j \in Evaluated' : j \in Intents /\ IntentOf[j].key \in seen'
           /\ PositionsStayWithinPolicy'
<1>1. PICK m \in MarketStates :
         /\ \/ NotAuthorized(i, AsVerdict(RiskDecision(i, RiskState(m))))
            \/ Authorized(i, AsVerdict(RiskDecision(i, RiskState(m))))
         /\ audit' = [j \in DOMAIN audit \cup {i} |->
                IF j = i THEN [at |-> now, state |-> RiskState(m), decision |-> RiskDecision(i, RiskState(m))]
                ELSE audit[j]]
  BY DEF SubmitJudged
<1> DEFINE decision == RiskDecision(i, RiskState(m))
<1> DEFINE d == AsVerdict(decision)
<1>2. Judged(i, d)
  BY <1>1 DEF NotAuthorized, Authorized
<1>3. IntentOf[i].key \notin seen /\ seen' = seen \cup {i, IntentOf[i].key}
  BY <1>2 DEF Judged, Known, StoreIntent
<1>4. i \notin Evaluated /\ PaperInv
  BY <1>3 DEF RiskInv
<1>5. /\ Evaluated' = Evaluated \cup {i}
      /\ \A j \in Evaluated : CutDown(j)' = CutDown(j)
      /\ audit'[i].decision = decision
  <2> HIDE DEF decision
  <2>1. DOMAIN audit' = DOMAIN audit \cup {i} /\ \A j \in DOMAIN audit : audit'[j] = audit[j]
    BY <1>1, <1>4 DEF Evaluated
  <2>2. audit'[i].decision = decision
    BY <1>1 DEF decision
  <2> QED
    BY <2>1, <2>2 DEF Evaluated, CutDown
<1>6. \A j \in Evaluated' : j \in Intents /\ IntentOf[j].key \in seen'
  BY <1>3, <1>5 DEF RiskInv
<1>7. ASSUME Lawful'
      PROVE  /\ Lawful /\ OneLegEach(i)
             /\ decision.verdict = "MODIFIED" => Len(Legs(i)) = 1
  <2> HIDE DEF decision
  <2>1. \A j \in Evaluated' : OneLegEach(j) /\ (CutDown(j)' => Len(Legs(j)) = 1)
    BY <1>7 DEF Lawful, OneLegEach
  <2>2. \A j \in Evaluated : OneLegEach(j) /\ (CutDown(j) => Len(Legs(j)) = 1)
    BY <1>5, <2>1
  <2>3. OneLegEach(i) /\ (audit'[i].decision.verdict = "MODIFIED" => Len(Legs(i)) = 1)
    BY <1>5, <2>1 DEF CutDown
  <2> QED
    BY <1>5, <2>2, <2>3 DEF Lawful
<1>8. ASSUME Lawful', PositionLimit \in Nat, NEW x \in Instruments
      PROVE  AbsInt(Quantity(book', x)) <= PositionLimit
  <2>1. AbsInt(Quantity(book, x)) <= PositionLimit
    BY <1>7, <1>8 DEF RiskInv, PositionsStayWithinPolicy, Lawful, WithinPosition, PositionLimit, Quantity
  <2>2. CASE NotAuthorized(i, d)
    BY <2>1, <2>2 DEF NotAuthorized
  <2>3. CASE Authorized(i, d)
    BY <1>4, <1>7, <1>8, <2>1, <2>3, PositionsAfter
  <2> QED
    BY <1>1, <2>2, <2>3
<1>9. PositionsStayWithinPolicy'
  BY <1>8 DEF PositionsStayWithinPolicy, Lawful, WithinPosition, PositionLimit, Quantity
<1> QED
  BY <1>6, <1>9

(* Over any sequence of intents, partial fills and cancels no position     *)
(* passes the limit of an account's policy, which the checks hold against  *)
(* the position an intent would leave and resizing against the excess; as  *)
(* long as no intent has two legs on one instrument, which the checks look *)
(* at one by one, and none of several legs is cut down, which is done pro  *)
(* rata.                                                                   *)
THEOREM PositionsStayWithin == RiskSpec => []PositionsStayWithinPolicy
<1>1. RiskInit => RiskInv
  BY RiskInitially
<1>2. RiskInv /\ [RiskNext]_riskVars => RiskInv'
  <2> SUFFICES ASSUME RiskInv, [RiskNext]_riskVars PROVE RiskInv'
    OBVIOUS
  <2>1. PaperInv'
    BY RiskStep, PaperStep DEF RiskInv
  <2>2. ASSUME UNCHANGED <<audit, book>>, seen \subseteq seen'
        PROVE  RiskInv'
    BY <2>1, <2>2 DEF RiskInv, Evaluated, PositionsStayWithinPolicy, WithinPosition, CutDown, OneLegEach
  <2>3. ASSUME NEW i \in Intents, SubmitJudged(i)
        PROVE  RiskInv'
    BY <2>1, <2>3, Judging DEF RiskInv
  <2>4. ASSUME NEW i \in Intents, SubmitDuplicate(i) \/ SubmitRefused(i), UNCHANGED audit
        PROVE  RiskInv'
    BY <2>2, <2>4 DEF SubmitDuplicate, SubmitRefused, StoreIntent, vars
  <2>5. ASSUME NEW O, NEW state, End(O, state), UNCHANGED audit
        PROVE  RiskInv'
    BY <2>2, <2>5 DEF End
  <2>6. CASE /\ \/ \E o \in OrderIds : Cancel(o)
                \/ ExpireStaleOrders
             /\ UNCHANGED audit
    BY <2>5, <2>6, Zenon DEF Cancel, ExpireStaleOrders
  <2>7. CASE /\ \/ \E status \in DOMAIN AccountTransitions : SetStatus(status)
                \/ SetKillSwitch
                \/ AdvanceTime
             /\ UNCHANGED audit
    BY <2>2, <2>7 DEF SetStatus, SetKillSwitch, AdvanceTime
  <2>8. CASE UNCHANGED riskVars
    BY <2>2, <2>8 DEF riskVars, vars
  <2> QED
    BY <2>3, <2>4, <2>6, <2>7, <2>8 DEF RiskNext
<1>3. RiskInv => PositionsStayWithinPolicy
  BY DEF RiskInv
<1> QED
  BY <1>1, <1>2, <1>3, PTL DEF RiskSpec
-----------------------------------------------------------------------------
(* A consumer with a watermark of its own implements OrderedOnce: three    *)
(* records of one thing never part, what is claimed of an aggregate, what  *)
(* its watermark says, and what was applied.  Then an event that is        *)
(* neither claimed nor behind a gap is the next one.                       *)
UpTo(n) == [k \in 1 .. n |-> k]

EmittedOK ==
    /\ issued \in [Aggregates -> 0 .. MaxEvents]
    /\ outbox \in SUBSET DomainEvents

RecordsAgree ==
    /\ watermark \in [Aggregates -> 0 .. MaxEvents]
    /\ log = [s \in Subscribers |-> [a \in Aggregates |-> UpTo(watermark[a])]]
    /\ \A s \in Subscribers, e \in DomainEvents :
          <<s, e>> \in claims <=> e.sequence <= watermark[e.aggregate]

DeliveryInv == EmittedOK /\ RecordsAgree

(* The first n numbers and the next are the first n + 1.                   *)
LEMMA UpToGrows ==
    ASSUME NEW n \in Nat
    PROVE  /\ UpTo(n) \in Seq(Nat) /\ Len(UpTo(n)) = n
           /\ Append(UpTo(n), n + 1) = UpTo(n + 1)
<1>1. UpTo(n) \in Seq(Nat) /\ Len(UpTo(n)) = n
  BY DEF UpTo
<1>2. UpTo(n + 1) \in Seq(Nat) /\ Len(UpTo(n + 1)) = n + 1
  BY DEF UpTo
<1>3. \A k \in 1 .. n + 1 : Append(UpTo(n), n + 1)[k] = UpTo(n + 1)[k]
  BY <1>1 DEF UpTo
<1> QED
  BY <1>1, <1>2, <1>3

(* What the mapping makes of a log that is counted up to its watermarks:   *)
(* the watermarks.                                                         *)
AppliedOf(sequences) ==
    [s \in Subscribers |-> [a \in Aggregates |->
        IF sequences[s][a] = [n \in 1 .. Len(sequences[s][a]) |-> n] THEN Len(sequences[s][a]) ELSE 0]]

LEMMA AppliedIsWatermark ==
    ASSUME NEW marks \in [Aggregates -> 0 .. MaxEvents], NEW sequences,
           sequences = [s \in Subscribers |-> [a \in Aggregates |-> UpTo(marks[a])]]
    PROVE  AppliedOf(sequences) = [s \in Subscribers |-> marks]
<1>1. ASSUME NEW s \in Subscribers, NEW a \in Aggregates
      PROVE  /\ sequences[s][a] = [n \in 1 .. Len(sequences[s][a]) |-> n]
             /\ Len(sequences[s][a]) = marks[a]
  <2>1. marks[a] \in Nat /\ sequences[s][a] = UpTo(marks[a])
    BY DeliveryAssumption
  <2> QED
    BY <2>1, UpToGrows DEF UpTo
<1> QED
  BY <1>1 DEF AppliedOf

(* The event that is applied is the one after the watermark.               *)
LEMMA AppliedInTurn ==
    ASSUME DeliveryInv, NEW s \in Subscribers, NEW e \in outbox, ApplyOrdered(s, e)
    PROVE  /\ e \in DomainEvents
           /\ e.sequence = watermark[e.aggregate] + 1
           /\ watermark' = [watermark EXCEPT ![e.aggregate] = @ + 1]
<1>1. e \in DomainEvents
  BY DEF DeliveryInv, EmittedOK
<1>2. e.aggregate \in Aggregates /\ e.sequence \in 1 .. MaxEvents /\ watermark[e.aggregate] \in 0 .. MaxEvents
  BY <1>1 DEF DomainEvents, DeliveryInv, RecordsAgree
<1>3. ~(e.sequence > watermark[e.aggregate] + 1) /\ ~(e.sequence <= watermark[e.aggregate])
  BY <1>1 DEF ApplyOrdered, SequenceGap, Claim, DeliveryInv, RecordsAgree
<1>4. e.sequence = watermark[e.aggregate] + 1
  BY <1>2, <1>3, DeliveryAssumption
<1>5. watermark' = [watermark EXCEPT ![e.aggregate] = IF e.sequence > @ THEN e.sequence ELSE @]
  BY DEF ApplyOrdered, Record
<1>6. e.sequence > watermark[e.aggregate]
  BY <1>2, <1>3, DeliveryAssumption
<1>7. watermark' = [watermark EXCEPT ![e.aggregate] = watermark[e.aggregate] + 1]
  BY <1>4, <1>5, <1>6
<1> QED
  BY <1>1, <1>4, <1>7

LEMMA ApplyKeeps ==
    ASSUME DeliveryInv, NEW c, Subscribers = {c}, NEW s \in Subscribers, NEW e \in outbox, ApplyOrdered(s, e)
    PROVE  DeliveryInv'
<1> DEFINE a == e.aggregate
<1>1. /\ e \in DomainEvents
      /\ e.sequence = watermark[a] + 1
      /\ watermark' = [watermark EXCEPT ![a] = @ + 1]
  BY AppliedInTurn
<1>2. a \in Aggregates /\ e.sequence \in 1 .. MaxEvents
  BY <1>1 DEF DomainEvents
<1>3. watermark \in [Aggregates -> 0 .. MaxEvents]
  BY DEF DeliveryInv, RecordsAgree
<1>4. EmittedOK'
  BY DEF DeliveryInv, EmittedOK, ApplyOrdered
<1>5. watermark' \in [Aggregates -> 0 .. MaxEvents]
  BY <1>1, <1>2, <1>3, DeliveryAssumption
<1>6. log' = [t \in Subscribers |-> [b \in Aggregates |-> UpTo(watermark'[b])]]
  <2>1. log' = [log EXCEPT ![s] = [log[s] EXCEPT ![a] = Append(log[s][a], e.sequence)]]
    BY DEF ApplyOrdered
  <2>2. log = [t \in Subscribers |-> [b \in Aggregates |-> UpTo(watermark[b])]]
    BY DEF DeliveryInv, RecordsAgree
  <2>3. Append(UpTo(watermark[a]), e.sequence) = UpTo(watermark'[a])
    <3>1. watermark[a] \in Nat /\ watermark'[a] = watermark[a] + 1
      BY <1>1, <1>2, <1>3, DeliveryAssumption
    <3> QED
      BY <1>1, <3>1, UpToGrows
  <2>4. [log[s] EXCEPT ![a] = Append(log[s][a], e.sequence)] = [b \in Aggregates |-> UpTo(watermark'[b])]
    <3>1. log[s] = [b \in Aggregates |-> UpTo(watermark[b])]
      BY <2>2
    <3>2. \A b \in Aggregates : b # a => watermark'[b] = watermark[b]
      BY <1>1, <1>3
    <3> QED
      BY <1>2, <2>3, <3>1, <3>2
  <2> QED
    BY <2>1, <2>2, <2>4
<1>7. ASSUME NEW t \in Subscribers, NEW d \in DomainEvents
      PROVE  <<t, d>> \in claims' <=> d.sequence <= watermark'[d.aggregate]
  <2>1. t = s
    OBVIOUS
  <2>2. <<t, d>> \in claims' <=> <<t, d>> \in claims \/ d = e
    BY <2>1 DEF ApplyOrdered
  <2>3. <<t, d>> \in claims <=> d.sequence <= watermark[d.aggregate]
    BY DEF DeliveryInv, RecordsAgree
  <2>4. d.aggregate \in Aggregates /\ d.sequence \in 1 .. MaxEvents
    BY DEF DomainEvents
  <2>5. d = e <=> d.aggregate = a /\ d.sequence = e.sequence
    BY <1>1 DEF DomainEvents
  <2>6. CASE d.aggregate = a
    BY <2>2, <2>3, <2>4, <2>5, <2>6, <1>1, <1>2, <1>3, DeliveryAssumption
  <2>7. CASE d.aggregate # a
    BY <2>2, <2>3, <2>4, <2>5, <2>7, <1>1, <1>3
  <2> QED
    BY <2>6, <2>7
<1> QED
  BY <1>4, <1>5, <1>6, <1>7 DEF DeliveryInv, RecordsAgree

LEMMA EmitKeeps == ASSUME DeliveryInv, NEW a \in Aggregates, Emit(a) PROVE DeliveryInv'
<1>1. issued[a] \in 0 .. MaxEvents /\ issued[a] < MaxEvents
  BY DEF DeliveryInv, EmittedOK, Emit
<1>2. issued[a] + 1 \in 1 .. MaxEvents
  BY <1>1, DeliveryAssumption
<1>3. EmittedOK'
  BY <1>2, DeliveryAssumption DEF DeliveryInv, EmittedOK, Emit, DomainEvents
<1> QED
  BY <1>3 DEF DeliveryInv, RecordsAgree, Emit
-----------------------------------------------------------------------------
(* RefinesPromise, for a consumer with its own watermark.                  *)
THEOREM DeliveryKeepsPromise ==
    ASSUME NEW c, Subscribers = {c}
    PROVE  DeliverySpec => RefinesPromise
<1>1. DeliveryInit => DeliveryInv
  <2> SUFFICES ASSUME DeliveryInit PROVE DeliveryInv
    OBVIOUS
  <2>1. EmittedOK
    BY DeliveryAssumption DEF DeliveryInit, EmittedOK
  <2>2. UpTo(0) = <<>>
    BY DEF UpTo
  <2>3. log = [s \in Subscribers |-> [a \in Aggregates |-> UpTo(watermark[a])]]
    BY <2>2 DEF DeliveryInit
  <2>4. watermark \in [Aggregates -> 0 .. MaxEvents]
    BY DeliveryAssumption DEF DeliveryInit
  <2>5. \A s \in Subscribers, e \in DomainEvents :
            <<s, e>> \in claims <=> e.sequence <= watermark[e.aggregate]
    BY DeliveryAssumption DEF DeliveryInit, DomainEvents
  <2> QED
    BY <2>1, <2>3, <2>4, <2>5 DEF DeliveryInv, RecordsAgree
<1>2. DeliveryInv /\ [DeliveryNext]_deliveryVars => DeliveryInv'
  <2> SUFFICES ASSUME DeliveryInv, [DeliveryNext]_deliveryVars PROVE DeliveryInv'
    OBVIOUS
  <2>1. ASSUME NEW a \in Aggregates, Emit(a) PROVE DeliveryInv'
    BY <2>1, EmitKeeps
  <2>2. ASSUME NEW s \in Subscribers, NEW e \in outbox, ApplyOrdered(s, e) PROVE DeliveryInv'
    BY <2>2, ApplyKeeps
  <2>3. CASE UNCHANGED deliveryVars
    BY <2>3 DEF DeliveryInv, EmittedOK, RecordsAgree, deliveryVars
  <2> QED
    BY <2>1, <2>2, <2>3 DEF DeliveryNext, DeliverInVain
<1>3. DeliveryInit => Promise!Init
  BY DEF DeliveryInit, Promise!Init
<1>4. DeliveryInv /\ DeliveryInv' /\ [DeliveryNext]_deliveryVars => [Promise!Next]_(AppliedOf(log))
  <2> SUFFICES ASSUME DeliveryInv, DeliveryInv', [DeliveryNext]_deliveryVars
               PROVE  [Promise!Next]_(AppliedOf(log))
    OBVIOUS
  <2>1. AppliedOf(log) = [s \in Subscribers |-> watermark]
    BY AppliedIsWatermark DEF DeliveryInv, RecordsAgree
  <2>2. AppliedOf(log') = [s \in Subscribers |-> watermark']
    BY AppliedIsWatermark DEF DeliveryInv, RecordsAgree
  <2>3. ASSUME NEW s \in Subscribers, NEW e \in outbox, ApplyOrdered(s, e)
        PROVE  Promise!ApplyNext(s, e.aggregate) /\ e.aggregate \in Aggregates
    <3>1. /\ e \in DomainEvents
          /\ e.sequence = watermark[e.aggregate] + 1
          /\ watermark' = [watermark EXCEPT ![e.aggregate] = @ + 1]
      BY <2>3, AppliedInTurn
    <3>2. /\ e.aggregate \in Aggregates
          /\ e.sequence \in 1 .. MaxEvents
          /\ watermark \in [Aggregates -> 0 .. MaxEvents]
      BY <3>1 DEF DomainEvents, DeliveryInv, RecordsAgree
    <3>3. watermark[e.aggregate] < MaxEvents
      BY <3>1, <3>2, DeliveryAssumption
    <3>4. AppliedOf(log)[s][e.aggregate] < MaxEvents
      BY <2>1, <3>3
    <3>5. AppliedOf(log') = [AppliedOf(log) EXCEPT ![s] = [AppliedOf(log)[s] EXCEPT ![e.aggregate] = @ + 1]]
      BY <2>1, <2>2, <3>1
    <3> QED
      BY <3>2, <3>4, <3>5 DEF Promise!ApplyNext, AppliedOf
  <2>4. CASE UNCHANGED log
    BY <2>4
  <2>5. (\E a \in Aggregates : Emit(a)) \/ (\E s \in Subscribers, e \in outbox : DeliverInVain(s, e))
           \/ UNCHANGED deliveryVars => UNCHANGED log
    BY DEF Emit, DeliverInVain, deliveryVars
  <2> QED
    BY <2>3, <2>4, <2>5 DEF DeliveryNext, Promise!Next
<1> QED
  BY <1>1, <1>2, <1>3, <1>4, PTL DEF DeliverySpec, RefinesPromise, Promise!Spec, AppliedOf
=============================================================================
