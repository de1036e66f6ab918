---------------------------- MODULE PortfolioBook ----------------------------
(***************************************************************************)
(* The portfolio over the account's ledger: the position book folded from  *)
(* batches of fills (portfolio/positions.py), its valuation and equity     *)
(* (valuation.py, economics.py, snapshot.py), the reconciliation of        *)
(* positions with the broker's (reconciliation.py), and attribution        *)
(* (attribution.py).  The caller holds the positions and applies the       *)
(* corrections a run returns.                                              *)
(***************************************************************************)
EXTENDS Ledger

CONSTANTS
    MaxTrades,          \* bound: fills executed
    TradeLots, TradePrices,     \* the quantities and the prices of a fill
    MaxRuns,            \* bound: reconciliation runs
    Portfolio,          \* the one instrument of this portfolio
    Owners, Totals,     \* of an attributed position
    KnownInputs,        \* the sets of inputs that may be known of one
    MaxSlices           \* bound: attributions rolled up together

ASSUME PortfolioAssumption ==
    /\ IsFiniteSet(Instruments) /\ Portfolio \in Instruments
    /\ MaxTrades \in Nat /\ MaxSlices \in Nat
    /\ TradeLots \subseteq Nat /\ TradePrices \subseteq Nat
    /\ Totals \subseteq Int

VARIABLES
    executed,   \* fills in the order they were executed
    folded,     \* PositionBook: the ledger its fills were folded into
    listed,     \* the positions the caller holds: quantity, or "none"
    broker,     \* what the broker holds
    corrections,        \* PositionReconciler._applied: observed quantities
    settled,    \* the last run left nothing that needs attention
    runs,
    slices      \* attributions of positions, asked to be rolled up

portfolioVars == <<executed, folded, listed, broker, corrections, settled, runs, slices>>

PortfolioInit ==
    /\ executed = <<>> /\ folded = EmptyBook(0) /\ slices = <<>>
    /\ listed = {} /\ broker = {} /\ corrections = {} /\ settled = FALSE /\ runs = 0

Executed == {executed[n] : n \in DOMAIN executed}

(* A fill; its intent stands for the content hash that fills are sorted    *)
(* by, so a later fill may have the smaller one.                           *)
Trade ==
    /\ Len(executed) < MaxTrades
    /\ \E key \in (1 .. MaxTrades) \ {f.intent : f \in Executed}, side \in Sides,
          quantity \in TradeLots, price \in TradePrices :
          executed' = Append(executed, [intent |-> key, instrument |-> Portfolio, side |-> side,
                                        quantity |-> quantity, price |-> price, costs |-> 1])
    /\ UNCHANGED <<folded, listed, broker, corrections, settled, runs, slices>>

InKeyOrder(batch) ==
    {order \in [1 .. Cardinality(batch) -> batch] :
        \A i, j \in DOMAIN order : i < j => order[i].intent < order[j].intent}

(* apply_all: a batch of reported fills, in the order of their keys; one   *)
(* that was reported before moves nothing.                                 *)
ApplyAll ==
    /\ \E batch \in SUBSET Executed :
          /\ batch # {}
          /\ \E order \in InKeyOrder(batch) : folded' = FoldFills(folded, order)
    /\ UNCHANGED <<executed, listed, broker, corrections, settled, runs, slices>>

(* A position is valued from the state: an unreliable one is refused, and  *)
(* no price, a stale one, or no economics leaves it unvalued and out of    *)
(* the equity.                                                             *)
IsValued(state) == state.priced /\ ~state.stale /\ state.economics

SnapshotEquity(book, state, mark) ==
    book.cash + (IF IsValued(state) THEN mark * book.positions[Portfolio].quantity ELSE 0)

States == [priced : BOOLEAN, stale : BOOLEAN, economics : BOOLEAN]
-----------------------------------------------------------------------------
(* How a run classifies one instrument: each side has a quantity or lists  *)
(* none.                                                                   *)
Kind(ours, theirs) ==
    CASE ours = {} -> "MISSING_LOCALLY"
      [] theirs = {} -> "MISSING_AT_PROVIDER"
      [] OTHER -> LET a == CHOOSE x \in ours : TRUE
                      b == CHOOSE x \in theirs : TRUE
                  IN  IF a = b THEN "MATCH" ELSE IF a * b < 0 THEN "SIDE_MISMATCH" ELSE "QUANTITY_MISMATCH"

(* What a run does about it; it may be asked to report only.               *)
Resolution(kind, apply) ==
    CASE kind = "MATCH" -> "NONE"
      [] kind = "QUANTITY_MISMATCH" /\ apply -> "POSITION_CORRECTED"
      [] OTHER -> "RECORDED_ONLY"

NeedsAttention(resolution) == resolution = "RECORDED_ONLY"

(* Only a difference in size is corrected, and a quantity once corrected   *)
(* to is not corrected to again; the run reports it corrected all the same.*)
ReconcilePositions(apply) ==
    /\ runs < MaxRuns
    /\ listed \cup broker # {}
    /\ runs' = runs + 1
    /\ LET kind == Kind(listed, broker)
           corrects == Resolution(kind, apply) = "POSITION_CORRECTED" /\ broker \cap corrections = {}
       IN  /\ listed' = IF corrects THEN broker ELSE listed
           /\ corrections' = IF corrects THEN corrections \cup broker ELSE corrections
           /\ settled' = ~NeedsAttention(Resolution(kind, apply))
    /\ UNCHANGED <<executed, folded, broker, slices>>

(* Either side moves: fills the other has not seen yet, or another system. *)
PositionsMove ==
    /\ runs < MaxRuns
    /\ \E q \in -2 .. 2 : \/ listed' = {q} /\ UNCHANGED broker
                          \/ broker' = {q} /\ UNCHANGED listed
    /\ settled' = FALSE
    /\ UNCHANGED <<executed, folded, corrections, runs, slices>>
-----------------------------------------------------------------------------
Components == {"DIRECTION", "CONVEXITY", "VOLATILITY", "TIME_DECAY", "EXECUTION", "SLIPPAGE", "COSTS"}

(* What a component is computed from.                                      *)
Inputs ==
    [DIRECTION |-> {"delta", "move"}, CONVEXITY |-> {"gamma", "move"}, VOLATILITY |-> {"vega", "vol"},
     TIME_DECAY |-> {"theta", "days"}, EXECUTION |-> {"execution"}, SLIPPAGE |-> {"slippage"}, COSTS |-> {}]

(* One without its inputs contributes nothing and says so.                 *)
Attribute(owner, total, known) ==
    LET computed == {c \in Components : Inputs[c] \subseteq known}
    IN  [owner |-> owner, total |-> total, computed |-> computed,
         amount |-> [c \in Components |-> IF c \notin computed THEN 0 ELSE IF c = "COSTS" THEN -1 ELSE 1]]

Residual(s) == s.total - TotalOf(s.amount)

\* Mutant: computed if any child could.
RollUpOptimistic(owner, children) ==
    [owner |-> owner,
     total |-> TotalOf([n \in DOMAIN children |-> children[n].total]),
     computed |-> {c \in Components : \E n \in DOMAIN children : c \in children[n].computed},
     amount |-> [c \in Components |-> TotalOf([n \in DOMAIN children |-> children[n].amount[c]])]]

RollUp(owner, children) ==
    [owner |-> owner,
     total |-> TotalOf([n \in DOMAIN children |-> children[n].total]),
     computed |-> {c \in Components : \A n \in DOMAIN children : c \in children[n].computed},
     amount |-> [c \in Components |-> TotalOf([n \in DOMAIN children |-> children[n].amount[c]])]]

Named(owner) == IF owner = "" THEN "UNATTRIBUTED" ELSE owner

(* One parent for each owner that is named.                                *)
GroupBy(children) ==
    LET OwnerOf(n) == Named(children[n].owner)
        Members(o) == [n \in {m \in DOMAIN children : OwnerOf(m) = o} |-> children[n]]
    IN  [o \in {OwnerOf(n) : n \in DOMAIN children} |-> RollUp(o, Members(o))]

AskRollUp ==
    /\ \/ /\ Len(slices) < MaxSlices
          /\ \E owner \in Owners, total \in Totals, known \in KnownInputs :
                slices' = Append(slices, Attribute(owner, total, known))
       \/ slices' = <<>>
    /\ UNCHANGED <<executed, folded, listed, broker, corrections, settled, runs>>

PortfolioNext ==
    \/ slices = <<>> /\ listed \cup broker = {} /\ (Trade \/ ApplyAll)
    \/ slices = <<>> /\ executed = <<>> /\ ((\E apply \in BOOLEAN : ReconcilePositions(apply)) \/ PositionsMove)
    \/ executed = <<>> /\ listed \cup broker = {} /\ AskRollUp

PortfolioSpec == PortfolioInit /\ [][PortfolioNext]_portfolioVars
-----------------------------------------------------------------------------
(* Sorted by hash and in whatever batches: once all fills are folded, the  *)
(* book holds what the account's ledger holds, its equity at any mark is   *)
(* the ledger's, and only the split into realised and unrealised may       *)
(* differ.                                                                 *)
FoldKeepsTheTotal ==
    LET ledger == ReplayFills(0, executed)
    IN  (executed # <<>> /\ folded.applied = ledger.applied) =>
           /\ folded.positions[Portfolio].quantity = ledger.positions[Portfolio].quantity
           /\ folded.fees = ledger.fees
           /\ \A mark \in TradePrices, state \in States :
                 LET marks == [i \in {Portfolio} |-> mark]
                 IN  /\ NetPnl(folded, marks) = NetPnl(ledger, marks)
                     /\ IsValued(state) => Whole(SnapshotEquity(folded, state, mark)) = Equity(ledger, marks)

(* Rolled up by owner and then together, or at once: the same totals and   *)
(* residual, and what one child could not compute no parent claims.        *)
RollUpsAgree ==
    slices # <<>> =>
        LET direct == RollUp("all", slices)
            twice == RollUp("all", GroupBy(slices))
        IN  /\ direct = twice
            /\ Residual(direct) = TotalOf([n \in DOMAIN slices |-> Residual(slices[n])])
            /\ \A c \in direct.computed, n \in DOMAIN slices : c \in slices[n].computed

PortfolioAddsUp == FoldKeepsTheTotal /\ RollUpsAgree

(* "A correction that was applied is not outstanding": the positions the   *)
(* caller holds after a clean run are the broker's (reconciliation.py).    *)
CleanRunsSettle == settled => listed = broker
=============================================================================
