---------------------------- MODULE BooksProofs ----------------------------
(***************************************************************************)
(* A ledger rebuilt from what was committed is the ledger that was lost,   *)
(* for any stream of fills and any crashes.                                *)
(*                                                                         *)
(* Money is conserved: cash and basis are the opening cash and the net     *)
(* P&L, and what is reserved is there. A fill moves one order's            *)
(* reservation and one instrument's basis (SumOfOneChange); that its price *)
(* is split between basis and P&L without a remainder is arithmetic of     *)
(* fractions in lowest terms (MergeBalances, ApplyBalances).               *)
(*                                                                         *)
(* A settled checkpoint is what the builder gives for its identity ever    *)
(* after, for any universe, budgets of staleness, observations and clock.  *)
(* What is stamped from now on is stamped after K, and so is what is on    *)
(* its way (Sealed): the rows and snapshots that a state of K may show are *)
(* all there.                                                              *)
(*                                                                         *)
(* A message that arrived is kept once: while none of it is kept, each of  *)
(* its deliveries is still on its way (Kept), and no two rows that are     *)
(* kept have one identity.                                                 *)
(*                                                                         *)
(* A plan is sound because each rung of the ladder keeps what is protected *)
(* in its mode and every instrument in one place (Keeps), and a rung that  *)
(* fits takes one connection for each mode (OneChunk).                     *)
(*                                                                         *)
(* A fill is fair because each slippage moves the price one way from the   *)
(* mid, and further for more (RawIsAgainst), and rounding to the tick      *)
(* keeps the order of prices and moves none by more than half a tick. The  *)
(* machines of the inquiries keep what they are asked within what their    *)
(* assumptions allow, so that what is true of any inquiry is true of       *)
(* theirs: FillsAreFair, and JudgementsHold by RiskProofs.                 *)
(*                                                                         *)
(* The portfolio's book holds sums over the fills it has folded, and what  *)
(* a balanced book of one instrument is worth does not depend on its basis *)
(* (WorthOfBook): the order of the fills is lost.  Rolled up, totals are   *)
(* swapped and grouped (TotalsSwap, TotalOfGroups).                        *)
(***************************************************************************)
EXTENDS LedgerRecovery, ObservationStore, MarketState, SubscriptionPlanner, Inquiries, PortfolioBook,
        RiskProofs

(* A fill delivered again changes nothing because the book has its key.    *)
LedgerInv ==
    /\ recorded \in Seq(Fills)
    /\ \A n \in 1 .. Len(recorded) : FillKey(recorded[n]) \in book.applied
    /\ RebuildAgrees

LEMMA LedgerInitially == RecoveryInit => LedgerInv
BY ReplayNothing DEF RecoveryInit, LedgerInv, RebuildAgrees

LEMMA LedgerStep == LedgerInv /\ [RecoveryNext]_recoveryVars => LedgerInv'
<1> SUFFICES ASSUME LedgerInv, [RecoveryNext]_recoveryVars
             PROVE  LedgerInv'
  OBVIOUS
<1> USE DEF LedgerInv
<1>1. ASSUME NEW f \in Fills, NewFill(f)
      PROVE  LedgerInv'
  <2>1. recorded' = Append(recorded, f) /\ book' = Apply(book, f)
    BY <1>1 DEF NewFill, ApplyFill
  <2>2. recorded' \in Seq(Fills)
    BY <2>1
  <2>3. ASSUME NEW n \in 1 .. Len(recorded')
        PROVE  FillKey(recorded'[n]) \in book'.applied
    <3>1. CASE n \in 1 .. Len(recorded)
      <4>1. recorded'[n] = recorded[n]
        BY <2>1, <3>1
      <4> QED
        BY <4>1, <3>1, <2>1, ApplyKeepsKeys
    <3>2. CASE n \notin 1 .. Len(recorded)
      <4>1. recorded'[n] = f
        BY <2>1, <3>2
      <4> QED
        BY <4>1, <2>1, ApplyKeepsKeys
    <3> QED
      BY <3>1, <3>2
  <2>4. RebuildAgrees'
    BY <2>1, ReplayOneMore DEF RebuildAgrees
  <2> QED
    BY <2>2, <2>3, <2>4
<1>2. ASSUME NEW n \in DOMAIN recorded, Redeliver(n)
      PROVE  LedgerInv'
  <2>1. n \in 1 .. Len(recorded)
    BY <1>2
  <2>2. book' = book /\ recorded' = recorded
    BY <2>1, <1>2, ApplyAgainChangesNothing DEF Redeliver, ApplyFill
  <2> QED
    BY <2>2 DEF RebuildAgrees
<1>3. ASSUME NEW o \in Orders, NEW amount, Reserve(o, amount)
      PROVE  LedgerInv'
  BY <1>3 DEF Reserve, RebuildAgrees
<1>4. ASSUME NEW o \in Orders, Release(o)
      PROVE  LedgerInv'
  BY <1>4 DEF Release, RebuildAgrees
<1>5. CASE Restart
  BY <1>5 DEF Restart, RebuildAgrees
<1>6. CASE UNCHANGED recoveryVars
  BY <1>6 DEF recoveryVars, RebuildAgrees
<1> QED
  BY <1>1, <1>2, <1>3, <1>4, <1>5, <1>6 DEF RecoveryNext

(* Stop the process whenever you like and rebuild the book from the fills  *)
(* on record: it is the book that ran, whatever was delivered again and    *)
(* whatever was reserved (replay_fills, rebuild_ledger_from_fills).        *)
THEOREM RebuildIsTheBook == RecoverySpec => []RebuildAgrees
<1>1. LedgerInv => RebuildAgrees
  BY DEF LedgerInv
<1> QED
  BY <1>1, LedgerInitially, LedgerStep, PTL DEF RecoverySpec

(* Money is neither made nor lost by a fill, and what is committed to      *)
(* orders is there.                                                        *)
BalanceInv ==
    /\ LedgerInv
    /\ BookIsTyped(book) /\ Balanced(book, OpeningCash)
    /\ reservations \in [Orders -> Nat]
    /\ TotalOf(reservations) <= book.cash

LEMMA FillsAreTyped ==
    ASSUME NEW f \in Fills
    PROVE  /\ f.instrument \in Instruments /\ f.quantity \in Nat /\ f.price \in Nat
           /\ f.costs = Fee /\ Fee \in Nat /\ Fee <= f.quantity * f.price
           /\ f.intent \in Orders /\ f.side \in Sides
BY AccountAssumption DEF Fills

(* An order's reservation ends: no more is committed than before.          *)
LEMMA ReleaseFrees ==
    ASSUME NEW r \in [Orders -> Nat], NEW o \in Orders, NEW amount \in Nat
    PROVE  /\ [r EXCEPT ![o] = amount] \in [Orders -> Nat]
           /\ TotalOf([r EXCEPT ![o] = amount]) = TotalOf(r) + amount - r[o]
           /\ TotalOf(r) \in Nat /\ r[o] \in Nat
<1> DEFINE s == [r EXCEPT ![o] = amount]
<1>1. /\ s \in [Orders -> Nat] /\ s[o] = amount
      /\ s \in [Orders -> Int] /\ r \in [Orders -> Int]
      /\ \A x \in Orders \ {o} : r[x] = s[x]
  OBVIOUS
<1> HIDE DEF s
<1>2. IsFiniteSet(Orders)
  BY AccountAssumption
<1>3. TotalOf(s) = TotalOf(r) + s[o] - r[o]
  BY <1>1, <1>2, TotalOfOneChange
<1>4. TotalOf(r) \in Nat
  BY <1>2, TotalOfNaturals
<1> QED
  BY <1>1, <1>3, <1>4 DEF s

LEMMA FillBalances ==
    ASSUME BalanceInv, NEW f \in Fills, FillKey(f) \notin book.applied, CanAfford(f), ApplyFill(f)
    PROVE  /\ BookIsTyped(book') /\ Balanced(book', OpeningCash)
           /\ reservations' \in [Orders -> Nat]
           /\ TotalOf(reservations') <= book'.cash
<1>1. /\ f.instrument \in Instruments /\ f.quantity \in Nat /\ f.price \in Nat
      /\ f.costs = Fee /\ Fee \in Nat /\ Fee <= f.quantity * f.price
      /\ f.intent \in Orders /\ f.side \in Sides
  BY FillsAreTyped
<1>2. book' = Apply(book, f) /\ reservations' = [reservations EXCEPT ![f.intent] = 0]
  BY DEF ApplyFill
<1>3. BookIsTyped(book') /\ Balanced(book', OpeningCash)
  <2>1. f.quantity \in Int /\ f.price \in Int /\ f.costs \in Int
    BY <1>1
  <2>2. IsFiniteSet(Instruments) /\ OpeningCash \in Int
    BY AccountAssumption
  <2> QED
    BY <1>1, <1>2, <2>1, <2>2, ApplyBalances DEF BalanceInv
<1>4. /\ reservations' \in [Orders -> Nat]
      /\ TotalOf(reservations') = TotalOf(reservations) - reservations[f.intent]
      /\ TotalOf(reservations) \in Nat /\ reservations[f.intent] \in Nat
  <2>1. reservations \in [Orders -> Nat] /\ 0 \in Nat
    BY DEF BalanceInv
  <2>2. /\ [reservations EXCEPT ![f.intent] = 0] \in [Orders -> Nat]
        /\ TotalOf([reservations EXCEPT ![f.intent] = 0]) = TotalOf(reservations) + 0 - reservations[f.intent]
        /\ TotalOf(reservations) \in Nat /\ reservations[f.intent] \in Nat
    BY <1>1, <2>1, ReleaseFrees
  <2> QED
    BY <1>2, <2>2
<1>5. book'.cash = book.cash - (f.quantity * Sign(f.side)) * f.price - Fee /\ book.cash \in Int
  BY <1>1, <1>2 DEF Apply, BalanceInv, BookIsTyped
<1>6. TotalOf(reservations) <= book.cash
  BY DEF BalanceInv
<1>7. TotalOf(reservations') <= book'.cash
  <2>1. f.quantity * f.price \in Nat /\ f.price * f.quantity = f.quantity * f.price
    BY <1>1
  <2>2. CASE f.side = "SELL"
    <3>1. (f.quantity * Sign(f.side)) * f.price = -(f.quantity * f.price)
      BY <1>1, <2>2 DEF Sign
    <3> QED
      BY <1>1, <1>4, <1>5, <1>6, <2>1, <3>1
  <2>3. CASE f.side = "BUY"
    <3>1. (f.quantity * Sign(f.side)) * f.price = f.quantity * f.price
      BY <1>1, <2>3 DEF Sign
    <3>2. f.quantity * f.price + Fee <= book.cash - TotalOf(reservations)
      BY <1>1, <2>1, <2>3 DEF CanAfford, AvailableCash, ReservedCash
    <3> QED
      BY <1>1, <1>4, <1>5, <1>6, <2>1, <3>1, <3>2
  <2> QED
    BY <1>1, <2>2, <2>3 DEF Sides
<1> QED
  BY <1>3, <1>4, <1>7

LEMMA BalanceInitially == RecoveryInit => BalanceInv
<1> SUFFICES ASSUME RecoveryInit PROVE BalanceInv
  OBVIOUS
<1>1. IsFiniteSet(Orders) /\ IsFiniteSet(Instruments) /\ OpeningCash \in Nat
  BY AccountAssumption
<1>2. BookIsTyped(book) /\ Balanced(book, OpeningCash)
  BY <1>1, EmptyBookBalances DEF RecoveryInit
<1>3. reservations \in [Orders -> {0}] /\ reservations \in [Orders -> Nat]
  BY DEF RecoveryInit, NoReservations
<1>4. TotalOf(reservations) = 0 /\ book.cash = OpeningCash
  BY <1>1, <1>3, TotalOfZeros DEF RecoveryInit, EmptyBook
<1> QED
  BY <1>1, <1>2, <1>3, <1>4, LedgerInitially DEF BalanceInv

LEMMA BalanceStep == BalanceInv /\ [RecoveryNext]_recoveryVars => BalanceInv'
<1> SUFFICES ASSUME BalanceInv, [RecoveryNext]_recoveryVars
             PROVE  BalanceInv'
  OBVIOUS
<1>1. LedgerInv'
  BY LedgerStep DEF BalanceInv
<1>2. /\ LedgerInv /\ BookIsTyped(book) /\ Balanced(book, OpeningCash)
      /\ reservations \in [Orders -> Nat] /\ TotalOf(reservations) <= book.cash
      /\ book.cash \in Int
  BY DEF BalanceInv, BookIsTyped
<1>3. ASSUME book' = book, reservations' \in [Orders -> Nat], TotalOf(reservations') <= book.cash
      PROVE  BalanceInv'
  BY <1>1, <1>2, <1>3 DEF BalanceInv
<1>4. ASSUME NEW f \in Fills, NewFill(f)
      PROVE  BalanceInv'
  <2>1. /\ BookIsTyped(book') /\ Balanced(book', OpeningCash)
        /\ reservations' \in [Orders -> Nat] /\ TotalOf(reservations') <= book'.cash
    BY <1>4, FillBalances DEF NewFill
  <2> QED
    BY <1>1, <2>1 DEF BalanceInv
<1>5. ASSUME NEW n \in DOMAIN recorded, Redeliver(n)
      PROVE  BalanceInv'
  <2>1. FillKey(recorded[n]) \in book.applied
    BY <1>2, <1>5 DEF LedgerInv
  <2>2. book' = book /\ reservations' = reservations
    BY <1>5, <2>1, ApplyAgainChangesNothing DEF Redeliver, ApplyFill
  <2> QED
    BY <1>2, <1>3, <2>2
<1>6. ASSUME NEW o \in Orders, NEW q \in Lots, NEW p \in Prices, Reserve(o, q * p)
      PROVE  BalanceInv'
  <2>1. q * p \in Nat
    <3>1. q \in Nat /\ p \in Nat
      BY AccountAssumption
    <3> QED
      BY <3>1
  <2>2. /\ TotalOf(reservations) - reservations[o] + q * p <= book.cash
        /\ book' = book /\ reservations' = [reservations EXCEPT ![o] = q * p]
    BY <1>6 DEF Reserve, ReservedCash
  <2> DEFINE amount == q * p
  <2> HIDE DEF amount
  <2>3. /\ [reservations EXCEPT ![o] = amount] \in [Orders -> Nat]
        /\ TotalOf([reservations EXCEPT ![o] = amount]) = TotalOf(reservations) + amount - reservations[o]
        /\ TotalOf(reservations) \in Nat /\ reservations[o] \in Nat
    BY <1>2, <2>1, ReleaseFrees DEF amount
  <2>4. amount \in Nat /\ TotalOf(reservations) - reservations[o] + amount <= book.cash
        /\ reservations' = [reservations EXCEPT ![o] = amount]
    BY <2>1, <2>2 DEF amount
  <2>5. reservations' \in [Orders -> Nat] /\ TotalOf(reservations') <= book.cash
    <3>1. TotalOf(reservations) + amount - reservations[o] <= book.cash
      BY <1>2, <2>3, <2>4
    <3> QED
      BY <2>3, <2>4, <3>1
  <2>6. book' = book
    BY <2>2
  <2> QED
    BY <1>3, <2>5, <2>6
<1>7. ASSUME NEW o \in Orders, Release(o)
      PROVE  BalanceInv'
  <2>1. book' = book /\ reservations' = [reservations EXCEPT ![o] = 0] /\ 0 \in Nat
    BY <1>7 DEF Release
  <2>2. /\ reservations' \in [Orders -> Nat]
        /\ TotalOf(reservations') = TotalOf(reservations) + 0 - reservations[o]
        /\ TotalOf(reservations) \in Nat /\ reservations[o] \in Nat
    BY <1>2, <2>1, ReleaseFrees
  <2> QED
    BY <1>2, <1>3, <2>1, <2>2
<1>8. CASE Restart
  <2>1. book' = book /\ reservations' \in [Orders -> {0}] /\ reservations' \in [Orders -> Nat]
    BY <1>2, <1>8 DEF Restart, NoReservations, LedgerInv, RebuildAgrees
  <2>2. IsFiniteSet(Orders)
    BY AccountAssumption
  <2>3. TotalOf(reservations') = 0 /\ TotalOf(reservations) \in Nat
    BY <1>2, <2>1, <2>2, TotalOfZeros, TotalOfNaturals
  <2> QED
    BY <1>2, <1>3, <2>1, <2>3
<1>9. CASE UNCHANGED recoveryVars
  <2>1. book' = book /\ reservations' = reservations
    BY <1>9 DEF recoveryVars
  <2> QED
    BY <1>2, <1>3, <2>1
<1> QED
  BY <1>4, <1>5, <1>6, <1>7, <1>8, <1>9 DEF RecoveryNext

(* Money is conserved: whatever is bought, sold, reduced or reversed, with *)
(* fills delivered again and books rebuilt, equity is the opening cash and *)
(* the net P&L, exactly; and what is reserved for orders is always there,  *)
(* so a buy checked against available cash cannot overdraw (ledger.py,     *)
(* _Account.apply_fill, reserve_cash and can_afford).                      *)
THEOREM BooksAlwaysBalance == RecoverySpec => []BooksBalance
<1>1. BalanceInv => BooksBalance
  <2> SUFFICES ASSUME BalanceInv PROVE BooksBalance
    OBVIOUS
  <2>1. Plus(Whole(book.cash), Basis(book)) = Plus(Whole(OpeningCash), Minus(book.realized, Whole(book.fees)))
    BY DEF BalanceInv, Balanced
  <2>2. TotalOf(reservations) \in Nat
    BY AccountAssumption, TotalOfNaturals DEF BalanceInv
  <2>3. book.cash - TotalOf(reservations) >= 0
    BY <2>2 DEF BalanceInv, BookIsTyped
  <2> QED
    BY <2>1, <2>3 DEF BooksBalance, AvailableCash, ReservedCash
<1> QED
  BY <1>1, BalanceInitially, BalanceStep, PTL DEF RecoverySpec
-----------------------------------------------------------------------------

ObservedRows ==
    [instrument : {Spot} \cup Futures \cup Options, kind : {"index", "quote", "greeks"},
     observed : Nat, ingested : Nat, corrects : Nat]

StampsAreTyped ==
    /\ now \in Nat
    /\ rows \cup landing \subseteq ObservedRows
    /\ \A r \in rows \cup landing : r.ingested \in Nat
    /\ \A s \in snapshots : s.ingested \in Nat
    /\ \A c \in checkpoints : c.T \in Instants /\ c.K \in Instants

Sealed(K) == K < now /\ \A r \in landing : K < r.ingested

SettledIsSealed ==
    \A c \in checkpoints : c.settled => c.state = Build(c.T, c.K) /\ Sealed(c.K)

MarketInv == StampsAreTyped /\ SettledIsSealed

KnownBy(store, K) == {r \in store : r.ingested <= K}
-----------------------------------------------------------------------------
(* A state at K shows nothing that was stamped after K.                    *)
LEMMA BoundIsKnowledge ==
    ASSUME NEW T \in Instants, NEW K \in Instants, NEW r, Within(r, BoundFor(T, K))
    PROVE  r.ingested <= K
  BY DEF Within, BoundFor

(* Which of the rows seen is shown, and which of the snapshots.            *)
NewestRow(seen) ==
    LET live == {r \in seen : \A s \in seen : ~Supersedes(s, r)}
        last == {r \in live : \A s \in live : s.observed <= r.observed}
    IN  IF last = {} THEN NoRow ELSE CHOOSE r \in last : \A s \in last : s.ingested <= r.ingested

NewestSnapshot(seen) ==
    LET last == {s \in seen : \A t \in seen : t.observed <= s.observed}
    IN  IF seen = {} THEN NoRow ELSE CHOOSE s \in last : \A t \in last : t.ingested <= s.ingested

(* So it is decided by the rows and the snapshots stamped by K.            *)
LEMMA BuildDepends ==
    ASSUME NEW T \in Instants, NEW K \in Instants,
           KnownBy(rows', K) = KnownBy(rows, K), KnownBy(snapshots', K) = KnownBy(snapshots, K)
    PROVE  Build(T, K)' = Build(T, K)
<1> DEFINE bound == BoundFor(T, K)
           seen(store, instrument, kind) ==
               {r \in store : Within(r, bound) /\ r.instrument = instrument /\ r.kind = kind}
           anchors(store, e) == {s \in store : s.expiry = e /\ Within(s, bound)}
<1>1. ASSUME NEW instrument, NEW kind
      PROVE  Latest(bound, instrument, kind)' = Latest(bound, instrument, kind)
  <2>1. seen(rows', instrument, kind) = seen(rows, instrument, kind)
    BY BoundIsKnowledge DEF KnownBy
  <2>2. Latest(bound, instrument, kind) = NewestRow(seen(rows, instrument, kind))
    BY DEF Latest, NewestRow
  <2>3. Latest(bound, instrument, kind)' = NewestRow(seen(rows', instrument, kind))
    BY DEF Latest, NewestRow
  <2> HIDE DEF seen
  <2> QED
    BY <2>1, <2>2, <2>3
<1>2. ASSUME NEW e
      PROVE  LatestAnchor(bound, e)' = LatestAnchor(bound, e)
  <2>1. anchors(snapshots', e) = anchors(snapshots, e)
    BY BoundIsKnowledge DEF KnownBy
  <2>2. LatestAnchor(bound, e) = NewestSnapshot(anchors(snapshots, e))
    BY DEF LatestAnchor, NewestSnapshot
  <2>3. LatestAnchor(bound, e)' = NewestSnapshot(anchors(snapshots', e))
    BY DEF LatestAnchor, NewestSnapshot
  <2> HIDE DEF anchors
  <2> QED
    BY <2>1, <2>2, <2>3
<1> QED
  BY <1>1, <1>2 DEF Build
-----------------------------------------------------------------------------
(* A step that leaves the checkpoints alone, and lets in only what is      *)
(* stamped now or was on its way.                                          *)
Arrival ==
    /\ checkpoints' = checkpoints
    /\ now' \in Nat /\ now <= now'
    /\ \A r \in landing' : r \in landing \/ (r \in ObservedRows /\ r.ingested = now)
    /\ rows \subseteq rows' /\ \A r \in rows' : r \in rows \/ r \in landing
    /\ snapshots \subseteq snapshots' /\ \A s \in snapshots' : s \in snapshots \/ s.ingested = now

LEMMA ArrivalKeeps == ASSUME MarketInv, Arrival PROVE MarketInv'
<1>1. StampsAreTyped'
  BY DEF MarketInv, StampsAreTyped, Arrival
<1>2. ASSUME NEW c \in checkpoints, c.settled
      PROVE  c.state = Build(c.T, c.K)' /\ Sealed(c.K)'
  <2>1. c.T \in Instants /\ c.K \in Instants /\ c.K \in Nat
    BY MarketAssumption DEF MarketInv, StampsAreTyped, Instants
  <2>2. c.state = Build(c.T, c.K) /\ Sealed(c.K)
    BY <1>2 DEF MarketInv, SettledIsSealed
  <2>3. KnownBy(rows', c.K) = KnownBy(rows, c.K)
    BY <2>1, <2>2 DEF KnownBy, Sealed, Arrival, MarketInv, StampsAreTyped
  <2>4. KnownBy(snapshots', c.K) = KnownBy(snapshots, c.K)
    BY <2>1, <2>2 DEF KnownBy, Sealed, Arrival, MarketInv, StampsAreTyped
  <2>5. Build(c.T, c.K)' = Build(c.T, c.K)
    BY <2>1, <2>3, <2>4, BuildDepends
  <2>6. Sealed(c.K)'
    BY <2>1, <2>2 DEF Sealed, Arrival, MarketInv, StampsAreTyped
  <2> QED
    BY <2>2, <2>5, <2>6
<1> QED
  BY <1>1, <1>2 DEF MarketInv, SettledIsSealed, Arrival

(* A step that builds: what is kept of the other identities stays, and the *)
(* new one is settled only if it is sealed.                                *)
LEMMA PutKeeps ==
    ASSUME MarketInv, NEW T \in Instants, NEW K \in Instants, Put(T, K),
           UNCHANGED <<now, landing, rows, snapshots>>
    PROVE  MarketInv'
<1> DEFINE new == [T |-> T, K |-> K, state |-> Build(T, K),
                   settled |-> now > K /\ \A r \in landing : r.ingested > K]
<1>1. checkpoints' = (checkpoints \ CheckpointOf(T, K)) \cup {new}
  BY DEF Put
<1>2. StampsAreTyped'
  BY <1>1 DEF MarketInv, StampsAreTyped
<1>3. ASSUME NEW t, NEW k PROVE Build(t, k)' = Build(t, k) /\ Sealed(k)' = Sealed(k)
  <2>1. Sealed(k)' = Sealed(k)
    BY DEF Sealed
  <2>2. \A b, i, d : Latest(b, i, d)' = Latest(b, i, d)
    BY DEF Latest
  <2>3. \A b, e : LatestAnchor(b, e)' = LatestAnchor(b, e)
    BY DEF LatestAnchor
  <2> QED
    BY <2>1, <2>2, <2>3 DEF Build
<1>4. K \in Nat /\ now \in Nat /\ \A r \in landing : r.ingested \in Nat
  BY MarketAssumption DEF MarketInv, StampsAreTyped, Instants
<1>5. new.settled => new.state = Build(new.T, new.K) /\ Sealed(new.K)
  BY <1>4 DEF Sealed
<1>6. ASSUME NEW c \in checkpoints', c.settled
      PROVE  c.state = Build(c.T, c.K)' /\ Sealed(c.K)'
  <2>1. c.state = Build(c.T, c.K) /\ Sealed(c.K)
    BY <1>1, <1>5, <1>6 DEF MarketInv, SettledIsSealed
  <2> QED
    BY <2>1, <1>3
<1> QED
  BY <1>2, <1>6 DEF MarketInv, SettledIsSealed

LEMMA StepArrivesOrBuilds ==
    ASSUME MarketInv, [MarketNext]_marketVars
    PROVE  \/ Arrival
           \/ /\ \E T, K \in Instants : Put(T, K)
              /\ UNCHANGED <<now, landing, rows, snapshots>>
<1>1. ASSUME NEW s \in Series, NEW t \in Instants, Observe(s, t) PROVE Arrival
  <2> DEFINE stamped == [instrument |-> s[1], kind |-> s[2], observed |-> t,
                         ingested |-> now, corrects |-> 0]
  <2>1. s[1] \in {Spot} \cup Futures \cup Options /\ s[2] \in {"index", "quote", "greeks"}
    BY DEF Series
  <2>2. stamped \in ObservedRows /\ stamped.ingested = now
    BY <2>1, MarketAssumption DEF ObservedRows, Instants, MarketInv, StampsAreTyped
  <2>3. landing' = landing \cup {stamped}
    BY <1>1 DEF Observe
  <2> QED
    BY <1>1, <2>2, <2>3 DEF Observe, Arrival, MarketInv, StampsAreTyped
<1>2. ASSUME NEW r \in rows, Correct(r) PROVE Arrival
  <2> DEFINE corrected == [r EXCEPT !.ingested = now, !.corrects = r.ingested]
  <2>1. r \in ObservedRows /\ now \in Nat
    BY DEF MarketInv, StampsAreTyped
  <2>2. corrected \in ObservedRows /\ corrected.ingested = now
    BY <2>1 DEF ObservedRows
  <2>3. landing' = landing \cup {corrected}
    BY <1>2 DEF Correct
  <2> HIDE DEF corrected
  <2> QED
    BY <1>2, <2>2, <2>3 DEF Correct, Arrival, MarketInv, StampsAreTyped
<1>3. ASSUME NEW r \in landing, Land(r) PROVE Arrival
  BY <1>3 DEF Land, Arrival, MarketInv, StampsAreTyped
<1>4. ASSUME NEW e \in Expiries, Snapshot(e) PROVE Arrival
  BY <1>4 DEF Snapshot, Arrival, MarketInv, StampsAreTyped
<1>5. CASE ClockMoves
  BY <1>5 DEF ClockMoves, Arrival, MarketInv, StampsAreTyped
<1>6. ASSUME NEW T \in Instants, NEW K \in Instants, Checkpoint(T, K) \/ GetState(T, K)
      PROVE  \/ Put(T, K) /\ UNCHANGED <<now, landing, rows, snapshots>>
             \/ UNCHANGED marketVars
  BY <1>6 DEF Checkpoint, GetState, marketVars
<1>7. UNCHANGED marketVars => Arrival
  BY DEF marketVars, Arrival, MarketInv, StampsAreTyped
<1> QED
  BY <1>1, <1>2, <1>3, <1>4, <1>5, <1>6, <1>7 DEF MarketNext
-----------------------------------------------------------------------------
(* CheckpointsAreReproducible, whatever arrives late or is corrected.      *)
THEOREM CheckpointsReproducible == MarketSpec => []CheckpointsAreReproducible
<1>1. MarketInit => MarketInv
  BY DEF MarketInit, MarketInv, StampsAreTyped, SettledIsSealed
<1>2. MarketInv /\ [MarketNext]_marketVars => MarketInv'
  BY StepArrivesOrBuilds, ArrivalKeeps, PutKeeps
<1>3. MarketInv => CheckpointsAreReproducible
  BY DEF MarketInv, SettledIsSealed, CheckpointsAreReproducible
<1> QED
  BY <1>1, <1>2, <1>3, PTL DEF MarketSpec
-----------------------------------------------------------------------------
StoredRows == [kind : {"quote", "greeks"}, message : Messages, observed : Nat, ingested : Nat]

(* The places at which a sequence has one of some things.                  *)
Places(s, S) == {n \in DOMAIN s : s[n] \in S}

LEMMA PlacesAreFinite ==
    ASSUME NEW T, NEW s \in Seq(T), NEW S
    PROVE  IsFiniteSet(Places(s, S)) /\ Cardinality(Places(s, S)) \in Nat
<1>1. Len(s) \in Nat /\ DOMAIN s = 1 .. Len(s) /\ 1 \in Int /\ Len(s) \in Int
  OBVIOUS
<1>2. IsFiniteSet(1 .. Len(s))
  BY <1>1, FS_Interval
<1>3. Places(s, S) \subseteq 1 .. Len(s)
  BY <1>1 DEF Places
<1> QED
  BY <1>2, <1>3, FS_Subset, FS_CardinalityType

LEMMA PlacesAfterAppend ==
    ASSUME NEW T, NEW s \in Seq(T), NEW x \in T, NEW S
    PROVE  Cardinality(Places(Append(s, x), S)) =
              Cardinality(Places(s, S)) + (IF x \in S THEN 1 ELSE 0)
<1>1. /\ Len(s) \in Nat /\ DOMAIN s = 1 .. Len(s) /\ DOMAIN Append(s, x) = 1 .. Len(s) + 1
      /\ Append(s, x)[Len(s) + 1] = x /\ \A n \in 1 .. Len(s) : Append(s, x)[n] = s[n]
  OBVIOUS
<1>2. IsFiniteSet(Places(s, S)) /\ Cardinality(Places(s, S)) \in Nat
  BY PlacesAreFinite
<1>3. CASE x \in S
  <2>1. Places(Append(s, x), S) = Places(s, S) \cup {Len(s) + 1}
    BY <1>1, <1>3 DEF Places
  <2>2. Len(s) + 1 \notin Places(s, S)
    BY <1>1 DEF Places
  <2> QED
    BY <1>2, <1>3, <2>1, <2>2, FS_AddElement
<1>4. CASE x \notin S
  <2>1. Places(Append(s, x), S) = Places(s, S)
    BY <1>1, <1>4 DEF Places
  <2> QED
    BY <1>2, <1>4, <2>1
<1> QED
  BY <1>3, <1>4

LEMMA PlacesAfterTail ==
    ASSUME NEW T, NEW s \in Seq(T), s # <<>>, NEW S
    PROVE  Cardinality(Places(s, S)) =
              Cardinality(Places(Tail(s), S)) + (IF Head(s) \in S THEN 1 ELSE 0)
<1> DEFINE later == Places(s, S) \ {1}
           shift == [n \in Places(Tail(s), S) |-> n + 1]
<1>1. /\ Len(s) \in Nat \ {0} /\ DOMAIN s = 1 .. Len(s) /\ Tail(s) \in Seq(T)
      /\ DOMAIN Tail(s) = 1 .. Len(s) - 1 /\ Head(s) = s[1]
      /\ \A n \in 1 .. Len(s) - 1 : Tail(s)[n] = s[n + 1]
  OBVIOUS
<1>2. /\ IsFiniteSet(Places(s, S)) /\ IsFiniteSet(Places(Tail(s), S)) /\ IsFiniteSet(later)
      /\ Cardinality(Places(Tail(s), S)) \in Nat
  BY <1>1, PlacesAreFinite, FS_Subset
<1>3. shift \in Injection(Places(Tail(s), S), later) /\ shift \in Surjection(Places(Tail(s), S), later)
  <2>1. \A n \in Places(Tail(s), S) : n \in Nat /\ n + 1 \in later
    BY <1>1 DEF Places
  <2>2. \A k \in later : k - 1 \in Places(Tail(s), S) /\ k = (k - 1) + 1
    BY <1>1 DEF Places
  <2>3. shift \in Injection(Places(Tail(s), S), later)
    BY <2>1 DEF Injection, IsInjective
  <2>4. shift \in Surjection(Places(Tail(s), S), later)
    BY <2>1, <2>2 DEF Surjection
  <2> QED
    BY <2>3, <2>4
<1>4. Cardinality(later) = Cardinality(Places(Tail(s), S))
  <2> HIDE DEF shift, later
  <2> QED
    BY <1>2, <1>3, FS_Injection
<1>5. CASE Head(s) \in S
  <2>1. Places(s, S) = later \cup {1} /\ 1 \notin later
    BY <1>1, <1>5 DEF Places
  <2> HIDE DEF later
  <2>2. Cardinality(later \cup {1}) = Cardinality(later) + 1
    BY <1>2, <2>1, FS_AddElement
  <2> QED
    BY <1>4, <1>5, <2>1, <2>2
<1>6. CASE Head(s) \notin S
  <2>1. Places(s, S) = later
    BY <1>1, <1>6 DEF Places
  <2> HIDE DEF later
  <2> QED
    BY <1>2, <1>4, <1>6, <2>1
<1> QED
  BY <1>5, <1>6

QuotesOf(m) == {r \in StoredRows : r.kind = "quote" /\ r.message = m}

Kept(m, store) == \E n \in DOMAIN store : store[n].message = m \/ Alike(m, store[n])

StoreInv ==
    /\ clock \in Nat
    /\ delivered \in Seq(Messages) /\ flight \in Seq(StoredRows) /\ memory \in Seq(StoredRows)
    /\ table \in Seq(StoredRows)
    /\ \A r \in Rows(flight) \cup Rows(memory) : r.message.time # 0 => r.observed = r.message.time
    /\ \A i, j \in DOMAIN memory : DedupKey(memory[i]) = DedupKey(memory[j]) => i = j
    /\ \A m \in Messages :
          Kept(m, memory) \/ Cardinality(Places(delivered, {m})) <= Cardinality(Places(flight, QuotesOf(m)))

LEMMA StoreInitially == StoreInit => StoreInv
<1> SUFFICES ASSUME StoreInit PROVE StoreInv
  OBVIOUS
<1>1. delivered = <<>> /\ flight = <<>> /\ memory = <<>> /\ table = <<>> /\ clock = 1
  BY DEF StoreInit
<1>2. \A S : Places(<<>>, S) = {}
  BY DEF Places
<1>3. Cardinality({}) = 0
  BY FS_EmptySet
<1>4. \A m \in Messages :
         Cardinality(Places(delivered, {m})) <= Cardinality(Places(flight, QuotesOf(m)))
  <2> SUFFICES ASSUME NEW m \in Messages
               PROVE  Cardinality(Places(delivered, {m})) <= Cardinality(Places(flight, QuotesOf(m)))
    OBVIOUS
  <2>1. Places(delivered, {m}) = {} /\ Places(flight, QuotesOf(m)) = {}
    BY <1>1, <1>2
  <2> QED
    BY <1>3, <2>1
<1>5. DOMAIN memory = {} /\ Rows(flight) \cup Rows(memory) = {}
  BY <1>1 DEF Rows
<1> QED
  BY <1>1, <1>4, <1>5 DEF StoreInv

(* A row refused for its identity is another's of the same message, or of  *)
(* one told from it by nothing.                                            *)
LEMMA SameIdentity ==
    ASSUME NEW r \in StoredRows, NEW s \in StoredRows, DedupKey(r) = DedupKey(s)
    PROVE  s.message = r.message \/ Alike(r.message, s)
<1>1. r.message \in Messages /\ s.message \in Messages
  BY DEF StoredRows
<1>2. CASE Tier(r.message) = "provider_event_id"
  <2>1. /\ Tier(s.message) = "provider_event_id"
        /\ r.message.session = s.message.session /\ r.message.id = s.message.id
    BY <1>2 DEF DedupKey, Tier
  <2> QED
    BY <1>1, <1>2, <2>1, MessagesAssumption
<1>3. CASE Tier(r.message) = "feed_sequence"
  <2>1. /\ Tier(s.message) = "feed_sequence"
        /\ r.message.session = s.message.session /\ r.message.sequence = s.message.sequence
    BY <1>3 DEF DedupKey, Tier
  <2> QED
    BY <1>1, <1>3, <2>1, MessagesAssumption
<1>4. CASE Tier(r.message) = "content_hash"
  <2>1. Tier(s.message) = "content_hash" /\ Digest(r) = Digest(s)
    BY <1>4 DEF DedupKey, Tier
  <2> QED
    BY <1>4, <2>1 DEF Digest, Alike
<1> QED
  BY <1>2, <1>3, <1>4 DEF Tier

(* Delivering a message puts one quote of it, and of no other, on its way. *)
LEMMA DeliverKeeps ==
    ASSUME StoreInv, NEW m \in Messages, Deliver(m)
    PROVE  StoreInv'
<1> DEFINE row(kind) == [kind |-> kind, message |-> m, observed |-> ObservedAt(m), ingested |-> clock]
           once == Append(flight, row("quote"))
<1>1. /\ clock \in Nat /\ flight \in Seq(StoredRows) /\ delivered \in Seq(Messages) /\ m.time \in Nat
  BY MessagesAssumption DEF StoreInv
<1>2. /\ row("quote") \in StoredRows /\ row("greeks") \in StoredRows
      /\ m.time # 0 => ObservedAt(m) = m.time
  BY <1>1 DEF StoredRows, ObservedAt
<1>3. /\ once \in Seq(StoredRows)
      /\ flight' = once \/ flight' = Append(once, row("greeks"))
  BY <1>1, <1>2, MessagesAssumption DEF Deliver, Normalized
<1>4. delivered' = Append(delivered, m) /\ memory' = memory /\ table' = table /\ clock' = clock
  BY DEF Deliver
<1>5. flight' \in Seq(StoredRows) /\ delivered' \in Seq(Messages)
  <2>1. delivered' \in Seq(Messages)
    BY <1>1, <1>4
  <2>2. \A r \in StoredRows : Append(once, r) \in Seq(StoredRows)
    BY <1>3
  <2> HIDE DEF row, once
  <2> QED
    BY <1>2, <1>3, <2>1, <2>2
<1>6. Rows(flight') \subseteq Rows(flight) \cup {row("quote"), row("greeks")}
  <2>1. Rows(once) \subseteq Rows(flight) \cup {row("quote")}
    BY <1>1, <1>2 DEF Rows
  <2>2. Rows(Append(once, row("greeks"))) \subseteq Rows(once) \cup {row("greeks")}
    BY <1>2, <1>3 DEF Rows
  <2> QED
    BY <1>3, <2>1, <2>2
<1>7. ASSUME NEW k \in Messages
      PROVE  /\ Cardinality(Places(delivered', {k})) =
                   Cardinality(Places(delivered, {k})) + (IF m = k THEN 1 ELSE 0)
             /\ Cardinality(Places(flight', QuotesOf(k))) =
                   Cardinality(Places(flight, QuotesOf(k))) + (IF m = k THEN 1 ELSE 0)
             /\ Cardinality(Places(flight, QuotesOf(k))) \in Nat
             /\ Cardinality(Places(delivered, {k})) \in Nat
  <2>1. Cardinality(Places(delivered', {k})) = Cardinality(Places(delivered, {k})) + (IF m = k THEN 1 ELSE 0)
    BY <1>1, <1>4, PlacesAfterAppend
  <2>2. row("quote") \in QuotesOf(k) <=> m = k
    BY <1>2 DEF QuotesOf
  <2>3. row("greeks") \notin QuotesOf(k)
    BY DEF QuotesOf
  <2>4. Cardinality(Places(once, QuotesOf(k))) =
            Cardinality(Places(flight, QuotesOf(k))) + (IF m = k THEN 1 ELSE 0)
    BY <1>1, <1>2, <2>2, PlacesAfterAppend
  <2>5. Cardinality(Places(once, QuotesOf(k))) \in Nat /\ Cardinality(Places(flight, QuotesOf(k))) \in Nat
    BY <1>1, <1>3, PlacesAreFinite
  <2>6. Cardinality(Places(Append(once, row("greeks")), QuotesOf(k))) = Cardinality(Places(once, QuotesOf(k))) + 0
    <3> HIDE DEF row, once
    <3> QED
      BY <1>2, <1>3, <2>3, PlacesAfterAppend
  <2>7. Cardinality(Places(delivered, {k})) \in Nat
    BY <1>1, PlacesAreFinite
  <2> HIDE DEF row, once
  <2> QED
    <3>1. Cardinality(Places(flight', QuotesOf(k))) = Cardinality(Places(once, QuotesOf(k)))
      <4>1. CASE flight' = once
        BY <4>1
      <4>2. CASE flight' = Append(once, row("greeks"))
        BY <2>5, <2>6, <4>2
      <4> QED
        BY <1>3, <4>1, <4>2
    <3> QED
      BY <2>1, <2>4, <2>5, <2>7, <3>1
<1>8. \A k \in Messages :
         Kept(k, memory') \/ Cardinality(Places(delivered', {k})) <= Cardinality(Places(flight', QuotesOf(k)))
  <2> SUFFICES ASSUME NEW k \in Messages
               PROVE  Kept(k, memory') \/ Cardinality(Places(delivered', {k})) <= Cardinality(Places(flight', QuotesOf(k)))
    OBVIOUS
  <2>1. Kept(k, memory) \/ Cardinality(Places(delivered, {k})) <= Cardinality(Places(flight, QuotesOf(k)))
    BY DEF StoreInv
  <2>2. Kept(k, memory') <=> Kept(k, memory)
    BY <1>4
  <2>3. Cardinality(Places(delivered, {k})) <= Cardinality(Places(flight, QuotesOf(k))) =>
            Cardinality(Places(delivered', {k})) <= Cardinality(Places(flight', QuotesOf(k)))
    BY <1>7
  <2> QED
    BY <2>1, <2>2, <2>3
<1>9. \A r \in Rows(flight') \cup Rows(memory') : r.message.time # 0 => r.observed = r.message.time
  BY <1>2, <1>4, <1>6 DEF StoreInv
<1> QED
  BY <1>1, <1>4, <1>5, <1>8, <1>9 DEF StoreInv

LEMMA StoringKeeps ==
    ASSUME StoreInv, Store
    PROVE  StoreInv'
<1> DEFINE row == Head(flight)
           keys == {DedupKey(r) : r \in Rows(memory)}
<1>1. /\ flight \in Seq(StoredRows) /\ flight # <<>> /\ memory \in Seq(StoredRows)
      /\ row \in StoredRows /\ row \in Rows(flight)
      /\ Tail(flight) \in Seq(StoredRows) /\ Rows(Tail(flight)) \subseteq Rows(flight)
  BY DEF StoreInv, Store, Rows
<1>2. /\ flight' = Tail(flight) /\ delivered' = delivered /\ clock' = clock
      /\ memory' = IF {DedupKey(row)} \cap keys # {} THEN memory ELSE Append(memory, row)
  BY DEF Store, AppendTo
<1>3. /\ memory' \in Seq(StoredRows)
      /\ DOMAIN memory \subseteq DOMAIN memory' /\ \A n \in DOMAIN memory : memory'[n] = memory[n]
      /\ Rows(memory') \subseteq Rows(memory) \cup {row}
  BY <1>1, <1>2 DEF Rows
<1>4. \A i, j \in DOMAIN memory' : DedupKey(memory'[i]) = DedupKey(memory'[j]) => i = j
  <2>1. CASE DedupKey(row) \in keys
    <3>1. memory' = memory
      BY <1>2, <2>1
    <3> QED
      BY <3>1 DEF StoreInv
  <2>2. CASE DedupKey(row) \notin keys
    <3>1. memory' = Append(memory, row)
      BY <1>2, <2>2
    <3>2. /\ DOMAIN memory = 1 .. Len(memory) /\ DOMAIN memory' = 1 .. Len(memory) + 1
          /\ Len(memory) \in Nat /\ memory'[Len(memory) + 1] = row
      BY <1>1, <3>1
    <3>3. \A n \in DOMAIN memory : DedupKey(memory'[n]) # DedupKey(row)
      BY <1>3, <2>2 DEF Rows
    <3>4. \A n \in DOMAIN memory' : n \in DOMAIN memory \/ n = Len(memory) + 1
      BY <3>2
    <3>5. \A i, j \in DOMAIN memory : DedupKey(memory'[i]) = DedupKey(memory'[j]) => i = j
      BY <1>3 DEF StoreInv
    <3> QED
      BY <3>2, <3>3, <3>4, <3>5
  <2> QED
    BY <2>1, <2>2
<1>5. ASSUME NEW m \in Messages
      PROVE  Kept(m, memory') \/ Cardinality(Places(delivered', {m})) <= Cardinality(Places(flight', QuotesOf(m)))
  <2>1. Kept(m, memory) => Kept(m, memory')
    BY <1>3 DEF Kept
  <2>2. CASE row.message = m
    <3>1. CASE DedupKey(row) \in keys
      <4>1. PICK n \in DOMAIN memory : DedupKey(row) = DedupKey(memory[n])
        BY <3>1 DEF Rows
      <4>2. memory[n] \in StoredRows
        BY <1>1
      <4> QED
        BY <1>1, <1>3, <2>2, <4>1, <4>2, SameIdentity DEF Kept
    <3>2. CASE DedupKey(row) \notin keys
      <4>1. memory' = Append(memory, row)
        BY <1>2, <3>2
      <4>2. Len(memory) + 1 \in DOMAIN memory' /\ memory'[Len(memory) + 1] = row
        BY <1>1, <4>1
      <4> QED
        BY <2>2, <4>2 DEF Kept
    <3> QED
      BY <3>1, <3>2
  <2>3. CASE row.message # m
    <3>1. row \notin QuotesOf(m)
      BY <2>3 DEF QuotesOf
    <3>2. Cardinality(Places(flight, QuotesOf(m))) = Cardinality(Places(Tail(flight), QuotesOf(m))) + 0
      BY <1>1, <3>1, PlacesAfterTail
    <3>3. Cardinality(Places(Tail(flight), QuotesOf(m))) \in Nat
      BY <1>1, PlacesAreFinite
    <3>4. Cardinality(Places(flight', QuotesOf(m))) = Cardinality(Places(flight, QuotesOf(m)))
      BY <1>2, <3>2, <3>3
    <3> QED
      BY <1>2, <2>1, <3>4 DEF StoreInv
  <2> QED
    BY <2>2, <2>3
<1>6. \A r \in Rows(flight') \cup Rows(memory') : r.message.time # 0 => r.observed = r.message.time
  BY <1>1, <1>2, <1>3 DEF StoreInv
<1>7. table' \in Seq(StoredRows)
  BY <1>1 DEF Store, AppendTo, StoreInv
<1> QED
  BY <1>1, <1>2, <1>3, <1>4, <1>5, <1>6, <1>7 DEF StoreInv

LEMMA StoreKeeps == StoreInv /\ [StoreNext]_storeVars => StoreInv'
<1> SUFFICES ASSUME StoreInv, [StoreNext]_storeVars
             PROVE  StoreInv'
  OBVIOUS
<1>1. CASE ClockTicks
  BY <1>1 DEF ClockTicks, StoreInv
<1>2. CASE UNCHANGED storeVars
  BY <1>2 DEF storeVars, StoreInv
<1> QED
  BY <1>1, <1>2, DeliverKeeps, StoringKeeps DEF StoreNext

LEMMA StoredOnce == StoreInv => EachMessageOnce
<1> SUFFICES ASSUME StoreInv, NEW m \in Messages
             PROVE  LET stored == {n \in DOMAIN memory : memory[n].kind = "quote" /\ memory[n].message = m}
                        ways   == Cardinality({n \in DOMAIN delivered : delivered[n] = m})
                    IN  /\ (Tier(m) # "content_hash" \/ m.time # 0) => Cardinality(stored) <= 1
                        /\ ways > InFlight(m, "quote") =>
                              \E n \in DOMAIN memory : memory[n].message = m \/ Alike(m, memory[n])
  BY DEF EachMessageOnce
<1> DEFINE stored == {n \in DOMAIN memory : memory[n].kind = "quote" /\ memory[n].message = m}
           ways   == Cardinality({n \in DOMAIN delivered : delivered[n] = m})
<1>1. ASSUME Tier(m) # "content_hash" \/ m.time # 0
      PROVE  Cardinality(stored) <= 1
  <2>1. \A i, j \in stored : DedupKey(memory[i]) = DedupKey(memory[j])
    <3> SUFFICES ASSUME NEW i \in stored, NEW j \in stored
                 PROVE  DedupKey(memory[i]) = DedupKey(memory[j])
      OBVIOUS
    <3>1. /\ memory[i].message = m /\ memory[j].message = m
          /\ memory[i].kind = "quote" /\ memory[j].kind = "quote"
      OBVIOUS
    <3>2. m.time # 0 => memory[i].observed = m.time /\ memory[j].observed = m.time
      BY <3>1 DEF StoreInv, Rows
    <3> QED
      BY <1>1, <3>1, <3>2 DEF DedupKey, Digest, Tier
  <2>2. \A i, j \in stored : i = j
    BY <2>1 DEF StoreInv
  <2>3. stored = {} \/ \E i \in stored : stored = {i}
    BY <2>2
  <2> QED
    BY <2>3, FS_EmptySet, FS_Singleton
<1>2. ways = Cardinality(Places(delivered, {m}))
  BY DEF Places
<1>3. InFlight(m, "quote") = Cardinality(Places(flight, QuotesOf(m)))
  <2>1. \A n \in DOMAIN flight : flight[n] \in StoredRows
    BY DEF StoreInv
  <2>2. {n \in DOMAIN flight : flight[n].message = m /\ flight[n].kind = "quote"} = Places(flight, QuotesOf(m))
    BY <2>1 DEF Places, QuotesOf
  <2> QED
    BY <2>2 DEF InFlight
<1>4. Cardinality(Places(delivered, {m})) \in Nat /\ Cardinality(Places(flight, QuotesOf(m))) \in Nat
  BY PlacesAreFinite DEF StoreInv
<1>5. Kept(m, memory) \/ Cardinality(Places(delivered, {m})) <= Cardinality(Places(flight, QuotesOf(m)))
  BY DEF StoreInv
<1> QED
  BY <1>1, <1>2, <1>3, <1>4, <1>5 DEF Kept

(* Whatever messages the provider sends, however often and from whichever  *)
(* session: each that has arrived is kept, itself or one told from it by   *)
(* nothing, and kept once (store/memory.py).                               *)
THEOREM MessagesKeptOnce == StoreSpec => []EachMessageOnce
<1> QED
  BY StoreInitially, StoreKeeps, StoredOnce, PTL DEF StoreSpec

(* What is stored later than an instant leaves what was known then.        *)
LEMMA StoringLater ==
    ASSUME NEW T, NEW store \in Seq(T), NEW row \in T, NEW keys, NEW taken, NEW valid, NEW t \in Nat,
           row.ingested \in Nat, row.ingested > t
    PROVE  Fetch(AppendTo(store, row, keys, taken), valid, t) = Fetch(store, valid, t)
<1>1. Rows(Append(store, row)) = Rows(store) \cup {row}
  <2>1. /\ DOMAIN store = 1 .. Len(store) /\ DOMAIN Append(store, row) = 1 .. Len(store) + 1
        /\ Append(store, row)[Len(store) + 1] = row /\ Len(store) \in Nat
        /\ \A n \in 1 .. Len(store) : Append(store, row)[n] = store[n]
    OBVIOUS
  <2> QED
    BY <2>1 DEF Rows
<1>2. ~(row.ingested <= t)
  OBVIOUS
<1> QED
  BY <1>1, <1>2 DEF Fetch, AppendTo

(* What was known at an instant before now, once all that was stamped by   *)
(* then is stored, is what is known of it ever after (core/timemode.py).   *)
THEOREM KnowledgeStays == StoreSpec => KnowledgeSettles
<1> DEFINE Settles ==
        \A t \in 1 .. clock - 1 :
            (\A n \in DOMAIN flight : flight[n].ingested > t) =>
                /\ KnowledgeAt(memory, t)' = KnowledgeAt(memory, t)
                /\ \A v \in 1 .. t : MarketTruthAt(table, v, t)' = MarketTruthAt(table, v, t)
<1>1. ASSUME StoreInv, StoreNext PROVE Settles
  <2> SUFFICES ASSUME NEW t \in 1 .. clock - 1, \A n \in DOMAIN flight : flight[n].ingested > t
               PROVE  /\ Fetch(memory', t, t) = Fetch(memory, t, t)
                      /\ \A v \in 1 .. t : Fetch(table', v, t) = Fetch(table, v, t)
    BY DEF KnowledgeAt, MarketTruthAt, Fetch, Rows
  <2>1. t \in Nat /\ memory \in Seq(StoredRows) /\ table \in Seq(StoredRows)
    BY <1>1 DEF StoreInv
  <2>2. CASE Store
    <3>1. Head(flight) = flight[1] /\ 1 \in DOMAIN flight /\ flight[1] \in StoredRows
      BY <1>1, <2>2 DEF Store, StoreInv
    <3>2. Head(flight) \in StoredRows /\ Head(flight).ingested \in Nat /\ Head(flight).ingested > t
      BY <3>1 DEF StoredRows
    <3> QED
      BY <2>1, <2>2, <3>2, StoringLater DEF Store
  <2>3. CASE ClockTicks \/ \E m \in Messages : Deliver(m)
    BY <2>3 DEF ClockTicks, Deliver
  <2> QED
    BY <1>1, <2>2, <2>3 DEF StoreNext
<1> HIDE DEF Settles
<1>2. StoreInv /\ [StoreNext]_storeVars => [Settles]_storeVars
  BY <1>1
<1>3. StoreSpec => [][Settles]_storeVars
  BY <1>2, StoreInitially, StoreKeeps, PTL DEF StoreSpec
<1> QED
  BY <1>3 DEF KnowledgeSettles, Settles
-----------------------------------------------------------------------------
(* The plans: SubscriptionPlanner.                                         *)

Instrument == ModeSet \X Nat

Once(ids) == \A j, k \in DOMAIN ids : ids[j] = ids[k] => j = k

Apart(byMode) == \A m, n \in ModeSet : m # n => Range(byMode[m]) \cap Range(byMode[n]) = {}

AskedOf(byMode) == UNION {Range(byMode[mode]) : mode \in ModeSet}

(* What every rung of the ladder keeps of the request.                     *)
Keeps(byMode, asked, protected) ==
    /\ byMode \in [ModeSet -> Seq(Instrument)]
    /\ \A mode \in ModeSet : Once(byMode[mode])
    /\ Apart(byMode)
    /\ AskedOf(byMode) \subseteq asked
    /\ \A i \in asked \cap protected : i \in Range(byMode[i[1]])

IsKept(ids, S, m, kept) ==
    kept = [n \in 0 .. m |-> IF n = 0 THEN <<>>
                             ELSE IF ids[n] \in S THEN Append(kept[n - 1], ids[n]) ELSE kept[n - 1]]

LEMMA KeptExists ==
    ASSUME NEW ids, NEW S, NEW m \in Nat
    PROVE  \E kept : IsKept(ids, S, m, kept)
<1> DEFINE T == {k \in Nat : ~(\E g : IsKept(ids, S, k, g))}
           Next(g, k) == IF ids[k] \in S THEN Append(g[k - 1], ids[k]) ELSE g[k - 1]
<1> SUFFICES ASSUME T # {} PROVE FALSE
  OBVIOUS
<1>1. PICK k \in T : \A j \in T : k <= j
  BY LeastNumber
<1>2. k # 0
  <2>1. IsKept(ids, S, 0, [n \in 0 .. 0 |-> <<>>])
    BY DEF IsKept
  <2> QED
    BY <1>1, <2>1
<1>3. k - 1 \in Nat /\ k - 1 \notin T
  BY <1>1, <1>2
<1>4. PICK g : IsKept(ids, S, k - 1, g)
  BY <1>3
<1> DEFINE h == [n \in 0 .. k |-> IF n = k THEN Next(g, k) ELSE g[n]]
<1>5. IsKept(ids, S, k, h)
  <2>1. ASSUME NEW n \in 0 .. k
        PROVE  h[n] = IF n = 0 THEN <<>> ELSE Next(h, n)
    <3>1. CASE n = k
      <4>1. h[k] = Next(g, k) /\ h[k - 1] = g[k - 1]
        BY <1>1, <1>2
      <4> QED
        BY <3>1, <4>1, <1>2
    <3>2. CASE n # k
      <4>1. n \in 0 .. k - 1
        BY <3>2, <1>1
      <4>2. g[n] = IF n = 0 THEN <<>> ELSE Next(g, n)
        BY <4>1, <1>4 DEF IsKept
      <4>3. n # 0 => n - 1 \in 0 .. k /\ n - 1 # k
        BY <4>1, <1>1
      <4>4. h[n] = g[n] /\ (n # 0 => h[n - 1] = g[n - 1])
        BY <3>2, <4>3
      <4> QED
        BY <4>2, <4>4
    <3> QED
      BY <3>1, <3>2
  <2> QED
    BY <2>1 DEF IsKept
<1> QED
  BY <1>1, <1>5

(* Choosing some of the ids keeps those, in places of their own.           *)
LEMMA AmongIs ==
    ASSUME NEW U, NEW ids \in Seq(U), NEW S
    PROVE  /\ Among(ids, S) \in Seq(U)
           /\ Range(Among(ids, S)) = Range(ids) \cap S
           /\ Once(ids) => Once(Among(ids, S))
<1> DEFINE kept == CHOOSE g : IsKept(ids, S, Len(ids), g)
           Good(n) == /\ kept[n] \in Seq(U)
                      /\ \A x : (\E k \in DOMAIN kept[n] : kept[n][k] = x)
                                  <=> (x \in S /\ \E k \in 1 .. n : ids[k] = x)
                      /\ Once(ids) => Once(kept[n])
           T == {n \in Nat : n <= Len(ids) /\ ~Good(n)}
<1>1. Len(ids) \in Nat /\ DOMAIN ids = 1 .. Len(ids)
  OBVIOUS
<1>2. IsKept(ids, S, Len(ids), kept)
  BY <1>1, KeptExists
<1>3. Among(ids, S) = kept[Len(ids)]
  BY Zenon DEF Among, IsKept
<1> HIDE DEF kept
<1>4. \A n \in 0 .. Len(ids) : kept[n] = IF n = 0 THEN <<>>
          ELSE IF ids[n] \in S THEN Append(kept[n - 1], ids[n]) ELSE kept[n - 1]
  BY <1>2 DEF IsKept
<1>5. T = {}
  <2> SUFFICES ASSUME T # {} PROVE FALSE
    OBVIOUS
  <2>1. PICK n \in T : \A j \in T : n <= j
    <3>1. T \in SUBSET Nat
      OBVIOUS
    <3> HIDE DEF T
    <3> QED
      BY <3>1, LeastNumber
  <2>2. n \in Nat /\ n <= Len(ids) /\ ~Good(n)
    BY <2>1
  <2>3. CASE n = 0
    <3>1. kept[0] = <<>>
      BY <1>1, <1>4
    <3> QED
      BY <2>2, <2>3, <3>1 DEF Once
  <2>4. CASE n # 0
    <3>1. n - 1 \in Nat /\ n - 1 <= Len(ids) /\ n \in 1 .. Len(ids) /\ ~(n <= n - 1)
      BY <1>1, <2>2, <2>4
    <3>2. n - 1 \notin T
      <4> HIDE DEF T
      <4> QED
        BY <2>1, <3>1
    <3>3. Good(n - 1)
      BY <3>1, <3>2
    <3>4. \A k \in 1 .. n : k \in 1 .. n - 1 \/ k = n
      BY <3>1
    <3>5. \A k \in 1 .. n - 1 : k \in 1 .. n /\ k \in DOMAIN ids /\ k # n
      BY <1>1, <3>1
    <3>6. ids[n] \in U /\ n \in 1 .. n /\ n \in DOMAIN ids
      BY <1>1, <3>1
    <3>7. CASE ids[n] \notin S
      <4>1. kept[n] = kept[n - 1]
        BY <1>4, <2>4, <3>1, <3>7
      <4>2. \A x : (x \in S /\ \E k \in 1 .. n : ids[k] = x) <=> (x \in S /\ \E k \in 1 .. n - 1 : ids[k] = x)
        BY <3>4, <3>5, <3>7
      <4>3. Good(n)
        BY <3>3, <4>1, <4>2
      <4> QED
        BY <2>2, <4>3
    <3>8. CASE ids[n] \in S
      <4> DEFINE old == kept[n - 1]
                 new == kept[n]
      <4>1. new = Append(old, ids[n])
        <5>1. n \in 0 .. Len(ids)
          BY <1>1, <2>2
        <5> QED
          BY <1>4, <2>4, <5>1, <3>8
      <4>2. old \in Seq(U) /\ Len(old) \in Nat
        BY <3>3
      <4>3. new \in Seq(U) /\ Len(new) = Len(old) + 1 /\ new[Len(old) + 1] = ids[n]
            /\ \A k \in 1 .. Len(old) : new[k] = old[k]
        BY <3>6, <4>1, <4>2
      <4>4. DOMAIN old = 1 .. Len(old) /\ DOMAIN new = 1 .. Len(old) + 1
        BY <4>2, <4>3
      <4>5. \A k \in DOMAIN new : k \in DOMAIN old \/ k = Len(old) + 1
        BY <4>2, <4>4
      <4>6. \A k \in DOMAIN old : k \in DOMAIN new /\ new[k] = old[k]
        BY <4>2, <4>3, <4>4
      <4>7. Len(old) + 1 \in DOMAIN new
        BY <4>2, <4>4
      <4>8. \A x : (\E k \in DOMAIN old : old[k] = x) <=> (x \in S /\ \E k \in 1 .. n - 1 : ids[k] = x)
        BY <3>3
      <4> HIDE DEF new, old
      <4>9. ASSUME NEW x
            PROVE  (\E k \in DOMAIN new : new[k] = x) <=> (x \in S /\ \E k \in 1 .. n : ids[k] = x)
        <5>1. (\E k \in DOMAIN new : new[k] = x) <=> (x = ids[n] \/ \E k \in DOMAIN old : old[k] = x)
          BY <4>3, <4>5, <4>6, <4>7
        <5>2. (\E k \in 1 .. n : ids[k] = x) <=> (x = ids[n] \/ \E k \in 1 .. n - 1 : ids[k] = x)
          BY <3>4, <3>5, <3>6
        <5> QED
          BY <3>8, <4>8, <5>1, <5>2
      <4>10. ASSUME Once(ids)
             PROVE  Once(new)
        <5>1. Once(old)
          BY <3>3, <4>10 DEF old
        <5>2. \A k \in DOMAIN old : old[k] # ids[n]
          BY <3>5, <3>6, <4>8, <4>10 DEF Once
        <5> QED
          BY <4>3, <4>5, <4>6, <4>7, <5>1, <5>2 DEF Once
      <4>11. Good(n)
        BY <4>3, <4>9, <4>10 DEF new
      <4> QED
        BY <2>2, <4>11
    <3> QED
      BY <3>7, <3>8
  <2> QED
    BY <2>3, <2>4
<1>6. Good(Len(ids))
  <2>1. Len(ids) \notin T
    <3> HIDE DEF T
    <3> QED
      BY <1>5
  <2> QED
    BY <1>1, <2>1
<1>7. Range(Among(ids, S)) = Range(ids) \cap S
  BY <1>1, <1>3, <1>6 DEF Range
<1> QED
  BY <1>3, <1>6, <1>7

LEMMA FromTail ==
    ASSUME NEW ids \in Seq(Instrument), NEW protected
    PROVE  Victims(ids, protected) \cap protected = {}
<1> DEFINE free == Unprotected(ids, protected)
           n == MaxOf(1, Len(free) \div 4)
<1>1. free \in Seq(Instrument) /\ Range(free) = Range(ids) \cap (Range(ids) \ protected)
  BY AmongIs DEF Unprotected
<1>2. Range(free) \cap protected = {}
  BY <1>1
<1>3. Len(free) \in Nat /\ DOMAIN free = 1 .. Len(free)
  BY <1>1
<1>4. free # <<>> => Len(free) > 0
  BY <1>1
<1>5. Victims(ids, protected) = IF free = <<>> THEN {} ELSE {free[k] : k \in Len(free) - n + 1 .. Len(free)}
  BY DEF Victims
<1> HIDE DEF free
<1>6. free # <<>> => n \in 1 .. Len(free)
  BY <1>3, <1>4 DEF MaxOf
<1> HIDE DEF n
<1>7. ASSUME free # <<>>, NEW k \in Len(free) - n + 1 .. Len(free)
      PROVE  k \in DOMAIN free
  BY <1>3, <1>6, <1>7
<1> QED
  BY <1>2, <1>5, <1>7 DEF Range

LEMMA ShedKeeps ==
    ASSUME NEW byMode, NEW asked, NEW protected, Keeps(byMode, asked, protected),
           asked \subseteq Instrument
    PROVE  Keeps(ShedTail(byMode, protected), asked, protected)
<1> DEFINE after == ShedTail(byMode, protected)
           left(mode) == Range(byMode[mode]) \ Victims(byMode[mode], protected)
<1>1. /\ byMode \in [ModeSet -> Seq(Instrument)]
      /\ \A mode \in ModeSet : Once(byMode[mode])
      /\ Apart(byMode) /\ AskedOf(byMode) \subseteq asked
      /\ \A i \in asked \cap protected : i \in Range(byMode[i[1]])
  BY DEF Keeps
<1>2. after = [mode \in ModeSet |-> Among(byMode[mode], left(mode))]
  BY DEF ShedTail
<1>3. ASSUME NEW mode \in ModeSet
      PROVE  /\ after[mode] \in Seq(Instrument) /\ Once(after[mode])
             /\ Range(after[mode]) = Range(byMode[mode]) \cap left(mode)
  <2>1. byMode[mode] \in Seq(Instrument)
    BY <1>1
  <2>2. after[mode] = Among(byMode[mode], left(mode))
    BY <1>2
  <2> HIDE DEF after, left
  <2> QED
    BY <1>1, <2>1, <2>2, AmongIs
<1>4. \A mode \in ModeSet : Range(after[mode]) \subseteq Range(byMode[mode])
  BY <1>3
<1>5. \A i \in asked \cap protected : i \in Range(after[i[1]])
  <2> TAKE i \in asked \cap protected
  <2>1. i[1] \in ModeSet
    <3>1. i \in ModeSet \X Nat
      BY DEF Instrument
    <3> QED
      BY <3>1
  <2>2. byMode[i[1]] \in Seq(Instrument) /\ i \in Range(byMode[i[1]])
    BY <1>1, <2>1
  <2>3. i \notin Victims(byMode[i[1]], protected)
    BY <2>2, FromTail
  <2> QED
    BY <1>3, <2>1, <2>2, <2>3
<1>6. after \in [ModeSet -> Seq(Instrument)]
  BY <1>2, <1>3
<1> HIDE DEF after
<1>7. Apart(after)
  BY <1>1, <1>4 DEF Apart
<1>8. AskedOf(after) \subseteq asked
  BY <1>1, <1>4 DEF AskedOf
<1> QED
  BY <1>3, <1>5, <1>6, <1>7, <1>8 DEF Keeps, after

(* One list after another has the ids of both, and each once if they share *)
(* none.                                                                   *)
LEMMA Joined ==
    ASSUME NEW U, NEW a \in Seq(U), NEW b \in Seq(U)
    PROVE  /\ a \o b \in Seq(U)
           /\ Range(a \o b) = Range(a) \cup Range(b)
           /\ Once(a) /\ Once(b) /\ Range(a) \cap Range(b) = {} => Once(a \o b)
<1> DEFINE c == a \o b
<1>1. Len(a) \in Nat /\ Len(b) \in Nat /\ DOMAIN a = 1 .. Len(a) /\ DOMAIN b = 1 .. Len(b)
  OBVIOUS
<1>2. c \in Seq(U) /\ Len(c) = Len(a) + Len(b) /\ DOMAIN c = 1 .. Len(a) + Len(b)
  OBVIOUS
<1>3. \A k \in 1 .. Len(a) + Len(b) : c[k] = IF k <= Len(a) THEN a[k] ELSE b[k - Len(a)]
  OBVIOUS
<1> HIDE DEF c
<1>4. \A k \in DOMAIN a : k \in DOMAIN c /\ c[k] = a[k]
  BY <1>1, <1>2, <1>3
<1>5. \A k \in DOMAIN b : k + Len(a) \in DOMAIN c /\ c[k + Len(a)] = b[k]
  BY <1>1, <1>2, <1>3
<1>6. \A k \in DOMAIN c : (k \in DOMAIN a /\ c[k] = a[k])
                          \/ (k - Len(a) \in DOMAIN b /\ c[k] = b[k - Len(a)])
  BY <1>1, <1>2, <1>3
<1>7. Range(c) = Range(a) \cup Range(b)
  <2>1. ASSUME NEW x \in Range(c)
        PROVE  x \in Range(a) \cup Range(b)
    BY <1>6, <2>1 DEF Range
  <2>2. ASSUME NEW x \in Range(a)
        PROVE  x \in Range(c)
    BY <1>4, <2>2 DEF Range
  <2>3. ASSUME NEW x \in Range(b)
        PROVE  x \in Range(c)
    <3>1. PICK k \in DOMAIN b : x = b[k]
      BY <2>3 DEF Range
    <3>2. k + Len(a) \in DOMAIN c /\ c[k + Len(a)] = x
      BY <1>5, <3>1
    <3> QED
      BY <3>2 DEF Range
  <2> QED
    BY <2>1, <2>2, <2>3
<1>8. ASSUME Once(a), Once(b), Range(a) \cap Range(b) = {}
      PROVE  Once(c)
  <2> SUFFICES ASSUME NEW j \in DOMAIN c, NEW k \in DOMAIN c, c[j] = c[k]
               PROVE  j = k
    BY DEF Once
  <2>1. CASE j \in DOMAIN a /\ k \in DOMAIN a
    BY <1>4, <1>8, <2>1 DEF Once
  <2>2. CASE j \notin DOMAIN a /\ k \notin DOMAIN a
    <3>1. j - Len(a) \in DOMAIN b /\ k - Len(a) \in DOMAIN b /\ b[j - Len(a)] = b[k - Len(a)]
      BY <1>6, <2>2
    <3>2. j - Len(a) = k - Len(a)
      BY <1>8, <3>1 DEF Once
    <3> QED
      BY <1>1, <1>2, <3>2
  <2>3. CASE j \in DOMAIN a /\ k \notin DOMAIN a
    <3>1. c[j] \in Range(a) /\ c[k] \in Range(b)
      BY <1>4, <1>6, <2>3 DEF Range
    <3> QED
      BY <1>8, <3>1
  <2>4. CASE j \notin DOMAIN a /\ k \in DOMAIN a
    <3>1. c[k] \in Range(a) /\ c[j] \in Range(b)
      BY <1>4, <1>6, <2>4 DEF Range
    <3> QED
      BY <1>8, <3>1
  <2> QED
    BY <2>1, <2>2, <2>3, <2>4
<1> QED
  BY <1>2, <1>7, <1>8 DEF c

LEMMA DemoteKeeps ==
    ASSUME NEW byMode, NEW asked, NEW protected, Keeps(byMode, asked, protected),
           asked \subseteq Instrument
    PROVE  Keeps(Demote(byMode, protected), asked, protected)
<1> DEFINE after == Demote(byMode, protected)
           full == Among(byMode["FULL"], protected)
           rest == Unprotected(byMode["FULL"], protected)
<1>1. /\ byMode \in [ModeSet -> Seq(Instrument)]
      /\ \A mode \in ModeSet : Once(byMode[mode])
      /\ Apart(byMode) /\ AskedOf(byMode) \subseteq asked
      /\ \A i \in asked \cap protected : i \in Range(byMode[i[1]])
  BY DEF Keeps
<1>2. /\ byMode["FULL"] \in Seq(Instrument) /\ byMode["GREEKS"] \in Seq(Instrument)
      /\ byMode["LTPC"] \in Seq(Instrument)
      /\ Once(byMode["FULL"]) /\ Once(byMode["GREEKS"]) /\ Once(byMode["LTPC"])
  BY <1>1 DEF ModeSet
<1>3. /\ Range(byMode["FULL"]) \cap Range(byMode["GREEKS"]) = {}
      /\ Range(byMode["FULL"]) \cap Range(byMode["LTPC"]) = {}
      /\ Range(byMode["GREEKS"]) \cap Range(byMode["LTPC"]) = {}
  BY <1>1 DEF Apart, ModeSet
<1>4. full \in Seq(Instrument) /\ Once(full) /\ Range(full) = Range(byMode["FULL"]) \cap protected
  BY <1>2, AmongIs
<1>5. rest \in Seq(Instrument) /\ Once(rest) /\ Range(rest) = Range(byMode["FULL"]) \ protected
  <2>1. /\ rest \in Seq(Instrument) /\ Once(rest)
        /\ Range(rest) = Range(byMode["FULL"]) \cap (Range(byMode["FULL"]) \ protected)
    BY <1>2, AmongIs DEF Unprotected
  <2> QED
    BY <2>1
<1>6. after = [mode \in ModeSet |-> IF mode = "GREEKS" THEN byMode["GREEKS"] \o rest
                                    ELSE IF mode = "FULL" THEN full ELSE byMode[mode]]
  <2>1. after = [byMode EXCEPT !["FULL"] = full, !["GREEKS"] = byMode["GREEKS"] \o rest]
    BY <1>1 DEF Demote, ModeSet
  <2> HIDE DEF after, full, rest
  <2> QED
    BY <1>1, <2>1 DEF ModeSet
<1> HIDE DEF full, rest
<1>7. /\ byMode["GREEKS"] \o rest \in Seq(Instrument)
      /\ Range(byMode["GREEKS"] \o rest) = Range(byMode["GREEKS"]) \cup Range(rest)
      /\ Once(byMode["GREEKS"] \o rest)
  <2>1. Range(byMode["GREEKS"]) \cap Range(rest) = {}
    BY <1>3, <1>5
  <2> QED
    BY <1>2, <1>5, <2>1, Joined
<1>8. after["FULL"] = full /\ after["GREEKS"] = byMode["GREEKS"] \o rest /\ after["LTPC"] = byMode["LTPC"]
  BY <1>6 DEF ModeSet
<1>9. after \in [ModeSet -> Seq(Instrument)]
  BY <1>1, <1>4, <1>6, <1>7
<1> HIDE DEF after
<1>10. \A mode \in ModeSet : Once(after[mode])
  BY <1>2, <1>4, <1>7, <1>8 DEF ModeSet
<1>11. Range(after["FULL"]) \cap Range(after["GREEKS"]) = {}
       /\ Range(after["FULL"]) \cap Range(after["LTPC"]) = {}
       /\ Range(after["GREEKS"]) \cap Range(after["LTPC"]) = {}
  BY <1>3, <1>4, <1>5, <1>7, <1>8
<1>12. Apart(after)
  BY <1>11 DEF Apart, ModeSet
<1>13. AskedOf(after) \subseteq asked
  <2>1. AskedOf(after) = Range(after["FULL"]) \cup Range(after["GREEKS"]) \cup Range(after["LTPC"])
    BY DEF AskedOf, ModeSet
  <2>2. AskedOf(byMode) = Range(byMode["FULL"]) \cup Range(byMode["GREEKS"]) \cup Range(byMode["LTPC"])
    BY DEF AskedOf, ModeSet
  <2> QED
    BY <1>1, <1>4, <1>5, <1>7, <1>8, <2>1, <2>2
<1>14. \A i \in asked \cap protected : i \in Range(after[i[1]])
  <2> TAKE i \in asked \cap protected
  <2>1. i[1] \in ModeSet
    <3>1. i \in ModeSet \X Nat
      BY DEF Instrument
    <3> QED
      BY <3>1
  <2>2. i \in Range(byMode[i[1]])
    BY <1>1
  <2>3. i[1] = "FULL" \/ i[1] = "GREEKS" \/ i[1] = "LTPC"
    BY <2>1 DEF ModeSet
  <2> QED
    BY <1>4, <1>7, <1>8, <2>2, <2>3
<1> QED
  BY <1>9, <1>10, <1>12, <1>13, <1>14 DEF Keeps, after

LEMMA RungKeeps ==
    ASSUME NEW request, NEW asked, Keeps(request.byMode, asked, request.protected),
           asked \subseteq Instrument, NEW n \in 1 .. 5
    PROVE  Keeps(Ladder(request)[n], asked, request.protected)
<1> DEFINE protected == request.protected
           demoted == Demote(request.byMode, protected)
           once == ShedTail(demoted, protected)
           twice == ShedTail(once, protected)
           thrice == ShedTail(twice, protected)
<1>1. Keeps(demoted, asked, protected)
  BY DemoteKeeps
<1>2. Keeps(once, asked, protected)
  <2> HIDE DEF demoted
  <2> QED
    BY <1>1, ShedKeeps
<1>3. Keeps(twice, asked, protected)
  <2> HIDE DEF once
  <2> QED
    BY <1>2, ShedKeeps
<1>4. Keeps(thrice, asked, protected)
  <2> HIDE DEF twice
  <2> QED
    BY <1>3, ShedKeeps
<1>5. Ladder(request) = <<request.byMode, demoted, once, twice, thrice>>
  BY DEF Ladder
<1> HIDE DEF demoted, once, twice, thrice
<1> QED
  BY <1>1, <1>2, <1>3, <1>4, <1>5

LEMMA SmallRemainder ==
    ASSUME NEW u \in Nat, NEW n \in Nat, n < u
    PROVE  n % u = n
OBVIOUS

(* Where a mode fits its pool, it takes one connection, or none.           *)
Taken(byMode, mode) == IF byMode[mode] = <<>> THEN {} ELSE {[mode |-> mode, ids |-> byMode[mode]]}

LEMMA OneChunk ==
    ASSUME NEW byMode, NEW budget, NEW mode, byMode[mode] \in Seq(Instrument),
           Usable(budget, mode) \in Nat, CountOf(byMode, mode) <= Usable(budget, mode)
    PROVE  {[mode |-> mode, ids |-> SubSeq(byMode[mode], start + 1,
                                           IF start + Usable(budget, mode) < CountOf(byMode, mode)
                                           THEN start + Usable(budget, mode) ELSE CountOf(byMode, mode))] :
              start \in {n \in 0 .. CountOf(byMode, mode) - 1 : n % MaxOf(1, Usable(budget, mode)) = 0}}
             = Taken(byMode, mode)
<1> DEFINE ids == byMode[mode]
           u == Usable(budget, mode)
           count == CountOf(byMode, mode)
           starts == {n \in 0 .. count - 1 : n % MaxOf(1, u) = 0}
           chunk(start) == [mode |-> mode, ids |-> SubSeq(ids, start + 1, IF start + u < count THEN start + u ELSE count)]
<1>1. count = Len(ids) /\ count \in Nat
  BY DEF CountOf
<1>2. CASE count = 0
  <2>1. ids = <<>>
    <3>1. Len(ids) = 0
      BY <1>1, <1>2
    <3> QED
      BY <3>1
  <2>2. starts = {}
    BY <1>2
  <2> QED
    BY <2>1, <2>2 DEF Taken
<1>3. CASE count # 0
  <2>1. MaxOf(1, u) = u /\ u \in Nat /\ u > 0 /\ count <= u
    BY <1>1, <1>3 DEF MaxOf
  <2> HIDE DEF count, u
  <2>2. \A n \in 0 .. count - 1 : n % u = n
    <3>1. ASSUME NEW n \in 0 .. count - 1
          PROVE  n \in Nat /\ n < u
      BY <1>1, <2>1
    <3> QED
      BY <2>1, <3>1, SmallRemainder
  <2>3. starts = {0}
    BY <1>1, <1>3, <2>1, <2>2
  <2>4. 0 + 1 = 1 /\ ~(0 + u < count)
    BY <1>1, <2>1
  <2>5. chunk(0) = [mode |-> mode, ids |-> SubSeq(ids, 1, count)]
    BY <2>4
  <2>6. SubSeq(ids, 1, Len(ids)) = ids
    <3>1. \A s \in Seq(Instrument) : SubSeq(s, 1, Len(s)) = s
      OBVIOUS
    <3> QED
      BY <3>1
  <2>7. chunk(0) = [mode |-> mode, ids |-> ids]
    BY <1>1, <2>5, <2>6
  <2>8. ids # <<>>
    BY <1>1, <1>3
  <2> HIDE DEF chunk
  <2>9. {chunk(start) : start \in starts} = {[mode |-> mode, ids |-> ids]}
    BY <2>3, <2>7
  <2> QED
    BY <2>8, <2>9 DEF Taken, chunk, u, count
<1> QED
  BY <1>2, <1>3

LEMMA AllocationIs ==
    ASSUME NEW byMode \in [ModeSet -> Seq(Instrument)], NEW budget \in Budgets, Fits(byMode, budget)
    PROVE  /\ Allocate(byMode, budget) = Taken(byMode, "FULL") \cup Taken(byMode, "GREEKS") \cup Taken(byMode, "LTPC")
           /\ \A mode \in ModeSet : Len(byMode[mode]) <= Usable(budget, mode)
<1>1. budget.full \in Nat /\ budget.shared \in Nat
  BY PlannerAssumption DEF Budgets
<1>2. byMode["FULL"] \in Seq(Instrument) /\ byMode["GREEKS"] \in Seq(Instrument) /\ byMode["LTPC"] \in Seq(Instrument)
  BY DEF ModeSet
<1>3. /\ CountOf(byMode, "FULL") \in Nat /\ CountOf(byMode, "GREEKS") \in Nat /\ CountOf(byMode, "LTPC") \in Nat
  BY <1>2 DEF CountOf
<1>4. /\ CountOf(byMode, "FULL") <= budget.full
      /\ CountOf(byMode, "LTPC") + CountOf(byMode, "GREEKS") <= budget.shared
  BY DEF Fits
<1>5. \A mode \in ModeSet : /\ byMode[mode] \in Seq(Instrument) /\ Usable(budget, mode) \in Nat
                            /\ CountOf(byMode, mode) <= Usable(budget, mode)
  BY <1>1, <1>2, <1>3, <1>4 DEF Usable, ModeSet
<1>6. Allocate(byMode, budget) = UNION {Taken(byMode, mode) : mode \in ModeSet}
  <2> DEFINE chunks(mode) ==
        {[mode |-> mode, ids |-> SubSeq(byMode[mode], start + 1,
                                        IF start + Usable(budget, mode) < CountOf(byMode, mode)
                                        THEN start + Usable(budget, mode) ELSE CountOf(byMode, mode))] :
           start \in {n \in 0 .. CountOf(byMode, mode) - 1 : n % MaxOf(1, Usable(budget, mode)) = 0}}
  <2>1. Allocate(byMode, budget) = UNION {chunks(mode) : mode \in ModeSet}
    BY Zenon DEF Allocate
  <2>2. ASSUME NEW mode \in ModeSet
        PROVE  chunks(mode) = Taken(byMode, mode)
    BY <1>5, OneChunk
  <2> HIDE DEF chunks
  <2> QED
    BY <2>1, <2>2
<1>7. UNION {Taken(byMode, mode) : mode \in ModeSet}
        = Taken(byMode, "FULL") \cup Taken(byMode, "GREEKS") \cup Taken(byMode, "LTPC")
  BY DEF ModeSet
<1> QED
  BY <1>5, <1>6, <1>7 DEF CountOf

Some(byMode, mode) == IF byMode[mode] = <<>> THEN 0 ELSE 1

LEMMA TakenCounts ==
    ASSUME NEW byMode, NEW mode
    PROVE  IsFiniteSet(Taken(byMode, mode)) /\ Cardinality(Taken(byMode, mode)) = Some(byMode, mode)
BY FS_EmptySet, FS_Singleton DEF Taken, Some

LEMMA UnionCounts ==
    ASSUME NEW A, NEW B, IsFiniteSet(A), IsFiniteSet(B)
    PROVE  IsFiniteSet(A \cup B) /\ Cardinality(A \cup B) <= Cardinality(A) + Cardinality(B)
           /\ Cardinality(A \cup B) \in Nat
<1>1. IsFiniteSet(A \cup B) /\ Cardinality(A \cup B) = Cardinality(A) + Cardinality(B) - Cardinality(A \cap B)
  BY FS_Union
<1>2. IsFiniteSet(A \cap B)
  BY FS_Intersection
<1>3. Cardinality(A) \in Nat /\ Cardinality(B) \in Nat /\ Cardinality(A \cap B) \in Nat /\ Cardinality(A \cup B) \in Nat
  BY <1>1, <1>2, FS_CardinalityType
<1> QED
  BY <1>1, <1>3

LEMMA CeilDivOfSome ==
    ASSUME NEW a \in Nat, NEW b \in Nat, a > 0, b > 0
    PROVE  CeilDiv(a, b) \in Int /\ CeilDiv(a, b) >= 1
<1> DEFINE q == (a + b - 1) \div b
           r == (a + b - 1) % b
<1>1. a + b - 1 \in Int /\ a + b - 1 >= b
  OBVIOUS
<1>2. q \in Int /\ r \in 0 .. b - 1 /\ a + b - 1 = b * q + r
  <2>1. \A k \in Int : k \div b \in Int /\ (k % b) \in 0 .. b - 1 /\ k = b * (k \div b) + (k % b)
    OBVIOUS
  <2> QED
    BY <1>1, <2>1
<1> HIDE DEF q, r
<1>3. b * q >= 1
  BY <1>1, <1>2
<1>4. q >= 1
  BY <1>2, <1>3
<1> QED
  BY <1>2, <1>4 DEF CeilDiv, q

LEMMA ConnectionsSuffice ==
    ASSUME NEW byMode \in [ModeSet -> Seq(Instrument)], NEW budget \in Budgets, Fits(byMode, budget)
    PROVE  Some(byMode, "FULL") + Some(byMode, "GREEKS") + Some(byMode, "LTPC")
             <= budget.connections
                + IF byMode["GREEKS"] # <<>> /\ byMode["LTPC"] # <<>> THEN 1 ELSE 0
<1> DEFINE full == CountOf(byMode, "FULL")
           greeks == CountOf(byMode, "GREEKS")
           ltpc == CountOf(byMode, "LTPC")
           per == MaxOf(budget.full, budget.shared)
<1>1. budget.full \in Nat /\ budget.shared \in Nat /\ budget.connections \in Nat
  BY PlannerAssumption DEF Budgets
<1>2. full \in Nat /\ greeks \in Nat /\ ltpc \in Nat
  BY DEF ModeSet, CountOf
<1>3. /\ byMode["FULL"] = <<>> <=> full = 0
      /\ byMode["GREEKS"] = <<>> <=> greeks = 0
      /\ byMode["LTPC"] = <<>> <=> ltpc = 0
  BY DEF ModeSet, CountOf
<1>4. /\ full <= budget.full /\ ltpc + greeks <= budget.shared
      /\ ConnectionsNeeded(full, ltpc + greeks, per) <= budget.connections
  BY DEF Fits
<1>5. per \in Nat /\ budget.full <= per /\ budget.shared <= per
  BY <1>1 DEF MaxOf
<1> HIDE DEF full, greeks, ltpc, per
<1>6. CASE per = 0
  <2>1. full = 0 /\ greeks = 0 /\ ltpc = 0
    BY <1>1, <1>2, <1>4, <1>5, <1>6
  <2> QED
    BY <1>1, <1>3, <2>1 DEF Some
<1>7. CASE per # 0 /\ full > 0 /\ ltpc + greeks > 0
  <2>1. CeilDiv(full, per) >= 1 /\ CeilDiv(ltpc + greeks, per) >= 1
        /\ CeilDiv(full, per) \in Int /\ CeilDiv(ltpc + greeks, per) \in Int
    <3>1. ltpc + greeks \in Nat /\ per > 0
      BY <1>2, <1>5, <1>7
    <3> QED
      BY <1>2, <1>5, <1>7, <3>1, CeilDivOfSome
  <2>2. ConnectionsNeeded(full, ltpc + greeks, per) = CeilDiv(full, per) + CeilDiv(ltpc + greeks, per)
    BY <1>7 DEF ConnectionsNeeded
  <2>3. budget.connections >= 2
    BY <1>1, <1>4, <2>1, <2>2
  <2> QED
    BY <1>1, <2>3 DEF Some
<1>8. CASE per # 0 /\ ~(full > 0 /\ ltpc + greeks > 0)
  <2>1. ConnectionsNeeded(full, ltpc + greeks, per) = MaxOf(1, CeilDiv(full + (ltpc + greeks), per))
    BY <1>8 DEF ConnectionsNeeded
  <2>2. CeilDiv(full + (ltpc + greeks), per) \in Int
    BY <1>2, <1>5, <1>8 DEF CeilDiv
  <2>3. budget.connections >= 1
    BY <1>1, <1>4, <2>1, <2>2 DEF MaxOf
  <2>4. full = 0 \/ (ltpc = 0 /\ greeks = 0)
    BY <1>2, <1>8
  <2>5. byMode["FULL"] = <<>> \/ (byMode["LTPC"] = <<>> /\ byMode["GREEKS"] = <<>>)
    BY <1>3, <2>4
  <2> QED
    BY <1>1, <2>3, <2>5 DEF Some
<1> QED
  BY <1>6, <1>7, <1>8

LEMMA PlanFits ==
    ASSUME NEW request, NEW asked, Keeps(request.byMode, asked, request.protected),
           asked \subseteq Instrument, asked = AskedOf(request.byMode), NEW budget \in Budgets,
           PlanOf(request, budget).verdict # "UNSATISFIABLE"
    PROVE  \E byMode :
              /\ Keeps(byMode, asked, request.protected) /\ Fits(byMode, budget)
              /\ PlanOf(request, budget).allocations = Allocate(byMode, budget)
              /\ PlanOf(request, budget).verdict = "ACCEPTED" => byMode = request.byMode
<1> DEFINE ladder == Ladder(request)
           fitting == {n \in DOMAIN ladder : Fits(ladder[n], budget)}
           first == CHOOSE n \in fitting : \A m \in fitting : n <= m
<1>1. DOMAIN ladder = 1 .. 5 /\ ladder[1] = request.byMode
  BY DEF Ladder
<1>2. PlanOf(request, budget) =
        IF fitting = {} THEN [verdict |-> "UNSATISFIABLE", allocations |-> {}]
        ELSE [verdict |-> IF first = 1 THEN "ACCEPTED" ELSE "DEGRADED",
              allocations |-> Allocate(ladder[first], budget)]
  BY Zenon DEF PlanOf
<1>3. fitting # {}
  BY <1>2
<1>4. first \in fitting
  <2>1. fitting \in SUBSET Nat
    BY <1>1
  <2> HIDE DEF fitting
  <2>2. \E n \in fitting : \A m \in fitting : n <= m
    BY <1>3, <2>1, LeastNumber
  <2> QED
    BY <2>2
<1> HIDE DEF first, ladder
<1>5. first \in 1 .. 5 /\ Fits(ladder[first], budget)
  BY <1>1, <1>4
<1>6. Keeps(ladder[first], asked, request.protected)
  BY <1>5, RungKeeps DEF ladder
<1>7. PlanOf(request, budget).verdict = "ACCEPTED" => first = 1
  BY <1>2, <1>3
<1> QED
  BY <1>1, <1>2, <1>3, <1>5, <1>6, <1>7

RequestsAreSound(request) ==
    Keeps(request.byMode, AskedOf(request.byMode), request.protected)

LEMMA RequestSound ==
    ASSUME NEW request \in Requests
    PROVE  RequestsAreSound(request) /\ AskedOf(request.byMode) \subseteq Instrument
<1> DEFINE byMode == request.byMode
<1>1. PICK counts \in [ModeSet -> Nat] : byMode = [mode \in ModeSet |-> Ids(mode, counts[mode])]
  <2>1. MaxOf(MaxFull, MaxOf(MaxGreeks, MaxLtpc)) \in Nat
    BY PlannerAssumption DEF MaxOf
  <2>2. \A c \in [ModeSet -> 0 .. MaxOf(MaxFull, MaxOf(MaxGreeks, MaxLtpc))] : c \in [ModeSet -> Nat]
    BY <2>1
  <2> QED
    BY <2>2 DEF Requests
<1> HIDE DEF byMode
<1>2. ASSUME NEW mode \in ModeSet
      PROVE  /\ byMode[mode] \in Seq(Instrument) /\ Once(byMode[mode])
             /\ \A i \in Range(byMode[mode]) : i \in Instrument /\ i[1] = mode
  <2>1. counts[mode] \in Nat /\ byMode[mode] = [n \in 1 .. counts[mode] |-> <<mode, n>>]
    BY <1>1 DEF Ids
  <2>2. \A n \in 1 .. counts[mode] : <<mode, n>> \in Instrument
    BY <2>1 DEF Instrument
  <2>3. byMode[mode] \in Seq(Instrument)
    BY <2>1, <2>2
  <2>4. DOMAIN byMode[mode] = 1 .. counts[mode] /\ \A n \in 1 .. counts[mode] : byMode[mode][n] = <<mode, n>>
    BY <2>1
  <2>5. Once(byMode[mode])
    BY <2>4 DEF Once
  <2> QED
    BY <2>2, <2>3, <2>4, <2>5 DEF Range
<1>3. byMode \in [ModeSet -> Seq(Instrument)]
  BY <1>1, <1>2
<1>4. Apart(byMode)
  BY <1>2 DEF Apart
<1>5. \A i \in AskedOf(byMode) : i \in Instrument /\ i \in Range(byMode[i[1]])
  BY <1>2 DEF AskedOf
<1> QED
  BY <1>2, <1>3, <1>4, <1>5 DEF Keeps, RequestsAreSound, byMode

LEMMA PlanKeeps ==
    ASSUME NEW request \in Requests, NEW budget \in Budgets, plan = <<request, budget>>
    PROVE  PlansKeepWhatIsProtected
<1> DEFINE made == PlanOf(request, budget)
           asked == AskedOf(request.byMode)
           of(mode) == {a \in made.allocations : a.mode = mode}
           subscribed == UNION {Range(a.ids) : a \in made.allocations}
           both == IF of("GREEKS") # {} /\ of("LTPC") # {} THEN 1 ELSE 0
<1>1. Len(plan) = 2 /\ plan[1] = request /\ plan[2] = budget
  OBVIOUS
<1>2. ASSUME made.verdict # "UNSATISFIABLE"
      PROVE  IsSound(made, request, budget)
  <2>1. asked \subseteq Instrument /\ Keeps(request.byMode, asked, request.protected)
    BY RequestSound DEF RequestsAreSound
  <2>2. PICK byMode : /\ Keeps(byMode, asked, request.protected) /\ Fits(byMode, budget)
                      /\ made.allocations = Allocate(byMode, budget)
                      /\ made.verdict = "ACCEPTED" => byMode = request.byMode
    BY <1>2, <2>1, PlanFits
  <2> DEFINE all == Taken(byMode, "FULL") \cup Taken(byMode, "GREEKS") \cup Taken(byMode, "LTPC")
  <2>3. byMode \in [ModeSet -> Seq(Instrument)] /\ Apart(byMode) /\ AskedOf(byMode) \subseteq asked
        /\ \A i \in asked \cap request.protected : i \in Range(byMode[i[1]])
    BY <2>2 DEF Keeps
  <2>4. made.allocations = all /\ \A mode \in ModeSet : Len(byMode[mode]) <= Usable(budget, mode)
    BY <2>2, <2>3, AllocationIs
  <2> HIDE DEF made, asked
  <2>5. \A a \in all : a.mode \in ModeSet /\ a.ids = byMode[a.mode]
                       /\ a = [mode |-> a.mode, ids |-> byMode[a.mode]]
    BY DEF Taken, ModeSet
  <2>6. \A mode \in ModeSet : byMode[mode] # <<>> => [mode |-> mode, ids |-> byMode[mode]] \in all
    BY DEF Taken, ModeSet
  <2>7. \A mode \in ModeSet : \A i : i \in Range(byMode[mode]) => byMode[mode] # <<>>
    BY DEF Range
  <2>8. subscribed = AskedOf(byMode)
    <3>1. ASSUME NEW i \in subscribed
          PROVE  i \in AskedOf(byMode)
      BY <2>4, <2>5, <3>1 DEF AskedOf
    <3>2. ASSUME NEW i \in AskedOf(byMode)
          PROVE  i \in subscribed
      <4>1. PICK mode \in ModeSet : i \in Range(byMode[mode])
        BY <3>2 DEF AskedOf
      <4>2. [mode |-> mode, ids |-> byMode[mode]] \in all
        BY <2>6, <2>7, <4>1
      <4>3. i \in Range([mode |-> mode, ids |-> byMode[mode]].ids)
        BY <4>1
      <4> QED
        BY <2>4, <4>2, <4>3
    <3> QED
      BY <3>1, <3>2
  <2>9. Cardinality(made.allocations) <= budget.connections + both
    <3>1. IsFiniteSet(all) /\ Cardinality(all) <= Some(byMode, "FULL") + Some(byMode, "GREEKS") + Some(byMode, "LTPC")
      <4> DEFINE some == Taken(byMode, "FULL") \cup Taken(byMode, "GREEKS")
      <4>1. IsFiniteSet(some) /\ Cardinality(some) \in Nat
            /\ Cardinality(some) <= Some(byMode, "FULL") + Some(byMode, "GREEKS")
        BY TakenCounts, UnionCounts
      <4> HIDE DEF some
      <4>2. IsFiniteSet(some \cup Taken(byMode, "LTPC"))
            /\ Cardinality(some \cup Taken(byMode, "LTPC")) \in Nat
            /\ Cardinality(some \cup Taken(byMode, "LTPC")) <= Cardinality(some) + Some(byMode, "LTPC")
        BY <4>1, TakenCounts, UnionCounts
      <4>3. Some(byMode, "FULL") \in Nat /\ Some(byMode, "GREEKS") \in Nat /\ Some(byMode, "LTPC") \in Nat
        BY DEF Some
      <4> QED
        BY <4>1, <4>2, <4>3 DEF some
    <3>2. both = IF byMode["GREEKS"] # <<>> /\ byMode["LTPC"] # <<>> THEN 1 ELSE 0
      <4>1. of("GREEKS") # {} <=> byMode["GREEKS"] # <<>>
        <5>1. ASSUME NEW a \in of("GREEKS")
              PROVE  byMode["GREEKS"] # <<>>
          BY <2>4, <5>1 DEF Taken
        <5>2. ASSUME byMode["GREEKS"] # <<>>
              PROVE  [mode |-> "GREEKS", ids |-> byMode["GREEKS"]] \in of("GREEKS")
          BY <2>4, <5>2 DEF Taken
        <5> QED
          BY <5>1, <5>2
      <4>2. of("LTPC") # {} <=> byMode["LTPC"] # <<>>
        <5>1. ASSUME NEW a \in of("LTPC")
              PROVE  byMode["LTPC"] # <<>>
          BY <2>4, <5>1 DEF Taken
        <5>2. ASSUME byMode["LTPC"] # <<>>
              PROVE  [mode |-> "LTPC", ids |-> byMode["LTPC"]] \in of("LTPC")
          BY <2>4, <5>2 DEF Taken
        <5> QED
          BY <5>1, <5>2
      <4> QED
        BY <4>1, <4>2
    <3>3. Cardinality(all) \in Nat /\ budget.connections \in Nat
      BY <3>1, FS_CardinalityType, PlannerAssumption DEF Budgets
    <3>4. Some(byMode, "FULL") + Some(byMode, "GREEKS") + Some(byMode, "LTPC") <= budget.connections + both
      BY <2>2, <2>3, <3>2, ConnectionsSuffice
    <3>5. Some(byMode, "FULL") + Some(byMode, "GREEKS") + Some(byMode, "LTPC") \in Nat /\ both \in Nat
      BY DEF Some
    <3> HIDE DEF all, both
    <3> QED
      BY <2>4, <3>1, <3>3, <3>4, <3>5
  <2>10. \A a \in made.allocations :
            /\ Len(a.ids) <= Usable(budget, a.mode)
            /\ \A b \in made.allocations : a # b => Range(a.ids) \cap Range(b.ids) = {}
    <3> SUFFICES ASSUME NEW a \in all
                 PROVE  /\ Len(a.ids) <= Usable(budget, a.mode)
                        /\ \A b \in all : a # b => Range(a.ids) \cap Range(b.ids) = {}
      BY <2>4
    <3>1. ASSUME NEW b \in all, a # b
          PROVE  Range(a.ids) \cap Range(b.ids) = {}
      <4>1. a.mode # b.mode
        BY <2>5, <3>1
      <4> QED
        BY <2>3, <2>5, <3>1, <4>1 DEF Apart
    <3> QED
      BY <2>4, <2>5, <3>1
  <2>11. \A i \in asked \cap request.protected : \E a \in made.allocations : i \in Range(a.ids) /\ a.mode = i[1]
    <3> TAKE i \in asked \cap request.protected
    <3>1. i \in Range(byMode[i[1]]) /\ i[1] \in ModeSet
      <4>1. i \in ModeSet \X Nat
        BY <2>1 DEF Instrument
      <4> QED
        BY <2>3, <4>1
    <3>2. [mode |-> i[1], ids |-> byMode[i[1]]] \in all
      BY <2>6, <2>7, <3>1
    <3> QED
      BY <2>4, <2>5, <3>1, <3>2
  <2>12. made.verdict = "ACCEPTED" => subscribed = asked
    BY <2>2, <2>8 DEF asked
  <2> QED
    BY <2>3, <2>8, <2>9, <2>10, <2>11, <2>12 DEF IsSound, asked, AskedOf
<1> HIDE DEF made
<1> QED
  BY <1>1, <1>2 DEF PlansKeepWhatIsProtected, made

PlanInv ==
    \/ plan = <<>>
    \/ \E budget \in Budgets : plan = <<budget>>
    \/ \E request \in Requests, budget \in Budgets : plan = <<request, budget>>

(* Every plan made for any universe, pools and number of connections is    *)
(* within the limits, loses nothing that is protected and subscribes       *)
(* nothing twice, however far down the ladder it goes                      *)
(* (PlansKeepWhatIsProtected; marketdata/subscription.py).                 *)
THEOREM ProtectedIsKept == PlannerSpec => []PlansKeepWhatIsProtected
<1>1. PlannerInit => PlanInv
  BY DEF PlannerInit, PlanInv
<1>2. ASSUME PlanInv, [PlannerNext]_plan
      PROVE  PlanInv'
  <2>1. ASSUME NEW budget \in Budgets, plan = <<budget>>
        PROVE  plan # <<>> /\ Len(plan) = 1 /\ plan[1] = budget
    BY <2>1
  <2>2. ASSUME NEW request \in Requests, NEW budget \in Budgets, plan = <<request, budget>>
        PROVE  Len(plan) = 2 /\ plan # <<>>
    BY <2>2
  <2>3. Len(<<>>) = 0
    OBVIOUS
  <2>4. CASE plan' = plan \/ plan' = <<>>
    BY <1>2, <2>4 DEF PlanInv
  <2>5. CASE AskPlan
    <3>1. CASE plan = <<>>
      BY <2>3, <2>5, <3>1 DEF AskPlan, PlanInv
    <3>2. CASE plan # <<>>
      <4>1. Len(plan) = 1 /\ plan' \in {<<request, plan[1]>> : request \in Requests}
        BY <2>5, <3>2 DEF AskPlan
      <4>2. PICK budget \in Budgets : plan = <<budget>>
        BY <1>2, <2>2, <3>2, <4>1 DEF PlanInv
      <4> QED
        BY <2>1, <4>1, <4>2 DEF PlanInv
    <3> QED
      BY <3>1, <3>2
  <2> QED
    BY <1>2, <2>4, <2>5 DEF PlannerNext
<1>3. PlanInv => PlansKeepWhatIsProtected
  <2>1. plan = <<>> \/ (\E budget \in Budgets : plan = <<budget>>) => PlansKeepWhatIsProtected
    <3>1. plan = <<>> \/ (\E budget \in Budgets : plan = <<budget>>) => Len(plan) # 2
      OBVIOUS
    <3> QED
      BY <3>1 DEF PlansKeepWhatIsProtected
  <2> QED
    BY <2>1, PlanKeeps DEF PlanInv
<1> QED
  BY <1>1, <1>2, <1>3, PTL DEF PlannerSpec
-----------------------------------------------------------------------------
(* Fractions by their order.                                               *)
LEMMA ScaleOrder ==
    ASSUME NEW x \in Int, NEW y \in Int, NEW k \in Int, k > 0
    PROVE  x * k <= y * k <=> x <= y
<1>1. ASSUME x <= y
      PROVE  x * k <= y * k
  <2>1. (y - x) * k >= 0
    BY <1>1
  <2>2. (y - x) * k = y * k - x * k /\ x * k \in Int /\ y * k \in Int
    OBVIOUS
  <2> QED
    BY <2>1, <2>2
<1>2. ASSUME x > y
      PROVE  ~(x * k <= y * k)
  <2>1. (x - y) * k > 0
    BY <1>2
  <2>2. (x - y) * k = x * k - y * k /\ x * k \in Int /\ y * k \in Int
    OBVIOUS
  <2> QED
    BY <2>1, <2>2
<1> QED
  BY <1>1, <1>2

LEMMA AtMostByValue ==
    ASSUME NEW a \in FractionSet, NEW b \in FractionSet, NEW D \in Int, D > 0, NEW v \in Int, NEW w \in Int,
           Valued(a, D, v), Valued(b, D, w)
    PROVE  AtMost(a, b) <=> v <= w
<1>1. a[1] \in Int /\ a[2] \in Int /\ a[2] > 0 /\ b[1] \in Int /\ b[2] \in Int /\ b[2] > 0
  BY FractionParts
<1>2. a[2] * b[2] \in Int /\ a[2] * b[2] > 0
  BY <1>1
<1>3. (a[1] * b[2]) * D = v * (a[2] * b[2])
  <2>1. (a[1] * b[2]) * D = (a[1] * D) * b[2]
    BY <1>1
  <2>2. (v * a[2]) * b[2] = v * (a[2] * b[2])
    BY <1>1
  <2> QED
    BY <2>1, <2>2 DEF Valued
<1>4. (b[1] * a[2]) * D = w * (a[2] * b[2])
  <2>1. (b[1] * a[2]) * D = (b[1] * D) * a[2]
    BY <1>1
  <2>2. (w * b[2]) * a[2] = w * (a[2] * b[2])
    BY <1>1
  <2> QED
    BY <2>1, <2>2 DEF Valued
<1>5. a[1] * b[2] \in Int /\ b[1] * a[2] \in Int
  BY <1>1
<1>6. (a[1] * b[2]) * D <= (b[1] * a[2]) * D <=> a[1] * b[2] <= b[1] * a[2]
  BY <1>5, ScaleOrder
<1>7. v * (a[2] * b[2]) <= w * (a[2] * b[2]) <=> v <= w
  BY <1>2, ScaleOrder
<1> QED
  BY <1>3, <1>4, <1>6, <1>7 DEF AtMost

(* Three fractions over one positive denominator.                          *)
LEMMA OverOne ==
    ASSUME NEW a \in FractionSet, NEW b \in FractionSet, NEW c \in FractionSet
    PROVE  \E D \in Int : D > 0 /\ \E u, v, w \in Int : Valued(a, D, u) /\ Valued(b, D, v) /\ Valued(c, D, w)
<1>1. /\ a[1] \in Int /\ a[2] \in Int /\ a[2] > 0 /\ b[1] \in Int /\ b[2] \in Int /\ b[2] > 0
      /\ c[1] \in Int /\ c[2] \in Int /\ c[2] > 0
  BY FractionParts
<1> DEFINE ab == a[2] * b[2]
           D == ab * c[2]
<1>2. ab \in Int /\ ab > 0
  BY <1>1
<1>3. D \in Int /\ D > 0
  <2> HIDE DEF ab
  <2> QED
    BY <1>1, <1>2
<1>4. /\ a[1] * D = (a[1] * (b[2] * c[2])) * a[2] /\ a[1] * (b[2] * c[2]) \in Int
      /\ b[1] * D = (b[1] * (a[2] * c[2])) * b[2] /\ b[1] * (a[2] * c[2]) \in Int
      /\ c[1] * D = (c[1] * ab) * c[2] /\ c[1] * ab \in Int
  BY <1>1
<1> HIDE DEF ab, D
<1> QED
  BY <1>3, <1>4 DEF Valued

NotNegative(a) == a[1] >= 0

LEMMA NotNegativeByValue ==
    ASSUME NEW a \in FractionSet, NEW D \in Int, D > 0, NEW v \in Int, Valued(a, D, v)
    PROVE  NotNegative(a) <=> v >= 0
<1>1. a[1] \in Int /\ a[2] \in Int /\ a[2] > 0
  BY FractionParts
<1>2. 0 * D <= a[1] * D <=> 0 <= a[1]
  BY <1>1, ScaleOrder
<1>3. 0 * a[2] <= v * a[2] <=> 0 <= v
  BY <1>1, ScaleOrder
<1>4. a[1] * D = v * a[2]
  BY DEF Valued
<1>5. 0 * D = 0 /\ 0 * a[2] = 0
  BY <1>1
<1> QED
  BY <1>1, <1>2, <1>3, <1>4, <1>5 DEF NotNegative

LEMMA PlusGrows ==
    ASSUME NEW a \in FractionSet, NEW b \in FractionSet, NEW c \in FractionSet, AtMost(b, c)
    PROVE  /\ Plus(a, b) \in LowestTerms /\ Plus(a, c) \in LowestTerms
           /\ AtMost(Plus(a, b), Plus(a, c))
           /\ NotNegative(a) /\ NotNegative(b) => NotNegative(Plus(a, b))
<1>1. PICK D \in Int : D > 0 /\ \E u, v, w \in Int : Valued(a, D, u) /\ Valued(b, D, v) /\ Valued(c, D, w)
  BY OverOne
<1>2. PICK u \in Int, v \in Int, w \in Int : Valued(a, D, u) /\ Valued(b, D, v) /\ Valued(c, D, w)
  BY <1>1
<1>3. /\ Plus(a, b) \in LowestTerms /\ Valued(Plus(a, b), D, u + v)
      /\ Plus(a, c) \in LowestTerms /\ Valued(Plus(a, c), D, u + w)
  BY <1>2, ValueOfPlus
<1>4. v <= w /\ LowestTerms \subseteq FractionSet /\ u + v \in Int /\ u + w \in Int
  <2>1. v <= w
    BY <1>1, <1>2, AtMostByValue
  <2> QED
    BY <2>1 DEF LowestTerms
<1>5. u + v <= u + w
  BY <1>4
<1>6. AtMost(Plus(a, b), Plus(a, c))
  BY <1>1, <1>3, <1>4, <1>5, AtMostByValue
<1>7. ASSUME NotNegative(a), NotNegative(b)
      PROVE  NotNegative(Plus(a, b))
  <2>1. u >= 0 /\ v >= 0
    BY <1>1, <1>2, <1>7, NotNegativeByValue
  <2>2. u + v >= 0
    BY <2>1
  <2> QED
    BY <1>1, <1>3, <1>4, <2>2, NotNegativeByValue
<1> QED
  BY <1>3, <1>6, <1>7

LEMMA ProductIsNotNegative ==
    ASSUME NEW a \in FractionSet, NEW b \in FractionSet, NotNegative(a), NotNegative(b)
    PROVE  Times(a, b) \in LowestTerms /\ NotNegative(Times(a, b))
<1>1. a[1] \in Nat /\ a[2] \in Nat /\ a[2] > 0 /\ b[1] \in Nat /\ b[2] \in Nat /\ b[2] > 0
  BY FractionParts DEF NotNegative
<1> DEFINE n == a[1] * b[1]
           d == a[2] * b[2]
<1>2. n \in Int /\ n >= 0 /\ d \in Int /\ d > 0 /\ d # 0
  BY <1>1
<1>3. Times(a, b) = Ratio(n, d)
  BY DEF Times
<1> HIDE DEF n, d
<1>4. n * d = n * d
  OBVIOUS
<1>5. Ratio(n, d) \in LowestTerms /\ Valued(Ratio(n, d), d, n)
  BY <1>2, <1>4, ValueOfRatio
<1> QED
  BY <1>2, <1>3, <1>5, NotNegativeByValue DEF LowestTerms

(* A positive factor keeps the order.                                      *)
LEMMA TimesGrows ==
    ASSUME NEW a \in FractionSet, NEW b \in FractionSet, NEW c \in FractionSet, NotNegative(a), AtMost(b, c)
    PROVE  AtMost(Times(a, b), Times(a, c))
<1>1. /\ a[1] \in Int /\ a[1] >= 0 /\ a[2] \in Int /\ a[2] > 0 /\ b[1] \in Int /\ b[2] \in Int /\ b[2] > 0
      /\ c[1] \in Int /\ c[2] \in Int /\ c[2] > 0
  BY FractionParts DEF NotNegative
<1> DEFINE D == (a[2] * b[2]) * c[2]
           v == (a[1] * b[1]) * c[2]
           w == (a[1] * c[1]) * b[2]
<1>2. a[2] * b[2] \in Int /\ a[2] * b[2] > 0 /\ a[2] * c[2] \in Int /\ a[2] * c[2] > 0
  BY <1>1
<1>3. D \in Int /\ D > 0 /\ v \in Int /\ w \in Int
  <2>1. (a[2] * b[2]) * c[2] > 0
    BY <1>1, <1>2
  <2> QED
    BY <1>1, <2>1
<1>4. /\ a[1] * b[1] \in Int /\ a[1] * c[1] \in Int
      /\ (a[1] * b[1]) * D = v * (a[2] * b[2]) /\ (a[1] * c[1]) * D = w * (a[2] * c[2])
  BY <1>1
<1>5. v <= w
  <2>1. b[1] * c[2] <= c[1] * b[2] /\ b[1] * c[2] \in Int /\ c[1] * b[2] \in Int
    BY <1>1 DEF AtMost
  <2>2. a[1] * (c[1] * b[2] - b[1] * c[2]) >= 0
    BY <1>1, <2>1
  <2>3. a[1] * (c[1] * b[2] - b[1] * c[2]) = w - v
    BY <1>1
  <2> QED
    BY <1>3, <2>2, <2>3
<1>6. Times(a, b) = Ratio(a[1] * b[1], a[2] * b[2]) /\ Times(a, c) = Ratio(a[1] * c[1], a[2] * c[2])
  BY DEF Times
<1> HIDE DEF D, v, w
<1>7. /\ Times(a, b) \in LowestTerms /\ Valued(Times(a, b), D, v)
      /\ Times(a, c) \in LowestTerms /\ Valued(Times(a, c), D, w)
  <2>1. a[2] * b[2] # 0 /\ a[2] * c[2] # 0
    BY <1>2
  <2> QED
    BY <1>2, <1>3, <1>4, <1>6, <2>1, ValueOfRatio
<1> QED
  BY <1>3, <1>5, <1>7, AtMostByValue DEF LowestTerms

LEMMA Halved ==
    ASSUME NEW a \in FractionSet, NEW D \in Int, NEW v \in Int, Valued(a, D, v)
    PROVE  Over(a, Whole(2)) \in LowestTerms /\ Valued(Over(a, Whole(2)), 2 * D, v)
<1>1. a[1] \in Int /\ a[2] \in Int /\ a[2] # 0
  BY FractionParts
<1>2. a[1] * 1 = a[1] /\ a[2] * 2 \in Int /\ a[2] * 2 # 0 /\ 2 * D \in Int
  BY <1>1
<1>3. a[1] * (2 * D) = v * (a[2] * 2)
  <2>1. a[1] * D = v * a[2]
    BY DEF Valued
  <2>2. a[1] * (2 * D) = 2 * (a[1] * D) /\ v * (a[2] * 2) = 2 * (v * a[2])
    BY <1>1
  <2> QED
    BY <2>1, <2>2
<1>4. Over(a, Whole(2)) = Ratio(a[1], a[2] * 2)
  BY <1>2 DEF Over, Whole
<1> QED
  BY <1>1, <1>2, <1>3, <1>4, ValueOfRatio

LEMMA ValueTwice ==
    ASSUME NEW a \in FractionSet, NEW D \in Int, NEW v \in Int, Valued(a, D, v)
    PROVE  Valued(a, 2 * D, 2 * v)
<1>1. a[1] \in Int /\ a[2] \in Int
  BY FractionParts
<1>2. a[1] * (2 * D) = 2 * (a[1] * D) /\ (2 * v) * a[2] = 2 * (v * a[2])
  BY <1>1
<1> QED
  BY <1>2 DEF Valued

IsQuote(quote) == quote.bid \in FractionSet /\ quote.ask \in FractionSet /\ AtMost(quote.bid, quote.ask)

(* The mid lies between the sides, and a spread is not negative.           *)
LEMMA MidBetween ==
    ASSUME NEW quote, IsQuote(quote)
    PROVE  /\ Mid(quote) \in FractionSet
           /\ AtMost(quote.bid, Mid(quote)) /\ AtMost(Mid(quote), quote.ask)
           /\ Minus(quote.ask, quote.bid) \in FractionSet /\ NotNegative(Minus(quote.ask, quote.bid))
           /\ Over(Minus(quote.ask, quote.bid), Whole(2)) \in FractionSet
           /\ NotNegative(Over(Minus(quote.ask, quote.bid), Whole(2)))
<1> DEFINE b == quote.bid
           a == quote.ask
           s == Minus(a, b)
<1>1. b \in FractionSet /\ a \in FractionSet /\ AtMost(b, a)
  BY DEF IsQuote
<1>2. Mid(quote) = Over(Plus(b, a), Whole(2))
  BY DEF Mid
<1> HIDE DEF a, b
<1>3. PICK D \in Int : D > 0 /\ \E u, v, w \in Int : Valued(b, D, u) /\ Valued(a, D, v) /\ Valued(a, D, w)
  BY <1>1, OverOne
<1>4. PICK u \in Int, v \in Int, w \in Int : Valued(b, D, u) /\ Valued(a, D, v) /\ Valued(a, D, w)
  BY <1>3
<1>5. u <= v
  BY <1>1, <1>3, <1>4, AtMostByValue
<1>6. /\ Plus(b, a) \in FractionSet /\ Valued(Plus(b, a), D, u + v) /\ u + v \in Int
      /\ s \in FractionSet /\ Valued(s, D, v - u) /\ v - u \in Int /\ v - u >= 0
  <2>1. u + v \in Int /\ v - u \in Int /\ v - u >= 0
    BY <1>5
  <2> QED
    BY <1>1, <1>4, <2>1, ValueOfPlus, ValueOfMinus DEF LowestTerms
<1> HIDE DEF s
<1>7. 2 * D \in Int /\ 2 * D > 0 /\ 2 * u \in Int /\ 2 * v \in Int /\ 2 * u <= u + v /\ u + v <= 2 * v
  BY <1>3, <1>5
<1>8. Mid(quote) \in FractionSet /\ Valued(Mid(quote), 2 * D, u + v)
  BY <1>2, <1>6, Halved DEF LowestTerms
<1>9. Valued(b, 2 * D, 2 * u) /\ Valued(a, 2 * D, 2 * v)
  BY <1>1, <1>4, ValueTwice
<1>10. AtMost(b, Mid(quote))
  BY <1>1, <1>6, <1>7, <1>8, <1>9, AtMostByValue
<1>11. AtMost(Mid(quote), a)
  BY <1>1, <1>6, <1>7, <1>8, <1>9, AtMostByValue
<1>12. NotNegative(s)
  BY <1>3, <1>6, NotNegativeByValue
<1>13. Over(s, Whole(2)) \in FractionSet /\ NotNegative(Over(s, Whole(2)))
  <2>1. Over(s, Whole(2)) \in FractionSet /\ Valued(Over(s, Whole(2)), 2 * D, v - u)
    BY <1>6, Halved DEF LowestTerms
  <2> QED
    BY <1>6, <1>7, <2>1, NotNegativeByValue
<1> QED
  BY <1>6, <1>8, <1>10, <1>11, <1>12, <1>13 DEF a, b, s

(* b is no better than a for who is on this side.                          *)
NoBetter(side, a, b) == IF side = "BUY" THEN AtMost(a, b) ELSE AtMost(b, a)

(* What is added against the trader, and more of it.                       *)
LEMMA WorseByMore ==
    ASSUME NEW side, NEW m \in FractionSet, NEW f \in FractionSet, NEW g \in FractionSet,
           NotNegative(f), AtMost(f, g)
    PROVE  LET worse(x) == Plus(m, Times(x, Whole(SignOf(side))))
           IN  /\ worse(f) \in FractionSet /\ worse(g) \in FractionSet
               /\ NoBetter(side, m, worse(f)) /\ NoBetter(side, worse(f), worse(g))
<1> DEFINE worse(x) == Plus(m, Times(x, Whole(SignOf(side))))
           k == SignOf(side)
<1>1. k \in Int /\ (side = "BUY" => k = 1) /\ (side # "BUY" => k = -1)
  BY DEF SignOf
<1>2. PICK D \in Int : D > 0 /\ \E u, v, w \in Int : Valued(m, D, u) /\ Valued(f, D, v) /\ Valued(g, D, w)
  BY OverOne
<1>3. PICK u \in Int, v \in Int, w \in Int : Valued(m, D, u) /\ Valued(f, D, v) /\ Valued(g, D, w)
  BY <1>2
<1>4. 0 <= v /\ v <= w
  BY <1>2, <1>3, AtMostByValue, NotNegativeByValue
<1>5. k * v \in Int /\ k * w \in Int /\ u + k * v \in Int /\ u + k * w \in Int
  BY <1>1
<1> HIDE DEF k
<1>6. /\ Times(f, Whole(k)) \in FractionSet /\ Valued(Times(f, Whole(k)), D, k * v)
      /\ Times(g, Whole(k)) \in FractionSet /\ Valued(Times(g, Whole(k)), D, k * w)
  BY <1>1, <1>3, ValueOfTimes DEF LowestTerms
<1>7. /\ Plus(m, Times(f, Whole(k))) \in FractionSet /\ Valued(Plus(m, Times(f, Whole(k))), D, u + k * v)
      /\ Plus(m, Times(g, Whole(k))) \in FractionSet /\ Valued(Plus(m, Times(g, Whole(k))), D, u + k * w)
  BY <1>3, <1>5, <1>6, ValueOfPlus DEF LowestTerms
<1>8. worse(f) = Plus(m, Times(f, Whole(k))) /\ worse(g) = Plus(m, Times(g, Whole(k)))
  BY DEF k
<1> HIDE DEF worse
<1>9. CASE side = "BUY"
  <2>1. u <= u + k * v /\ u + k * v <= u + k * w
    BY <1>1, <1>4, <1>9
  <2> QED
    BY <1>2, <1>3, <1>5, <1>7, <1>8, <1>9, <2>1, AtMostByValue DEF NoBetter, worse
<1>10. CASE side # "BUY"
  <2>1. u >= u + k * v /\ u + k * v >= u + k * w
    BY <1>1, <1>4, <1>10
  <2> QED
    BY <1>2, <1>3, <1>5, <1>7, <1>8, <1>10, <2>1, AtMostByValue DEF NoBetter, worse
<1> QED
  BY <1>9, <1>10

AskFacts(leg, model) ==
    /\ leg.bid \in Nat /\ leg.ask \in Nat /\ leg.ltp \in Nat /\ leg.volume \in Nat
    /\ model.slippage \in {"MID", "TOUCH", "FRACTION", "IMPACT"}
    /\ model.parameter \in FractionSet /\ NotNegative(model.parameter)
    /\ model.halfSpread \in FractionSet /\ NotNegative(model.halfSpread)
    /\ model.participation \in FractionSet

(* Observed, or assumed around the last price: the sides are in order.     *)
LEMMA QuoteIsOrdered ==
    ASSUME NEW leg, NEW model, AskFacts(leg, model)
    PROVE  IsQuote(QuoteFor(leg, model))
<1>1. CASE leg.bid # Unobserved /\ leg.ask # Unobserved /\ leg.ask >= leg.bid
  <2>1. QuoteFor(leg, model).bid = Whole(leg.bid) /\ QuoteFor(leg, model).ask = Whole(leg.ask)
    BY <1>1 DEF QuoteFor
  <2>2. leg.bid \in Int /\ leg.ask \in Int /\ leg.bid <= leg.ask
    BY <1>1 DEF AskFacts
  <2>3. Whole(leg.bid) \in FractionSet /\ Whole(leg.ask) \in FractionSet
    BY <2>2, WholeIsFraction
  <2>4. AtMost(Whole(leg.bid), Whole(leg.ask))
    BY <2>2 DEF AtMost, Whole
  <2> QED
    BY <2>1, <2>3, <2>4 DEF IsQuote
<1>2. CASE ~(leg.bid # Unobserved /\ leg.ask # Unobserved /\ leg.ask >= leg.bid)
  <2> DEFINE ltp == Whole(leg.ltp)
             half == Times(ltp, model.halfSpread)
  <2>1. QuoteFor(leg, model).bid = Minus(ltp, half) /\ QuoteFor(leg, model).ask = Plus(ltp, half)
    BY <1>2 DEF QuoteFor
  <2>2. ltp \in FractionSet /\ NotNegative(ltp)
    <3>1. leg.ltp \in Int /\ leg.ltp >= 0
      BY DEF AskFacts
    <3> QED
      BY <3>1, WholeIsFraction DEF NotNegative, Whole
  <2>3. model.halfSpread \in FractionSet /\ NotNegative(model.halfSpread)
    BY DEF AskFacts
  <2> HIDE DEF ltp
  <2>4. half \in FractionSet /\ NotNegative(half)
    BY <2>2, <2>3, ProductIsNotNegative DEF LowestTerms
  <2> HIDE DEF half
  <2>5. PICK D \in Int : D > 0 /\ \E u, v, w \in Int : Valued(ltp, D, u) /\ Valued(half, D, v) /\ Valued(half, D, w)
    BY <2>2, <2>4, OverOne
  <2>6. PICK u \in Int, v \in Int : Valued(ltp, D, u) /\ Valued(half, D, v)
    BY <2>5
  <2>7. v >= 0 /\ u - v \in Int /\ u + v \in Int
    BY <2>4, <2>5, <2>6, NotNegativeByValue
  <2>8. u - v <= u + v
    BY <2>7
  <2>9. /\ Minus(ltp, half) \in FractionSet /\ Valued(Minus(ltp, half), D, u - v)
        /\ Plus(ltp, half) \in FractionSet /\ Valued(Plus(ltp, half), D, u + v)
    BY <2>2, <2>4, <2>6, ValueOfPlus, ValueOfMinus DEF LowestTerms
  <2>10. AtMost(Minus(ltp, half), Plus(ltp, half))
    BY <2>5, <2>7, <2>8, <2>9, AtMostByValue
  <2> QED
    BY <2>1, <2>9, <2>10 DEF IsQuote
<1> QED
  BY <1>1, <1>2

LEMMA RatioGrows ==
    ASSUME NEW q \in Nat, NEW r \in Nat, q <= r, NEW d \in Nat, d > 0
    PROVE  /\ Ratio(q, d) \in FractionSet /\ Ratio(r, d) \in FractionSet
           /\ NotNegative(Ratio(q, d)) /\ AtMost(Ratio(q, d), Ratio(r, d))
<1>1. d \in Int /\ d # 0 /\ q \in Int /\ r \in Int /\ q * d = q * d /\ r * d = r * d
  OBVIOUS
<1>2. /\ Ratio(q, d) \in FractionSet /\ Valued(Ratio(q, d), d, q)
      /\ Ratio(r, d) \in FractionSet /\ Valued(Ratio(r, d), d, r)
  BY <1>1, ValueOfRatio DEF LowestTerms
<1> QED
  BY <1>1, <1>2, AtMostByValue, NotNegativeByValue

(* The price before rounding: never better than the mid, and never better  *)
(* for more.                                                               *)
LEMMA RawIsAgainst ==
    ASSUME NEW leg, NEW model, AskFacts(leg, model), NEW quote, IsQuote(quote), NEW side,
           NEW q \in Nat, NEW r \in Nat, q <= r
    PROVE  LET raw(n) == RawPrice(quote, leg.volume, side, n, model)
           IN  /\ raw(q) \in FractionSet /\ raw(r) \in FractionSet
               /\ NoBetter(side, Mid(quote), raw(q)) /\ NoBetter(side, raw(q), raw(r))
<1> DEFINE raw(n) == RawPrice(quote, leg.volume, side, n, model)
           spread == Minus(quote.ask, quote.bid)
           mid == Mid(quote)
           worse(f) == Plus(mid, Times(f, Whole(SignOf(side))))
<1>1. /\ mid \in FractionSet /\ AtMost(quote.bid, mid) /\ AtMost(mid, quote.ask)
      /\ spread \in FractionSet /\ NotNegative(spread)
      /\ Over(spread, Whole(2)) \in FractionSet /\ NotNegative(Over(spread, Whole(2)))
      /\ quote.bid \in FractionSet /\ quote.ask \in FractionSet
  BY MidBetween DEF IsQuote
<1>2. \A f \in FractionSet : AtMost(f, f)
  BY FractionParts DEF AtMost
<1>3. model.parameter \in FractionSet /\ NotNegative(model.parameter)
  BY DEF AskFacts
<1>4. \A f, g \in FractionSet : NotNegative(f) /\ AtMost(f, g) =>
          /\ worse(f) \in FractionSet /\ worse(g) \in FractionSet
          /\ NoBetter(side, mid, worse(f)) /\ NoBetter(side, worse(f), worse(g))
  <2> HIDE DEF mid
  <2> QED
    BY <1>1, WorseByMore
<1>5. CASE model.slippage = "MID"
  <2>1. raw(q) = mid /\ raw(r) = mid
    BY <1>5 DEF RawPrice
  <2> HIDE DEF raw, mid
  <2> QED
    BY <1>1, <1>2, <2>1 DEF NoBetter, raw, mid
<1>6. CASE model.slippage = "TOUCH"
  <2>1. raw(q) = (IF side = "BUY" THEN quote.ask ELSE quote.bid) /\ raw(r) = raw(q)
    BY <1>6 DEF RawPrice
  <2> HIDE DEF raw, mid
  <2> QED
    BY <1>1, <1>2, <2>1 DEF NoBetter, raw, mid
<1>7. CASE model.slippage = "FRACTION"
  <2> DEFINE f == Times(spread, model.parameter)
  <2>1. raw(q) = worse(f) /\ raw(r) = worse(f)
    BY <1>7 DEF RawPrice
  <2> HIDE DEF spread
  <2>2. f \in FractionSet /\ NotNegative(f)
    BY <1>1, <1>3, ProductIsNotNegative DEF LowestTerms
  <2> HIDE DEF f, raw, worse, mid
  <2> QED
    BY <1>2, <1>4, <2>1, <2>2 DEF raw, mid
<1>8. CASE model.slippage = "IMPACT"
  <2> DEFINE c == Times(spread, model.parameter)
             half == Over(spread, Whole(2))
             part(n) == IF leg.volume = Unobserved THEN Whole(0) ELSE Times(c, Ratio(n, leg.volume))
  <2>1. \A n : raw(n) = worse(Plus(half, part(n)))
    BY <1>8 DEF RawPrice
  <2> HIDE DEF spread
  <2>2. c \in FractionSet /\ NotNegative(c)
    BY <1>1, <1>3, ProductIsNotNegative DEF LowestTerms
  <2> HIDE DEF c
  <2>3. /\ part(q) \in FractionSet /\ NotNegative(part(q)) /\ part(r) \in FractionSet
        /\ AtMost(part(q), part(r))
    <3>1. CASE leg.volume = Unobserved
      <4>1. part(q) = Whole(0) /\ part(r) = Whole(0)
        BY <3>1
      <4>2. Whole(0) \in FractionSet /\ NotNegative(Whole(0))
        BY WholeIsFraction DEF NotNegative, Whole
      <4> QED
        BY <1>2, <4>1, <4>2
    <3>2. CASE leg.volume # Unobserved
      <4>1. leg.volume \in Nat /\ leg.volume > 0
        BY <3>2 DEF AskFacts, Unobserved
      <4>2. /\ Ratio(q, leg.volume) \in FractionSet /\ Ratio(r, leg.volume) \in FractionSet
            /\ NotNegative(Ratio(q, leg.volume)) /\ AtMost(Ratio(q, leg.volume), Ratio(r, leg.volume))
        BY <4>1, RatioGrows
      <4>3. part(q) = Times(c, Ratio(q, leg.volume)) /\ part(r) = Times(c, Ratio(r, leg.volume))
        BY <3>2
      <4>4. /\ Times(c, Ratio(q, leg.volume)) \in FractionSet /\ NotNegative(Times(c, Ratio(q, leg.volume)))
            /\ Times(c, Ratio(r, leg.volume)) \in FractionSet
        BY <2>2, <4>2, ProductIsNotNegative, FractionArithmetic DEF LowestTerms
      <4>5. AtMost(Times(c, Ratio(q, leg.volume)), Times(c, Ratio(r, leg.volume)))
        BY <2>2, <4>2, TimesGrows
      <4> QED
        BY <4>3, <4>4, <4>5
    <3> QED
      BY <3>1, <3>2
  <2> HIDE DEF part, half
  <2>4. half \in FractionSet /\ NotNegative(half)
    BY <1>1 DEF half
  <2>5. /\ Plus(half, part(q)) \in FractionSet /\ Plus(half, part(r)) \in FractionSet
        /\ NotNegative(Plus(half, part(q))) /\ AtMost(Plus(half, part(q)), Plus(half, part(r)))
    BY <2>3, <2>4, PlusGrows DEF LowestTerms
  <2> HIDE DEF raw, worse, mid
  <2> QED
    BY <1>4, <2>1, <2>5 DEF raw, mid
<1> QED
  BY <1>5, <1>6, <1>7, <1>8 DEF AskFacts

(* To the nearest tick: within half of one, and in order.                  *)
LEMMA RoundingIsNear ==
    ASSUME NEW p \in FractionSet
    PROVE  LET r == RoundToTick(p)
           IN  /\ r \in Int /\ \E x \in Int : r = 2 * x
               /\ p[1] - p[2] < r * p[2] /\ r * p[2] <= p[1] + p[2]
<1> DEFINE n == p[1]
           d == p[2]
           m == 2 * n + 2 * d
           k == 4 * d
           x == m \div k
<1>1. n \in Int /\ d \in Nat /\ d > 0
  BY FractionParts
<1>2. m \in Int /\ k \in Nat /\ k > 0
  BY <1>1
<1>3. RoundToTick(p) = 2 * x
  <2>1. 2 * n + 2 * d = m /\ 2 * 2 * d = k
    BY <1>1
  <2> QED
    BY <2>1 DEF RoundToTick, Tick
<1> HIDE DEF m, k
<1>4. x \in Int /\ k * x <= m /\ m < k * x + k
  <2>1. m = k * (m \div k) + (m % k) /\ (m % k) \in 0 .. k - 1 /\ m \div k \in Int
    BY <1>2
  <2>2. k * (m \div k) \in Int
    BY <1>2, <2>1
  <2> QED
    BY <1>2, <2>1, <2>2
<1> HIDE DEF x
<1>5. k * x = 2 * ((2 * x) * d) /\ (2 * x) * d \in Int
  BY <1>1, <1>4 DEF k
<1>6. 2 * ((2 * x) * d) <= 2 * n + 2 * d /\ 2 * n + 2 * d < 2 * ((2 * x) * d) + 4 * d
  BY <1>4, <1>5 DEF m, k
<1> HIDE DEF n, d
<1>7. n - d < (2 * x) * d /\ (2 * x) * d <= n + d
  BY <1>1, <1>5, <1>6
<1> QED
  BY <1>3, <1>4, <1>7 DEF n, d

LEMMA TicksKeepOrder ==
    ASSUME NEW a \in Int, NEW b \in Int, NEW c \in Int, NEW d \in Int, b > 0, d > 0, a * d <= c * b,
           NEW x \in Int, NEW y \in Int, (2 * x) * b <= a + b, c - d < (2 * y) * d
    PROVE  x <= y
<1> DEFINE B == b * d
           X == x * B
           Y == y * B
<1>1. B \in Int /\ B > 0 /\ X \in Int /\ Y \in Int /\ a * d \in Int /\ c * b \in Int
  OBVIOUS
<1>2. 2 * X <= a * d + B
  <2>1. ((a + b) - (2 * x) * b) * d >= 0
    OBVIOUS
  <2>2. ((a + b) - (2 * x) * b) * d = a * d + B - 2 * X
    OBVIOUS
  <2> HIDE DEF B, X
  <2> QED
    BY <1>1, <2>1, <2>2
<1>3. c * b - B < 2 * Y
  <2>1. ((2 * y) * d - (c - d)) * b > 0
    OBVIOUS
  <2>2. ((2 * y) * d - (c - d)) * b = 2 * Y - c * b + B
    OBVIOUS
  <2> HIDE DEF B, Y
  <2> QED
    BY <1>1, <2>1, <2>2
<1>4. X - Y < B
  <2> HIDE DEF B, X, Y
  <2> QED
    BY <1>1, <1>2, <1>3
<1>5. ASSUME x >= y + 1
      PROVE  FALSE
  <2>1. (x - y) * B = X - Y
    BY <1>1
  <2>2. (x - y - 1) * B >= 0
    <3> HIDE DEF B
    <3> QED
      BY <1>1, <1>5
  <2>3. (x - y - 1) * B = (x - y) * B - B /\ (x - y) * B \in Int
    <3> HIDE DEF B
    <3> QED
      BY <1>1
  <2> HIDE DEF B, X, Y
  <2> QED
    BY <1>1, <1>4, <2>1, <2>2, <2>3
<1> QED
  BY <1>5

LEMMA RoundingKeepsOrder ==
    ASSUME NEW p \in FractionSet, NEW q \in FractionSet, AtMost(p, q)
    PROVE  RoundToTick(p) <= RoundToTick(q)
<1>1. /\ p[1] \in Int /\ p[2] \in Int /\ p[2] > 0 /\ q[1] \in Int /\ q[2] \in Int /\ q[2] > 0
      /\ p[1] * q[2] <= q[1] * p[2]
  BY FractionParts DEF AtMost
<1>2. PICK x \in Int, y \in Int :
          /\ RoundToTick(p) = 2 * x /\ (2 * x) * p[2] <= p[1] + p[2]
          /\ RoundToTick(q) = 2 * y /\ q[1] - q[2] < (2 * y) * q[2]
  BY RoundingIsNear
<1>3. x <= y
  BY <1>1, <1>2, TicksKeepOrder
<1> QED
  BY <1>2, <1>3

LEMMA SmallerOfTwo ==
    ASSUME NEW a \in Int, NEW b \in Int
    PROVE  Min({a, b}) = IF a <= b THEN a ELSE b
<1> DEFINE m == IF a <= b THEN a ELSE b
<1>1. m \in {a, b} /\ \A y \in {a, b} : m <= y
  OBVIOUS
<1>2. \A x \in {a, b} : (\A y \in {a, b} : x <= y) => x = m
  OBVIOUS
<1> HIDE DEF m
<1>3. (CHOOSE x \in {a, b} : \A y \in {a, b} : x <= y) = m
  BY <1>1, <1>2
<1> QED
  BY <1>3 DEF Min, m

LEMMA FillableGrows ==
    ASSUME NEW leg, NEW model, AskFacts(leg, model), NEW q \in Nat, NEW r \in Nat, q <= r
    PROVE  LET fillable(n) == FillableQuantity(n, leg.volume, model)
           IN  fillable(q) \in Int /\ fillable(r) \in Int /\ fillable(q) <= fillable(r)
<1> DEFINE fillable(n) == FillableQuantity(n, leg.volume, model)
           cap == (leg.volume * model.participation[1]) \div model.participation[2]
<1>1. CASE ~model.partial \/ leg.volume = Unobserved
  BY <1>1 DEF FillableQuantity
<1>2. CASE ~(~model.partial \/ leg.volume = Unobserved)
  <2>1. cap \in Int
    <3>1. leg.volume \in Nat /\ model.participation[1] \in Int /\ model.participation[2] \in Nat \ {0}
      BY FractionParts DEF AskFacts
    <3>2. leg.volume * model.participation[1] \in Int
      BY <3>1
    <3> QED
      BY <3>1, <3>2
  <2>2. fillable(q) = Min({q, cap}) /\ fillable(r) = Min({r, cap})
    BY <1>2 DEF FillableQuantity
  <2> HIDE DEF cap, fillable
  <2>3. Min({q, cap}) = (IF q <= cap THEN q ELSE cap) /\ Min({r, cap}) = (IF r <= cap THEN r ELSE cap)
    BY <2>1, SmallerOfTwo
  <2> QED
    BY <2>1, <2>2, <2>3 DEF fillable
<1> QED
  BY <1>1, <1>2

(* A price as rounded, against the mid.                                    *)
LEMMA RoundedAgainst ==
    ASSUME NEW side \in Sides, NEW m \in FractionSet, NEW p \in FractionSet, NoBetter(side, m, p)
    PROVE  AtMost(Whole(-1), Times(Minus(Whole(RoundToTick(p)), m), Whole(SignOf(side))))
<1> DEFINE r == RoundToTick(p)
           k == SignOf(side)
<1>1. r \in Int /\ p[1] - p[2] < r * p[2] /\ r * p[2] <= p[1] + p[2]
  BY RoundingIsNear
<1>2. k \in Int /\ (side = "BUY" => k = 1) /\ (side # "BUY" => k = -1)
  BY DEF SignOf
<1> HIDE DEF r, k
<1>3. PICK D \in Int : D > 0 /\ \E u, v, w \in Int : Valued(m, D, u) /\ Valued(p, D, v) /\ Valued(p, D, w)
  BY OverOne
<1>4. PICK u \in Int, v \in Int : Valued(m, D, u) /\ Valued(p, D, v)
  BY <1>3
<1>5. r * D \in Int /\ v - D < r * D /\ r * D <= v + D
  <2>1. p[1] \in Int /\ p[2] \in Int /\ p[2] > 0 /\ p[1] * D = v * p[2]
    BY <1>4, FractionParts DEF Valued
  <2>2. r * D \in Int /\ (r * D) * p[2] = (r * p[2]) * D /\ r * p[2] \in Int
    BY <1>1, <2>1
  <2>3. (r * p[2]) * D <= (p[1] + p[2]) * D
    BY <1>1, <1>3, <2>1, <2>2, ScaleOrder
  <2>4. ~((r * p[2]) * D <= (p[1] - p[2]) * D)
    BY <1>1, <1>3, <2>1, <2>2, ScaleOrder
  <2>5. (p[1] + p[2]) * D = (v + D) * p[2] /\ (p[1] - p[2]) * D = (v - D) * p[2]
    BY <2>1
  <2>6. (r * D) * p[2] <= (v + D) * p[2]
    BY <2>2, <2>3, <2>5
  <2>7. ~((r * D) * p[2] <= (v - D) * p[2])
    BY <2>2, <2>4, <2>5
  <2>8. v + D \in Int /\ v - D \in Int
    OBVIOUS
  <2>9. r * D <= v + D
    BY <2>1, <2>2, <2>6, <2>8, ScaleOrder
  <2>10. ~(r * D <= v - D)
    BY <2>1, <2>2, <2>7, <2>8, ScaleOrder
  <2> QED
    BY <2>2, <2>8, <2>9, <2>10
<1> DEFINE e == r * D - u
<1>6. /\ Whole(r) \in FractionSet /\ Valued(Whole(r), D, r * D)
      /\ Whole(-1) \in FractionSet /\ Valued(Whole(-1), D, -D)
  <2>1. -1 \in Int /\ (-1) * D = -D
    OBVIOUS
  <2> QED
    BY <1>1, <2>1, ValueOfWhole DEF LowestTerms
<1>7. e \in Int /\ Minus(Whole(r), m) \in FractionSet /\ Valued(Minus(Whole(r), m), D, e)
  BY <1>4, <1>5, <1>6, ValueOfMinus DEF LowestTerms
<1>8. k * e \in Int
  BY <1>2, <1>7
<1> HIDE DEF e
<1>9. /\ Times(Minus(Whole(r), m), Whole(k)) \in FractionSet
      /\ Valued(Times(Minus(Whole(r), m), Whole(k)), D, k * e)
  BY <1>2, <1>7, ValueOfTimes DEF LowestTerms
<1>10. -D <= k * e
  <2>1. CASE side = "BUY"
    <3>1. u <= v
      BY <1>3, <1>4, <2>1, AtMostByValue DEF NoBetter
    <3>2. k * e = e
      BY <1>2, <1>7, <2>1
    <3> QED
      BY <1>5, <3>1, <3>2 DEF e
  <2>2. CASE side # "BUY"
    <3>1. v <= u
      BY <1>3, <1>4, <2>2, AtMostByValue DEF NoBetter
    <3>2. k * e = -e
      BY <1>2, <1>7, <2>2
    <3> QED
      BY <1>5, <3>1, <3>2 DEF e
  <2> QED
    BY <2>1, <2>2
<1>11. -D \in Int
  OBVIOUS
<1> QED
  BY <1>3, <1>6, <1>8, <1>9, <1>10, <1>11, AtMostByValue DEF r, k

(* What any venue makes of any order at any quote is fair.                 *)
LEMMA AnyFillIsFair ==
    ASSUME NEW Names, NEW order \in [id : Names, side : Sides, quantity : Nat, limit : Nat],
           NEW leg, NEW model, AskFacts(leg, model)
    PROVE  FillIsFair(order, leg, model)
<1> DEFINE quote == QuoteFor(leg, model)
           fillable(n) == FillableQuantity(n, leg.volume, model)
           raw(n) == RawPrice(quote, leg.volume, order.side, n, model)
           more == [order EXCEPT !.quantity = @ + 1]
           smaller == SimulateFill(order, leg, model)
           larger == SimulateFill(more, leg, model)
           q == fillable(order.quantity)
           r == fillable(order.quantity + 1)
           priceAt(n) == IF order.limit = Unobserved THEN RoundToTick(raw(n)) ELSE order.limit
<1>1. /\ order.side \in Sides /\ order.quantity \in Nat /\ order.limit \in Nat
      /\ more.side = order.side /\ more.limit = order.limit /\ more.quantity = order.quantity + 1
  OBVIOUS
<1>2. IsQuote(quote)
  BY QuoteIsOrdered
<1>3. Mid(quote) \in FractionSet
  BY <1>2, MidBetween
<1>4. q \in Int /\ r \in Int /\ q <= r
  <2>1. order.quantity + 1 \in Nat /\ order.quantity <= order.quantity + 1
    BY <1>1
  <2> QED
    BY <1>1, <2>1, FillableGrows
<1>5. Filled(smaller) => /\ q > 0 /\ smaller.quantity = q /\ smaller.price = priceAt(q)
                         /\ smaller.reference = Mid(quote)
  BY <1>4 DEF SimulateFill, Filled, Unfilled
<1>6. Filled(larger) => /\ r > 0 /\ larger.quantity = r /\ larger.price = priceAt(r)
  <2> HIDE DEF more
  <2> QED
    BY <1>1, <1>4 DEF SimulateFill, Filled, Unfilled
<1> HIDE DEF smaller, larger, q, r, quote
<1>7. ASSUME q > 0
      PROVE  /\ raw(q) \in FractionSet /\ raw(r) \in FractionSet
             /\ NoBetter(order.side, Mid(quote), raw(q)) /\ NoBetter(order.side, raw(q), raw(r))
  <2>1. q \in Nat /\ r \in Nat
    BY <1>4, <1>7
  <2> QED
    BY <1>2, <1>4, <2>1, RawIsAgainst
<1> HIDE DEF raw
<1>8. SlippageAgainstTraderToTheTick(order, leg, model)
  <2> SUFFICES ASSUME Filled(smaller), order.limit = Unobserved
               PROVE  AtMost(Whole(-1), Times(Minus(Whole(smaller.price), smaller.reference),
                                              Whole(SignOf(order.side))))
    BY DEF SlippageAgainstTraderToTheTick, smaller
  <2>1. smaller.price = RoundToTick(raw(q)) /\ smaller.reference = Mid(quote)
    BY <1>5
  <2>2. AtMost(Whole(-1), Times(Minus(Whole(RoundToTick(raw(q))), Mid(quote)), Whole(SignOf(order.side))))
    BY <1>1, <1>3, <1>5, <1>7, RoundedAgainst
  <2> QED
    BY <2>1, <2>2
<1>9. LargerIsNeverBetter(order, leg, model)
  <2> SUFFICES ASSUME Filled(smaller), Filled(larger)
               PROVE  /\ smaller.quantity <= larger.quantity
                      /\ Sided(order.side, smaller.price, larger.price)
    BY DEF LargerIsNeverBetter, smaller, larger
  <2>1. smaller.quantity <= larger.quantity
    BY <1>4, <1>5, <1>6
  <2>2. raw(q) \in FractionSet /\ raw(r) \in FractionSet /\ NoBetter(order.side, raw(q), raw(r))
    BY <1>5, <1>7
  <2>3. Sided(order.side, RoundToTick(raw(q)), RoundToTick(raw(r)))
    <3>1. CASE order.side = "BUY"
      BY <2>2, <3>1, RoundingKeepsOrder DEF NoBetter, Sided
    <3>2. CASE order.side # "BUY"
      <4>1. RoundToTick(raw(r)) <= RoundToTick(raw(q))
        BY <2>2, <3>2, RoundingKeepsOrder DEF NoBetter
      <4>2. RoundToTick(raw(r)) \in Int /\ RoundToTick(raw(q)) \in Int
        BY <2>2, RoundingIsNear
      <4> QED
        BY <3>2, <4>1, <4>2 DEF Sided
    <3> QED
      BY <3>1, <3>2
  <2>4. Sided(order.side, order.limit, order.limit)
    BY <1>1 DEF Sided
  <2> QED
    BY <1>5, <1>6, <2>1, <2>3, <2>4
<1> QED
  BY <1>8, <1>9 DEF FillIsFair

FillInv ==
    \/ fill = <<>>
    \/ \E leg \in FillLegs : fill = <<leg>>
    \/ \E leg \in FillLegs, order \in FillOrders, model \in FillModels : fill = <<leg, order, model>>

(* FillSpec: whatever quotes, orders and models the fill model is asked    *)
(* about, what it answers is fair (fills.py).                              *)
THEOREM FillsAreAlwaysFair == FillSpec => []FillsAreFair
<1>1. FillInit => FillInv
  BY DEF FillInit, FillInv
<1>2. FillInv /\ [FillNext]_fill => FillInv'
  <2> SUFFICES ASSUME FillInv, [FillNext]_fill
               PROVE  FillInv'
    OBVIOUS
  <2>1. CASE fill = <<>> /\ fill' \in {<<leg>> : leg \in FillLegs}
    BY <2>1 DEF FillInv
  <2>2. CASE /\ Len(fill) = 1
             /\ fill' \in {<<fill[1], order, model>> : order \in FillOrders, model \in FillModels}
    <3>1. PICK leg \in FillLegs : fill = <<leg>>
      BY <2>2 DEF FillInv
    <3>2. fill[1] = leg
      BY <3>1
    <3> QED
      BY <2>2, <3>2 DEF FillInv
  <2>3. CASE fill' = <<>>
    BY <2>3 DEF FillInv
  <2>4. CASE fill' = fill
    BY <2>4 DEF FillInv
  <2> QED
    BY <2>1, <2>2, <2>3, <2>4 DEF FillNext, AskFill
<1>3. FillInv => FillsAreFair
  <2> SUFFICES ASSUME FillInv, Len(fill) = 3
               PROVE  FillIsFair(fill[2], fill[1], fill[3])
    BY DEF FillsAreFair
  <2>1. PICK leg \in FillLegs, order \in FillOrders, model \in FillModels : fill = <<leg, order, model>>
    BY DEF FillInv
  <2>2. fill[1] = leg /\ fill[2] = order /\ fill[3] = model
    BY <2>1
  <2>3. order \in [id : {order.id}, side : Sides, quantity : Nat, limit : Nat]
    BY FillAssumption
  <2>4. AskFacts(leg, model)
    <3>1. IsFillLeg(leg) /\ IsFillModel(model)
      BY FillAssumption
    <3>2. leg.bid \in Nat /\ leg.ask \in Nat /\ leg.ltp \in Nat /\ leg.volume \in Nat
      BY <3>1 DEF IsFillLeg
    <3>3. /\ model.parameter \in Nat \X (Nat \ {0}) /\ model.halfSpread \in Nat \X (Nat \ {0})
          /\ model.participation \in Int \X (Nat \ {0})
          /\ model.slippage \in {"MID", "TOUCH", "FRACTION", "IMPACT"}
      BY <3>1 DEF IsFillModel
    <3>4. \A f \in Nat \X (Nat \ {0}) : f \in FractionSet /\ NotNegative(f)
      BY DEF FractionSet, NotNegative
    <3> QED
      BY <3>2, <3>3, <3>4 DEF AskFacts, FractionSet
  <2>5. FillIsFair(order, leg, model)
    BY <2>3, <2>4, AnyFillIsFair
  <2> QED
    BY <2>2, <2>5
<1> QED
  BY <1>1, <1>2, <1>3, PTL DEF FillSpec
-----------------------------------------------------------------------------
RiskInv ==
    \/ risk = <<>>
    \/ \E i \in RiskIntents : risk = <<i>>
    \/ \E i \in RiskIntents, S \in RiskStates, policy \in RiskPolicies : risk = <<i, S, policy>>

(* RiskSpec: whatever intents, states and policies the engine is asked     *)
(* about, and whatever may turn out that a state lacks, what it passes is  *)
(* the largest quantity of one leg, the fair share of several, and no      *)
(* other if more were known (engine.py, limits.py).                        *)
THEOREM JudgementsAlwaysHold == RiskSpec => []JudgementsHold
<1>1. RiskInit => RiskInv
  BY DEF RiskInit, RiskInv
<1>2. RiskInv /\ [RiskNext]_risk => RiskInv'
  <2> SUFFICES ASSUME RiskInv, [RiskNext]_risk
               PROVE  RiskInv'
    OBVIOUS
  <2>1. CASE risk = <<>> /\ risk' \in {<<i>> : i \in RiskIntents}
    BY <2>1 DEF RiskInv
  <2>2. CASE /\ Len(risk) = 1
             /\ risk' \in {<<risk[1], S, policy>> : S \in RiskStates, policy \in RiskPolicies}
    <3>1. PICK i \in RiskIntents : risk = <<i>>
      BY <2>2 DEF RiskInv
    <3>2. risk[1] = i
      BY <3>1
    <3> QED
      BY <2>2, <3>2 DEF RiskInv
  <2>3. CASE risk' = <<>>
    BY <2>3 DEF RiskInv
  <2>4. CASE risk' = risk
    BY <2>4 DEF RiskInv
  <2> QED
    BY <2>1, <2>2, <2>3, <2>4 DEF RiskNext, AskRisk
<1>3. RiskInv => JudgementsHold
  <2> SUFFICES ASSUME RiskInv, Len(risk) = 3
               PROVE  JudgementIsSound(risk[1], risk[2], risk[3], KnowingMore(risk[2]))
    BY DEF JudgementsHold
  <2>1. PICK i \in RiskIntents, S \in RiskStates, policy \in RiskPolicies : risk = <<i, S, policy>>
    BY DEF RiskInv
  <2>2. risk[1] = i /\ risk[2] = S /\ risk[3] = policy
    BY <2>1
  <2>3. Askable(i, S, policy) /\ GroupsAreKnown(S, policy.limits)
    BY RiskAssumption DEF Askable
  <2>4. ASSUME NEW T \in KnowingMore(S)
        PROVE  \/ \E x \in Instruments : \E p : S.marks[x] = None /\ T = [S EXCEPT !.marks[x] = p]
               \/ \E x \in Instruments : \E u :
                     S.groups[x].underlying = None /\ T = [S EXCEPT !.groups[x].underlying = u]
               \/ \E g \in Greeks : \E v : S.greeks[g] = None /\ T = [S EXCEPT !.greeks[g] = v]
    <3> DEFINE marks == {[S EXCEPT !.marks[x] = price] :
                            x \in {y \in Instruments : S.marks[y] = None}, price \in PricesSeen}
               groups == {[S EXCEPT !.groups[x].underlying = underlying] :
                             x \in {y \in Instruments : S.groups[y].underlying = None},
                             underlying \in UnderlyingsSeen}
               greeks == {[S EXCEPT !.greeks[g] = seen] :
                             g \in {h \in Greeks : S.greeks[h] = None}, seen \in GreeksSeen}
    <3>1. T \in marks \/ T \in groups \/ T \in greeks
      BY DEF KnowingMore
    <3> HIDE DEF marks, groups, greeks
    <3>2. T \in marks => \E x \in Instruments : \E p : S.marks[x] = None /\ T = [S EXCEPT !.marks[x] = p]
      BY DEF marks
    <3>3. T \in groups => \E x \in Instruments : \E u :
             S.groups[x].underlying = None /\ T = [S EXCEPT !.groups[x].underlying = u]
      BY DEF groups
    <3>4. T \in greeks => \E g \in Greeks : \E v : S.greeks[g] = None /\ T = [S EXCEPT !.greeks[g] = v]
      BY DEF greeks
    <3> QED
      BY <3>1, <3>2, <3>3, <3>4, Zenon
  <2>5. JudgementIsSound(i, S, policy, KnowingMore(S))
    BY <2>3, <2>4, AnyJudgementIsSound
  <2> QED
    BY <2>2, <2>5
<1> QED
  BY <1>1, <1>2, <1>3, PTL DEF RiskSpec
-----------------------------------------------------------------------------
(* The fills of the portfolio: each intent is filled once.                 *)
AreTrades(E) ==
    /\ \A f \in E : /\ f.instrument = Portfolio /\ f.intent \in 1 .. MaxTrades
                    /\ f.quantity \in Int /\ f.price \in Int /\ f.costs \in Int
    /\ \A f, g \in E : f.intent = g.intent => f = g

(* What a fill moves, and what a book has moved.                           *)
Measures == {"quantity", "cash", "fees"}

Moves(f, m) ==
    LET signed == f.quantity * Sign(f.side)
    IN  IF m = "quantity" THEN signed
        ELSE IF m = "cash" THEN (0 - signed * f.price) - f.costs
        ELSE f.costs

Moved(b, m) ==
    IF m = "quantity" THEN b.positions[Portfolio].quantity
    ELSE IF m = "cash" THEN b.cash ELSE b.fees

FoldedAs(E, b, k) == {f \in E : f.intent = k /\ FillKey(f) \in b.applied}

MovesBy(E, b, m) ==
    [k \in 1 .. MaxTrades |-> IF FoldedAs(E, b, k) = {} THEN 0 ELSE Moves(Picked(FoldedAs(E, b, k)), m)]

(* A book that has folded some of the fills E, each of them once.          *)
IsFolded(E, b) ==
    /\ BookIsTyped(b) /\ Balanced(b, 0)
    /\ \A i \in Instruments \ {Portfolio} : b.positions[i] = Flat
    /\ b.applied \subseteq {FillKey(f) : f \in E}
    /\ \A m \in Measures : Moved(b, m) = TotalOf(MovesBy(E, b, m))

LEMMA MovesAreNumbers ==
    ASSUME NEW E, AreTrades(E), NEW b, NEW m
    PROVE  MovesBy(E, b, m) \in [1 .. MaxTrades -> Int]
<1>1. ASSUME NEW f \in E
      PROVE  Moves(f, m) \in Int
  <2>1. f.quantity * Sign(f.side) \in Int /\ f.price \in Int /\ f.costs \in Int
    BY DEF AreTrades, Sign
  <2> QED
    BY <2>1 DEF Moves
<1>2. ASSUME NEW k \in 1 .. MaxTrades, FoldedAs(E, b, k) # {}
      PROVE  Picked(FoldedAs(E, b, k)) \in E
  <2>1. Picked(FoldedAs(E, b, k)) \in FoldedAs(E, b, k)
    BY <1>2 DEF Picked
  <2> QED
    BY <2>1 DEF FoldedAs
<1> QED
  BY <1>1, <1>2 DEF MovesBy

LEMMA EmptyIsFolded ==
    ASSUME NEW E
    PROVE  IsFolded(E, EmptyBook(0))
<1> DEFINE b == EmptyBook(0)
<1>1. /\ BookIsTyped(b) /\ Balanced(b, 0)
      /\ \A i \in Instruments : b.positions[i] = Flat
      /\ b.applied = {} /\ b.cash = 0 /\ b.fees = 0
  <2>1. 0 \in Int
    OBVIOUS
  <2>2. BookIsTyped(b) /\ Balanced(b, 0)
    BY <2>1, PortfolioAssumption, EmptyBookBalances
  <2> QED
    BY <2>2 DEF EmptyBook
<1> HIDE DEF b
<1>2. ASSUME NEW m \in Measures
      PROVE  Moved(b, m) = 0 /\ TotalOf(MovesBy(E, b, m)) = 0
  <2>1. Moved(b, m) = 0
    BY <1>1, PortfolioAssumption DEF Moved, Flat
  <2>2. MovesBy(E, b, m) \in [1 .. MaxTrades -> {0}]
    BY <1>1 DEF MovesBy, FoldedAs
  <2>3. IsFiniteSet(1 .. MaxTrades)
    BY PortfolioAssumption, FS_Interval
  <2> QED
    BY <2>1, <2>2, <2>3, TotalOfZeros
<1> QED
  BY <1>1, <1>2 DEF IsFolded, b

(* More fills may be executed.                                             *)
LEMMA FoldedLater ==
    ASSUME NEW F, AreTrades(F), NEW E \in SUBSET F, NEW b, IsFolded(E, b)
    PROVE  IsFolded(F, b)
<1>1. ASSUME NEW k \in 1 .. MaxTrades
      PROVE  FoldedAs(F, b, k) = FoldedAs(E, b, k)
  <2>1. ASSUME NEW f \in FoldedAs(F, b, k)
        PROVE  f \in E
    <3>1. f \in F /\ FillKey(f) \in b.applied
      BY DEF FoldedAs
    <3>2. PICK g \in E : FillKey(f) = FillKey(g)
      BY <3>1 DEF IsFolded
    <3>3. f.intent = g.intent
      BY <3>2 DEF FillKey
    <3> QED
      BY <3>1, <3>3 DEF AreTrades
  <2> QED
    BY <2>1 DEF FoldedAs
<1>2. \A m \in Measures : MovesBy(F, b, m) = MovesBy(E, b, m)
  BY <1>1 DEF MovesBy
<1> QED
  BY <1>2 DEF IsFolded

LEMMA ApplyFolds ==
    ASSUME NEW E, AreTrades(E), NEW b, IsFolded(E, b), NEW f \in E
    PROVE  IsFolded(E, Apply(b, f))
<1>1. SUFFICES ASSUME FillKey(f) \notin b.applied
               PROVE  IsFolded(E, Apply(b, f))
  BY DEF Apply
<1> DEFINE n == Apply(b, f)
           signed == f.quantity * Sign(f.side)
<1>2. /\ n.cash = b.cash - signed * f.price - f.costs
      /\ n.positions = [b.positions EXCEPT ![Portfolio] = Merge(b.positions[Portfolio], signed, f.price)]
      /\ n.fees = b.fees + f.costs
      /\ n.applied = b.applied \cup {FillKey(f)}
  BY <1>1 DEF Apply, AreTrades
<1>3. /\ f.instrument = Portfolio /\ f.intent \in 1 .. MaxTrades
      /\ f.quantity \in Int /\ f.price \in Int /\ f.costs \in Int
      /\ signed \in Int /\ signed * f.price \in Int
  BY DEF AreTrades, Sign
<1>4. b.cash \in Int /\ b.fees \in Int /\ b.positions \in [Instruments -> PositionSet] /\ Portfolio \in Instruments
  BY PortfolioAssumption DEF IsFolded, BookIsTyped
<1>5. BookIsTyped(n) /\ Balanced(n, 0)
  <2>1. 0 \in Int /\ f.instrument \in Instruments
    BY <1>3, <1>4
  <2> QED
    BY <1>3, <2>1, PortfolioAssumption, ApplyBalances DEF IsFolded
<1> HIDE DEF n, signed
<1>6. \A i \in Instruments \ {Portfolio} : n.positions[i] = Flat
  BY <1>2, <1>4 DEF IsFolded
<1>7. n.applied \subseteq {FillKey(g) : g \in E}
  BY <1>2 DEF IsFolded
<1>8. \A m \in Measures : Moved(n, m) = Moved(b, m) + Moves(f, m)
  <2>1. n.positions[Portfolio].quantity = b.positions[Portfolio].quantity + signed
    BY <1>2, <1>4 DEF Merge
  <2>2. n.cash = b.cash + ((0 - signed * f.price) - f.costs)
    BY <1>2, <1>3, <1>4
  <2> QED
    BY <1>2, <2>1, <2>2 DEF Moved, Moves, Measures, signed
<1>9. FoldedAs(E, b, f.intent) = {} /\ FoldedAs(E, n, f.intent) = {f}
  <2>1. \A g \in E : g.intent = f.intent => g = f
    BY DEF AreTrades
  <2> QED
    BY <1>1, <1>2, <2>1 DEF FoldedAs
<1>10. ASSUME NEW k \in 1 .. MaxTrades, k # f.intent
       PROVE  FoldedAs(E, n, k) = FoldedAs(E, b, k)
  <2>1. \A g \in E : g.intent = k => FillKey(g) # FillKey(f)
    BY <1>10 DEF FillKey
  <2> QED
    BY <1>2, <2>1 DEF FoldedAs
<1>11. ASSUME NEW m \in Measures
       PROVE  Moved(n, m) = TotalOf(MovesBy(E, n, m))
  <2> DEFINE old == MovesBy(E, b, m)
             new == MovesBy(E, n, m)
  <2>1. old \in [1 .. MaxTrades -> Int] /\ new \in [1 .. MaxTrades -> Int]
    BY MovesAreNumbers
  <2>2. old[f.intent] = 0 /\ new[f.intent] = Moves(f, m)
    <3>1. Picked({f}) = f
      BY DEF Picked
    <3> QED
      BY <1>3, <1>9, <3>1 DEF MovesBy
  <2>3. \A k \in (1 .. MaxTrades) \ {f.intent} : old[k] = new[k]
    BY <1>10 DEF MovesBy
  <2>4. IsFiniteSet(1 .. MaxTrades)
    BY PortfolioAssumption, FS_Interval
  <2> HIDE DEF old, new
  <2>5. TotalOf(new) = TotalOf(old) + new[f.intent] - old[f.intent]
    BY <1>3, <2>1, <2>3, <2>4, TotalOfOneChange
  <2>6. TotalOf(old) \in Int /\ new[f.intent] \in Int
    BY <1>3, <2>1, <2>4, TotalOfIntegers
  <2>7. Moved(b, m) = TotalOf(old)
    BY DEF IsFolded, old
  <2> QED
    BY <1>8, <2>2, <2>5, <2>6, <2>7 DEF new
<1> QED
  BY <1>5, <1>6, <1>7, <1>11 DEF IsFolded, n

(* However many fills are folded, in any order.                            *)
LEMMA FoldFolds ==
    ASSUME NEW E, AreTrades(E), NEW b, IsFolded(E, b), NEW s \in Seq(E)
    PROVE  IsFolded(E, FoldFills(b, s))
<1>1. Len(s) \in Nat /\ \A n \in 1 .. Len(s) : s[n] \in E
  OBVIOUS
<1>2. PICK g : IsReplay(b, s, Len(s), g) /\ FoldFills(b, s) = g[Len(s)]
  BY <1>1, ReplayIs
<1> DEFINE T == {n \in Nat : n <= Len(s) /\ ~IsFolded(E, g[n])}
<1>3. SUFFICES ASSUME T # {} PROVE FALSE
  BY <1>1, <1>2
<1>4. PICK n \in T : \A m \in T : n <= m
  BY <1>3, LeastNumber
<1>5. g[n] = IF n = 0 THEN b ELSE Apply(g[n - 1], s[n])
  BY <1>1, <1>2 DEF IsReplay
<1>6. n # 0
  BY <1>5
<1>7. IsFolded(E, g[n - 1])
  BY <1>1, <1>4, <1>6
<1>8. s[n] \in E
  BY <1>1, <1>6
<1> QED
  BY <1>5, <1>6, <1>7, <1>8, ApplyFolds

(* What has been folded says what the book holds.                          *)
LEMMA FoldedIsUnique ==
    ASSUME NEW E, NEW a, NEW b, IsFolded(E, a), IsFolded(E, b), a.applied = b.applied
    PROVE  /\ a.positions[Portfolio].quantity = b.positions[Portfolio].quantity
           /\ a.cash = b.cash /\ a.fees = b.fees
<1>1. \A m \in Measures : MovesBy(E, a, m) = MovesBy(E, b, m)
  BY DEF MovesBy, FoldedAs
<1>2. \A m \in Measures : Moved(a, m) = Moved(b, m)
  BY <1>1 DEF IsFolded
<1> QED
  BY <1>2 DEF Measures, Moved
LEMMA SumOfSingle ==
    ASSUME NEW x, NEW a \in LowestTerms
    PROVE  SumOf([i \in {x} |-> a]) = a
<1> DEFINE f == [i \in {x} |-> a]
<1>1. /\ DOMAIN f = {x} /\ IsFiniteSet({x}) /\ Picked({x}) = x /\ f[x] = a /\ DOMAIN Without(f, x) = {}
  BY FS_Singleton DEF Picked, Without
<1> HIDE DEF f
<1>2. SumOf(f) = Plus(SumOf(Without(f, x)), f[x]) /\ SumOf(Without(f, x)) = Whole(0)
  BY <1>1, TotalOfSome, TotalOfNothing
<1>3. PICK D \in Int \ {0}, v \in Int : Valued(a, D, v)
  BY CommonDenominator DEF LowestTerms
<1>4. Plus(Whole(0), a) \in LowestTerms /\ Valued(Plus(Whole(0), a), D, v)
  <2>1. Whole(0) \in LowestTerms /\ Valued(Whole(0), D, 0 * D) /\ 0 * D = 0
    BY ValueOfWhole
  <2>2. Whole(0) \in FractionSet /\ a \in FractionSet
    BY <2>1 DEF LowestTerms
  <2>3. Plus(Whole(0), a) \in LowestTerms /\ Valued(Plus(Whole(0), a), D, 0 + v)
    BY <1>3, <2>1, <2>2, ValueOfPlus
  <2> QED
    BY <2>3
<1>5. Plus(Whole(0), a) = a
  BY <1>3, <1>4, EqualByValue
<1> QED
  BY <1>1, <1>2, <1>5 DEF f

(* Only one instrument has a basis.                                        *)
LEMMA BasisOfOne ==
    ASSUME NEW E, NEW b, IsFolded(E, b)
    PROVE  LET p == b.positions[Portfolio]
           IN  Basis(b) = Times(p.average, Whole(p.quantity)) /\ Basis(b) \in LowestTerms
<1> DEFINE p == b.positions[Portfolio]
           basis == Times(p.average, Whole(p.quantity))
           none == [i \in Instruments |-> Whole(0)]
<1>1. BookIsTyped(b) /\ Portfolio \in Instruments /\ IsFiniteSet(Instruments)
  BY PortfolioAssumption DEF IsFolded
<1>2. Bases(b) \in [Instruments -> FractionSet] /\ Basis(b) = SumOf(Bases(b)) /\ Bases(b)[Portfolio] = basis
  BY <1>1, BasesAreFractions DEF Bases
<1>3. p.average \in FractionSet /\ p.quantity \in Int
  BY <1>1 DEF BookIsTyped, PositionSet, LowestTerms
<1> HIDE DEF p
<1>4. basis \in LowestTerms /\ basis \in FractionSet
  <2>1. PICK D \in Int \ {0}, v \in Int : Valued(p.average, D, v)
    BY <1>3, CommonDenominator
  <2>2. basis \in LowestTerms
    BY <1>3, <2>1, ValueOfTimes
  <2> QED
    BY <2>2 DEF LowestTerms
<1> HIDE DEF basis
<1>5. Whole(0) \in LowestTerms /\ Whole(0) \in FractionSet /\ Times(Whole(0), Whole(0)) = Whole(0)
  <2>1. 0 \in Int
    OBVIOUS
  <2> QED
    BY <2>1, WholesAdd DEF LowestTerms
<1>6. /\ none \in [Instruments -> {Whole(0)}] /\ none \in [Instruments -> FractionSet]
      /\ \A i \in Instruments \ {Portfolio} : none[i] = Bases(b)[i]
  <2>1. \A i \in Instruments \ {Portfolio} : Bases(b)[i] = Times(Whole(0), Whole(0))
    BY DEF IsFolded, Bases, Flat
  <2> QED
    BY <1>5, <2>1
<1>7. SumOf(none) = Whole(0) /\ none[Portfolio] = Whole(0)
  BY <1>1, <1>6, SumOfZeros
<1> HIDE DEF none
<1>8. Basis(b) = Minus(Plus(Whole(0), basis), Whole(0))
  BY <1>1, <1>2, <1>6, <1>7, SumOfOneChange
<1>9. Plus(Whole(0), basis) = Plus(basis, Whole(0)) /\ Minus(Plus(basis, Whole(0)), Whole(0)) = basis
  BY <1>4, <1>5, PlusCommutes, MinusUndoes
<1> QED
  BY <1>4, <1>8, <1>9 DEF basis, p

(* What a balanced book of one instrument is worth at a mark does not      *)
(* depend on its basis.                                                    *)
LEMMA WorthOfBook ==
    ASSUME NEW E, NEW b, IsFolded(E, b), NEW mark \in Int
    PROVE  LET worth == Whole(b.cash + mark * b.positions[Portfolio].quantity)
               marks == [i \in {Portfolio} |-> mark]
           IN  NetPnl(b, marks) = worth /\ Equity(b, marks) = worth
<1> DEFINE a == b.positions[Portfolio].average
           q == b.positions[Portfolio].quantity
           marks == [i \in {Portfolio} |-> mark]
           gain == Times(Minus(Whole(mark), a), Whole(q))
<1>1. /\ b.cash \in Int /\ b.fees \in Int /\ b.realized \in FractionSet
      /\ a \in FractionSet /\ q \in Int
  <2>1. BookIsTyped(b) /\ Portfolio \in Instruments
    BY PortfolioAssumption DEF IsFolded
  <2> QED
    BY <2>1 DEF BookIsTyped, PositionSet, LowestTerms
<1>2. Basis(b) = Times(a, Whole(q)) /\ Basis(b) \in LowestTerms
  BY BasisOfOne
<1>3. Unrealized(b, marks) = SumOf([i \in {Portfolio} |-> gain])
  BY DEF Unrealized
<1> HIDE DEF a, q
<1>4. PICK D \in Int \ {0}, v \in Int, R \in Int : Valued(a, D, v) /\ Valued(b.realized, D, R)
  BY <1>1, CommonDenominator
<1>5. \A x : x \in LowestTerms => x \in FractionSet
  BY DEF LowestTerms
<1>6. ASSUME NEW k \in Int
      PROVE  Whole(k) \in FractionSet /\ Whole(k) \in LowestTerms /\ Valued(Whole(k), D, k * D) /\ k * D \in Int
  BY <1>5, ValueOfWhole
<1>7. q * v \in Int /\ Valued(Basis(b), D, q * v)
  BY <1>1, <1>2, <1>4, ValueOfTimes
<1>8. gain \in LowestTerms /\ Valued(gain, D, q * (mark * D - v)) /\ q * (mark * D - v) \in Int
  <2>1. mark * D \in Int /\ mark * D - v \in Int /\ q * (mark * D - v) \in Int
    BY <1>1
  <2>2. Minus(Whole(mark), a) \in FractionSet /\ Valued(Minus(Whole(mark), a), D, mark * D - v)
    BY <1>1, <1>4, <1>5, <1>6, <2>1, ValueOfMinus
  <2> QED
    BY <1>1, <2>1, <2>2, ValueOfTimes
<1> HIDE DEF gain
<1>9. Unrealized(b, marks) = gain
  BY <1>3, <1>8, SumOfSingle
<1> HIDE DEF marks
<1> DEFINE c == b.cash * D
           e == b.fees * D
           u == q * v
           g == q * (mark * D - v)
<1>10. c \in Int /\ e \in Int /\ u \in Int /\ g \in Int
  BY <1>1, <1>7, <1>8
<1>11. c + u = R - e
  <2> HIDE DEF c, e, u
  <2>1. Plus(Whole(b.cash), Basis(b)) \in LowestTerms /\ Valued(Plus(Whole(b.cash), Basis(b)), D, c + u)
    BY <1>1, <1>2, <1>5, <1>6, <1>7, <1>10, ValueOfPlus DEF c, u
  <2>2. /\ Minus(b.realized, Whole(b.fees)) \in LowestTerms
        /\ Valued(Minus(b.realized, Whole(b.fees)), D, R - e)
    BY <1>1, <1>4, <1>6, <1>10, ValueOfMinus DEF e
  <2>3. 0 \in Int /\ 0 * D = 0
    OBVIOUS
  <2>4. /\ Plus(Whole(0), Minus(b.realized, Whole(b.fees))) \in LowestTerms
        /\ Valued(Plus(Whole(0), Minus(b.realized, Whole(b.fees))), D, 0 + (R - e))
    <3>1. Whole(0) \in FractionSet /\ Valued(Whole(0), D, 0)
      BY <1>6, <2>3
    <3>2. R - e \in Int
      BY <1>10
    <3> QED
      BY <1>5, <2>2, <2>3, <3>1, <3>2, ValueOfPlus
  <2>5. Plus(Whole(b.cash), Basis(b)) = Plus(Whole(0), Minus(b.realized, Whole(b.fees)))
    BY DEF IsFolded, Balanced
  <2>6. c + u \in Int /\ 0 + (R - e) = R - e /\ R - e \in Int
    BY <1>10
  <2> QED
    BY <1>5, <2>1, <2>4, <2>5, <2>6, OneValue
<1> DEFINE k == b.cash + mark * q
<1>12. k \in Int /\ k * D = c + (u + g)
  <2>1. k * D = b.cash * D + q * (mark * D)
    BY <1>1
  <2>2. q * (mark * D) = q * v + q * (mark * D - v)
    <3>1. \A x, y, z \in Int : x * z = x * y + x * (z - y)
      OBVIOUS
    <3> QED
      BY <1>1, <3>1
  <2>3. k \in Int
    BY <1>1
  <2> HIDE DEF k
  <2> QED
    BY <1>1, <1>10, <2>1, <2>2, <2>3
<1> HIDE DEF c, e, u, g, k
<1>13. Whole(k) \in LowestTerms /\ Valued(Whole(k), D, k * D)
  BY <1>6, <1>12
<1>14. Equity(b, marks) \in LowestTerms /\ Valued(Equity(b, marks), D, (c + u) + g)
  <2>1. Plus(Whole(b.cash), Basis(b)) \in FractionSet /\ Valued(Plus(Whole(b.cash), Basis(b)), D, c + u)
    BY <1>1, <1>2, <1>5, <1>6, <1>7, <1>10, ValueOfPlus DEF c, u
  <2>2. gain \in FractionSet /\ Valued(gain, D, g) /\ c + u \in Int
    BY <1>5, <1>8, <1>10 DEF g
  <2> QED
    BY <1>9, <1>10, <2>1, <2>2, ValueOfPlus DEF Equity
<1>15. NetPnl(b, marks) \in LowestTerms /\ Valued(NetPnl(b, marks), D, (R + g) - e)
  <2>1. gain \in FractionSet /\ Valued(gain, D, g)
    BY <1>5, <1>8 DEF g
  <2>2. Plus(b.realized, gain) \in FractionSet /\ Valued(Plus(b.realized, gain), D, R + g) /\ R + g \in Int
    BY <1>1, <1>4, <1>5, <1>10, <2>1, ValueOfPlus
  <2>3. Whole(b.fees) \in FractionSet /\ Valued(Whole(b.fees), D, e)
    BY <1>1, <1>6 DEF e
  <2> QED
    BY <1>9, <1>10, <2>2, <2>3, ValueOfMinus DEF NetPnl
<1>16. (c + u) + g = k * D /\ (R + g) - e = k * D /\ k * D \in Int
  BY <1>10, <1>11, <1>12
<1>17. Equity(b, marks) = Whole(k) /\ NetPnl(b, marks) = Whole(k)
  BY <1>13, <1>14, <1>15, <1>16, EqualByValue
<1> QED
  BY <1>17 DEF k, marks, q
-----------------------------------------------------------------------------
Slices == [owner : Owners, total : Int, computed : SUBSET Components, amount : [Components -> Int]]

LEMMA ComponentsAreFinite == IsFiniteSet(Components)
<1>1. Components = {"DIRECTION"} \cup {"CONVEXITY"} \cup {"VOLATILITY"} \cup {"TIME_DECAY"}
                     \cup {"EXECUTION"} \cup {"SLIPPAGE"} \cup {"COSTS"}
  BY DEF Components
<1> QED
  BY <1>1, FS_Singleton, FS_Union

(* The roll-up by owners, owner by owner.                                  *)
OwnedBy(children, g) == {m \in DOMAIN children : Named(children[m].owner) = g}

AreParents(children, parents) ==
    /\ DOMAIN parents = {Named(children[n].owner) : n \in DOMAIN children}
    /\ \A g \in DOMAIN parents :
          /\ parents[g].total = TotalOf([n \in OwnedBy(children, g) |-> children[n].total])
          /\ parents[g].computed = {c \in Components : \A n \in OwnedBy(children, g) : c \in children[n].computed}
          /\ \A c \in Components :
                parents[g].amount[c] = TotalOf([n \in OwnedBy(children, g) |-> children[n].amount[c]])

LEMMA ParentsAre ==
    ASSUME NEW children
    PROVE  AreParents(children, GroupBy(children))
<1> DEFINE Group(g) == OwnedBy(children, g)
           Members(g) == [n \in Group(g) |-> children[n]]
           parents == GroupBy(children)
<1>1. parents = [g \in {Named(children[n].owner) : n \in DOMAIN children} |-> RollUp(g, Members(g))]
  BY DEF GroupBy, OwnedBy
<1>2. ASSUME NEW g
      PROVE  /\ DOMAIN Members(g) = Group(g)
             /\ [n \in Group(g) |-> Members(g)[n].total] = [n \in Group(g) |-> children[n].total]
             /\ \A c : [n \in Group(g) |-> Members(g)[n].amount[c]] = [n \in Group(g) |-> children[n].amount[c]]
             /\ \A n \in Group(g) : Members(g)[n] = children[n]
  OBVIOUS
<1> HIDE DEF Members, Group, parents
<1>3. ASSUME NEW g
      PROVE  /\ RollUp(g, Members(g)).total = TotalOf([n \in Group(g) |-> children[n].total])
             /\ RollUp(g, Members(g)).computed = {c \in Components : \A n \in Group(g) : c \in children[n].computed}
             /\ \A c \in Components :
                   RollUp(g, Members(g)).amount[c] = TotalOf([n \in Group(g) |-> children[n].amount[c]])
  BY <1>2 DEF RollUp
<1> QED
  BY <1>1, <1>3 DEF AreParents, parents, Group

LEMMA RollUpsAddUp ==
    ASSUME slices \in Seq(Slices)
    PROVE  RollUpsAgree
<1> DEFINE S == DOMAIN slices
           group == [n \in S |-> Named(slices[n].owner)]
           G == {Named(slices[n].owner) : n \in S}
           Group(g) == OwnedBy(slices, g)
           parents == GroupBy(slices)
           direct == RollUp("all", slices)
           twice == RollUp("all", parents)
           totals == [n \in S |-> slices[n].total]
           Amounts(c) == [n \in S |-> slices[n].amount[c]]
<1>1. S = 1 .. Len(slices) /\ Len(slices) \in Nat /\ \A n \in S : slices[n] \in Slices
  OBVIOUS
<1>2. IsFiniteSet(S) /\ IsFiniteSet(G) /\ group \in [S -> G]
  <2>1. IsFiniteSet(S)
    BY <1>1, FS_Interval
  <2> HIDE DEF S
  <2>2. G = {group[n] : n \in S}
    OBVIOUS
  <2>3. group \in [S -> G]
    OBVIOUS
  <2> HIDE DEF G, group
  <2>4. group \in Surjection(S, G)
    BY <2>2, <2>3 DEF Surjection
  <2> QED
    BY <2>1, <2>3, <2>4, FS_Surjection
<1>3. \A n \in S : /\ slices[n].total \in Int /\ slices[n].amount \in [Components -> Int]
  BY <1>1 DEF Slices
<1> HIDE DEF S
<1>4. /\ direct.owner = "all" /\ direct.total = TotalOf(totals)
      /\ direct.computed = {c \in Components : \A n \in S : c \in slices[n].computed}
      /\ direct.amount = [c \in Components |-> TotalOf(Amounts(c))]
  BY DEF RollUp, S
<1>5. /\ DOMAIN parents = G
      /\ \A g \in G :
            /\ parents[g].total = TotalOf([n \in Group(g) |-> slices[n].total])
            /\ parents[g].computed = {c \in Components : \A n \in Group(g) : c \in slices[n].computed}
            /\ \A c \in Components : parents[g].amount[c] = TotalOf([n \in Group(g) |-> slices[n].amount[c]])
  <2>1. AreParents(slices, parents)
    BY ParentsAre
  <2> HIDE DEF parents
  <2> QED
    BY <2>1 DEF AreParents, S
<1>6. /\ totals \in [S -> Int] /\ \A c \in Components : Amounts(c) \in [S -> Int]
  BY <1>3
<1>7. \A g \in G : {m \in S : group[m] = g} = Group(g)
  BY DEF OwnedBy, S
<1>8. TotalOf([g \in G |-> parents[g].total]) = direct.total
  <2>1. \A g \in G : parents[g].total = TotalOf([n \in {m \in S : group[m] = g} |-> totals[n]])
    <3>1. \A g \in G : [n \in {m \in S : group[m] = g} |-> totals[n]] = [n \in Group(g) |-> slices[n].total]
      BY <1>7
    <3> HIDE DEF parents, group, totals, Group, G
    <3> QED
      BY <1>5, <3>1
  <2> HIDE DEF parents, group, totals, Group, G, direct
  <2>2. [g \in G |-> parents[g].total] = GroupTotals(S, G, group, totals)
    BY <2>1 DEF GroupTotals
  <2>3. TotalOf(GroupTotals(S, G, group, totals)) = TotalOf(totals)
    <3>1. totals \in [S -> Int]
      BY <1>6
    <3> QED
      BY <1>2, <3>1, TotalOfGroups
  <2> QED
    BY <1>4, <2>2, <2>3
<1>9. ASSUME NEW c \in Components
      PROVE  TotalOf([g \in G |-> parents[g].amount[c]]) = TotalOf(Amounts(c))
  <2> DEFINE v == Amounts(c)
  <2>1. v \in [S -> Int] /\ \A n \in S : v[n] = slices[n].amount[c]
    BY <1>6
  <2> HIDE DEF v
  <2>2. ASSUME NEW g \in G
        PROVE  parents[g].amount[c] = TotalOf([n \in {m \in S : group[m] = g} |-> v[n]])
    <3>1. {m \in S : group[m] = g} = Group(g) /\ Group(g) \subseteq S
      BY <1>7
    <3>2. parents[g].amount[c] = TotalOf([n \in Group(g) |-> slices[n].amount[c]])
      BY <1>5
    <3> HIDE DEF parents, group, Group, G
    <3>3. [n \in {m \in S : group[m] = g} |-> v[n]] = [n \in Group(g) |-> slices[n].amount[c]]
      BY <2>1, <3>1
    <3> QED
      BY <3>2, <3>3
  <2> HIDE DEF parents, group, Group, G
  <2>3. [g \in G |-> parents[g].amount[c]] = GroupTotals(S, G, group, v)
    BY <2>2 DEF GroupTotals
  <2>4. TotalOf(GroupTotals(S, G, group, v)) = TotalOf(v)
    BY <1>2, <2>1, TotalOfGroups
  <2> QED
    BY <2>3, <2>4 DEF v
<1>10. twice = direct
  <2>1. /\ twice = [owner |-> "all", total |-> TotalOf([g \in G |-> parents[g].total]),
                    computed |-> {c \in Components : \A g \in G : c \in parents[g].computed},
                    amount |-> [c \in Components |-> TotalOf([g \in G |-> parents[g].amount[c]])]]
        /\ direct = [owner |-> "all", total |-> direct.total, computed |-> direct.computed,
                     amount |-> direct.amount]
    <3> HIDE DEF G, parents
    <3> QED
      BY <1>5 DEF RollUp
  <2>2. {c \in Components : \A g \in G : c \in parents[g].computed} = direct.computed
    <3>1. \A n \in S : Named(slices[n].owner) \in G /\ n \in Group(Named(slices[n].owner))
      BY DEF OwnedBy, S
    <3>2. \A g \in G : Group(g) \subseteq S
      BY DEF OwnedBy, S
    <3> HIDE DEF G, Group, parents, direct
    <3>3. direct.computed = {c \in Components : \A n \in S : c \in slices[n].computed}
      BY <1>4
    <3>4. \A g \in G : parents[g].computed = {c \in Components : \A n \in Group(g) : c \in slices[n].computed}
      BY <1>5
    <3>5. ASSUME NEW c \in Components, \A g \in G : c \in parents[g].computed, NEW n \in S
          PROVE  c \in slices[n].computed
      <4>1. PICK g \in G : n \in Group(g)
        BY <3>1
      <4>2. c \in parents[g].computed
        BY <3>5
      <4> QED
        BY <3>4, <4>1, <4>2
    <3>6. ASSUME NEW c \in Components, \A n \in S : c \in slices[n].computed, NEW g \in G
          PROVE  c \in parents[g].computed
      BY <3>2, <3>4, <3>6
    <3> QED
      BY <3>3, <3>5, <3>6
  <2>3. [c \in Components |-> TotalOf([g \in G |-> parents[g].amount[c]])] = direct.amount
    <3> HIDE DEF G, parents, direct, Amounts
    <3> QED
      BY <1>4, <1>9
  <2> HIDE DEF G, parents, direct, twice
  <2> QED
    BY <1>8, <2>1, <2>2, <2>3
<1>11. Residual(direct) = TotalOf([n \in S |-> Residual(slices[n])])
  <2> DEFINE a == [n \in S |-> slices[n].amount]
             explained == [n \in S |-> TotalOf(slices[n].amount)]
             left == [n \in S |-> Residual(slices[n])]
  <2>1. a \in [S -> [Components -> Int]]
    BY <1>3
  <2>2. /\ \A c \in Components : [n \in S |-> a[n][c]] = Amounts(c)
        /\ [n \in S |-> TotalOf(a[n])] = explained
    OBVIOUS
  <2>3. \A n \in S : TotalOf(slices[n].amount) \in Int
    BY <1>3, ComponentsAreFinite, TotalOfIntegers
  <2>4. /\ explained \in [S -> Int] /\ left \in [S -> Int]
        /\ \A n \in S : totals[n] = left[n] + explained[n]
    BY <1>3, <2>3 DEF Residual
  <2> HIDE DEF a, explained, left, totals, Amounts, direct
  <2>5. [c \in Components |-> TotalOf([n \in S |-> a[n][c]])] = direct.amount
    BY <1>4, <2>2
  <2>6. TotalOf(direct.amount) = TotalOf(explained)
    <3>1. TotalOf([c \in Components |-> TotalOf([n \in S |-> a[n][c]])]) = TotalOf([n \in S |-> TotalOf(a[n])])
      BY <1>2, <2>1, ComponentsAreFinite, TotalsSwap
    <3> QED
      BY <2>2, <2>5, <3>1
  <2>7. TotalOf(totals) = TotalOf(left) + TotalOf(explained)
    <3>1. IsFiniteSet(S)
      BY <1>2
    <3>2. totals \in [S -> Int] /\ left \in [S -> Int] /\ explained \in [S -> Int]
      BY <1>6, <2>4
    <3>3. \A n \in S : totals[n] = left[n] + explained[n]
      BY <2>4
    <3> HIDE DEF S, G, group, Group, parents, twice
    <3> QED
      BY ONLY <3>1, <3>2, <3>3, TotalOfSums
  <2>8. TotalOf(left) \in Int /\ TotalOf(explained) \in Int
    BY <1>2, <2>4, TotalOfIntegers
  <2> QED
    BY <1>4, <2>6, <2>7, <2>8 DEF Residual, left
<1>12. \A c \in direct.computed, n \in S : c \in slices[n].computed
  BY <1>4
<1> QED
  BY <1>10, <1>11, <1>12 DEF RollUpsAgree, S
-----------------------------------------------------------------------------
(* What is executed are fills of the portfolio, the position book has      *)
(* folded some of them, and what is rolled up are attributions.            *)
PortfolioInv ==
    /\ AreTrades(Executed) /\ executed \in Seq(Executed)
    /\ IsFolded(Executed, folded)
    /\ slices \in Seq(Slices)

LEMMA TradeKeeps ==
    ASSUME PortfolioInv, Trade
    PROVE  PortfolioInv'
<1>1. PICK f : /\ f.instrument = Portfolio /\ f.intent \in 1 .. MaxTrades
               /\ f.quantity \in Int /\ f.price \in Int /\ f.costs \in Int
               /\ \A g \in Executed : f.intent # g.intent
               /\ executed' = Append(executed, f)
  BY PortfolioAssumption DEF Trade
<1>2. /\ executed \in Seq(Executed) /\ Len(executed) \in Nat /\ DOMAIN executed = 1 .. Len(executed)
      /\ DOMAIN executed' = 1 .. (Len(executed) + 1)
      /\ \A n \in 1 .. Len(executed) : executed'[n] = executed[n]
      /\ executed'[Len(executed) + 1] = f
  BY <1>1 DEF PortfolioInv
<1>3. Executed' = Executed \cup {f}
  <2>1. Executed' = {executed'[n] : n \in DOMAIN executed'}
    BY DEF Executed
  <2>2. Executed = {executed[n] : n \in DOMAIN executed}
    BY DEF Executed
  <2> QED
    BY <1>2, <2>1, <2>2
<1>4. executed' \in Seq(Executed')
  <2>1. executed \in Seq(Executed \cup {f})
    BY <1>2
  <2> QED
    BY <1>1, <1>3, <2>1
<1>5. AreTrades(Executed \cup {f})
  BY <1>1 DEF PortfolioInv, AreTrades
<1>6. IsFolded(Executed \cup {f}, folded)
  BY <1>5, FoldedLater DEF PortfolioInv
<1>7. folded' = folded /\ slices' = slices
  BY DEF Trade
<1>8. AreTrades(Executed') /\ IsFolded(Executed', folded')
  BY <1>3, <1>5, <1>6, <1>7
<1> QED
  BY <1>4, <1>7, <1>8 DEF PortfolioInv, AreTrades, IsFolded
LEMMA ApplyAllKeeps ==
    ASSUME PortfolioInv, ApplyAll
    PROVE  PortfolioInv'
<1>1. PICK batch \in SUBSET Executed : \E order \in InKeyOrder(batch) : folded' = FoldFills(folded, order)
  BY DEF ApplyAll
<1>2. PICK order \in InKeyOrder(batch) : folded' = FoldFills(folded, order)
  BY <1>1
<1>3. executed' = executed /\ slices' = slices /\ Executed' = Executed
  BY DEF ApplyAll, Executed
<1>4. order \in Seq(Executed)
  <2>1. order \in [1 .. Cardinality(batch) -> Executed]
    BY DEF InKeyOrder
  <2>2. IsFiniteSet(Executed)
    <3>1. executed \in [DOMAIN executed -> Executed] /\ IsFiniteSet(DOMAIN executed)
      <4>1. executed \in Seq(Executed)
        BY DEF PortfolioInv
      <4>2. DOMAIN executed = 1 .. Len(executed) /\ Len(executed) \in Nat
        BY <4>1
      <4> QED
        BY <4>1, <4>2, FS_Interval
    <3>2. executed \in Surjection(DOMAIN executed, Executed)
      BY <3>1 DEF Surjection, Executed
    <3> QED
      BY <3>1, <3>2, FS_Surjection
  <2>3. Cardinality(batch) \in Nat
    BY <2>2, FS_Subset, FS_CardinalityType
  <2> QED
    BY <2>1, <2>3
<1>5. IsFolded(Executed, folded')
  BY <1>2, <1>4, FoldFolds DEF PortfolioInv
<1> QED
  BY <1>3, <1>5 DEF PortfolioInv

LEMMA AskKeeps ==
    ASSUME PortfolioInv, AskRollUp
    PROVE  PortfolioInv'
<1>1. executed' = executed /\ folded' = folded /\ Executed' = Executed
  BY DEF AskRollUp, Executed
<1>2. ASSUME NEW owner \in Owners, NEW total \in Totals, NEW known \in KnownInputs
      PROVE  Attribute(owner, total, known) \in Slices
  BY PortfolioAssumption DEF Attribute, Slices
<1>3. slices' \in Seq(Slices)
  <2>1. slices \in Seq(Slices)
    BY DEF PortfolioInv
  <2>2. CASE slices' = <<>>
    BY <2>2
  <2>3. ASSUME NEW owner \in Owners, NEW total \in Totals, NEW known \in KnownInputs,
               slices' = Append(slices, Attribute(owner, total, known))
        PROVE  slices' \in Seq(Slices)
    <3>1. Attribute(owner, total, known) \in Slices
      BY <1>2
    <3> QED
      BY <2>1, <2>3, <3>1
  <2> QED
    BY <2>2, <2>3 DEF AskRollUp
<1> QED
  BY <1>1, <1>3 DEF PortfolioInv

LEMMA PortfolioInitially == PortfolioInit => PortfolioInv
<1> SUFFICES ASSUME PortfolioInit PROVE PortfolioInv
  OBVIOUS
<1>1. executed = <<>> /\ folded = EmptyBook(0) /\ slices = <<>>
  BY DEF PortfolioInit
<1>2. Executed = {}
  BY <1>1 DEF Executed
<1>3. AreTrades(Executed)
  BY <1>2 DEF AreTrades
<1>4. IsFolded(Executed, folded)
  BY <1>1, EmptyIsFolded
<1> QED
  BY <1>1, <1>3, <1>4 DEF PortfolioInv

LEMMA PortfolioStep == PortfolioInv /\ [PortfolioNext]_portfolioVars => PortfolioInv'
<1> SUFFICES ASSUME PortfolioInv, [PortfolioNext]_portfolioVars
             PROVE  PortfolioInv'
  OBVIOUS
<1>1. CASE Trade
  BY <1>1, TradeKeeps
<1>2. CASE ApplyAll
  BY <1>2, ApplyAllKeeps
<1>3. CASE AskRollUp
  BY <1>3, AskKeeps
<1>4. CASE UNCHANGED <<executed, folded, slices>>
  BY <1>4 DEF PortfolioInv, Executed
<1>5. ASSUME NEW apply \in BOOLEAN, ReconcilePositions(apply)
      PROVE  UNCHANGED <<executed, folded, slices>>
  BY <1>5 DEF ReconcilePositions
<1>6. CASE PositionsMove
  BY <1>4, <1>6 DEF PositionsMove
<1>7. CASE UNCHANGED portfolioVars
  BY <1>4, <1>7 DEF portfolioVars
<1> QED
  BY <1>1, <1>2, <1>3, <1>4, <1>5, <1>6, <1>7 DEF PortfolioNext

LEMMA FoldsAgree == PortfolioInv => FoldKeepsTheTotal
<1> SUFFICES ASSUME PortfolioInv, folded.applied = ReplayFills(0, executed).applied
             PROVE  LET ledger == ReplayFills(0, executed)
                    IN  /\ folded.positions[Portfolio].quantity = ledger.positions[Portfolio].quantity
                        /\ folded.fees = ledger.fees
                        /\ \A mark \in TradePrices, state \in States :
                              LET marks == [i \in {Portfolio} |-> mark]
                              IN  /\ NetPnl(folded, marks) = NetPnl(ledger, marks)
                                  /\ IsValued(state) => Whole(SnapshotEquity(folded, state, mark)) = Equity(ledger, marks)
  BY DEF FoldKeepsTheTotal
<1> DEFINE ledger == ReplayFills(0, executed)
<1>1. AreTrades(Executed) /\ executed \in Seq(Executed) /\ IsFolded(Executed, folded)
  BY DEF PortfolioInv
<1>2. IsFolded(Executed, ledger)
  BY <1>1, EmptyIsFolded, FoldFolds DEF ReplayFills
<1> HIDE DEF ledger
<1>3. /\ folded.positions[Portfolio].quantity = ledger.positions[Portfolio].quantity
      /\ folded.cash = ledger.cash /\ folded.fees = ledger.fees
  BY <1>1, <1>2, FoldedIsUnique DEF ledger
<1>4. ASSUME NEW mark \in TradePrices, NEW state \in States
      PROVE  LET marks == [i \in {Portfolio} |-> mark]
             IN  /\ NetPnl(folded, marks) = NetPnl(ledger, marks)
                 /\ IsValued(state) => Whole(SnapshotEquity(folded, state, mark)) = Equity(ledger, marks)
  <2> DEFINE marks == [i \in {Portfolio} |-> mark]
             worth == Whole(folded.cash + mark * folded.positions[Portfolio].quantity)
  <2>1. mark \in Int
    BY PortfolioAssumption
  <2>2. NetPnl(folded, marks) = worth
    BY <1>1, <2>1, WorthOfBook
  <2>3. NetPnl(ledger, marks) = worth /\ Equity(ledger, marks) = worth
    BY <1>2, <1>3, <2>1, WorthOfBook
  <2>4. IsValued(state) => Whole(SnapshotEquity(folded, state, mark)) = worth
    BY DEF SnapshotEquity
  <2> QED
    BY <2>2, <2>3, <2>4
<1> QED
  BY <1>3, <1>4 DEF ledger

(* The position book holds what the account's ledger holds once it has     *)
(* folded the same fills, in whatever order and batches, and is worth what *)
(* the ledger is worth (PositionBook.apply_all, PortfolioSnapshot); and    *)
(* attributions roll up by owner as they do at once (roll_up, group_by).   *)
THEOREM PortfolioAlwaysAddsUp == PortfolioSpec => []PortfolioAddsUp
<1>1. PortfolioInv => PortfolioAddsUp
  BY FoldsAgree, RollUpsAddUp DEF PortfolioInv, PortfolioAddsUp
<1> QED
  BY <1>1, PortfolioInitially, PortfolioStep, PTL DEF PortfolioSpec
=============================================================================
