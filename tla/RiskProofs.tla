----------------------------- MODULE RiskProofs -----------------------------
(***************************************************************************)
(* The risk engine, for any intent, state and policy.  A decision reads    *)
(* the state through its checks alone (SameDecision), and what is missing  *)
(* where all of them can be judged takes part in none of them              *)
(* (MarkChangesNothing, GroupChangesNothing, GreekChangesNothing).  What   *)
(* is cut down is shared out to the whole (LegsShare).  Of one leg, a      *)
(* limit on size is breached by exactly what is more than its excess       *)
(* leaves (SizeLeaves), and the others no sooner than they were            *)
(* (SmallerBreachesNoMore): the engine leaves the most that is within the  *)
(* limits (WithinWhatIsLeft).                                              *)
(***************************************************************************)
EXTENDS RiskEngine, LedgerProofs

LEMMA FirstOnes ==
    ASSUME NEW len \in Nat, NEW rest \in 0 .. len
    PROVE  TotalOf([n \in 1 .. len |-> IF n <= rest THEN 1 ELSE 0]) = rest
<1> DEFINE Ones(r) == [n \in 1 .. len |-> IF n <= r THEN 1 ELSE 0]
           T == {r \in 0 .. len : TotalOf(Ones(r)) # r}
<1>1. IsFiniteSet(1 .. len)
  BY FS_Interval
<1> SUFFICES ASSUME T # {} PROVE FALSE
  OBVIOUS
<1>2. PICK r \in T : \A k \in T : r <= k
  <2>1. T \in SUBSET Nat
    OBVIOUS
  <2> HIDE DEF T
  <2> QED
    BY <2>1, LeastNumber
<1>3. r \in 0 .. len /\ TotalOf(Ones(r)) # r
  OBVIOUS
<1>4. r # 0
  <2>1. Ones(0) \in [1 .. len -> {0}]
    OBVIOUS
  <2>2. TotalOf(Ones(0)) = 0
    <3> HIDE DEF Ones
    <3> QED
      BY <1>1, <2>1, TotalOfZeros
  <2> QED
    BY <1>3, <2>2
<1>5. r - 1 \in 0 .. len /\ ~(r <= r - 1) /\ r \in 1 .. len
  BY <1>3, <1>4
<1>6. r - 1 \notin T
  <2> HIDE DEF T
  <2> QED
    BY <1>2, <1>5
<1>7. TotalOf(Ones(r - 1)) = r - 1
  BY <1>5, <1>6
<1>8. /\ Ones(r) \in [1 .. len -> Int] /\ Ones(r - 1) \in [1 .. len -> Int]
      /\ \A n \in (1 .. len) \ {r} : Ones(r - 1)[n] = Ones(r)[n]
      /\ Ones(r)[r] = 1 /\ Ones(r - 1)[r] = 0
  BY <1>5
<1> HIDE DEF Ones
<1>9. TotalOf(Ones(r)) = TotalOf(Ones(r - 1)) + 1 - 0
  <2>1. TotalOf(Ones(r)) = TotalOf(Ones(r - 1)) + Ones(r)[r] - Ones(r - 1)[r]
    <3> DEFINE new == Ones(r)
               old == Ones(r - 1)
               D == 1 .. len
    <3>1. /\ IsFiniteSet(D) /\ new \in [D -> Int] /\ old \in [D -> Int] /\ r \in D
          /\ \A n \in D \ {r} : old[n] = new[n]
      BY <1>1, <1>5, <1>8
    <3> HIDE DEF new, old, D
    <3> QED
      BY <3>1, TotalOfOneChange DEF new, old
  <2>2. Ones(r)[r] = 1 /\ Ones(r - 1)[r] = 0
    BY <1>8
  <2> QED
    BY <2>1, <2>2
<1> QED
  BY <1>3, <1>5, <1>7, <1>9
-----------------------------------------------------------------------------
LegRecords == [instrument : Instruments, side : Sides, quantity : Nat \ {0}, limit : Nat]

LEMMA IntentFacts ==
    ASSUME NEW i, IsIntent(i)
    PROVE  /\ i.legs \in Seq(LegRecords) /\ Len(i.legs) \in Nat \ {0}
           /\ LegsOf(i) = 1 .. Len(i.legs) /\ IsFiniteSet(LegsOf(i)) /\ 1 \in LegsOf(i)
           /\ i = [strategy |-> i.strategy, legs |-> i.legs]
           /\ \A n \in LegsOf(i) :
                 /\ i.legs[n] \in LegRecords
                 /\ i.legs[n].instrument \in Instruments /\ i.legs[n].quantity \in Nat \ {0}
                 /\ i.legs[n].limit \in Nat /\ Sign(i.legs[n].side) \in {1, -1}
           /\ Quantities(i) \in [LegsOf(i) -> Nat]
           /\ TotalQuantity(i) \in Nat \ {0}
           /\ \A n \in LegsOf(i) : i.legs[n].quantity <= TotalQuantity(i)
<1>1. /\ i.legs \in Seq(LegRecords) /\ i.legs # <<>> /\ i = [strategy |-> i.strategy, legs |-> i.legs]
  BY DEF IsIntent, LegRecords
<1>2. Len(i.legs) \in Nat \ {0} /\ LegsOf(i) = 1 .. Len(i.legs)
  BY <1>1 DEF LegsOf
<1>3. IsFiniteSet(LegsOf(i)) /\ 1 \in LegsOf(i)
  BY <1>2, FS_Interval
<1>4. \A n \in LegsOf(i) : i.legs[n] \in LegRecords
  BY <1>1, <1>2
<1>5. \A n \in LegsOf(i) :
         /\ i.legs[n].instrument \in Instruments /\ i.legs[n].quantity \in Nat \ {0}
         /\ i.legs[n].limit \in Nat /\ Sign(i.legs[n].side) \in {1, -1}
  BY <1>4 DEF LegRecords, Sign
<1> DEFINE f == Quantities(i)
<1>6. f \in [LegsOf(i) -> Nat] /\ \A n \in LegsOf(i) : f[n] = i.legs[n].quantity
  BY <1>5 DEF Quantities
<1>7. TotalQuantity(i) = TotalOf(f)
  BY DEF TotalQuantity
<1> HIDE DEF f
<1>8. TotalOf(f) \in Nat /\ \A n \in LegsOf(i) : f[n] <= TotalOf(f)
  BY <1>3, <1>6, TotalOfNaturals
<1>9. TotalQuantity(i) \in Nat /\ \A n \in LegsOf(i) : i.legs[n].quantity <= TotalQuantity(i)
  BY <1>6, <1>7, <1>8
<1>10. TotalQuantity(i) # 0
  BY <1>3, <1>5, <1>9
<1> QED
  BY <1>1, <1>2, <1>3, <1>4, <1>5, <1>6, <1>9, <1>10 DEF f

LEMMA Shares ==
    ASSUME NEW q \in Nat \ {0}, NEW r \in Nat, NEW t \in Nat, r < t
    PROVE  (q * r) \div t \in 0 .. q - 1
<1>1. t \in Nat \ {0} /\ q * r \in Nat /\ q * t \in Nat /\ q * r < q * t
  <2>1. q * (t - r) > 0 /\ q * (t - r) = q * t - q * r
    OBVIOUS
  <2> QED
    BY <2>1
<1> DEFINE p == q * r
<1> DEFINE k == p \div t
<1>2. p \in Nat /\ p < q * t
  BY <1>1
<1> HIDE DEF p
<1>3. k \in Nat /\ t * k <= p
  BY <1>1, <1>2
<1> HIDE DEF k
<1>4. k < q
  <2>1. SUFFICES ASSUME k >= q PROVE FALSE
    BY <1>3
  <2>2. t * k >= t * q
    <3>1. t * (k - q) >= 0 /\ t * (k - q) = t * k - t * q
      BY <1>1, <1>3, <2>1
    <3> QED
      BY <1>1, <1>3, <3>1
  <2> QED
    BY <1>1, <1>2, <1>3, <2>2
<1> QED
  BY <1>3, <1>4 DEF k, p

(* A product shared out: what is left of each share is less than the whole.*)
LEMMA Divided ==
    ASSUME NEW a \in Nat, NEW t \in Nat \ {0}
    PROVE  /\ a \div t \in Nat
           /\ a - t * (a \div t) \in 0 .. t - 1
<1> DEFINE k == a \div t
<1>1. k \in Nat /\ t * k <= a /\ a < t * (k + 1)
  OBVIOUS
<1> HIDE DEF k
<1>2. t * (k + 1) = t * k + t /\ t * k \in Nat
  BY <1>1
<1>3. a - t * k \in 0 .. t - 1
  BY <1>1, <1>2
<1> QED
  BY <1>1, <1>3 DEF k

(* Shared over the legs, a reduction adds up to what was approved, and no  *)
(* leg grows or is more than one from its share.                           *)
LEMMA LegsShare ==
    ASSUME NEW i, IsIntent(i), NEW r \in Nat \ {0}, r < TotalQuantity(i)
    PROVE  /\ ScaleLegs(i, r) \in [LegsOf(i) -> Nat]
           /\ TotalOf(ScaleLegs(i, r)) = r
           /\ \A n \in LegsOf(i) :
                 /\ ScaleLegs(i, r)[n] \in 0 .. i.legs[n].quantity
                 /\ AbsInt(ScaleLegs(i, r)[n] * TotalQuantity(i) - i.legs[n].quantity * r)
                       <= TotalQuantity(i)
<1> DEFINE t == TotalQuantity(i)
           len == Len(i.legs)
           asked == Quantities(i)
           floors == [n \in LegsOf(i) |-> (i.legs[n].quantity * r) \div t]
           left == [n \in LegsOf(i) |-> asked[n] * r - t * floors[n]]
           rest == r - TotalOf(floors)
           ones == [n \in 1 .. len |-> IF n <= rest THEN 1 ELSE 0]
           scaled == ScaleLegs(i, r)
<1>1. /\ t \in Nat \ {0} /\ r < t /\ len \in Nat \ {0} /\ LegsOf(i) = 1 .. len
      /\ IsFiniteSet(1 .. len) /\ asked \in [1 .. len -> Nat] /\ TotalOf(asked) = t
      /\ \A n \in 1 .. len : asked[n] = i.legs[n].quantity /\ asked[n] \in Nat \ {0}
  BY IntentFacts DEF TotalQuantity, Quantities
<1>2. scaled = [n \in 1 .. len |-> floors[n] + IF n <= rest THEN 1 ELSE 0]
  BY <1>1 DEF ScaleLegs
<1> HIDE DEF scaled, asked, t, len
<1>3. ASSUME NEW n \in 1 .. len
      PROVE  /\ floors[n] \in 0 .. asked[n] - 1 /\ left[n] \in 0 .. t - 1
             /\ left[n] = asked[n] * r - t * floors[n]
  <2>1. asked[n] = i.legs[n].quantity /\ asked[n] \in Nat \ {0} /\ asked[n] * r \in Nat
    BY <1>1
  <2>2. floors[n] = (asked[n] * r) \div t /\ left[n] = asked[n] * r - t * floors[n]
    BY <1>1, <2>1
  <2>3. (asked[n] * r) \div t \in 0 .. asked[n] - 1
    BY <1>1, <2>1, Shares
  <2> HIDE DEF floors, left
  <2>4. (asked[n] * r) - t * ((asked[n] * r) \div t) \in 0 .. t - 1
    BY <1>1, <2>1, Divided
  <2> QED
    BY <2>2, <2>3, <2>4
<1>4. floors \in [1 .. len -> Nat] /\ left \in [1 .. len -> Nat]
  <2>1. DOMAIN floors = 1 .. len /\ DOMAIN left = 1 .. len
    BY <1>1
  <2>2. \A n \in 1 .. len : floors[n] \in Nat /\ left[n] \in Nat
    BY <1>1, <1>3
  <2>3. floors = [n \in 1 .. len |-> floors[n]] /\ left = [n \in 1 .. len |-> left[n]]
    BY <2>1
  <2> HIDE DEF floors, left
  <2> QED
    BY <2>2, <2>3
<1> HIDE DEF floors, left
<1>5. TotalOf(floors) \in Nat /\ TotalOf(left) \in Nat
  BY <1>1, <1>4, TotalOfNaturals
<1>6. rest \in Int /\ rest = r - TotalOf(floors)
  BY <1>5
<1> HIDE DEF rest
\* What is left over altogether is the rest, t times.
<1>7. TotalOf(left) = t * rest
  <2> DEFINE D == 1 .. len
             taken == [n \in D |-> t * floors[n]]
             whole == [n \in D |-> r * asked[n]]
  <2>1. /\ asked \in [D -> Int] /\ floors \in [D -> Int] /\ left \in [D -> Int]
        /\ t \in Int /\ r \in Int /\ IsFiniteSet(D)
    BY <1>1, <1>4
  <2>2. \A n \in D : r * asked[n] = left[n] + t * floors[n]
    <3> TAKE n \in D
    <3>1. left[n] = asked[n] * r - t * floors[n] /\ asked[n] * r \in Int /\ t * floors[n] \in Int
      BY <1>3, <2>1
    <3>2. asked[n] * r = r * asked[n]
      BY <2>1
    <3> QED
      BY <3>1, <3>2
  <2> HIDE DEF D
  <2>3. /\ taken \in [D -> Int] /\ whole \in [D -> Int]
        /\ \A n \in D : taken[n] = t * floors[n] /\ whole[n] = r * asked[n]
    BY <2>1
  <2> HIDE DEF taken, whole
  <2>4. TotalOf(taken) = t * TotalOf(floors)
    BY <2>1, <2>3, TotalOfMultiples
  <2>5. TotalOf(whole) = r * t
    <3>1. TotalOf(whole) = r * TotalOf(asked)
      BY <2>1, <2>3, TotalOfMultiples
    <3> QED
      BY <1>1, <3>1
  <2>6. TotalOf(whole) = TotalOf(left) + TotalOf(taken)
    <3>1. \A n \in D : whole[n] = left[n] + taken[n]
      BY <2>2, <2>3
    <3> QED
      BY <2>1, <2>3, <3>1, TotalOfSums
  <2>7. \A F \in Int : r * t - t * F = t * (r - F) /\ t * F \in Int /\ r * t \in Int
    BY <1>1
  <2> QED
    BY <1>5, <1>6, <2>4, <2>5, <2>6, <2>7
<1>8. rest \in 0 .. len - 1
  <2>1. TotalOf(left) <= (t - 1) * len
    <3>1. left \in [1 .. len -> Int] /\ t - 1 \in Int /\ \A n \in 1 .. len : left[n] <= t - 1
      BY <1>1, <1>3, <1>4
    <3>2. TotalOf(left) <= (t - 1) * Cardinality(1 .. len)
      BY <1>1, <3>1, TotalOfBounded
    <3>3. Cardinality(1 .. len) = len
      <4>1. Cardinality(1 .. len) = IF 1 > len THEN 0 ELSE len - 1 + 1
        BY <1>1, FS_Interval
      <4> QED
        BY <1>1, <4>1
    <3> QED
      BY <3>2, <3>3
  <2>2. 0 <= t * rest /\ t * rest <= (t - 1) * len
    BY <1>5, <1>7, <2>1
  <2>3. ~(rest < 0)
    <3> SUFFICES ASSUME rest < 0 PROVE FALSE
      OBVIOUS
    <3>1. t * rest < 0
      <4>1. t * (-rest) > 0 /\ t * (-rest) = -(t * rest) /\ t * rest \in Int
        BY <1>1, <1>6
      <4> QED
        BY <4>1
    <3> QED
      BY <1>1, <1>6, <2>2, <3>1
  <2>4. ~(rest >= len)
    <3> SUFFICES ASSUME rest >= len PROVE FALSE
      OBVIOUS
    <3>1. t * (rest - len) >= 0 /\ t * (rest - len) = t * rest - t * len
      BY <1>1, <1>6
    <3>2. (t - 1) * len = t * len - len /\ t * len \in Int /\ t * rest \in Int
      BY <1>1, <1>6
    <3> QED
      BY <1>1, <2>2, <3>1, <3>2
  <2> QED
    BY <1>1, <1>6, <2>3, <2>4
<1>9. ones \in [1 .. len -> Int] /\ TotalOf(ones) = rest
  BY <1>1, <1>8, FirstOnes
<1>10. \A n \in 1 .. len : ones[n] \in {0, 1} /\ scaled[n] = floors[n] + ones[n]
  BY <1>2, <1>4
<1>11. TotalOf(scaled) = r
  <2> DEFINE D == 1 .. len
  <2>1. /\ scaled \in [D -> Int] /\ floors \in [D -> Int] /\ ones \in [D -> Int]
        /\ IsFiniteSet(D) /\ \A n \in D : scaled[n] = floors[n] + ones[n]
    BY <1>1, <1>2, <1>4, <1>9, <1>10
  <2> HIDE DEF D, ones
  <2>3. TotalOf(scaled) = TotalOf(floors) + TotalOf(ones)
    BY <2>1, TotalOfSums
  <2> QED
    BY <1>5, <1>6, <1>9, <2>3
<1> HIDE DEF ones
<1>12. ASSUME NEW n \in 1 .. len
       PROVE  scaled[n] \in 0 .. asked[n] /\ AbsInt(scaled[n] * t - asked[n] * r) <= t
  <2>1. /\ floors[n] \in Int /\ ones[n] \in {0, 1} /\ scaled[n] = floors[n] + ones[n]
        /\ left[n] \in 0 .. t - 1 /\ left[n] = asked[n] * r - t * floors[n]
    BY <1>3, <1>10
  <2>2. (floors[n] + ones[n]) * t = t * floors[n] + t * ones[n]
    BY <1>1, <2>1
  <2>3. scaled[n] * t - asked[n] * r = t * ones[n] - left[n]
    <3>1. asked[n] \in Int
      BY <1>1
    <3>2. asked[n] * r \in Int /\ t * floors[n] \in Int /\ t * ones[n] \in Int
      <4>1. t \in Int /\ r \in Int /\ ones[n] \in Int
        BY <1>1, <2>1
      <4>2. \A a, b \in Int : a * b \in Int
        OBVIOUS
      <4> QED
        BY <2>1, <3>1, <4>1, <4>2
    <3> QED
      BY <2>1, <2>2, <3>2
  <2>4. t * ones[n] \in {0, t}
    BY <1>1, <2>1
  <2>5. t * ones[n] - left[n] \in -t .. t
    <3> DEFINE p == t * ones[n]
    <3>1. p \in {0, t}
      BY <2>4
    <3> HIDE DEF p
    <3>2. t \in Nat /\ left[n] \in 0 .. t - 1
      BY <1>1, <1>3
    <3>3. p - left[n] \in -t .. t
      BY <3>1, <3>2
    <3> QED
      BY <3>3 DEF p
  <2>6. scaled[n] \in 0 .. asked[n]
    <3>1. asked[n] \in Nat /\ floors[n] \in 0 .. asked[n] - 1
      BY <1>1, <1>3
    <3>2. scaled[n] = floors[n] + ones[n] /\ ones[n] \in {0, 1}
      BY <1>10
    <3> QED
      BY <3>1, <3>2
  <2> QED
    BY <1>1, <2>3, <2>5, <2>6 DEF AbsInt
<1>13. scaled \in [1 .. len -> Nat]
  BY <1>1, <1>2, <1>12
<1> QED
  BY <1>1, <1>11, <1>12, <1>13 DEF scaled, t, len
-----------------------------------------------------------------------------
HaltLimits == {"kill_switch", "session_window", "require_healthy_venue"}
DataLimits == {"reject_unreliable_state", "max_state_staleness", "min_state_coverage"}
OrderLimits == {"max_order_quantity", "max_order_notional", "max_orders_per_interval"}
PositionLimits == {"max_position_per_instrument", "max_position_per_underlying",
                   "max_position_per_strategy"}
CapitalLimits == {"cash_sufficiency", "max_deployed_capital", "max_capital_utilisation", "max_leverage"}
LossLimits == {"max_daily_loss", "max_drawdown", "max_loss_per_strategy"}
ExposureLimits == {"max_net_delta", "max_gross_delta", "max_gross_gamma", "max_gross_vega",
                   "max_gross_theta"}
ConcentrationLimits == {"max_underlying_concentration", "max_expiry_concentration",
                        "max_strike_concentration"}

LEMMA BothOf ==
    ASSUME NEW f, NEW g, DOMAIN f \cap DOMAIN g = {}
    PROVE  /\ DOMAIN Both(f, g) = DOMAIN f \cup DOMAIN g
           /\ \A x \in DOMAIN f : Both(f, g)[x] = f[x]
           /\ \A x \in DOMAIN g : Both(f, g)[x] = g[x]
<1> DEFINE h == Both(f, g)
<1>1. h = [y \in DOMAIN f \cup DOMAIN g |-> IF y \in DOMAIN f THEN f[y] ELSE g[y]]
  BY DEF Both
<1> HIDE DEF h
<1>2. DOMAIN h = DOMAIN f \cup DOMAIN g
  BY <1>1
<1>3. \A y \in DOMAIN h : h[y] = IF y \in DOMAIN f THEN f[y] ELSE g[y]
  BY <1>1, <1>2
<1>4. \A x \in DOMAIN f : h[x] = f[x]
  BY <1>2, <1>3
<1>5. \A x \in DOMAIN g : h[x] = g[x]
  BY <1>2, <1>3
<1> QED
  BY <1>2, <1>4, <1>5 DEF h

(* evaluate_all is all of the checks, each under its own name.             *)
LEMMA EveryCheck ==
    ASSUME NEW i, NEW S, NEW L
    PROVE  /\ DOMAIN EvaluateAll(i, S, L) =
                 HaltLimits \cup DataLimits \cup OrderLimits \cup PositionLimits \cup CapitalLimits
                 \cup LossLimits \cup ExposureLimits \cup ConcentrationLimits
           /\ \A id \in HaltLimits : EvaluateAll(i, S, L)[id] = HaltChecks(i, S, L)[id]
           /\ \A id \in DataLimits : EvaluateAll(i, S, L)[id] = DataChecks(S, L)[id]
           /\ \A id \in OrderLimits : EvaluateAll(i, S, L)[id] = OrderChecks(i, S, L)[id]
           /\ \A id \in PositionLimits : EvaluateAll(i, S, L)[id] = PositionChecks(i, S, L)[id]
           /\ \A id \in CapitalLimits : EvaluateAll(i, S, L)[id] = CapitalChecks(i, S, L)[id]
           /\ \A id \in LossLimits : EvaluateAll(i, S, L)[id] = LossChecks(i, S, L)[id]
           /\ \A id \in ExposureLimits : EvaluateAll(i, S, L)[id] = ExposureChecks(S, L)[id]
           /\ \A id \in ConcentrationLimits : EvaluateAll(i, S, L)[id] = ConcentrationChecks(S, L)[id]
<1> DEFINE A == HaltChecks(i, S, L)
           B == DataChecks(S, L)
           C == OrderChecks(i, S, L)
           D == PositionChecks(i, S, L)
           E == CapitalChecks(i, S, L)
           F == LossChecks(i, S, L)
           G == ExposureChecks(S, L)
           H == ConcentrationChecks(S, L)
           halts == Both(A, B)
           sizes == Both(C, D)
           money == Both(E, F)
           risks == Both(G, H)
           first == Both(sizes, halts)
           last == Both(money, risks)
           all == EvaluateAll(i, S, L)
<1>1. all = Both(first, last)
  BY DEF EvaluateAll
<1>2. /\ DOMAIN A = HaltLimits /\ DOMAIN B = DataLimits /\ DOMAIN C = OrderLimits
      /\ DOMAIN D = PositionLimits
  BY DEF HaltChecks, DataChecks, OrderChecks, PositionChecks, HaltLimits, DataLimits, OrderLimits, PositionLimits
<1>3. /\ DOMAIN E = CapitalLimits /\ DOMAIN F = LossLimits /\ DOMAIN G = ExposureLimits
      /\ DOMAIN H = ConcentrationLimits
  BY DEF CapitalChecks, LossChecks, ExposureChecks, ConcentrationChecks, CapitalLimits, LossLimits,
         ExposureLimits, ConcentrationLimits
<1> HIDE DEF A, B, C, D, E, F, G, H, all
<1>4. /\ HaltLimits \cap DataLimits = {} /\ OrderLimits \cap PositionLimits = {}
      /\ CapitalLimits \cap LossLimits = {} /\ ExposureLimits \cap ConcentrationLimits = {}
  BY DEF HaltLimits, DataLimits, OrderLimits, PositionLimits, CapitalLimits, LossLimits, ExposureLimits,
         ConcentrationLimits
<1>5. (OrderLimits \cup PositionLimits) \cap (HaltLimits \cup DataLimits) = {}
  BY DEF HaltLimits, DataLimits, OrderLimits, PositionLimits
<1>6. (CapitalLimits \cup LossLimits) \cap (ExposureLimits \cup ConcentrationLimits) = {}
  BY DEF CapitalLimits, LossLimits, ExposureLimits, ConcentrationLimits
<1>7. ((OrderLimits \cup PositionLimits) \cup (HaltLimits \cup DataLimits))
        \cap ((CapitalLimits \cup LossLimits) \cup (ExposureLimits \cup ConcentrationLimits)) = {}
  BY DEF HaltLimits, DataLimits, OrderLimits, PositionLimits, CapitalLimits, LossLimits, ExposureLimits,
         ConcentrationLimits
<1>8. /\ DOMAIN halts = HaltLimits \cup DataLimits
      /\ (\A id \in HaltLimits : halts[id] = A[id]) /\ (\A id \in DataLimits : halts[id] = B[id])
  <2>1. DOMAIN A \cap DOMAIN B = {}
    BY <1>2, <1>4
  <2>2. /\ DOMAIN halts = DOMAIN A \cup DOMAIN B
        /\ \A id \in DOMAIN A : halts[id] = A[id]
        /\ \A id \in DOMAIN B : halts[id] = B[id]
    BY <2>1, BothOf
  <2> QED
    BY <1>2, <2>2
<1>9. /\ DOMAIN sizes = OrderLimits \cup PositionLimits
      /\ (\A id \in OrderLimits : sizes[id] = C[id]) /\ (\A id \in PositionLimits : sizes[id] = D[id])
  <2>1. DOMAIN C \cap DOMAIN D = {}
    BY <1>2, <1>4
  <2>2. /\ DOMAIN sizes = DOMAIN C \cup DOMAIN D
        /\ \A id \in DOMAIN C : sizes[id] = C[id]
        /\ \A id \in DOMAIN D : sizes[id] = D[id]
    BY <2>1, BothOf
  <2> QED
    BY <1>2, <2>2
<1>10. /\ DOMAIN money = CapitalLimits \cup LossLimits
       /\ (\A id \in CapitalLimits : money[id] = E[id]) /\ (\A id \in LossLimits : money[id] = F[id])
  <2>1. DOMAIN E \cap DOMAIN F = {}
    BY <1>3, <1>4
  <2>2. /\ DOMAIN money = DOMAIN E \cup DOMAIN F
        /\ \A id \in DOMAIN E : money[id] = E[id]
        /\ \A id \in DOMAIN F : money[id] = F[id]
    BY <2>1, BothOf
  <2> QED
    BY <1>3, <2>2
<1>11. /\ DOMAIN risks = ExposureLimits \cup ConcentrationLimits
       /\ (\A id \in ExposureLimits : risks[id] = G[id])
       /\ (\A id \in ConcentrationLimits : risks[id] = H[id])
  <2>1. DOMAIN G \cap DOMAIN H = {}
    BY <1>3, <1>4
  <2>2. /\ DOMAIN risks = DOMAIN G \cup DOMAIN H
        /\ \A id \in DOMAIN G : risks[id] = G[id]
        /\ \A id \in DOMAIN H : risks[id] = H[id]
    BY <2>1, BothOf
  <2> QED
    BY <1>3, <2>2
<1> HIDE DEF halts, sizes, money, risks
<1>12. /\ DOMAIN first = DOMAIN sizes \cup DOMAIN halts
       /\ (\A id \in DOMAIN sizes : first[id] = sizes[id]) /\ (\A id \in DOMAIN halts : first[id] = halts[id])
  <2>1. DOMAIN sizes \cap DOMAIN halts = {}
    BY <1>5, <1>8, <1>9
  <2> QED
    BY <2>1, BothOf
<1>13. /\ DOMAIN last = DOMAIN money \cup DOMAIN risks
       /\ (\A id \in DOMAIN money : last[id] = money[id]) /\ (\A id \in DOMAIN risks : last[id] = risks[id])
  <2>1. DOMAIN money \cap DOMAIN risks = {}
    BY <1>6, <1>10, <1>11
  <2> QED
    BY <2>1, BothOf
<1> HIDE DEF first, last
<1>14. /\ DOMAIN all = DOMAIN first \cup DOMAIN last
       /\ (\A id \in DOMAIN first : all[id] = first[id]) /\ (\A id \in DOMAIN last : all[id] = last[id])
  <2>1. DOMAIN first \cap DOMAIN last = {}
    BY <1>7, <1>8, <1>9, <1>10, <1>11, <1>12, <1>13, Zenon
  <2> QED
    <3>1. /\ DOMAIN Both(first, last) = DOMAIN first \cup DOMAIN last
          /\ \A id \in DOMAIN first : Both(first, last)[id] = first[id]
          /\ \A id \in DOMAIN last : Both(first, last)[id] = last[id]
      BY <2>1, BothOf
    <3> QED
      BY <1>1, <3>1
<1>15. /\ \A id \in HaltLimits : all[id] = A[id]
       /\ \A id \in DataLimits : all[id] = B[id]
       /\ \A id \in OrderLimits : all[id] = C[id]
       /\ \A id \in PositionLimits : all[id] = D[id]
  BY <1>8, <1>9, <1>12, <1>14
<1>16. /\ \A id \in CapitalLimits : all[id] = E[id]
       /\ \A id \in LossLimits : all[id] = F[id]
       /\ \A id \in ExposureLimits : all[id] = G[id]
       /\ \A id \in ConcentrationLimits : all[id] = H[id]
  BY <1>10, <1>11, <1>13, <1>14
<1>17. DOMAIN all = HaltLimits \cup DataLimits \cup OrderLimits \cup PositionLimits \cup CapitalLimits
                    \cup LossLimits \cup ExposureLimits \cup ConcentrationLimits
  BY <1>8, <1>9, <1>10, <1>11, <1>12, <1>13, <1>14
<1> QED
  BY <1>15, <1>16, <1>17 DEF A, B, C, D, E, F, G, H, all

LEMMA Compared ==
    ASSUME NEW observed \in Int, NEW limit \in Int, Compare(observed, limit).status = "BREACHED"
    PROVE  /\ Compare(observed, limit).excess = observed - limit
           /\ Compare(observed, limit).excess \in Nat \ {0}
<1>1. observed > limit
  BY DEF Compare
<1>2. Compare(observed, limit).excess = observed - limit
  BY DEF Compare
<1> QED
  BY <1>1, <1>2

LEMMA Checked ==
    ASSUME NEW limit, NEW inputs, NEW evaluation, Check(limit, inputs, evaluation).status = "BREACHED"
    PROVE  limit # None /\ None \notin inputs /\ Check(limit, inputs, evaluation) = evaluation
BY DEF Check, NotConfigured, NotEvaluable

(* What is configured and judged, is judged the same where its inputs are. *)
LEMMA CheckStays ==
    ASSUME NEW limit, NEW inputs, NEW others, NEW evaluation, NEW other,
           Check(limit, inputs, evaluation).status # "NOT_EVALUABLE",
           limit # None /\ None \notin inputs => None \notin others /\ other = evaluation
    PROVE  Check(limit, others, other) = Check(limit, inputs, evaluation)
<1>1. CASE limit = None
  BY <1>1 DEF Check
<1>2. CASE limit # None
  <2>1. None \notin inputs
    BY <1>2 DEF Check, NotEvaluable
  <2> QED
    BY <1>2, <2>1 DEF Check
<1> QED
  BY <1>1, <1>2
-----------------------------------------------------------------------------
StateFields == {"asOf", "knowledgeTime", "engaged", "haltedStrategies", "isExpiryDay", "venue",
                "quality", "staleness", "coverage", "positions", "groups", "marks", "cash",
                "reserved", "equity", "positionByStrategy", "lossByStrategy", "ordersInInterval",
                "dailyLoss", "drawdown", "greeks"}

Elsewhere(S, T, but) == \A field \in StateFields \ {but} : T[field] = S[field]

Judgeable(evaluations) == WithStatus(evaluations, "NOT_EVALUABLE") = {}

(* What none of the marks, groupings and greeks has a part in.             *)
LEMMA UntouchedChecks ==
    ASSUME NEW i, NEW S, NEW T, NEW L, NEW but \in {"marks", "groups", "greeks"}, Elsewhere(S, T, but)
    PROVE  /\ HaltChecks(i, T, L) = HaltChecks(i, S, L)
           /\ DataChecks(T, L) = DataChecks(S, L)
           /\ LossChecks(i, T, L) = LossChecks(i, S, L)
<1>1. /\ T.asOf = S.asOf /\ T.engaged = S.engaged /\ T.haltedStrategies = S.haltedStrategies
      /\ T.isExpiryDay = S.isExpiryDay /\ T.venue = S.venue
      /\ T.quality = S.quality /\ T.staleness = S.staleness /\ T.coverage = S.coverage
      /\ T.lossByStrategy = S.lossByStrategy /\ T.dailyLoss = S.dailyLoss /\ T.drawdown = S.drawdown
  BY DEF Elsewhere, StateFields
<1>2. HaltChecks(i, T, L) = HaltChecks(i, S, L)
  BY <1>1, Zenon DEF HaltChecks, Halts
<1>3. DataChecks(T, L) = DataChecks(S, L)
  BY <1>1, Zenon DEF DataChecks
<1>4. LossChecks(i, T, L) = LossChecks(i, S, L)
  BY <1>1, Zenon DEF LossChecks, StrategyLoss
<1> QED
  BY <1>2, <1>3, <1>4

(* What is held is worth the same where it is marked the same.             *)
LEMMA WorthStays ==
    ASSUME NEW S, NEW T, T.positions = S.positions, \A x \in Held(S) : T.marks[x] = S.marks[x]
    PROVE  /\ Held(T) = Held(S)
           /\ \A X \in SUBSET Held(S) : WorthOf(T, X) = WorthOf(S, X)
           /\ GrossNotional(T) = GrossNotional(S)
<1>1. Held(T) = Held(S)
  BY DEF Held
<1>2. ASSUME NEW X \in SUBSET Held(S)
      PROVE  WorthOf(T, X) = WorthOf(S, X)
  <2>1. [x \in X |-> AbsInt(T.marks[x] * T.positions[x])] = [x \in X |-> AbsInt(S.marks[x] * S.positions[x])]
    OBVIOUS
  <2> QED
    BY <2>1 DEF WorthOf
<1>3. WorthOf(T, Held(T)) = WorthOf(S, Held(S))
  BY <1>1, <1>2
<1>4. (\E x \in Held(T) : T.marks[x] = None) <=> (\E x \in Held(S) : S.marks[x] = None)
  BY <1>1
<1> QED
  BY <1>1, <1>2, <1>3, <1>4, Zenon DEF GrossNotional

LEMMA BucketsStay ==
    ASSUME NEW S, NEW T, T.positions = S.positions, \A x \in Held(S) : T.marks[x] = S.marks[x],
           NEW key, \A x \in Held(S) : T.groups[x][key] = S.groups[x][key]
    PROVE  Buckets(T, key) = Buckets(S, key)
<1>1. Held(T) = Held(S) /\ \A X \in SUBSET Held(S) : WorthOf(T, X) = WorthOf(S, X)
  BY WorthStays
<1>2. {y \in Held(T) : T.groups[y][key] # None} = {y \in Held(S) : S.groups[y][key] # None}
  BY <1>1
<1>3. ASSUME NEW x \in Held(S)
      PROVE  WorthOf(T, {y \in Held(T) : T.groups[y][key] = T.groups[x][key]})
               = WorthOf(S, {y \in Held(S) : S.groups[y][key] = S.groups[x][key]})
  <2>1. {y \in Held(T) : T.groups[y][key] = T.groups[x][key]}
          = {y \in Held(S) : S.groups[y][key] = S.groups[x][key]}
    BY <1>1
  <2> QED
    BY <1>1, <2>1
<1> DEFINE X == {y \in Held(S) : S.groups[y][key] # None}
           now(x) == WorthOf(T, {y \in Held(T) : T.groups[y][key] = T.groups[x][key]})
           before(x) == WorthOf(S, {y \in Held(S) : S.groups[y][key] = S.groups[x][key]})
<1>4. Buckets(S, key) = {before(x) : x \in X}
  BY DEF Buckets
<1>5. Buckets(T, key) = {now(x) : x \in X}
  BY <1>2 DEF Buckets
<1>6. \A x \in X : now(x) = before(x)
  BY <1>3
<1> HIDE DEF X, now, before
<1> QED
  BY <1>4, <1>5, <1>6

LEMMA ConcentrationStays ==
    ASSUME NEW S, NEW T, NEW key, NEW limit, Concentration(S, key, limit).status # "NOT_EVALUABLE",
           limit # None /\ GrossNotional(S) # None =>
              GrossNotional(T) = GrossNotional(S) /\ Buckets(T, key) = Buckets(S, key)
    PROVE  Concentration(T, key, limit) = Concentration(S, key, limit)
<1> DEFINE of(g, b) == IF g <= 0 THEN Passed
                       ELSE IF b = {} THEN NotEvaluable
                       ELSE Compare(100 * Max(b), limit * g)
<1>1. \A R : Concentration(R, key, limit) = Check(limit, {GrossNotional(R)}, of(GrossNotional(R), Buckets(R, key)))
  BY Zenon DEF Concentration
<1> HIDE DEF of
<1>2. Check(limit, {GrossNotional(S)}, of(GrossNotional(S), Buckets(S, key))).status # "NOT_EVALUABLE"
  BY <1>1
<1>3. limit # None /\ None \notin {GrossNotional(S)} =>
         /\ None \notin {GrossNotional(T)}
         /\ of(GrossNotional(T), Buckets(T, key)) = of(GrossNotional(S), Buckets(S, key))
  OBVIOUS
<1>4. Check(limit, {GrossNotional(T)}, of(GrossNotional(T), Buckets(T, key)))
        = Check(limit, {GrossNotional(S)}, of(GrossNotional(S), Buckets(S, key)))
  BY <1>2, <1>3, CheckStays
<1> QED
  BY <1>1, <1>4

(* Legs that are priced the same are worth the same.                       *)
LEMMA NotionalStays ==
    ASSUME NEW i, NEW S, NEW T, NEW sides, LegNotional(i, S, sides) # None,
           \A x \in {i.legs[n].instrument : n \in LegsOf(i)} : S.marks[x] # None => T.marks[x] = S.marks[x]
    PROVE  LegNotional(i, T, sides) = LegNotional(i, S, sides)
<1> DEFINE N == {n \in LegsOf(i) : i.legs[n].side \in sides}
<1>1. \A n \in N : PriceOf(i.legs[n], S) # None
  BY DEF LegNotional
<1>2. \A n \in N : PriceOf(i.legs[n], T) = PriceOf(i.legs[n], S)
  BY <1>1 DEF PriceOf
<1>3. [n \in N |-> PriceOf(i.legs[n], T) * i.legs[n].quantity]
        = [n \in N |-> PriceOf(i.legs[n], S) * i.legs[n].quantity]
  BY <1>2
<1>4. LegNotional(i, S, sides) = TotalOf([n \in N |-> PriceOf(i.legs[n], S) * i.legs[n].quantity])
  BY <1>1 DEF LegNotional
<1>5. LegNotional(i, T, sides) = TotalOf([n \in N |-> PriceOf(i.legs[n], T) * i.legs[n].quantity])
  BY <1>1, <1>2 DEF LegNotional
<1> QED
  BY <1>3, <1>4, <1>5
-----------------------------------------------------------------------------
(* What a state knows once it is filled in.                                *)
LEMMA FilledIn ==
    ASSUME NEW S, IsRiskState(S), NEW field \in {"marks", "groups", "greeks"}, NEW v
    PROVE  /\ [S EXCEPT ![field] = v][field] = v
           /\ Elsewhere(S, [S EXCEPT ![field] = v], field)
<1>1. S = [f \in StateFields |-> S[f]]
  BY Zenon DEF IsRiskState, StateFields
<1>2. field \in StateFields
  BY DEF StateFields
<1>3. DOMAIN S = StateFields
  BY <1>1
<1> QED
  BY <1>2, <1>3 DEF Elsewhere

LEMMA Evaluable ==
    ASSUME NEW i, NEW S, NEW L, Judgeable(EvaluateAll(i, S, L))
    PROVE  /\ \A id \in OrderLimits : OrderChecks(i, S, L)[id].status # "NOT_EVALUABLE"
           /\ \A id \in PositionLimits : PositionChecks(i, S, L)[id].status # "NOT_EVALUABLE"
           /\ \A id \in CapitalLimits : CapitalChecks(i, S, L)[id].status # "NOT_EVALUABLE"
           /\ \A id \in ExposureLimits : ExposureChecks(S, L)[id].status # "NOT_EVALUABLE"
           /\ \A id \in ConcentrationLimits : ConcentrationChecks(S, L)[id].status # "NOT_EVALUABLE"
<1> DEFINE all == EvaluateAll(i, S, L)
<1>1. \A id \in DOMAIN all : all[id].status # "NOT_EVALUABLE"
  BY DEF Judgeable, WithStatus
<1>2. /\ \A id \in OrderLimits : id \in DOMAIN all /\ all[id] = OrderChecks(i, S, L)[id]
      /\ \A id \in PositionLimits : id \in DOMAIN all /\ all[id] = PositionChecks(i, S, L)[id]
      /\ \A id \in CapitalLimits : id \in DOMAIN all /\ all[id] = CapitalChecks(i, S, L)[id]
      /\ \A id \in ExposureLimits : id \in DOMAIN all /\ all[id] = ExposureChecks(S, L)[id]
      /\ \A id \in ConcentrationLimits : id \in DOMAIN all /\ all[id] = ConcentrationChecks(S, L)[id]
  BY EveryCheck
<1> HIDE DEF all
<1> QED
  BY <1>1, <1>2, Zenon

(* The decision rests on the same evaluations where every check does.      *)
LEMMA SameEvaluations ==
    ASSUME NEW i, NEW S, NEW T, NEW L, NEW but \in {"marks", "groups", "greeks"}, Elsewhere(S, T, but),
           OrderChecks(i, T, L) = OrderChecks(i, S, L), PositionChecks(i, T, L) = PositionChecks(i, S, L),
           CapitalChecks(i, T, L) = CapitalChecks(i, S, L), ExposureChecks(T, L) = ExposureChecks(S, L),
           ConcentrationChecks(T, L) = ConcentrationChecks(S, L)
    PROVE  EvaluateAll(i, T, L) = EvaluateAll(i, S, L)
<1>1. /\ HaltChecks(i, T, L) = HaltChecks(i, S, L) /\ DataChecks(T, L) = DataChecks(S, L)
      /\ LossChecks(i, T, L) = LossChecks(i, S, L)
  BY UntouchedChecks
<1> QED
  BY <1>1, Zenon DEF EvaluateAll

(* An instrument without a mark: nothing is held of it where the worth of  *)
(* the book matters, and it is not bought or sold at the market where the  *)
(* worth of the intent does.                                               *)
LEMMA MarkChangesNothing ==
    ASSUME NEW i, NEW S, NEW L, IsRiskState(S), NEW x \in Instruments, S.marks[x] = None, NEW p,
           Judgeable(EvaluateAll(i, S, L))
    PROVE  EvaluateAll(i, [S EXCEPT !.marks[x] = p], L) = EvaluateAll(i, S, L)
<1> DEFINE T == [S EXCEPT !.marks[x] = p]
<1>1. T.marks = [S.marks EXCEPT ![x] = p] /\ Elsewhere(S, T, "marks")
  <2>1. T = [S EXCEPT !["marks"] = [S.marks EXCEPT ![x] = p]]
    OBVIOUS
  <2> HIDE DEF T
  <2> QED
    BY <2>1, FilledIn
<1> HIDE DEF T
<1>2. /\ T.positions = S.positions /\ T.groups = S.groups /\ T.greeks = S.greeks /\ T.cash = S.cash
      /\ T.reserved = S.reserved /\ T.equity = S.equity /\ T.ordersInInterval = S.ordersInInterval
      /\ T.positionByStrategy = S.positionByStrategy
  BY <1>1 DEF Elsewhere, StateFields
<1>3. \A y : y # x => T.marks[y] = S.marks[y]
  <2>1. S.marks \in [Instruments -> Nat \cup {None}]
    BY DEF IsRiskState
  <2> QED
    BY <1>1, <2>1
<1>4. \A y \in Instruments : S.marks[y] # None => T.marks[y] = S.marks[y]
  BY <1>3
<1>5. ASSUME GrossNotional(S) # None
      PROVE  /\ GrossNotional(T) = GrossNotional(S)
             /\ \A key : Buckets(T, key) = Buckets(S, key)
  <2>1. \A y \in Held(S) : T.marks[y] = S.marks[y]
    <3>1. \A y \in Held(S) : S.marks[y] # None
      BY <1>5 DEF GrossNotional
    <3> QED
      BY <1>4, <3>1 DEF Held
  <2>2. GrossNotional(T) = GrossNotional(S)
    BY <1>2, <2>1, WorthStays
  <2>3. \A key : Buckets(T, key) = Buckets(S, key)
    BY <1>2, <2>1, BucketsStay
  <2> QED
    BY <2>2, <2>3
<1>6. ASSUME NEW sides, LegNotional(i, S, sides) # None
      PROVE  LegNotional(i, T, sides) = LegNotional(i, S, sides)
  <2>1. \A y : S.marks[y] # None => T.marks[y] = S.marks[y]
    BY <1>3
  <2> QED
    BY <1>6, <2>1, NotionalStays
<1>7. /\ Notional(i, S) # None => Notional(i, T) = Notional(i, S)
      /\ CashRequired(i, S) # None => CashRequired(i, T) = CashRequired(i, S)
  BY <1>6 DEF Notional, CashRequired
<1>8. OrderChecks(i, T, L) = OrderChecks(i, S, L)
  <2>1. OrderChecks(i, S, L)["max_order_notional"].status # "NOT_EVALUABLE"
    BY Evaluable DEF OrderLimits
  <2>2. Check(L.max_order_notional, {Notional(i, T)}, Compare(Notional(i, T), L.max_order_notional))
          = Check(L.max_order_notional, {Notional(i, S)}, Compare(Notional(i, S), L.max_order_notional))
    <3>1. Check(L.max_order_notional, {Notional(i, S)},
                Compare(Notional(i, S), L.max_order_notional)).status # "NOT_EVALUABLE"
      BY <2>1 DEF OrderChecks
    <3> QED
      BY <1>7, <3>1, CheckStays
  <2> QED
    BY <1>2, <2>2, Zenon DEF OrderChecks
<1>9. PositionChecks(i, T, L) = PositionChecks(i, S, L)
  <2>1. Held(T) = Held(S)
    BY <1>2 DEF Held
  <2>2. \A v : InUnderlying(T, v) = InUnderlying(S, v)
    BY <1>2, <2>1, Zenon DEF InUnderlying
  <2>3. /\ Underlyings(i, T) = Underlyings(i, S) /\ WorstUnderlying(i, T) = WorstUnderlying(i, S)
        /\ WorstInstrument(i, T) = WorstInstrument(i, S)
    BY <1>2, <2>2, Zenon DEF Underlyings, WorstUnderlying, WorstInstrument
  <2> QED
    BY <1>2, <2>3, Zenon DEF PositionChecks
<1>10. CapitalChecks(i, T, L) = CapitalChecks(i, S, L)
  <2>1. /\ CapitalChecks(i, S, L)["cash_sufficiency"].status # "NOT_EVALUABLE"
        /\ CapitalChecks(i, S, L)["max_deployed_capital"].status # "NOT_EVALUABLE"
        /\ CapitalChecks(i, S, L)["max_capital_utilisation"].status # "NOT_EVALUABLE"
        /\ CapitalChecks(i, S, L)["max_leverage"].status # "NOT_EVALUABLE"
    BY Evaluable DEF CapitalLimits
  <2>2. UncommittedCash(T) = UncommittedCash(S)
    BY <1>2 DEF UncommittedCash
  <2>3. Check(0, {CashRequired(i, T)}, Compare(CashRequired(i, T), UncommittedCash(T)))
          = Check(0, {CashRequired(i, S)}, Compare(CashRequired(i, S), UncommittedCash(S)))
    <3>1. Check(0, {CashRequired(i, S)}, Compare(CashRequired(i, S), UncommittedCash(S))).status # "NOT_EVALUABLE"
      BY <2>1 DEF CapitalChecks
    <3> QED
      BY <1>7, <2>2, <3>1, CheckStays
  <2>4. Check(L.max_deployed_capital, {GrossNotional(T), Notional(i, T)},
              Compare(GrossNotional(T) + Notional(i, T), L.max_deployed_capital))
          = Check(L.max_deployed_capital, {GrossNotional(S), Notional(i, S)},
                  Compare(GrossNotional(S) + Notional(i, S), L.max_deployed_capital))
    <3>1. Check(L.max_deployed_capital, {GrossNotional(S), Notional(i, S)},
                Compare(GrossNotional(S) + Notional(i, S), L.max_deployed_capital)).status # "NOT_EVALUABLE"
      BY <2>1 DEF CapitalChecks
    <3> QED
      BY <1>5, <1>7, <3>1, CheckStays
  <2>5. ASSUME NEW limit, AgainstEquity(i, S, limit).status # "NOT_EVALUABLE"
        PROVE  AgainstEquity(i, T, limit) = AgainstEquity(i, S, limit)
    <3> DEFINE equity == IF S.equity > 0 THEN 0 ELSE None
               of(R) == Compare(100 * (GrossNotional(R) + Notional(i, R)), limit * S.equity)
    <3>1. /\ AgainstEquity(i, S, limit) = Check(limit, {GrossNotional(S), Notional(i, S), equity}, of(S))
          /\ AgainstEquity(i, T, limit) = Check(limit, {GrossNotional(T), Notional(i, T), equity}, of(T))
      BY <1>2, Zenon DEF AgainstEquity
    <3>2. GrossNotional(S) # None /\ Notional(i, S) # None =>
             GrossNotional(T) = GrossNotional(S) /\ Notional(i, T) = Notional(i, S) /\ of(T) = of(S)
      BY <1>5, <1>7
    <3> HIDE DEF equity, of
    <3> QED
      BY <2>5, <3>1, <3>2, CheckStays
  <2>6. /\ AgainstEquity(i, T, L.max_capital_utilisation) = AgainstEquity(i, S, L.max_capital_utilisation)
        /\ AgainstEquity(i, T, L.max_leverage) = AgainstEquity(i, S, L.max_leverage)
    <3>1. /\ AgainstEquity(i, S, L.max_capital_utilisation).status # "NOT_EVALUABLE"
          /\ AgainstEquity(i, S, L.max_leverage).status # "NOT_EVALUABLE"
      BY <2>1 DEF CapitalChecks
    <3> QED
      BY <2>5, <3>1
  <2> QED
    BY <2>3, <2>4, <2>6, Zenon DEF CapitalChecks
<1>11. ExposureChecks(T, L) = ExposureChecks(S, L)
  BY <1>2, Zenon DEF ExposureChecks
<1>12. ConcentrationChecks(T, L) = ConcentrationChecks(S, L)
  <2>1. /\ Concentration(S, "underlying", L.max_underlying_concentration).status # "NOT_EVALUABLE"
        /\ Concentration(S, "expiry", L.max_expiry_concentration).status # "NOT_EVALUABLE"
        /\ Concentration(S, "strike", L.max_strike_concentration).status # "NOT_EVALUABLE"
    BY Evaluable DEF ConcentrationLimits, ConcentrationChecks
  <2>2. /\ Concentration(T, "underlying", L.max_underlying_concentration)
             = Concentration(S, "underlying", L.max_underlying_concentration)
        /\ Concentration(T, "expiry", L.max_expiry_concentration)
             = Concentration(S, "expiry", L.max_expiry_concentration)
        /\ Concentration(T, "strike", L.max_strike_concentration)
             = Concentration(S, "strike", L.max_strike_concentration)
    BY <1>5, <2>1, ConcentrationStays
  <2> QED
    BY <2>2, Zenon DEF ConcentrationChecks
<1>13. EvaluateAll(i, T, L) = EvaluateAll(i, S, L)
  BY <1>1, <1>8, <1>9, <1>10, <1>11, <1>12, SameEvaluations
<1> QED
  BY <1>13 DEF T

(* An instrument whose underlying is unknown: it is neither held nor asked *)
(* for where the position in an underlying matters, nor held where the     *)
(* concentration of the book does.                                         *)
LEMMA GroupChangesNothing ==
    ASSUME NEW i, IsIntent(i), NEW S, NEW L, IsRiskState(S), GroupsAreKnown(S, L),
           NEW x \in Instruments, S.groups[x].underlying = None, NEW u,
           Judgeable(EvaluateAll(i, S, L))
    PROVE  EvaluateAll(i, [S EXCEPT !.groups[x].underlying = u], L) = EvaluateAll(i, S, L)
<1> DEFINE T == [S EXCEPT !.groups[x].underlying = u]
<1>1. T.groups = [S.groups EXCEPT ![x].underlying = u] /\ Elsewhere(S, T, "groups")
  <2>1. T = [S EXCEPT !["groups"] = [S.groups EXCEPT ![x].underlying = u]]
    OBVIOUS
  <2> HIDE DEF T
  <2> QED
    BY <2>1, FilledIn
<1> HIDE DEF T
<1>2. /\ T.positions = S.positions /\ T.marks = S.marks /\ T.greeks = S.greeks /\ T.cash = S.cash
      /\ T.reserved = S.reserved /\ T.equity = S.equity /\ T.ordersInInterval = S.ordersInInterval
      /\ T.positionByStrategy = S.positionByStrategy
  BY <1>1 DEF Elsewhere, StateFields
<1>3. /\ \A y \in Instruments \ {x} : T.groups[y] = S.groups[y]
      /\ T.groups[x]["expiry"] = S.groups[x]["expiry"] /\ T.groups[x]["strike"] = S.groups[x]["strike"]
  <2>1. S.groups = [y \in Instruments |-> [key \in {"underlying", "expiry", "strike"} |-> S.groups[y][key]]]
    BY Zenon DEF IsRiskState
  <2>2. DOMAIN S.groups = Instruments /\ DOMAIN S.groups[x] = {"underlying", "expiry", "strike"}
    BY <2>1
  <2>3. T.groups[x] = [S.groups[x] EXCEPT !["underlying"] = u]
    BY <1>1, <2>2
  <2> QED
    BY <1>1, <2>2, <2>3
<1>4. Held(S) \subseteq Instruments /\ Held(T) = Held(S)
  BY <1>2 DEF Held
<1>5. \A n \in LegsOf(i) : i.legs[n].instrument \in Instruments
  BY IntentFacts
<1>6. ASSUME L.max_position_per_underlying # None
      PROVE  x \notin Held(S) /\ \A n \in LegsOf(i) : i.legs[n].instrument # x
  <2>1. PositionChecks(i, S, L)["max_position_per_underlying"].status # "NOT_EVALUABLE"
    BY Evaluable DEF PositionLimits
  <2>2. Check(L.max_position_per_underlying, Underlyings(i, S),
              Compare(WorstUnderlying(i, S), L.max_position_per_underlying)).status # "NOT_EVALUABLE"
    BY <2>1 DEF PositionChecks
  <2>3. None \notin Underlyings(i, S)
    BY <1>6, <2>2 DEF Check, NotEvaluable
  <2>4. \A n \in LegsOf(i) : InUnderlying(S, S.groups[i.legs[n].instrument].underlying) # None
    BY <2>3 DEF Underlyings
  <2>5. 1 \in LegsOf(i)
    BY IntentFacts
  <2>6. x \notin Held(S)
    BY <2>4, <2>5 DEF InUnderlying
  <2>7. \A n \in LegsOf(i) : i.legs[n].instrument # x
    BY <2>4 DEF InUnderlying
  <2> QED
    BY <2>6, <2>7
<1>7. ASSUME L.max_underlying_concentration # None, GrossNotional(S) # None
      PROVE  x \notin Held(S)
  <2>1. CASE L.max_position_per_underlying # None
    BY <1>6, <2>1
  <2>2. CASE L.max_position_per_underlying = None
    <3>1. \A y \in Instruments : S.marks[y] # None => S.groups[y].underlying # None
      BY <1>7, <2>2 DEF GroupsAreKnown
    <3>2. \A y \in Held(S) : S.marks[y] # None
      BY <1>7 DEF GrossNotional
    <3> QED
      BY <3>1, <3>2
  <2> QED
    BY <2>1, <2>2
<1>8. GrossNotional(T) = GrossNotional(S)
  BY <1>2, WorthStays
<1>9. \A sides : LegNotional(i, T, sides) = LegNotional(i, S, sides)
  BY <1>2, Zenon DEF LegNotional, PriceOf
<1>10. Notional(i, T) = Notional(i, S) /\ CashRequired(i, T) = CashRequired(i, S)
  BY <1>9 DEF Notional, CashRequired
<1>11. OrderChecks(i, T, L) = OrderChecks(i, S, L)
  BY <1>2, <1>10, Zenon DEF OrderChecks
<1>12. PositionChecks(i, T, L) = PositionChecks(i, S, L)
  <2>1. WorstInstrument(i, T) = WorstInstrument(i, S)
    BY <1>2, Zenon DEF WorstInstrument
  <2>2. ASSUME L.max_position_per_underlying # None
        PROVE  Underlyings(i, T) = Underlyings(i, S) /\ WorstUnderlying(i, T) = WorstUnderlying(i, S)
    <3>1. \A y \in Held(S) : T.groups[y] = S.groups[y]
      BY <1>3, <1>4, <1>6, <2>2
    <3>2. \A v : {y \in Held(T) : T.groups[y].underlying = v} = {y \in Held(S) : S.groups[y].underlying = v}
      BY <1>4, <3>1
    <3>3. (\E y \in Held(T) : T.groups[y].underlying = None) <=> (\E y \in Held(S) : S.groups[y].underlying = None)
      BY <1>4, <3>1
    <3>4. \A v : InUnderlying(T, v) = InUnderlying(S, v)
      <4> TAKE v
      <4>1. InUnderlying(T, v) =
              IF v = None \/ \E y \in Held(T) : T.groups[y].underlying = None THEN None
              ELSE TotalOf([y \in {z \in Held(T) : T.groups[z].underlying = v} |-> AbsInt(T.positions[y])])
        BY Zenon DEF InUnderlying
      <4>2. InUnderlying(S, v) =
              IF v = None \/ \E y \in Held(S) : S.groups[y].underlying = None THEN None
              ELSE TotalOf([y \in {z \in Held(S) : S.groups[z].underlying = v} |-> AbsInt(S.positions[y])])
        BY Zenon DEF InUnderlying
      <4>3. [y \in {z \in Held(T) : T.groups[z].underlying = v} |-> AbsInt(T.positions[y])]
              = [y \in {z \in Held(S) : S.groups[z].underlying = v} |-> AbsInt(S.positions[y])]
        BY <1>2, <3>2
      <4>4. TotalOf([y \in {z \in Held(T) : T.groups[z].underlying = v} |-> AbsInt(T.positions[y])])
              = TotalOf([y \in {z \in Held(S) : S.groups[z].underlying = v} |-> AbsInt(S.positions[y])])
        BY <4>3
      <4> QED
        BY <3>3, <4>1, <4>2, <4>4
    <3>5. \A n \in LegsOf(i) : T.groups[i.legs[n].instrument] = S.groups[i.legs[n].instrument]
      BY <1>3, <1>5, <1>6, <2>2
    <3>6. \A n \in LegsOf(i) : InUnderlying(T, T.groups[i.legs[n].instrument].underlying)
                                 = InUnderlying(S, S.groups[i.legs[n].instrument].underlying)
      BY <3>4, <3>5
    <3>7. Underlyings(i, T) = Underlyings(i, S)
      BY <3>6 DEF Underlyings
    <3>8. {InUnderlying(T, T.groups[i.legs[n].instrument].underlying) + i.legs[n].quantity : n \in LegsOf(i)}
            = {InUnderlying(S, S.groups[i.legs[n].instrument].underlying) + i.legs[n].quantity : n \in LegsOf(i)}
      BY <3>6
    <3>9. WorstUnderlying(i, T) = WorstUnderlying(i, S)
      BY <3>8 DEF WorstUnderlying
    <3> QED
      BY <3>7, <3>9
  <2>3. Check(L.max_position_per_underlying, Underlyings(i, T),
              Compare(WorstUnderlying(i, T), L.max_position_per_underlying))
          = Check(L.max_position_per_underlying, Underlyings(i, S),
                  Compare(WorstUnderlying(i, S), L.max_position_per_underlying))
    BY <2>2 DEF Check
  <2> QED
    BY <1>2, <2>1, <2>3, Zenon DEF PositionChecks
<1>13. CapitalChecks(i, T, L) = CapitalChecks(i, S, L)
  BY <1>2, <1>8, <1>10, Zenon DEF CapitalChecks, AgainstEquity, UncommittedCash
<1>14. ExposureChecks(T, L) = ExposureChecks(S, L)
  BY <1>2, Zenon DEF ExposureChecks
<1>15. ConcentrationChecks(T, L) = ConcentrationChecks(S, L)
  <2>1. /\ Concentration(S, "underlying", L.max_underlying_concentration).status # "NOT_EVALUABLE"
        /\ Concentration(S, "expiry", L.max_expiry_concentration).status # "NOT_EVALUABLE"
        /\ Concentration(S, "strike", L.max_strike_concentration).status # "NOT_EVALUABLE"
    BY Evaluable DEF ConcentrationLimits, ConcentrationChecks
  <2>2. ASSUME L.max_underlying_concentration # None, GrossNotional(S) # None
        PROVE  Buckets(T, "underlying") = Buckets(S, "underlying")
    <3>1. \A y \in Held(S) : T.groups[y]["underlying"] = S.groups[y]["underlying"]
      BY <1>3, <1>4, <1>7, <2>2
    <3> QED
      BY <1>2, <3>1, BucketsStay
  <2>3. Buckets(T, "expiry") = Buckets(S, "expiry") /\ Buckets(T, "strike") = Buckets(S, "strike")
    <3>1. \A y \in Held(S) : /\ T.groups[y]["expiry"] = S.groups[y]["expiry"]
                             /\ T.groups[y]["strike"] = S.groups[y]["strike"]
      BY <1>3, <1>4
    <3> QED
      BY <1>2, <3>1, BucketsStay
  <2>4. /\ Concentration(T, "underlying", L.max_underlying_concentration)
             = Concentration(S, "underlying", L.max_underlying_concentration)
        /\ Concentration(T, "expiry", L.max_expiry_concentration)
             = Concentration(S, "expiry", L.max_expiry_concentration)
        /\ Concentration(T, "strike", L.max_strike_concentration)
             = Concentration(S, "strike", L.max_strike_concentration)
    BY <1>8, <2>1, <2>2, <2>3, ConcentrationStays
  <2> QED
    BY <2>4, Zenon DEF ConcentrationChecks
<1>16. EvaluateAll(i, T, L) = EvaluateAll(i, S, L)
  BY <1>1, <1>11, <1>12, <1>13, <1>14, <1>15, SameEvaluations
<1> QED
  BY <1>16 DEF T

(* A greek that is unknown has no limit.                                   *)
LEMMA GreekChangesNothing ==
    ASSUME NEW i, NEW S, NEW L, IsRiskState(S), NEW g \in Greeks, S.greeks[g] = None, NEW v,
           Judgeable(EvaluateAll(i, S, L))
    PROVE  EvaluateAll(i, [S EXCEPT !.greeks[g] = v], L) = EvaluateAll(i, S, L)
<1> DEFINE T == [S EXCEPT !.greeks[g] = v]
<1>1. T.greeks = [S.greeks EXCEPT ![g] = v] /\ Elsewhere(S, T, "greeks")
  <2>1. T = [S EXCEPT !["greeks"] = [S.greeks EXCEPT ![g] = v]]
    OBVIOUS
  <2> HIDE DEF T
  <2> QED
    BY <2>1, FilledIn
<1> HIDE DEF T
<1>2. /\ T.positions = S.positions /\ T.marks = S.marks /\ T.groups = S.groups /\ T.cash = S.cash
      /\ T.reserved = S.reserved /\ T.equity = S.equity /\ T.ordersInInterval = S.ordersInInterval
      /\ T.positionByStrategy = S.positionByStrategy
  BY <1>1 DEF Elsewhere, StateFields
<1>3. Held(T) = Held(S) /\ GrossNotional(T) = GrossNotional(S)
  BY <1>2, WorthStays
<1>4. \A sides : LegNotional(i, T, sides) = LegNotional(i, S, sides)
  BY <1>2, Zenon DEF LegNotional, PriceOf
<1>5. Notional(i, T) = Notional(i, S) /\ CashRequired(i, T) = CashRequired(i, S)
  BY <1>4 DEF Notional, CashRequired
<1>6. OrderChecks(i, T, L) = OrderChecks(i, S, L)
  BY <1>2, <1>5, Zenon DEF OrderChecks
<1>7. PositionChecks(i, T, L) = PositionChecks(i, S, L)
  <2>1. \A w : InUnderlying(T, w) = InUnderlying(S, w)
    BY <1>2, <1>3, Zenon DEF InUnderlying
  <2>2. /\ Underlyings(i, T) = Underlyings(i, S) /\ WorstUnderlying(i, T) = WorstUnderlying(i, S)
        /\ WorstInstrument(i, T) = WorstInstrument(i, S)
    BY <1>2, <2>1, Zenon DEF Underlyings, WorstUnderlying, WorstInstrument
  <2> QED
    BY <1>2, <2>2, Zenon DEF PositionChecks
<1>8. CapitalChecks(i, T, L) = CapitalChecks(i, S, L)
  BY <1>2, <1>3, <1>5, Zenon DEF CapitalChecks, AgainstEquity, UncommittedCash
<1>9. ConcentrationChecks(T, L) = ConcentrationChecks(S, L)
  <2>1. \A key : Buckets(T, key) = Buckets(S, key)
    BY <1>2, BucketsStay
  <2>2. /\ Concentration(S, "underlying", L.max_underlying_concentration).status # "NOT_EVALUABLE"
        /\ Concentration(S, "expiry", L.max_expiry_concentration).status # "NOT_EVALUABLE"
        /\ Concentration(S, "strike", L.max_strike_concentration).status # "NOT_EVALUABLE"
    BY Evaluable DEF ConcentrationLimits, ConcentrationChecks
  <2>3. /\ Concentration(T, "underlying", L.max_underlying_concentration)
             = Concentration(S, "underlying", L.max_underlying_concentration)
        /\ Concentration(T, "expiry", L.max_expiry_concentration)
             = Concentration(S, "expiry", L.max_expiry_concentration)
        /\ Concentration(T, "strike", L.max_strike_concentration)
             = Concentration(S, "strike", L.max_strike_concentration)
    BY <1>3, <2>1, <2>2, ConcentrationStays
  <2> QED
    BY <2>3, Zenon DEF ConcentrationChecks
<1>10. ExposureChecks(T, L) = ExposureChecks(S, L)
  <2>1. ASSUME NEW h \in Greeks, NEW limit, Exposure(S.greeks[h], limit).status # "NOT_EVALUABLE"
        PROVE  Exposure(T.greeks[h], limit) = Exposure(S.greeks[h], limit)
    <3>1. CASE h = g
      <4>1. limit = None
        BY <2>1, <3>1 DEF Exposure, Check, NotEvaluable
      <4> QED
        BY <4>1 DEF Exposure, Check
    <3>2. CASE h # g
      <4>1. T.greeks[h] = S.greeks[h]
        BY <1>1, <3>2 DEF IsRiskState
      <4> QED
        BY <4>1
    <3> QED
      BY <3>1, <3>2
  <2>2. /\ Exposure(S.greeks.net_delta, L.max_net_delta).status # "NOT_EVALUABLE"
        /\ Exposure(S.greeks.gross_delta, L.max_gross_delta).status # "NOT_EVALUABLE"
        /\ Exposure(S.greeks.gross_gamma, L.max_gross_gamma).status # "NOT_EVALUABLE"
        /\ Exposure(S.greeks.gross_vega, L.max_gross_vega).status # "NOT_EVALUABLE"
        /\ Exposure(S.greeks.gross_theta, L.max_gross_theta).status # "NOT_EVALUABLE"
    BY Evaluable DEF ExposureLimits, ExposureChecks
  <2>3. /\ Exposure(T.greeks.net_delta, L.max_net_delta) = Exposure(S.greeks.net_delta, L.max_net_delta)
        /\ Exposure(T.greeks.gross_delta, L.max_gross_delta) = Exposure(S.greeks.gross_delta, L.max_gross_delta)
        /\ Exposure(T.greeks.gross_gamma, L.max_gross_gamma) = Exposure(S.greeks.gross_gamma, L.max_gross_gamma)
        /\ Exposure(T.greeks.gross_vega, L.max_gross_vega) = Exposure(S.greeks.gross_vega, L.max_gross_vega)
        /\ Exposure(T.greeks.gross_theta, L.max_gross_theta) = Exposure(S.greeks.gross_theta, L.max_gross_theta)
    BY <2>1, <2>2 DEF Greeks
  <2> QED
    BY <2>3, Zenon DEF ExposureChecks
<1>11. EvaluateAll(i, T, L) = EvaluateAll(i, S, L)
  BY <1>1, <1>6, <1>7, <1>8, <1>9, <1>10, SameEvaluations
<1> QED
  BY <1>11 DEF T
-----------------------------------------------------------------------------
LEMMA TotalOfOne ==
    ASSUME NEW f, DOMAIN f = {1}, f[1] \in Int
    PROVE  TotalOf(f) = f[1]
<1>1. IsFiniteSet({1})
  BY FS_Singleton
<1>2. Picked(DOMAIN f) = 1
  BY DEF Picked
<1>3. DOMAIN Without(f, 1) = {}
  BY DEF Without
<1>4. TotalOf(Without(f, 1)) = 0
  BY <1>3, TotalOfNothing
<1> QED
  BY <1>1, <1>2, <1>4, TotalOfSome

LEMMA MaxOfOne ==
    ASSUME NEW x \in Int
    PROVE  Max({x}) = x
<1>1. IsFiniteSet({x})
  BY FS_Singleton
<1> QED
  BY <1>1, MaxOfNumbers

(* Two intents of one leg each, of which the second asks for no more.      *)
Smaller(j, i) ==
    /\ IsIntent(i) /\ IsIntent(j) /\ Len(i.legs) = 1 /\ Len(j.legs) = 1
    /\ j.strategy = i.strategy
    /\ j.legs[1].instrument = i.legs[1].instrument
    /\ j.legs[1].side = i.legs[1].side
    /\ j.legs[1].limit = i.legs[1].limit
    /\ j.legs[1].quantity <= i.legs[1].quantity

LEMMA OneLegFacts ==
    ASSUME NEW i, IsIntent(i), Len(i.legs) = 1
    PROVE  /\ LegsOf(i) = {1} /\ i.legs[1] \in LegRecords
           /\ i.legs[1].quantity \in Nat \ {0} /\ i.legs[1].limit \in Nat
           /\ i.legs[1].instrument \in Instruments
           /\ TotalQuantity(i) = i.legs[1].quantity
           /\ Max(Range(Quantities(i))) = i.legs[1].quantity
<1>1. LegsOf(i) = {1}
  <2>1. LegsOf(i) = 1 .. 1
    BY IntentFacts
  <2> QED
    BY <2>1
<1>2. i.legs[1] \in LegRecords /\ i.legs[1].quantity \in Nat \ {0} /\ i.legs[1].limit \in Nat
      /\ i.legs[1].instrument \in Instruments
  BY <1>1, IntentFacts
<1>3. DOMAIN Quantities(i) = {1} /\ Quantities(i)[1] = i.legs[1].quantity
  BY <1>1 DEF Quantities
<1>4. TotalQuantity(i) = i.legs[1].quantity
  BY <1>2, <1>3, TotalOfOne DEF TotalQuantity
<1>5. Range(Quantities(i)) = {i.legs[1].quantity}
  BY <1>3 DEF Range
<1> QED
  BY <1>1, <1>2, <1>4, <1>5, MaxOfOne

(* An intent of one leg at a smaller quantity is an intent.                *)
LEMMA OneLegApproved ==
    ASSUME NEW i, IsIntent(i), Len(i.legs) = 1, NEW q \in 1 .. i.legs[1].quantity
    PROVE  Smaller(AsApproved(i, <<q>>), i) /\ AsApproved(i, <<q>>).legs[1].quantity = q
<1> DEFINE j == AsApproved(i, <<q>>)
<1> DEFINE leg == [i.legs[1] EXCEPT !.quantity = q]
<1>1. /\ LegsOf(i) = {1} /\ i.legs[1] \in LegRecords /\ i.legs[1].quantity \in Nat \ {0}
      /\ i = [strategy |-> i.strategy, legs |-> i.legs]
  BY OneLegFacts, IntentFacts
<1>2. leg \in LegRecords /\ leg.quantity = q /\ leg.instrument = i.legs[1].instrument
      /\ leg.side = i.legs[1].side /\ leg.limit = i.legs[1].limit
  BY <1>1 DEF LegRecords
<1>3. <<q>>[1] = q
  OBVIOUS
<1>4. j = [strategy |-> i.strategy, legs |-> [n \in {1} |-> leg]]
  BY <1>1, <1>3 DEF AsApproved
<1> HIDE DEF leg
<1>5. [n \in {1} |-> leg] = <<leg>>
  <2>1. {1} = 1 .. 1
    OBVIOUS
  <2> QED
    BY <2>1
<1>6. j = [strategy |-> i.strategy, legs |-> <<leg>>]
  BY <1>4, <1>5
<1> HIDE DEF j
<1>7. j.strategy = i.strategy /\ j.legs = <<leg>> /\ j = [strategy |-> j.strategy, legs |-> j.legs]
  BY <1>6
<1>8. Len(j.legs) = 1 /\ j.legs[1] = leg /\ j.legs \in Seq(LegRecords) /\ j.legs # <<>>
  BY <1>2, <1>7
<1>9. IsIntent(j)
  BY <1>7, <1>8 DEF IsIntent, LegRecords
<1> QED
  BY <1>1, <1>2, <1>7, <1>8, <1>9 DEF Smaller, j

(* What grows, is breached where it was.                                   *)
LEMMA MoreIsBreached ==
    ASSUME NEW limit, NEW inputs, NEW others, NEW less, NEW more,
           Check(limit, others, Compare(less, limit)).status = "BREACHED",
           None \notin others => None \notin inputs,
           limit # None /\ None \notin others =>
              limit \in Int /\ less \in Int /\ more \in Int /\ less <= more
    PROVE  Check(limit, inputs, Compare(more, limit)).status = "BREACHED"
<1>1. limit # None /\ None \notin others /\ Compare(less, limit).status = "BREACHED"
  BY Checked
<1>2. less > limit
  BY <1>1 DEF Compare
<1>3. Compare(more, limit).status = "BREACHED"
  BY <1>1, <1>2 DEF Compare
<1> QED
  BY <1>1, <1>3 DEF Check

LEMMA LegNotionalGrows ==
    ASSUME NEW i, NEW j, Smaller(j, i), NEW S, IsRiskState(S), NEW sides,
           LegNotional(j, S, sides) # None
    PROVE  /\ LegNotional(i, S, sides) # None
           /\ LegNotional(j, S, sides) \in Int /\ LegNotional(i, S, sides) \in Int
           /\ LegNotional(j, S, sides) <= LegNotional(i, S, sides)
<1> DEFINE N(k) == {n \in LegsOf(k) : k.legs[n].side \in sides}
           W(k) == [n \in N(k) |-> PriceOf(k.legs[n], S) * k.legs[n].quantity]
           p == PriceOf(i.legs[1], S)
           a == i.legs[1].quantity
           b == j.legs[1].quantity
<1>1. /\ LegsOf(i) = {1} /\ LegsOf(j) = {1} /\ i.legs[1].side = j.legs[1].side
      /\ PriceOf(j.legs[1], S) = p /\ a \in Nat \ {0} /\ b \in Nat \ {0} /\ b <= a
      /\ i.legs[1].limit \in Nat /\ i.legs[1].instrument \in Instruments
  BY OneLegFacts DEF Smaller, PriceOf
<1>2. \A k \in {i, j} : LegNotional(k, S, sides) =
         IF \E n \in N(k) : PriceOf(k.legs[n], S) = None THEN None ELSE TotalOf(W(k))
  BY Zenon DEF LegNotional
<1>3. CASE i.legs[1].side \notin sides
  <2>1. N(i) = {} /\ N(j) = {}
    BY <1>1, <1>3
  <2>2. TotalOf(W(i)) = 0 /\ TotalOf(W(j)) = 0
    BY <2>1, TotalOfNothing
  <2> QED
    BY <1>2, <2>1, <2>2, NoneAssumption
<1>4. CASE i.legs[1].side \in sides
  <2>1. N(i) = {1} /\ N(j) = {1}
    BY <1>1, <1>4
  <2>2. p # None
    BY <1>1, <1>2, <2>1
  <2>3. p \in Nat
    BY <1>1, <2>2 DEF PriceOf, IsRiskState
  <2> HIDE DEF p
  <2>4. /\ DOMAIN W(i) = {1} /\ W(i)[1] = p * a
        /\ DOMAIN W(j) = {1} /\ W(j)[1] = p * b
    BY <1>1, <2>1 DEF p
  <2>5. p * a \in Int /\ p * b \in Int /\ p * b <= p * a
    <3>1. p * (a - b) >= 0 /\ p * (a - b) = p * a - p * b
      BY <1>1, <2>3
    <3> QED
      BY <1>1, <2>3, <3>1
  <2>6. TotalOf(W(i)) = p * a /\ TotalOf(W(j)) = p * b
    BY <2>4, <2>5, TotalOfOne
  <2>7. LegNotional(i, S, sides) = p * a /\ LegNotional(j, S, sides) = p * b
    BY <1>1, <1>2, <2>1, <2>2, <2>6 DEF p
  <2> QED
    BY <2>5, <2>7, NoneAssumption
<1> QED
  BY <1>3, <1>4

LEMMA GrossIsWhole ==
    ASSUME NEW S, IsRiskState(S), IsFiniteSet(Instruments), GrossNotional(S) # None
    PROVE  GrossNotional(S) \in Int
<1> DEFINE f == [x \in Held(S) |-> AbsInt(S.marks[x] * S.positions[x])]
<1>1. IsFiniteSet(Held(S))
  BY FS_Subset DEF Held
<1>2. /\ \A x \in Held(S) : S.marks[x] # None
      /\ GrossNotional(S) = TotalOf(f)
  BY DEF GrossNotional, WorthOf
<1>3. ASSUME NEW x \in Held(S)
      PROVE  AbsInt(S.marks[x] * S.positions[x]) \in Int
  <2>1. S.marks[x] \in Nat /\ S.positions[x] \in Int
    BY <1>2 DEF Held, IsRiskState
  <2>2. S.marks[x] * S.positions[x] \in Int
    BY <2>1
  <2> QED
    BY <2>2 DEF AbsInt
<1>4. f \in [Held(S) -> Int]
  BY <1>3
<1> QED
  BY <1>1, <1>2, <1>4, TotalOfIntegers

LEMMA InUnderlyingIsWhole ==
    ASSUME NEW S, IsRiskState(S), IsFiniteSet(Instruments), NEW u, InUnderlying(S, u) # None
    PROVE  InUnderlying(S, u) \in Int
<1> DEFINE X == {y \in Held(S) : S.groups[y].underlying = u}
           f == [x \in X |-> AbsInt(S.positions[x])]
<1>1. IsFiniteSet(X)
  BY FS_Subset DEF Held
<1>2. InUnderlying(S, u) = TotalOf(f)
  BY DEF InUnderlying
<1>3. f \in [X -> Int]
  BY DEF Held, IsRiskState, AbsInt
<1> QED
  BY <1>1, <1>2, <1>3, TotalOfIntegers

(* A multiple of the equity is exceeded by no smaller quantity alone.      *)
LEMMA EquityGrows ==
    ASSUME NEW i, NEW j, Smaller(j, i), NEW S, IsRiskState(S), IsFiniteSet(Instruments),
           NEW limit \in Int \cup {None}, AgainstEquity(j, S, limit).status = "BREACHED"
    PROVE  AgainstEquity(i, S, limit).status = "BREACHED"
<1> DEFINE positive == IF S.equity > 0 THEN 0 ELSE None
           less == 100 * (GrossNotional(S) + Notional(j, S))
           more == 100 * (GrossNotional(S) + Notional(i, S))
           most == limit * S.equity
<1>1. /\ AgainstEquity(j, S, limit) =
            Check(limit, {GrossNotional(S), Notional(j, S), positive}, Compare(less, most))
      /\ AgainstEquity(i, S, limit) =
            Check(limit, {GrossNotional(S), Notional(i, S), positive}, Compare(more, most))
  BY DEF AgainstEquity
<1>2. /\ limit # None /\ None \notin {GrossNotional(S), Notional(j, S), positive}
      /\ Compare(less, most).status = "BREACHED"
  <2> HIDE DEF less, most, positive
  <2> QED
    BY <1>1, Checked
<1>3. /\ Notional(i, S) # None /\ Notional(j, S) \in Int /\ Notional(i, S) \in Int
      /\ Notional(j, S) <= Notional(i, S)
  BY <1>2, LegNotionalGrows DEF Notional
<1>4. GrossNotional(S) \in Int /\ S.equity \in Int /\ limit \in Int
  BY <1>2, GrossIsWhole DEF IsRiskState
<1>5. most \in Int /\ less \in Int /\ more \in Int /\ less <= more
  BY <1>3, <1>4
<1> HIDE DEF less, more, most, positive
<1>6. Compare(more, most).status = "BREACHED"
  <2>1. less > most
    BY <1>2 DEF Compare
  <2> QED
    BY <1>5, <2>1 DEF Compare
<1> QED
  BY <1>1, <1>2, <1>3, <1>6 DEF Check

(* What a smaller quantity breaches apart from the limits on size, the     *)
(* larger one does.                                                        *)
LEMMA SmallerBreachesNoMore ==
    ASSUME NEW i, NEW j, Smaller(j, i), NEW S, IsRiskState(S), IsFiniteSet(Instruments),
           NEW L, HasLimits(L), NEW id, id \notin Resizable, id \in DOMAIN EvaluateAll(j, S, L),
           EvaluateAll(j, S, L)[id].status = "BREACHED"
    PROVE  EvaluateAll(i, S, L)[id].status = "BREACHED"
<1>1. j.strategy = i.strategy /\ Len(j.legs) = Len(i.legs)
  BY DEF Smaller
<1>2. /\ L.max_order_notional \in Int \cup {None} /\ L.max_deployed_capital \in Int \cup {None}
      /\ L.max_capital_utilisation \in Int \cup {None} /\ L.max_leverage \in Int \cup {None}
  BY DEF HasLimits
<1>3. CASE id \in HaltLimits
  <2>1. HaltChecks(i, S, L) = HaltChecks(j, S, L)
    BY <1>1, Zenon DEF HaltChecks
  <2> QED
    BY <1>3, <2>1, EveryCheck
<1>4. CASE id \in DataLimits \cup ExposureLimits \cup ConcentrationLimits
  BY <1>4, EveryCheck
<1>5. CASE id \in LossLimits
  <2>1. LossChecks(i, S, L) = LossChecks(j, S, L)
    BY <1>1, Zenon DEF LossChecks
  <2> QED
    BY <1>5, <2>1, EveryCheck
<1>6. CASE id = "max_orders_per_interval"
  <2>1. OrderChecks(i, S, L)["max_orders_per_interval"] = OrderChecks(j, S, L)["max_orders_per_interval"]
    BY <1>1 DEF OrderChecks
  <2>2. id \in OrderLimits
    BY <1>6 DEF OrderLimits
  <2> QED
    BY <1>6, <2>1, <2>2, EveryCheck
<1>7. CASE id = "max_order_notional"
  <2>1. id \in OrderLimits
    BY <1>7 DEF OrderLimits
  <2>2. \A k \in {i, j} : EvaluateAll(k, S, L)[id] =
           Check(L.max_order_notional, {Notional(k, S)}, Compare(Notional(k, S), L.max_order_notional))
    <3>1. \A k : EvaluateAll(k, S, L)[id] = OrderChecks(k, S, L)["max_order_notional"]
      BY <1>7, <2>1, EveryCheck
    <3>2. \A k : OrderChecks(k, S, L)["max_order_notional"] =
             Check(L.max_order_notional, {Notional(k, S)}, Compare(Notional(k, S), L.max_order_notional))
      BY DEF OrderChecks
    <3> QED
      BY <3>1, <3>2
  <2>3. Check(L.max_order_notional, {Notional(j, S)},
              Compare(Notional(j, S), L.max_order_notional)).status = "BREACHED"
    BY <2>2
  <2>4. Notional(j, S) # None => /\ Notional(i, S) # None /\ Notional(j, S) \in Int
                                 /\ Notional(i, S) \in Int /\ Notional(j, S) <= Notional(i, S)
    BY LegNotionalGrows DEF Notional
  <2>5. Check(L.max_order_notional, {Notional(i, S)},
              Compare(Notional(i, S), L.max_order_notional)).status = "BREACHED"
    BY <1>2, <2>3, <2>4, MoreIsBreached
  <2> QED
    BY <2>2, <2>5
<1>8. CASE id = "cash_sufficiency"
  <2>1. id \in CapitalLimits
    BY <1>8 DEF CapitalLimits
  <2>2. \A k \in {i, j} : EvaluateAll(k, S, L)[id] =
           Check(0, {CashRequired(k, S)}, Compare(CashRequired(k, S), UncommittedCash(S)))
    <3>1. \A k : EvaluateAll(k, S, L)[id] = CapitalChecks(k, S, L)["cash_sufficiency"]
      BY <1>8, <2>1, EveryCheck
    <3>2. \A k : CapitalChecks(k, S, L)["cash_sufficiency"] =
             Check(0, {CashRequired(k, S)}, Compare(CashRequired(k, S), UncommittedCash(S)))
      BY DEF CapitalChecks
    <3> QED
      BY <3>1, <3>2
  <2>3. Check(0, {CashRequired(j, S)}, Compare(CashRequired(j, S), UncommittedCash(S))).status = "BREACHED"
    BY <2>2
  <2>4. CashRequired(j, S) # None /\ Compare(CashRequired(j, S), UncommittedCash(S)).status = "BREACHED"
    BY <2>3, Checked
  <2>5. /\ CashRequired(i, S) # None /\ CashRequired(j, S) \in Int
        /\ CashRequired(i, S) \in Int /\ CashRequired(j, S) <= CashRequired(i, S)
    BY <2>4, LegNotionalGrows DEF CashRequired
  <2>6. UncommittedCash(S) \in Int
    BY DEF UncommittedCash, IsRiskState
  <2>7. Compare(CashRequired(i, S), UncommittedCash(S)).status = "BREACHED"
    BY <2>4, <2>5, <2>6 DEF Compare
  <2>8. Check(0, {CashRequired(i, S)}, Compare(CashRequired(i, S), UncommittedCash(S)))
          = Compare(CashRequired(i, S), UncommittedCash(S))
    BY <2>5, NoneAssumption DEF Check
  <2> QED
    BY <2>2, <2>7, <2>8
<1>9. CASE id = "max_deployed_capital"
  <2> DEFINE limit == L.max_deployed_capital
  <2>1. id \in CapitalLimits
    BY <1>9 DEF CapitalLimits
  <2>2. \A k \in {i, j} : EvaluateAll(k, S, L)[id] =
           Check(limit, {GrossNotional(S), Notional(k, S)}, Compare(GrossNotional(S) + Notional(k, S), limit))
    <3>1. \A k : EvaluateAll(k, S, L)[id] = CapitalChecks(k, S, L)["max_deployed_capital"]
      BY <1>9, <2>1, EveryCheck
    <3>2. \A k : CapitalChecks(k, S, L)["max_deployed_capital"] =
             Check(limit, {GrossNotional(S), Notional(k, S)}, Compare(GrossNotional(S) + Notional(k, S), limit))
      BY DEF CapitalChecks
    <3> QED
      BY <3>1, <3>2
  <2>3. Check(limit, {GrossNotional(S), Notional(j, S)},
              Compare(GrossNotional(S) + Notional(j, S), limit)).status = "BREACHED"
    BY <2>2
  <2>4. limit # None /\ None \notin {GrossNotional(S), Notional(j, S)}
    BY <2>3, Checked
  <2>5. /\ Notional(i, S) # None /\ Notional(j, S) \in Int /\ Notional(i, S) \in Int
        /\ Notional(j, S) <= Notional(i, S) /\ GrossNotional(S) \in Int
    BY <2>4, LegNotionalGrows, GrossIsWhole DEF Notional
  <2>6. /\ GrossNotional(S) + Notional(j, S) \in Int /\ GrossNotional(S) + Notional(i, S) \in Int
        /\ GrossNotional(S) + Notional(j, S) <= GrossNotional(S) + Notional(i, S)
    BY <2>5
  <2>7. limit \in Int /\ None \notin {GrossNotional(S), Notional(i, S)}
    BY <1>2, <2>4, <2>5
  <2> HIDE DEF limit
  <2>8. Check(limit, {GrossNotional(S), Notional(i, S)},
              Compare(GrossNotional(S) + Notional(i, S), limit)).status = "BREACHED"
    BY <2>3, <2>6, <2>7, MoreIsBreached
  <2> QED
    BY <2>2, <2>8
<1>10. CASE id = "max_capital_utilisation"
  <2>1. id \in CapitalLimits
    BY <1>10 DEF CapitalLimits
  <2>2. \A k \in {i, j} : EvaluateAll(k, S, L)[id] = AgainstEquity(k, S, L.max_capital_utilisation)
    <3>1. \A k : EvaluateAll(k, S, L)[id] = CapitalChecks(k, S, L)["max_capital_utilisation"]
      BY <1>10, <2>1, EveryCheck
    <3>2. \A k : CapitalChecks(k, S, L)["max_capital_utilisation"] =
             AgainstEquity(k, S, L.max_capital_utilisation)
      BY DEF CapitalChecks
    <3> QED
      BY <3>1, <3>2
  <2>3. AgainstEquity(j, S, L.max_capital_utilisation).status = "BREACHED"
    BY <2>2
  <2>4. AgainstEquity(i, S, L.max_capital_utilisation).status = "BREACHED"
    <3> DEFINE m == L.max_capital_utilisation
    <3>1. m \in Int \cup {None} /\ AgainstEquity(j, S, m).status = "BREACHED"
      BY <1>2, <2>3
    <3> HIDE DEF m
    <3>2. AgainstEquity(i, S, m).status = "BREACHED"
      BY <3>1, EquityGrows
    <3> QED
      BY <3>2 DEF m
  <2> QED
    BY <2>2, <2>4
<1>11. CASE id = "max_leverage"
  <2>1. id \in CapitalLimits
    BY <1>11 DEF CapitalLimits
  <2>2. \A k \in {i, j} : EvaluateAll(k, S, L)[id] = AgainstEquity(k, S, L.max_leverage)
    <3>1. \A k : EvaluateAll(k, S, L)[id] = CapitalChecks(k, S, L)["max_leverage"]
      BY <1>11, <2>1, EveryCheck
    <3>2. \A k : CapitalChecks(k, S, L)["max_leverage"] =
             AgainstEquity(k, S, L.max_leverage)
      BY DEF CapitalChecks
    <3> QED
      BY <3>1, <3>2
  <2>3. AgainstEquity(j, S, L.max_leverage).status = "BREACHED"
    BY <2>2
  <2>4. AgainstEquity(i, S, L.max_leverage).status = "BREACHED"
    <3> DEFINE m == L.max_leverage
    <3>1. m \in Int \cup {None} /\ AgainstEquity(j, S, m).status = "BREACHED"
      BY <1>2, <2>3
    <3> HIDE DEF m
    <3>2. AgainstEquity(i, S, m).status = "BREACHED"
      BY <3>1, EquityGrows
    <3> QED
      BY <3>2 DEF m
  <2> QED
    BY <2>2, <2>4
<1>12. id \in HaltLimits \cup DataLimits \cup OrderLimits \cup PositionLimits \cup CapitalLimits
              \cup LossLimits \cup ExposureLimits \cup ConcentrationLimits
  BY EveryCheck
<1>13. PositionLimits \subseteq Resizable /\ "max_order_quantity" \in Resizable
  BY DEF PositionLimits, Resizable
<1>14. id \in OrderLimits => id = "max_orders_per_interval" \/ id = "max_order_notional"
  BY <1>13 DEF OrderLimits
<1>15. id \in CapitalLimits => \/ id = "cash_sufficiency" \/ id = "max_deployed_capital"
                               \/ id = "max_capital_utilisation" \/ id = "max_leverage"
  BY DEF CapitalLimits
<1> QED
  BY <1>3, <1>4, <1>5, <1>6, <1>7, <1>8, <1>9, <1>10, <1>11, <1>12, <1>13, <1>14, <1>15

(* A check on size is breached by what is more than its excess leaves.     *)
Leaves(before, after, a, b) ==
    /\ after.status = "BREACHED" => before.status = "BREACHED"
    /\ before.status = "BREACHED" =>
          before.excess \in Nat \ {0} /\ (after.status = "BREACHED" <=> b > a - before.excess)

LEMMA Shifted ==
    ASSUME NEW a \in Nat, NEW b \in Nat, NEW limit, NEW inputs, NEW more, NEW less,
           limit # None /\ None \notin inputs =>
              /\ more \in Int /\ less \in Int /\ limit \in Int
              /\ less > limit => more > limit
              /\ more > limit => (less > limit <=> b > a - (more - limit))
    PROVE  Leaves(Check(limit, inputs, Compare(more, limit)), Check(limit, inputs, Compare(less, limit)), a, b)
<1>1. CASE limit = None \/ None \in inputs
  <2>1. Check(limit, inputs, Compare(more, limit)) \in {NotConfigured, NotEvaluable}
    BY <1>1 DEF Check
  <2>2. Check(limit, inputs, Compare(less, limit)) \in {NotConfigured, NotEvaluable}
    BY <1>1 DEF Check
  <2> QED
    BY <2>1, <2>2 DEF NotConfigured, NotEvaluable, Leaves
<1>2. CASE limit # None /\ None \notin inputs
  <2>1. /\ Check(limit, inputs, Compare(more, limit)) = Compare(more, limit)
        /\ Check(limit, inputs, Compare(less, limit)) = Compare(less, limit)
    BY <1>2 DEF Check
  <2>2. /\ Compare(more, limit).status = "BREACHED" <=> more > limit
        /\ Compare(less, limit).status = "BREACHED" <=> less > limit
        /\ Compare(more, limit).excess = more - limit
    BY DEF Compare
  <2>3. more > limit => more - limit \in Nat \ {0}
    BY <1>2
  <2>4. /\ less > limit => more > limit
        /\ more > limit => (less > limit <=> b > a - (more - limit))
    BY <1>2
  <2> HIDE DEF Compare
  <2> QED
    BY <2>1, <2>2, <2>3, <2>4, Zenon DEF Leaves
<1> QED
  BY <1>1, <1>2

LEMMA SizeLeaves ==
    ASSUME NEW i, NEW j, Smaller(j, i), NEW S, IsRiskState(S), IsFiniteSet(Instruments),
           NEW L, HasLimits(L), S.positionByStrategy[i.strategy] \in Int, WithinBefore(i, S, L),
           NEW id \in Resizable
    PROVE  Leaves(EvaluateAll(i, S, L)[id], EvaluateAll(j, S, L)[id],
                  i.legs[1].quantity, j.legs[1].quantity)
<1> DEFINE a == i.legs[1].quantity
           b == j.legs[1].quantity
           x == i.legs[1].instrument
           p == S.positions[x]
           s == Sign(i.legs[1].side)
           u == InUnderlying(S, S.groups[x].underlying)
<1>1. /\ a \in Nat \ {0} /\ b \in Nat \ {0} /\ b <= a /\ x \in Instruments
      /\ LegsOf(i) = {1} /\ LegsOf(j) = {1}
      /\ TotalQuantity(i) = a /\ TotalQuantity(j) = b
      /\ Max(Range(Quantities(i))) = a /\ Max(Range(Quantities(j))) = b
      /\ j.legs[1].instrument = x /\ Sign(j.legs[1].side) = s /\ s \in {1, -1}
      /\ j.strategy = i.strategy
  BY OneLegFacts DEF Smaller, Sign
<1>2. p \in Int /\ L[id] \in Int \cup {None}
  BY <1>1 DEF IsRiskState, HasLimits
<1> HIDE DEF a, b, x, p, s, u
<1>3. CASE id = "max_order_quantity"
  <2>1. id \in OrderLimits
    BY <1>3 DEF OrderLimits
  <2>2. \A k : EvaluateAll(k, S, L)[id] = OrderChecks(k, S, L)["max_order_quantity"]
    BY <1>3, <2>1, EveryCheck
  <2>3. \A k : OrderChecks(k, S, L)["max_order_quantity"]
                 = Check(L.max_order_quantity, {}, Compare(Max(Range(Quantities(k))), L.max_order_quantity))
    BY DEF OrderChecks
  <2> DEFINE limit == L.max_order_quantity
  <2>4. limit \in Int \cup {None}
    BY <1>2, <1>3
  <2> HIDE DEF limit
  <2>5. limit # None /\ None \notin {} =>
           /\ a \in Int /\ b \in Int /\ limit \in Int
           /\ b > limit => a > limit
           /\ a > limit => (b > limit <=> b > a - (a - limit))
    BY <1>1, <2>4
  <2>6. Leaves(Check(limit, {}, Compare(a, limit)), Check(limit, {}, Compare(b, limit)), a, b)
    BY <1>1, <2>5, Shifted
  <2> QED
    BY <1>1, <2>2, <2>3, <2>6 DEF a, b, limit
<1>4. CASE id = "max_position_per_strategy"
  <2>1. id \in PositionLimits
    BY <1>4 DEF PositionLimits
  <2>2. \A k : EvaluateAll(k, S, L)[id] = PositionChecks(k, S, L)["max_position_per_strategy"]
    BY <1>4, <2>1, EveryCheck
  <2>3. \A k : PositionChecks(k, S, L)["max_position_per_strategy"]
                 = Check(L.max_position_per_strategy, {k.strategy},
                         Compare(S.positionByStrategy[k.strategy] + TotalQuantity(k), L.max_position_per_strategy))
    BY DEF PositionChecks
  <2> DEFINE limit == L.max_position_per_strategy
             held == S.positionByStrategy[i.strategy]
             inputs == {i.strategy}
  <2>4. limit \in Int \cup {None} /\ held \in Int
    BY <1>2, <1>4
  <2> HIDE DEF limit, held, inputs
  <2> DEFINE more == held + a
             less == held + b
  <2>5. limit # None /\ None \notin inputs =>
           /\ more \in Int /\ less \in Int /\ limit \in Int
           /\ less > limit => more > limit
           /\ more > limit => (less > limit <=> b > a - (more - limit))
    BY <1>1, <2>4
  <2> HIDE DEF more, less
  <2>6. Leaves(Check(limit, inputs, Compare(more, limit)), Check(limit, inputs, Compare(less, limit)), a, b)
    BY <1>1, <2>5, Shifted
  <2> QED
    BY <1>1, <2>2, <2>3, <2>6 DEF a, b, limit, held, inputs, more, less
<1>5. CASE id = "max_position_per_underlying"
  <2>1. id \in PositionLimits
    BY <1>5 DEF PositionLimits
  <2>2. \A k : EvaluateAll(k, S, L)[id] = PositionChecks(k, S, L)["max_position_per_underlying"]
    BY <1>5, <2>1, EveryCheck
  <2>3. \A k : PositionChecks(k, S, L)["max_position_per_underlying"]
                 = Check(L.max_position_per_underlying, Underlyings(k, S),
                         Compare(WorstUnderlying(k, S), L.max_position_per_underlying))
    BY DEF PositionChecks
  <2> DEFINE limit == L.max_position_per_underlying
  <2>4. limit \in Int \cup {None}
    BY <1>2, <1>5
  <2>5. Underlyings(i, S) = {u} /\ Underlyings(j, S) = {u}
    BY <1>1 DEF Underlyings, u, x
  <2>6. ASSUME u # None
        PROVE  u \in Int /\ WorstUnderlying(i, S) = u + a /\ WorstUnderlying(j, S) = u + b
    <3>1. u \in Int
      BY <2>6, InUnderlyingIsWhole DEF u
    <3>2. WorstUnderlying(i, S) = Max({u + a}) /\ WorstUnderlying(j, S) = Max({u + b})
      <4>1. {InUnderlying(S, S.groups[i.legs[n].instrument].underlying) + i.legs[n].quantity : n \in LegsOf(i)} = {u + a}
        BY <1>1 DEF u, a, x
      <4>2. {InUnderlying(S, S.groups[j.legs[n].instrument].underlying) + j.legs[n].quantity : n \in LegsOf(j)} = {u + b}
        BY <1>1 DEF u, b, x
      <4> QED
        BY <4>1, <4>2 DEF WorstUnderlying
    <3>3. u + a \in Int /\ u + b \in Int
      BY <1>1, <3>1
    <3> QED
      BY <3>1, <3>2, <3>3, MaxOfOne
  <2> HIDE DEF limit
  <2> DEFINE more == WorstUnderlying(i, S)
             less == WorstUnderlying(j, S)
  <2>7. limit # None /\ None \notin {u} =>
           /\ more \in Int /\ less \in Int /\ limit \in Int
           /\ less > limit => more > limit
           /\ more > limit => (less > limit <=> b > a - (more - limit))
    BY <1>1, <2>4, <2>6
  <2> HIDE DEF more, less
  <2>8. Leaves(Check(limit, {u}, Compare(more, limit)), Check(limit, {u}, Compare(less, limit)), a, b)
    BY <1>1, <2>7, Shifted
  <2> QED
    BY <2>2, <2>3, <2>5, <2>8 DEF a, b, limit, more, less
<1>6. CASE id = "max_position_per_instrument"
  <2>1. id \in PositionLimits
    BY <1>6 DEF PositionLimits
  <2>2. \A k : EvaluateAll(k, S, L)[id] = PositionChecks(k, S, L)["max_position_per_instrument"]
    BY <1>6, <2>1, EveryCheck
  <2>3. \A k : PositionChecks(k, S, L)["max_position_per_instrument"]
                 = Check(L.max_position_per_instrument, {},
                         Compare(WorstInstrument(k, S), L.max_position_per_instrument))
    BY DEF PositionChecks
  <2> DEFINE limit == L.max_position_per_instrument
             more == AbsInt(p + s * a)
             less == AbsInt(p + s * b)
  <2>4. limit \in Int \cup {None} /\ (limit # None => AbsInt(p) <= limit)
    BY <1>2, <1>6 DEF WithinBefore, p, x
  <2>5. WorstInstrument(i, S) = Max({more}) /\ WorstInstrument(j, S) = Max({less})
    <3>1. {AbsInt(S.positions[i.legs[n].instrument] + Sign(i.legs[n].side) * i.legs[n].quantity) : n \in LegsOf(i)} = {more}
      BY <1>1 DEF p, a, x, s
    <3>2. {AbsInt(S.positions[j.legs[n].instrument] + Sign(j.legs[n].side) * j.legs[n].quantity) : n \in LegsOf(j)} = {less}
      BY <1>1 DEF p, b, x, s
    <3> QED
      BY <3>1, <3>2 DEF WorstInstrument
  <2> HIDE DEF limit
  <2>6. (s = 1 /\ s * a = a /\ s * b = b) \/ (s = -1 /\ s * a = -a /\ s * b = -b)
    BY <1>1
  <2>7. more \in Int /\ less \in Int
    BY <1>1, <1>2, <2>6 DEF AbsInt
  <2>8. limit # None /\ None \notin {} =>
           /\ more \in Int /\ less \in Int /\ limit \in Int
           /\ less > limit => more > limit
           /\ more > limit => (less > limit <=> b > a - (more - limit))
    <3>1. CASE s = 1
      BY <1>1, <1>2, <2>4, <2>6, <2>7, <3>1 DEF AbsInt
    <3>2. CASE s = -1
      BY <1>1, <1>2, <2>4, <2>6, <2>7, <3>2 DEF AbsInt
    <3> QED
      BY <2>6, <3>1, <3>2
  <2> HIDE DEF more, less
  <2>9. Leaves(Check(limit, {}, Compare(more, limit)), Check(limit, {}, Compare(less, limit)), a, b)
    BY <1>1, <2>8, Shifted
  <2>10. WorstInstrument(i, S) = more /\ WorstInstrument(j, S) = less
    BY <2>5, <2>7, MaxOfOne
  <2> QED
    BY <2>2, <2>3, <2>9, <2>10 DEF a, b, limit
<1> QED
  BY <1>3, <1>4, <1>5, <1>6 DEF Resizable, a, b

(* What is breached leaves room, and all of it is used.                    *)
LEMMA Resized ==
    ASSUME NEW i, IsIntent(i), NEW E, WithStatus(E, "BREACHED") # {}, Resize(i, E) # 0,
           \A id \in WithStatus(E, "BREACHED") \cap Resizable : E[id].excess \in Nat \ {0}
    PROVE  /\ WithStatus(E, "BREACHED") \subseteq Resizable
           /\ Resize(i, E) \in Nat \ {0} /\ Resize(i, E) < TotalQuantity(i)
           /\ \A id \in WithStatus(E, "BREACHED") : Resize(i, E) <= TotalQuantity(i) - E[id].excess
           /\ \E id \in WithStatus(E, "BREACHED") : Resize(i, E) = TotalQuantity(i) - E[id].excess
<1> DEFINE B == WithStatus(E, "BREACHED")
           r == Resize(i, E)
           X == {E[id].excess : id \in B}
           left == TotalQuantity(i) - Max(X)
<1>1. B \subseteq Resizable /\ r = Max({0, left})
  BY DEF Resize
<1>2. \A id \in B : E[id].excess \in Nat \ {0}
  BY <1>1
<1>3. IsFiniteSet(B)
  <2>1. IsFiniteSet(Resizable)
    <3>1. /\ IsFiniteSet({"max_order_quantity"}) /\ IsFiniteSet({"max_position_per_instrument"})
          /\ IsFiniteSet({"max_position_per_underlying"}) /\ IsFiniteSet({"max_position_per_strategy"})
      BY FS_Singleton
    <3>2. /\ IsFiniteSet({"max_order_quantity"} \cup {"max_position_per_instrument"})
          /\ IsFiniteSet({"max_position_per_underlying"} \cup {"max_position_per_strategy"})
      BY <3>1, FS_Union
    <3>3. IsFiniteSet(({"max_order_quantity"} \cup {"max_position_per_instrument"})
                      \cup ({"max_position_per_underlying"} \cup {"max_position_per_strategy"}))
      BY <3>2, FS_Union
    <3>4. Resizable = ({"max_order_quantity"} \cup {"max_position_per_instrument"})
                      \cup ({"max_position_per_underlying"} \cup {"max_position_per_strategy"})
      BY DEF Resizable
    <3> QED
      BY <3>3, <3>4
  <2> QED
    BY <1>1, <2>1, FS_Subset
<1>4. IsFiniteSet(X)
  <2> DEFINE f == [id \in B |-> E[id].excess]
  <2>1. f \in Surjection(B, X)
    BY DEF Surjection
  <2> QED
    BY <1>3, <2>1, FS_Surjection
<1>5. X \in SUBSET Int /\ X # {} /\ X \subseteq Nat \ {0}
  BY <1>2
<1>6. /\ \A id \in B : E[id].excess \in X
      /\ \A e \in X : \E id \in B : E[id].excess = e
  OBVIOUS
<1>7. r # 0
  OBVIOUS
<1> HIDE DEF B, X, r
<1>8. Max(X) \in X /\ Max(X) \in Nat \ {0} /\ \A e \in X : e <= Max(X)
  BY <1>4, <1>5, MaxOfNumbers
<1>9. left \in Int /\ left < TotalQuantity(i) /\ TotalQuantity(i) \in Nat
  BY <1>8, IntentFacts
<1> HIDE DEF left
<1>10. r = IF left > 0 THEN left ELSE 0
  <2>1. IsFiniteSet({0, left}) /\ {0, left} \in SUBSET Int /\ {0, left} # {}
    <3>1. IsFiniteSet({0}) /\ IsFiniteSet({left})
      BY FS_Singleton
    <3>2. IsFiniteSet({0} \cup {left})
      BY <3>1, FS_Union
    <3>3. {0, left} = {0} \cup {left}
      OBVIOUS
    <3> QED
      BY <1>9, <3>2, <3>3
  <2>2. Max({0, left}) \in {0, left} /\ \A y \in {0, left} : y <= Max({0, left})
    BY <2>1, MaxOfNumbers
  <2> QED
    BY <1>1, <1>9, <2>2
<1>11. r \in Nat \ {0} /\ r = left
  BY <1>7, <1>9, <1>10
<1>12. \A id \in B : r <= TotalQuantity(i) - E[id].excess
  BY <1>2, <1>6, <1>8, <1>9, <1>11 DEF left
<1>13. \E id \in B : r = TotalQuantity(i) - E[id].excess
  <2>1. PICK id \in B : E[id].excess = Max(X)
    BY <1>6, <1>8
  <2> QED
    BY <1>11, <2>1 DEF left
<1> QED
  BY <1>1, <1>9, <1>11, <1>12, <1>13 DEF B, r

(* What a breach of a limit on size exceeds it by.                         *)
LEMMA ExcessOf ==
    ASSUME NEW i, IsIntent(i), NEW S, IsRiskState(S), IsFiniteSet(Instruments), NEW L, HasLimits(L),
           S.positionByStrategy[i.strategy] \in Int,
           NEW id \in Resizable, EvaluateAll(i, S, L)[id].status = "BREACHED"
    PROVE  EvaluateAll(i, S, L)[id].excess \in Nat \ {0}
<1> DEFINE D == LegsOf(i)
<1>1. /\ IsFiniteSet(D) /\ 1 \in D /\ TotalQuantity(i) \in Nat /\ Quantities(i) \in [D -> Nat]
      /\ \A n \in D : /\ i.legs[n].instrument \in Instruments /\ i.legs[n].quantity \in Nat \ {0}
                      /\ Sign(i.legs[n].side) \in {1, -1}
  BY IntentFacts
<1>3. L[id] \in Int \cup {None}
  BY DEF HasLimits
<1> HIDE DEF D
<1>4. ASSUME NEW f \in [D -> Int]
      PROVE  Max({f[n] : n \in D}) \in Int
  <2> DEFINE X == {f[n] : n \in D}
  <2>1. f \in Surjection(D, X)
    BY DEF Surjection
  <2>2. IsFiniteSet(X)
    BY <1>1, <2>1, FS_Surjection
  <2>3. X \in SUBSET Int /\ X # {}
    BY <1>1
  <2> QED
    BY <2>2, <2>3, MaxOfNumbers
<1>5. CASE id = "max_order_quantity"
  <2>1. id \in OrderLimits
    BY <1>5 DEF OrderLimits
  <2>2. EvaluateAll(i, S, L)[id] = OrderChecks(i, S, L)["max_order_quantity"]
    BY <1>5, <2>1, EveryCheck
  <2>3. OrderChecks(i, S, L)["max_order_quantity"]
          = Check(L.max_order_quantity, {}, Compare(Max(Range(Quantities(i))), L.max_order_quantity))
    BY DEF OrderChecks
  <2>4. /\ L.max_order_quantity # None
        /\ EvaluateAll(i, S, L)[id] = Compare(Max(Range(Quantities(i))), L.max_order_quantity)
    BY <2>2, <2>3, Checked
  <2>5. Range(Quantities(i)) = {Quantities(i)[n] : n \in D} /\ Quantities(i) \in [D -> Int]
    BY <1>1 DEF Range
  <2>6. Max(Range(Quantities(i))) \in Int
    BY <1>4, <2>5
  <2> QED
    BY <1>3, <1>5, <2>4, <2>6, Compared
<1>6. CASE id = "max_position_per_strategy"
  <2> DEFINE observed == S.positionByStrategy[i.strategy] + TotalQuantity(i)
  <2>1. id \in PositionLimits
    BY <1>6 DEF PositionLimits
  <2>2. EvaluateAll(i, S, L)[id] = PositionChecks(i, S, L)["max_position_per_strategy"]
    BY <1>6, <2>1, EveryCheck
  <2>3. PositionChecks(i, S, L)["max_position_per_strategy"]
          = Check(L.max_position_per_strategy, {i.strategy}, Compare(observed, L.max_position_per_strategy))
    BY DEF PositionChecks
  <2>4. observed \in Int
    BY <1>1
  <2> HIDE DEF observed
  <2>5. /\ L.max_position_per_strategy # None
        /\ EvaluateAll(i, S, L)[id] = Compare(observed, L.max_position_per_strategy)
    BY <2>2, <2>3, Checked
  <2> QED
    BY <1>3, <1>6, <2>4, <2>5, Compared
<1>7. CASE id = "max_position_per_underlying"
  <2>1. id \in PositionLimits
    BY <1>7 DEF PositionLimits
  <2>2. EvaluateAll(i, S, L)[id] = PositionChecks(i, S, L)["max_position_per_underlying"]
    BY <1>7, <2>1, EveryCheck
  <2>3. PositionChecks(i, S, L)["max_position_per_underlying"]
          = Check(L.max_position_per_underlying, Underlyings(i, S),
                  Compare(WorstUnderlying(i, S), L.max_position_per_underlying))
    BY DEF PositionChecks
  <2>4. /\ L.max_position_per_underlying # None /\ None \notin Underlyings(i, S)
        /\ EvaluateAll(i, S, L)[id] = Compare(WorstUnderlying(i, S), L.max_position_per_underlying)
    BY <2>2, <2>3, Checked
  <2> DEFINE f == [n \in D |-> InUnderlying(S, S.groups[i.legs[n].instrument].underlying) + i.legs[n].quantity]
  <2>5. f \in [D -> Int]
    <3>1. \A n \in D : InUnderlying(S, S.groups[i.legs[n].instrument].underlying) # None
      BY <2>4 DEF Underlyings, D
    <3>2. \A n \in D : InUnderlying(S, S.groups[i.legs[n].instrument].underlying) \in Int
      BY <3>1, InUnderlyingIsWhole
    <3>3. \A n \in D : InUnderlying(S, S.groups[i.legs[n].instrument].underlying) + i.legs[n].quantity \in Int
      BY <1>1, <3>2
    <3> QED
      BY <3>3
  <2>6. WorstUnderlying(i, S) = Max({f[n] : n \in D})
    <3>1. {f[n] : n \in D} = {InUnderlying(S, S.groups[i.legs[n].instrument].underlying) + i.legs[n].quantity : n \in LegsOf(i)}
      BY DEF D
    <3> QED
      BY <3>1 DEF WorstUnderlying
  <2> HIDE DEF f
  <2>7. WorstUnderlying(i, S) \in Int
    BY <1>4, <2>5, <2>6
  <2> QED
    BY <1>3, <1>7, <2>4, <2>7, Compared
<1>8. CASE id = "max_position_per_instrument"
  <2>1. id \in PositionLimits
    BY <1>8 DEF PositionLimits
  <2>2. EvaluateAll(i, S, L)[id] = PositionChecks(i, S, L)["max_position_per_instrument"]
    BY <1>8, <2>1, EveryCheck
  <2>3. PositionChecks(i, S, L)["max_position_per_instrument"]
          = Check(L.max_position_per_instrument, {},
                  Compare(WorstInstrument(i, S), L.max_position_per_instrument))
    BY DEF PositionChecks
  <2>4. /\ L.max_position_per_instrument # None
        /\ EvaluateAll(i, S, L)[id] = Compare(WorstInstrument(i, S), L.max_position_per_instrument)
    BY <2>2, <2>3, Checked
  <2> DEFINE f == [n \in D |-> AbsInt(S.positions[i.legs[n].instrument] + Sign(i.legs[n].side) * i.legs[n].quantity)]
  <2>5. f \in [D -> Int]
    <3>1. \A n \in D : S.positions[i.legs[n].instrument] + Sign(i.legs[n].side) * i.legs[n].quantity \in Int
      BY <1>1 DEF IsRiskState
    <3> QED
      BY <3>1 DEF AbsInt
  <2>6. WorstInstrument(i, S) = Max({f[n] : n \in D})
    <3>1. {f[n] : n \in D} = {AbsInt(S.positions[i.legs[n].instrument] + Sign(i.legs[n].side) * i.legs[n].quantity) : n \in LegsOf(i)}
      BY DEF D
    <3> QED
      BY <3>1 DEF WorstInstrument
  <2> HIDE DEF f
  <2>7. WorstInstrument(i, S) \in Int
    BY <1>4, <2>5, <2>6
  <2> QED
    BY <1>3, <1>8, <2>4, <2>7, Compared
<1> QED
  BY <1>5, <1>6, <1>7, <1>8 DEF Resizable

(* Of one leg, exactly the quantities that every breach leaves are within  *)
(* the limits.                                                             *)
LEMMA WithinWhatIsLeft ==
    ASSUME NEW i, NEW j, Smaller(j, i), NEW S, IsRiskState(S), IsFiniteSet(Instruments),
           NEW policy, HasLimits(policy.limits), S.positionByStrategy[i.strategy] \in Int,
           WithinBefore(i, S, policy.limits),
           WithStatus(EvaluateAll(i, S, policy.limits), "BREACHED") \subseteq Resizable
    PROVE  WithinLimits(j, S, policy) <=>
             \A id \in WithStatus(EvaluateAll(i, S, policy.limits), "BREACHED") :
                j.legs[1].quantity <= i.legs[1].quantity - EvaluateAll(i, S, policy.limits)[id].excess
<1> DEFINE E == EvaluateAll(i, S, policy.limits)
           F == EvaluateAll(j, S, policy.limits)
           a == i.legs[1].quantity
           b == j.legs[1].quantity
<1>1. DOMAIN E = DOMAIN F /\ Resizable \subseteq DOMAIN E
  BY EveryCheck DEF Resizable, OrderLimits, PositionLimits
<1>2. \A id \in Resizable : Leaves(E[id], F[id], a, b)
  BY SizeLeaves
<1>3. \A id : id \notin Resizable /\ id \in DOMAIN F /\ F[id].status = "BREACHED" => E[id].status = "BREACHED"
  BY SmallerBreachesNoMore
<1>4. WithinLimits(j, S, policy) <=> WithStatus(F, "BREACHED") = {}
  BY DEF WithinLimits
<1>5. WithStatus(E, "BREACHED") \subseteq Resizable
  OBVIOUS
<1>6. a \in Nat /\ b \in Nat
  BY OneLegFacts DEF Smaller
<1> HIDE DEF E, F, a, b
<1>7. ASSUME NEW id \in WithStatus(E, "BREACHED")
      PROVE  id \in Resizable /\ E[id].excess \in Nat \ {0} /\ id \in DOMAIN F
             /\ (F[id].status = "BREACHED" <=> ~(b <= a - E[id].excess))
  <2>1. id \in Resizable /\ E[id].status = "BREACHED" /\ id \in DOMAIN F
    BY <1>1, <1>5 DEF WithStatus
  <2>2. E[id].excess \in Nat \ {0} /\ (F[id].status = "BREACHED" <=> b > a - E[id].excess)
    BY <1>2, <2>1, Zenon DEF Leaves
  <2>3. b > a - E[id].excess <=> ~(b <= a - E[id].excess)
    BY <1>6, <2>2
  <2> QED
    BY <2>1, <2>2, <2>3, Zenon
<1>8. WithStatus(F, "BREACHED") \subseteq WithStatus(E, "BREACHED")
  <2>1. ASSUME NEW id \in WithStatus(F, "BREACHED")
        PROVE  id \in WithStatus(E, "BREACHED")
    <3>1. id \in DOMAIN F /\ id \in DOMAIN E /\ F[id].status = "BREACHED"
      BY <1>1 DEF WithStatus
    <3>2. E[id].status = "BREACHED"
      BY <1>2, <1>3, <3>1, Zenon DEF Leaves
    <3> QED
      BY <3>1, <3>2 DEF WithStatus
  <2> QED
    BY <2>1
<1>9. WithStatus(F, "BREACHED") = {} <=> \A id \in WithStatus(E, "BREACHED") : b <= a - E[id].excess
  <2>1. ASSUME WithStatus(F, "BREACHED") = {}, NEW id \in WithStatus(E, "BREACHED")
        PROVE  b <= a - E[id].excess
    BY <1>7, <2>1 DEF WithStatus
  <2>2. ASSUME NEW id \in WithStatus(F, "BREACHED"),
               \A k \in WithStatus(E, "BREACHED") : b <= a - E[k].excess
        PROVE  FALSE
    <3>1. F[id].status = "BREACHED" /\ id \in WithStatus(E, "BREACHED")
      BY <1>8 DEF WithStatus
    <3> QED
      BY <1>7, <2>2, <3>1
  <2> QED
    BY <2>1, <2>2
<1> QED
  BY <1>4, <1>9 DEF E, F, a, b
-----------------------------------------------------------------------------
(* RiskEngine.evaluate: refused, passed, or cut down; passed or cut down   *)
(* only when all of it could be judged.                                    *)
LEMMA Decided ==
    ASSUME NEW i, NEW S, NEW policy, NEW at, NEW horizon
    PROVE  LET E == EvaluateAll(i, S, policy.limits)
               d == Evaluate(i, S, policy, at, horizon)
           IN  \/ d = Rejected(i, at)
               \/ /\ Judgeable(E) /\ WithStatus(E, "BREACHED") = {}
                  /\ d = [verdict |-> "APPROVED", quantity |-> Quantities(i), until |-> at + policy.validity]
               \/ /\ Judgeable(E) /\ WithStatus(E, "BREACHED") # {} /\ Resize(i, E) # 0
                  /\ d = [verdict |-> "MODIFIED", quantity |-> ScaleLegs(i, Resize(i, E)),
                          until |-> at + policy.validity]
<1> DEFINE E == EvaluateAll(i, S, policy.limits)
           d == Evaluate(i, S, policy, at, horizon)
           resized == IF policy.allowResizing THEN Resize(i, E) ELSE 0
<1>1. d = IF S.knowledgeTime > horizon \/ WithStatus(E, "NOT_EVALUABLE") # {} THEN Rejected(i, at)
          ELSE IF WithStatus(E, "BREACHED") = {}
          THEN [verdict |-> "APPROVED", quantity |-> Quantities(i), until |-> at + policy.validity]
          ELSE IF resized = 0 THEN Rejected(i, at)
          ELSE [verdict |-> "MODIFIED", quantity |-> ScaleLegs(i, resized), until |-> at + policy.validity]
  BY Zenon DEF Evaluate
<1>2. resized # 0 => resized = Resize(i, E)
  OBVIOUS
<1> HIDE DEF E, d, resized
<1>3. \/ d = Rejected(i, at)
      \/ /\ Judgeable(E) /\ WithStatus(E, "BREACHED") = {}
         /\ d = [verdict |-> "APPROVED", quantity |-> Quantities(i), until |-> at + policy.validity]
      \/ /\ Judgeable(E) /\ WithStatus(E, "BREACHED") # {} /\ Resize(i, E) # 0
         /\ d = [verdict |-> "MODIFIED", quantity |-> ScaleLegs(i, Resize(i, E)),
                 until |-> at + policy.validity]
  BY <1>1, <1>2 DEF Judgeable
<1> QED
  BY <1>3 DEF E, d

(* A decision depends on the state only for its checks and its knowledge.  *)
LEMMA SameDecision ==
    ASSUME NEW i, NEW S, NEW T, NEW policy, NEW at, NEW horizon, T.knowledgeTime = S.knowledgeTime,
           EvaluateAll(i, T, policy.limits) = EvaluateAll(i, S, policy.limits)
    PROVE  Evaluate(i, T, policy, at, horizon) = Evaluate(i, S, policy, at, horizon)
BY Zenon DEF Evaluate

(* What the engine may be asked.                                           *)
Askable(i, S, policy) ==
    /\ IsIntent(i) /\ IsRiskState(S) /\ IsFiniteSet(Instruments) /\ HasLimits(policy.limits)
    /\ S.positionByStrategy[i.strategy] \in Int

(* A decision that passes something, taken apart.                          *)
Approves(i, E, d) ==
    Judgeable(E) /\ WithStatus(E, "BREACHED") = {} /\ d.verdict = "APPROVED" /\ d.quantity = Quantities(i)

CutsDown(i, E, d) ==
    /\ Judgeable(E) /\ WithStatus(E, "BREACHED") # {} /\ WithStatus(E, "BREACHED") \subseteq Resizable
    /\ d.verdict = "MODIFIED" /\ d.quantity = ScaleLegs(i, Resize(i, E))
    /\ Resize(i, E) \in Nat \ {0} /\ Resize(i, E) < TotalQuantity(i)
    /\ \A id \in WithStatus(E, "BREACHED") : E[id].excess \in Nat \ {0}
    /\ \A id \in WithStatus(E, "BREACHED") : Resize(i, E) <= TotalQuantity(i) - E[id].excess
    /\ \E id \in WithStatus(E, "BREACHED") : Resize(i, E) = TotalQuantity(i) - E[id].excess

LEMMA PassedOrCut ==
    ASSUME NEW i, NEW S, NEW policy, Askable(i, S, policy), NEW at, NEW horizon, NEW moment,
           IsActionableAt(Evaluate(i, S, policy, at, horizon), moment)
    PROVE  \/ Approves(i, EvaluateAll(i, S, policy.limits), Evaluate(i, S, policy, at, horizon))
           \/ CutsDown(i, EvaluateAll(i, S, policy.limits), Evaluate(i, S, policy, at, horizon))
<1> DEFINE E == EvaluateAll(i, S, policy.limits)
           d == Evaluate(i, S, policy, at, horizon)
           r == Resize(i, E)
<1>1. \/ d = Rejected(i, at)
      \/ /\ Judgeable(E) /\ WithStatus(E, "BREACHED") = {}
         /\ d = [verdict |-> "APPROVED", quantity |-> Quantities(i), until |-> at + policy.validity]
      \/ /\ Judgeable(E) /\ WithStatus(E, "BREACHED") # {} /\ r # 0
         /\ d = [verdict |-> "MODIFIED", quantity |-> ScaleLegs(i, r), until |-> at + policy.validity]
  BY Decided
<1>2. d.verdict \in {"APPROVED", "MODIFIED"}
  BY DEF IsActionableAt
<1>3. \A id \in WithStatus(E, "BREACHED") \cap Resizable : E[id].excess \in Nat \ {0}
  BY ExcessOf DEF Askable, WithStatus
<1>4. IsIntent(i)
  BY DEF Askable
<1> HIDE DEF d, E
<1>5. CASE d = Rejected(i, at)
  BY <1>2, <1>5 DEF Rejected
<1>6. CASE /\ Judgeable(E) /\ WithStatus(E, "BREACHED") = {}
           /\ d = [verdict |-> "APPROVED", quantity |-> Quantities(i), until |-> at + policy.validity]
  BY <1>6 DEF Approves, d, E
<1>7. CASE /\ Judgeable(E) /\ WithStatus(E, "BREACHED") # {} /\ r # 0
           /\ d = [verdict |-> "MODIFIED", quantity |-> ScaleLegs(i, r), until |-> at + policy.validity]
  <2>1. /\ WithStatus(E, "BREACHED") \subseteq Resizable
        /\ r \in Nat \ {0} /\ r < TotalQuantity(i)
        /\ \A id \in WithStatus(E, "BREACHED") : r <= TotalQuantity(i) - E[id].excess
        /\ \E id \in WithStatus(E, "BREACHED") : r = TotalQuantity(i) - E[id].excess
    BY <1>3, <1>4, <1>7, Resized
  <2>2. \A id \in WithStatus(E, "BREACHED") : E[id].excess \in Nat \ {0}
    BY <1>3, <2>1
  <2>3. d.verdict = "MODIFIED" /\ d.quantity = ScaleLegs(i, r)
    BY <1>7
  <2>4. CutsDown(i, E, d)
    BY <1>7, <2>1, <2>2, <2>3, Zenon DEF CutsDown
  <2> QED
    BY <2>4 DEF d, E
<1> QED
  BY <1>1, <1>5, <1>6, <1>7

(* Of one leg the engine passes the largest quantity within the limits.    *)
LEMMA LargestQuantity ==
    ASSUME NEW i, NEW S, NEW policy, Askable(i, S, policy), NEW d,
           Approves(i, EvaluateAll(i, S, policy.limits), d) \/ CutsDown(i, EvaluateAll(i, S, policy.limits), d)
    PROVE  SingleLegGetsTheLargestQuantity(i, S, policy, d.quantity)
<1> SUFFICES ASSUME Len(i.legs) = 1, WithinBefore(i, S, policy.limits), NEW more \in {0, 1},
                    more = 0 \/ d.quantity[1] < i.legs[1].quantity
             PROVE  WithinLimits(AsApproved(i, <<d.quantity[1] + more>>), S, policy) <=> more = 0
  BY DEF SingleLegGetsTheLargestQuantity, SingleLeg
<1> DEFINE E == EvaluateAll(i, S, policy.limits)
           B == WithStatus(E, "BREACHED")
           a == i.legs[1].quantity
           q == d.quantity[1]
           j == AsApproved(i, <<q + more>>)
<1>1. /\ a \in Nat \ {0} /\ TotalQuantity(i) = a /\ LegsOf(i) = {1}
      /\ IsIntent(i) /\ IsRiskState(S) /\ IsFiniteSet(Instruments) /\ HasLimits(policy.limits)
      /\ S.positionByStrategy[i.strategy] \in Int
  BY OneLegFacts DEF Askable
<1>2. CASE Approves(i, E, d)
  <2>1. B = {} /\ q = a
    BY <1>1, <1>2 DEF Approves, Quantities
  <2>2. more = 0 /\ q + more = a /\ q + more \in 1 .. a
    BY <1>1, <2>1
  <2>3. Smaller(j, i) /\ j.legs[1].quantity = q + more
    BY <1>1, <2>2, OneLegApproved
  <2> HIDE DEF j, q, B
  <2>4. WithinLimits(j, S, policy) <=> \A id \in B : j.legs[1].quantity <= a - E[id].excess
    BY <1>1, <2>1, <2>3, WithinWhatIsLeft DEF B
  <2>5. WithinLimits(j, S, policy)
    BY <2>1, <2>4
  <2> QED
    BY <2>2, <2>5 DEF j, q
<1>3. CASE CutsDown(i, E, d)
  <2> DEFINE r == Resize(i, E)
  <2>1. /\ B \subseteq Resizable /\ r \in Nat \ {0} /\ r < a /\ d.quantity = ScaleLegs(i, r)
        /\ \A id \in B : E[id].excess \in Nat \ {0}
        /\ \A id \in B : r <= a - E[id].excess
        /\ \E id \in B : r = a - E[id].excess
    BY <1>1, <1>3 DEF CutsDown
  <2> HIDE DEF r
  <2>2. q = r
    <3>1. ScaleLegs(i, r) \in [{1} -> Nat] /\ TotalOf(ScaleLegs(i, r)) = r
      BY <1>1, <2>1, LegsShare
    <3>2. DOMAIN ScaleLegs(i, r) = {1} /\ ScaleLegs(i, r)[1] \in Int
      BY <3>1
    <3> QED
      BY <2>1, <3>1, <3>2, TotalOfOne
  <2>3. q + more \in 1 .. a
    BY <1>1, <2>1, <2>2
  <2>4. Smaller(j, i) /\ j.legs[1].quantity = q + more
    BY <1>1, <2>3, OneLegApproved
  <2> HIDE DEF j, q, B
  <2>5. WithinLimits(j, S, policy) <=> \A id \in B : j.legs[1].quantity <= a - E[id].excess
    BY <1>1, <2>1, <2>4, WithinWhatIsLeft DEF B
  <2> HIDE DEF E, a
  <2>6. (\A id \in B : q + more <= a - E[id].excess) <=> more = 0
    <3>1. CASE more = 0
      BY <2>1, <2>2, <3>1
    <3>2. CASE more = 1
      <4>1. PICK id \in B : r = a - E[id].excess
        BY <2>1
      <4>2. ~(q + more <= a - E[id].excess)
        BY <2>1, <2>2, <3>2, <4>1
      <4> QED
        BY <3>2, <4>2
    <3> QED
      BY <3>1, <3>2
  <2> QED
    BY <2>4, <2>5, <2>6 DEF j, q, a
<1> QED
  BY <1>2, <1>3

(* What the engine passes is shared out fairly.                            *)
LEMMA FairShares ==
    ASSUME NEW i, NEW S, NEW policy, Askable(i, S, policy), NEW d,
           Approves(i, EvaluateAll(i, S, policy.limits), d) \/ CutsDown(i, EvaluateAll(i, S, policy.limits), d)
    PROVE  LegsShareTheReduction(i, S, policy, d)
<1> DEFINE E == EvaluateAll(i, S, policy.limits)
           total == TotalQuantity(i)
           q == d.quantity
           r == Resize(i, E)
<1>1. /\ IsIntent(i) /\ total \in Nat \ {0}
      /\ \A n \in LegsOf(i) : i.legs[n].quantity \in Nat \ {0}
  BY IntentFacts DEF Askable
<1>2. CASE Approves(i, E, d)
  <2>1. q = Quantities(i) /\ TotalOf(q) = total /\ d.verdict = "APPROVED"
    BY <1>2 DEF Approves, TotalQuantity
  <2>2. ASSUME NEW n \in LegsOf(i)
        PROVE  /\ q[n] \in 0 .. i.legs[n].quantity
               /\ AbsInt(q[n] * total - i.legs[n].quantity * total) <= total
    <3> DEFINE asked == i.legs[n].quantity
               product == asked * total
    <3>1. q[n] = asked /\ asked \in Nat /\ total \in Nat
      BY <1>1, <2>1 DEF Quantities
    <3> HIDE DEF asked, q, total
    <3>2. product \in Int
      BY <3>1
    <3> HIDE DEF product
    <3>3. product - product = 0 /\ AbsInt(0) = 0 /\ 0 <= total
      BY <3>1, <3>2 DEF AbsInt
    <3>4. AbsInt(q[n] * total - asked * total) = 0
      BY <3>1, <3>3 DEF product
    <3> QED
      BY <3>1, <3>3, <3>4 DEF asked
  <2> HIDE DEF total, q
  <2> QED
    BY <1>1, <2>1, <2>2 DEF LegsShareTheReduction, total, q
<1>3. CASE CutsDown(i, E, d)
  <2>1. r \in Nat \ {0} /\ r < total /\ q = ScaleLegs(i, r) /\ d.verdict = "MODIFIED"
    BY <1>3 DEF CutsDown
  <2> HIDE DEF r
  <2>2. /\ TotalOf(q) = r
        /\ \A n \in LegsOf(i) : /\ q[n] \in 0 .. i.legs[n].quantity
                                /\ AbsInt(q[n] * total - i.legs[n].quantity * r) <= total
    BY <1>1, <2>1, LegsShare
  <2> HIDE DEF total, q
  <2> QED
    BY <2>1, <2>2 DEF LegsShareTheReduction, total, q, r
<1> QED
  BY <1>2, <1>3

(* RiskEngine.evaluate, for any intent, state and policy, and whatever     *)
(* becomes known: the largest quantity of one leg, the fair share of       *)
(* several, and the decision that any value of what is missing would have  *)
(* given.                                                                  *)
THEOREM AnyJudgementIsSound ==
    ASSUME NEW i, NEW S, NEW policy, Askable(i, S, policy), GroupsAreKnown(S, policy.limits),
           NEW knowing,
           \A T \in knowing :
              \/ \E x \in Instruments : \E p : S.marks[x] = None /\ T = [S EXCEPT !.marks[x] = p]
              \/ \E x \in Instruments : \E u : S.groups[x].underlying = None /\ T = [S EXCEPT !.groups[x].underlying = u]
              \/ \E g \in Greeks : \E v : S.greeks[g] = None /\ T = [S EXCEPT !.greeks[g] = v]
    PROVE  JudgementIsSound(i, S, policy, knowing)
<1> DEFINE On(state) == Evaluate(i, state, policy, S.asOf, S.knowledgeTime)
           E == EvaluateAll(i, S, policy.limits)
<1>1. SUFFICES ASSUME IsActionableAt(On(S), S.asOf)
               PROVE  /\ SingleLegGetsTheLargestQuantity(i, S, policy, On(S).quantity)
                      /\ LegsShareTheReduction(i, S, policy, On(S))
                      /\ \A T \in knowing : On(T) = On(S)
  BY Zenon DEF JudgementIsSound
<1>2. Approves(i, E, On(S)) \/ CutsDown(i, E, On(S))
  BY <1>1, PassedOrCut
<1>3. Judgeable(E)
  BY <1>2 DEF Approves, CutsDown
<1>4. /\ SingleLegGetsTheLargestQuantity(i, S, policy, On(S).quantity)
      /\ LegsShareTheReduction(i, S, policy, On(S))
  <2> HIDE DEF On
  <2> QED
    BY <1>2, LargestQuantity, FairShares
<1>5. ASSUME NEW T \in knowing
      PROVE  On(T) = On(S)
  <2>1. IsIntent(i) /\ IsRiskState(S)
    BY DEF Askable
  <2>2. CASE \E x \in Instruments : \E p : S.marks[x] = None /\ T = [S EXCEPT !.marks[x] = p]
    <3>1. PICK x \in Instruments : \E p : S.marks[x] = None /\ T = [S EXCEPT !.marks[x] = p]
      BY <2>2
    <3>2. PICK p : S.marks[x] = None /\ T = [S EXCEPT !.marks[x] = p]
      BY <3>1
    <3>3. EvaluateAll(i, T, policy.limits) = E
      BY <1>3, <2>1, <3>2, MarkChangesNothing
    <3>4. T.knowledgeTime = S.knowledgeTime
      BY <2>1, <3>2 DEF IsRiskState
    <3> QED
      BY <3>3, <3>4, SameDecision
  <2>3. CASE \E x \in Instruments : \E u : S.groups[x].underlying = None /\ T = [S EXCEPT !.groups[x].underlying = u]
    <3>1. PICK x \in Instruments : \E u : S.groups[x].underlying = None /\ T = [S EXCEPT !.groups[x].underlying = u]
      BY <2>3
    <3>2. PICK u : S.groups[x].underlying = None /\ T = [S EXCEPT !.groups[x].underlying = u]
      BY <3>1
    <3>3. EvaluateAll(i, T, policy.limits) = E
      <4> DEFINE L == policy.limits
      <4>1. /\ IsIntent(i) /\ IsRiskState(S) /\ GroupsAreKnown(S, L) /\ x \in Instruments
            /\ S.groups[x].underlying = None
        BY <2>1, <3>2
      <4>2. Judgeable(EvaluateAll(i, S, L))
        BY <1>3
      <4> HIDE DEF L
      <4>3. EvaluateAll(i, [S EXCEPT !.groups[x].underlying = u], L) = EvaluateAll(i, S, L)
        BY <4>1, <4>2, GroupChangesNothing
      <4> QED
        BY <3>2, <4>3 DEF L
    <3>4. T.knowledgeTime = S.knowledgeTime
      BY <2>1, <3>2 DEF IsRiskState
    <3> QED
      BY <3>3, <3>4, SameDecision
  <2>4. CASE \E g \in Greeks : \E v : S.greeks[g] = None /\ T = [S EXCEPT !.greeks[g] = v]
    <3>1. PICK g \in Greeks : \E v : S.greeks[g] = None /\ T = [S EXCEPT !.greeks[g] = v]
      BY <2>4
    <3>2. PICK v : S.greeks[g] = None /\ T = [S EXCEPT !.greeks[g] = v]
      BY <3>1
    <3>3. EvaluateAll(i, T, policy.limits) = E
      BY <1>3, <2>1, <3>2, GreekChangesNothing
    <3>4. T.knowledgeTime = S.knowledgeTime
      BY <2>1, <3>2 DEF IsRiskState
    <3> QED
      BY <3>3, <3>4, SameDecision
  <2> QED
    BY <2>2, <2>3, <2>4
<1> QED
  BY <1>4, <1>5
=============================================================================
