---------------------------- MODULE LedgerProofs ----------------------------
(***************************************************************************)
(* What the proofs about accounts need of numbers, of totals over a set,   *)
(* of fractions and of a ledger rebuilt from its fills.                    *)
(*                                                                         *)
(* Totals, the greatest common divisor and replays are recursions, and the *)
(* provers have no induction: the least of a set of numbers (LeastNumber), *)
(* or the smallest of some subsets (LeastSet), takes its place.            *)
(***************************************************************************)
EXTENDS Ledger, FiniteSetTheorems, WellFoundedInduction, TLAPS

LEMMA LeastNumber ==
    ASSUME NEW T \in SUBSET Nat, T # {}
    PROVE  \E x \in T : \A y \in T : x <= y
<1>1. PICK x \in T : \A y \in T : ~(<<y, x>> \in OpToRel(<, Nat))
  BY NatLessThanWellFounded, WFMin
<1>2. \A y \in T : ~(y < x)
  BY <1>1 DEF OpToRel
<1> QED
  BY <1>2

(* Of some subsets of a finite set, one has the fewest elements.           *)
LEMMA LeastSet ==
    ASSUME NEW S, IsFiniteSet(S), NEW Sets \in SUBSET SUBSET S, Sets # {}
    PROVE  \E B \in Sets : \A C \in Sets : Cardinality(B) <= Cardinality(C)
<1> DEFINE T == {Cardinality(B) : B \in Sets}
<1>1. T \in SUBSET Nat /\ T # {}
  BY FS_Subset, FS_CardinalityType
<1>2. PICK n \in T : \A k \in T : n <= k
  <2> HIDE DEF T
  <2> QED
    BY <1>1, LeastNumber
<1> QED
  BY <1>2

(* Every finite set of integers has a greatest one.                        *)
LEMMA MaxOfNumbers ==
    ASSUME NEW S \in SUBSET Int, IsFiniteSet(S), S # {}
    PROVE  Max(S) \in S /\ \A y \in S : y <= Max(S)
<1> DEFINE Bad == {B \in SUBSET S : B # {} /\ ~(\E m \in B : \A y \in B : m >= y)}
<1>1. SUFFICES ASSUME Bad # {} PROVE FALSE
  <2>1. \E m \in S : \A y \in S : m >= y
    BY <1>1
  <2> QED
    BY <2>1 DEF Max
<1>2. PICK B \in Bad : \A C \in Bad : Cardinality(B) <= Cardinality(C)
  <2>1. Bad \in SUBSET SUBSET S
    OBVIOUS
  <2> HIDE DEF Bad
  <2> QED
    BY <1>1, <2>1, LeastSet
<1>3. PICK x : x \in B
  OBVIOUS
<1>4. Cardinality(B \ {x}) = Cardinality(B) - 1 /\ Cardinality(B) \in Nat
  BY <1>3, FS_Subset, FS_RemoveElement, FS_CardinalityType
<1>5. B \ {x} \notin Bad
  <2> HIDE DEF Bad
  <2> QED
    BY <1>2, <1>4
<1>6. CASE B \ {x} = {}
  <2>1. B = {x} /\ x \in Int
    BY <1>3, <1>6
  <2> QED
    BY <2>1
<1>7. CASE B \ {x} # {}
  <2>1. PICK m \in B \ {x} : \A y \in B \ {x} : m >= y
    BY <1>5, <1>7
  <2>2. m \in Int /\ x \in Int /\ \A y \in B : y \in Int
    BY <1>3
  <2>3. \A y \in B : (IF m >= x THEN m ELSE x) >= y
    BY <2>1, <2>2
  <2> QED
    BY <1>3, <2>1, <2>3
<1> QED
  BY <1>6, <1>7

(* A finite function has finitely many values.                            *)
LEMMA RangeIsFinite ==
    ASSUME NEW q, IsFiniteSet(DOMAIN q)
    PROVE  IsFiniteSet({q[x] : x \in DOMAIN q})
<1> DEFINE X == {q[x] : x \in DOMAIN q}
           g == [x \in DOMAIN q |-> q[x]]
<1>1. g \in Surjection(DOMAIN q, X)
  BY DEF Surjection
<1> QED
  BY <1>1, FS_Surjection

(* And a lowest one.                                                       *)
LEMMA MinOfNumbers ==
    ASSUME NEW S \in SUBSET Int, IsFiniteSet(S), S # {}
    PROVE  Min(S) \in S /\ \A y \in S : Min(S) <= y
<1> DEFINE opposite == [x \in S |-> -x]
           N == {opposite[x] : x \in DOMAIN opposite}
<1>1. IsFiniteSet(N)
  <2>1. IsFiniteSet(DOMAIN opposite)
    OBVIOUS
  <2> HIDE DEF opposite
  <2> QED
    BY <2>1, RangeIsFinite
<1>3. N = {-x : x \in S}
  OBVIOUS
<1> HIDE DEF N
<1>2. N \in SUBSET Int /\ N # {}
  <2>1. PICK x : x \in S
    OBVIOUS
  <2>2. -x \in N
    BY <1>3, <2>1
  <2>3. \A y \in N : y \in Int
    BY <1>3
  <2> QED
    BY <2>2, <2>3
<1>4. Max(N) \in N /\ \A y \in N : y <= Max(N)
  BY <1>1, <1>2, MaxOfNumbers
<1>5. PICK m \in S : Max(N) = -m
  BY <1>3, <1>4
<1>6. \A y \in S : m <= y
  <2> TAKE y \in S
  <2>1. -y \in N
    BY <1>3
  <2>2. -y <= -m
    BY <1>4, <1>5, <2>1
  <2> QED
    BY <2>2
<1>7. \E x \in S : \A y \in S : x <= y
  BY <1>6
<1> QED
  BY <1>7 DEF Min

-----------------------------------------------------------------------------
Picked(s) == CHOOSE x \in s : TRUE

(* Numbers are added up, and fractions.                                    *)
Nothing(kind) == IF kind = "numbers" THEN 0 ELSE Whole(0)

Added(kind, x, acc) == IF kind = "numbers" THEN x + acc ELSE Plus(acc, x)

OneSum(kind, f, g, s) ==
    IF s = {} THEN Nothing(kind) ELSE Added(kind, f[Picked(s)], g[s \ {Picked(s)}])

(* The partial sums of f over the subsets of S of at most n elements.      *)
IsSum(kind, f, S, n, g) == g = [s \in {t \in SUBSET S : Cardinality(t) <= n} |-> OneSum(kind, f, g, s)]

LEMMA WithoutPicked ==
    ASSUME NEW s, IsFiniteSet(s), s # {}
    PROVE  /\ Picked(s) \in s /\ IsFiniteSet(s \ {Picked(s)})
           /\ Cardinality(s) \in Nat /\ Cardinality(s) > 0
           /\ Cardinality(s \ {Picked(s)}) = Cardinality(s) - 1
<1>1. Picked(s) \in s
  BY DEF Picked
<1> QED
  BY <1>1, FS_CardinalityType, FS_EmptySet, FS_RemoveElement

LEMMA SumExists ==
    ASSUME NEW kind, NEW f, NEW S, IsFiniteSet(S), NEW m \in Nat
    PROVE  \E g : IsSum(kind, f, S, m, g)
<1> DEFINE T == {k \in Nat : ~(\E g : IsSum(kind, f, S, k, g))}
<1> SUFFICES ASSUME T # {} PROVE FALSE
  OBVIOUS
<1>0. \A s \in SUBSET S : IsFiniteSet(s) /\ Cardinality(s) \in Nat /\ (Cardinality(s) = 0 <=> s = {})
  BY FS_Subset, FS_CardinalityType, FS_EmptySet
<1>1. PICK k \in T : \A j \in T : k <= j
  <2>1. T \in SUBSET Nat
    OBVIOUS
  <2> HIDE DEF T
  <2> QED
    BY <2>1, LeastNumber
<1>2. k # 0
  <2> DEFINE z == [s \in {t \in SUBSET S : Cardinality(t) <= 0} |-> Nothing(kind)]
  <2>1. \A s \in {t \in SUBSET S : Cardinality(t) <= 0} : s = {}
    BY <1>0
  <2>2. IsSum(kind, f, S, 0, z)
    BY <2>1 DEF IsSum, OneSum
  <2> QED
    BY <1>1, <2>2
<1>3. k - 1 \in Nat /\ k - 1 \notin T
  BY <1>1, <1>2
<1>4. PICK g : IsSum(kind, f, S, k - 1, g)
  BY <1>3
<1> DEFINE Small == {t \in SUBSET S : Cardinality(t) <= k - 1}
<1> DEFINE h == [s \in {t \in SUBSET S : Cardinality(t) <= k} |-> OneSum(kind, f, g, s)]
<1>5. ASSUME NEW s \in {t \in SUBSET S : Cardinality(t) <= k}
      PROVE  OneSum(kind, f, g, s) = OneSum(kind, f, h, s)
  <2>1. CASE s = {}
    BY <2>1 DEF OneSum
  <2>2. CASE s # {}
    <3> DEFINE r == s \ {Picked(s)}
    <3>1. r \in Small
      BY <2>2, <1>0, <1>1, WithoutPicked
    <3>2. g[r] = OneSum(kind, f, g, r)
      BY <3>1, <1>4 DEF IsSum
    <3>3. r \in {t \in SUBSET S : Cardinality(t) <= k}
      BY <3>1, <1>0, <1>1
    <3>4. h[r] = OneSum(kind, f, g, r)
      BY <3>3
    <3> QED
      BY <3>2, <3>4 DEF OneSum
  <2> QED
    BY <2>1, <2>2
<1>6. IsSum(kind, f, S, k, h)
  BY <1>5 DEF IsSum
<1> QED
  BY <1>1, <1>6

(* Partial sums of functions that agree agree.                             *)
LEMMA SumUnique ==
    ASSUME NEW kind, NEW e, NEW f, NEW R, NEW S, IsFiniteSet(S), R \subseteq S, \A x \in R : e[x] = f[x],
           NEW m \in Nat, NEW n \in Nat, m <= n,
           NEW g, IsSum(kind, e, R, m, g), NEW h, IsSum(kind, f, S, n, h),
           NEW s \in SUBSET R, Cardinality(s) <= m
    PROVE  g[s] = h[s]
<1> DEFINE T == {k \in Nat : k <= m /\ \E t \in SUBSET R : Cardinality(t) = k /\ g[t] # h[t]}
<1>0. \A t \in SUBSET R : t \in SUBSET S /\ IsFiniteSet(t) /\ Cardinality(t) \in Nat
  BY FS_Subset, FS_CardinalityType
<1> SUFFICES ASSUME T # {} PROVE FALSE
  BY <1>0
<1>1. PICK k \in T : \A j \in T : k <= j
  <2>1. T \in SUBSET Nat
    OBVIOUS
  <2> HIDE DEF T
  <2> QED
    BY <2>1, LeastNumber
<1>2. PICK t \in SUBSET R : Cardinality(t) = k /\ g[t] # h[t]
  BY <1>1
<1>3. g[t] = OneSum(kind, e, g, t) /\ h[t] = OneSum(kind, f, h, t)
  <2>1. Cardinality(t) \in Nat /\ Cardinality(t) <= m /\ Cardinality(t) <= n
    BY <1>0, <1>1, <1>2
  <2>2. g[t] = OneSum(kind, e, g, t)
    BY <2>1, Zenon DEF IsSum
  <2>3. h[t] = OneSum(kind, f, h, t)
    BY <1>0, <2>1, Zenon DEF IsSum
  <2> QED
    BY <2>2, <2>3
<1>4. t # {}
  <2>1. SUFFICES ASSUME t = {} PROVE g[t] = h[t]
    BY <1>2
  <2> QED
    BY <2>1, <1>3 DEF OneSum
<1> DEFINE r == t \ {Picked(t)}
<1>5. /\ Picked(t) \in t /\ r \in SUBSET R
      /\ Cardinality(r) = k - 1 /\ k - 1 \in Nat
  BY <1>0, <1>2, <1>4, WithoutPicked
<1>6. g[r] = h[r]
  <2>1. k - 1 \notin T
    BY <1>1, <1>5
  <2> QED
    BY <2>1, <1>1, <1>5
<1>7. e[Picked(t)] = f[Picked(t)]
  BY <1>5
<1>8. OneSum(kind, e, g, t) = OneSum(kind, f, h, t)
  BY <1>4, <1>6, <1>7, Zenon DEF OneSum
<1> QED
  BY <1>2, <1>3, <1>8

SumOfKind(kind, f) == IF kind = "numbers" THEN TotalOf(f) ELSE SumOf(f)

LEMMA TotalIs ==
    ASSUME NEW kind \in {"numbers", "fractions"}, NEW f, IsFiniteSet(DOMAIN f)
    PROVE  \E g : /\ IsSum(kind, f, DOMAIN f, Cardinality(DOMAIN f), g)
                  /\ SumOfKind(kind, f) = g[DOMAIN f]
<1> DEFINE S == DOMAIN f
<1> DEFINE Numbers(g) == g = [s \in SUBSET S |-> IF s = {} THEN 0
                                ELSE f[CHOOSE x \in s : TRUE] + g[s \ {CHOOSE x \in s : TRUE}]]
<1> DEFINE Fractions(g) == g = [s \in SUBSET S |-> IF s = {} THEN Whole(0)
                                  ELSE Plus(g[s \ {CHOOSE x \in s : TRUE}], f[CHOOSE x \in s : TRUE])]
<1>1. {t \in SUBSET S : Cardinality(t) <= Cardinality(S)} = SUBSET S
  <2>1. \A s \in SUBSET S : Cardinality(s) <= Cardinality(S)
    BY FS_Subset
  <2> QED
    BY <2>1
<1>2. PICK g : IsSum(kind, f, S, Cardinality(S), g)
  <2>1. Cardinality(S) \in Nat
    BY FS_CardinalityType
  <2> QED
    BY <2>1, SumExists
<1>3. CASE kind = "numbers"
  <2>1. ASSUME NEW h
        PROVE  IsSum(kind, f, S, Cardinality(S), h) <=> Numbers(h)
    BY <1>1, <1>3, Zenon DEF IsSum, OneSum, Nothing, Added, Picked
  <2> DEFINE iter == CHOOSE h : Numbers(h)
  <2>2. TotalOf(f) = iter[S]
    BY Zenon DEF TotalOf, MapThenSumSet, MapThenFoldSet
  <2> HIDE DEF Numbers
  <2>3. Numbers(iter)
    BY <1>2, <2>1
  <2>4. IsSum(kind, f, S, Cardinality(S), iter)
    BY <2>1, <2>3
  <2> QED
    BY <1>3, <2>2, <2>4 DEF SumOfKind
<1>4. CASE kind = "fractions"
  <2>1. ASSUME NEW h
        PROVE  IsSum(kind, f, S, Cardinality(S), h) <=> Fractions(h)
    BY <1>1, <1>4, Zenon DEF IsSum, OneSum, Nothing, Added, Picked
  <2> DEFINE iter == CHOOSE h : Fractions(h)
  <2>2. SumOf(f) = iter[S]
    BY Zenon DEF SumOf, FoldSet, MapThenFoldSet
  <2> HIDE DEF Fractions
  <2>3. Fractions(iter)
    BY <1>2, <2>1
  <2>4. IsSum(kind, f, S, Cardinality(S), iter)
    BY <2>1, <2>3
  <2> QED
    BY <1>4, <2>2, <2>4 DEF SumOfKind
<1> QED
  BY <1>3, <1>4

LEMMA SumOfNothing ==
    ASSUME NEW kind \in {"numbers", "fractions"}, NEW f, DOMAIN f = {}
    PROVE  SumOfKind(kind, f) = Nothing(kind)
<1>1. PICK g : /\ IsSum(kind, f, DOMAIN f, Cardinality(DOMAIN f), g)
               /\ SumOfKind(kind, f) = g[DOMAIN f]
  BY TotalIs, FS_EmptySet
<1>2. DOMAIN f \in {t \in SUBSET DOMAIN f : Cardinality(t) <= Cardinality(DOMAIN f)}
  BY FS_EmptySet
<1>3. g[DOMAIN f] = OneSum(kind, f, g, DOMAIN f)
  BY <1>1, <1>2, Zenon DEF IsSum
<1> QED
  BY <1>1, <1>3 DEF OneSum

Without(f, x) == [y \in DOMAIN f \ {x} |-> f[y]]

(* The total is one of the values and the total of the others.             *)
LEMMA SumOfSome ==
    ASSUME NEW kind \in {"numbers", "fractions"}, NEW f, IsFiniteSet(DOMAIN f), DOMAIN f # {}
    PROVE  SumOfKind(kind, f) = Added(kind, f[Picked(DOMAIN f)], SumOfKind(kind, Without(f, Picked(DOMAIN f))))
<1> DEFINE S == DOMAIN f
<1> DEFINE x == Picked(S)
<1> DEFINE e == Without(f, x)
<1> DEFINE R == S \ {x}
<1>1. /\ x \in S /\ IsFiniteSet(R) /\ Cardinality(R) = Cardinality(S) - 1
      /\ Cardinality(S) \in Nat /\ Cardinality(R) \in Nat
  BY WithoutPicked, FS_CardinalityType
<1>2. DOMAIN e = R /\ \A y \in R : e[y] = f[y]
  BY DEF Without
<1>3. PICK h : IsSum(kind, f, S, Cardinality(S), h) /\ SumOfKind(kind, f) = h[S]
  BY TotalIs
<1>4. PICK g : IsSum(kind, e, R, Cardinality(R), g) /\ SumOfKind(kind, e) = g[R]
  BY <1>1, <1>2, TotalIs
<1>5. g[R] = h[R]
  <2>1. /\ IsFiniteSet(S) /\ R \subseteq S /\ Cardinality(R) <= Cardinality(S) /\ R \in SUBSET R
        /\ \A y \in R : e[y] = f[y]
        /\ IsSum(kind, e, R, Cardinality(R), g) /\ IsSum(kind, f, S, Cardinality(S), h)
    BY <1>1, <1>2, <1>3, <1>4
  <2> HIDE DEF e, x, R, S
  <2> QED
    BY <1>1, <2>1, SumUnique, SMTT(60)
<1>6. S \in {t \in SUBSET S : Cardinality(t) <= Cardinality(S)}
  BY <1>1
<1>7. h[S] = OneSum(kind, f, h, S)
  BY <1>3, <1>6, Zenon DEF IsSum
<1>8. OneSum(kind, f, h, S) = Added(kind, f[x], h[R])
  BY Zenon DEF OneSum
<1> QED
  BY <1>3, <1>4, <1>5, <1>7, <1>8

LEMMA TotalOfNothing ==
    ASSUME NEW f, DOMAIN f = {}
    PROVE  TotalOf(f) = 0 /\ SumOf(f) = Whole(0)
BY SumOfNothing DEF SumOfKind, Nothing

LEMMA TotalOfSome ==
    ASSUME NEW f, IsFiniteSet(DOMAIN f), DOMAIN f # {}
    PROVE  /\ TotalOf(f) = f[Picked(DOMAIN f)] + TotalOf(Without(f, Picked(DOMAIN f)))
           /\ SumOf(f) = Plus(SumOf(Without(f, Picked(DOMAIN f))), f[Picked(DOMAIN f)])
<1>1. SumOfKind("numbers", f) = Added("numbers", f[Picked(DOMAIN f)], SumOfKind("numbers", Without(f, Picked(DOMAIN f))))
  BY SumOfSome
<1>2. SumOfKind("fractions", f) = Added("fractions", f[Picked(DOMAIN f)], SumOfKind("fractions", Without(f, Picked(DOMAIN f))))
  BY SumOfSome
<1> QED
  BY <1>1, <1>2 DEF SumOfKind, Added

LEMMA TotalOfIntegers ==
    ASSUME NEW S, IsFiniteSet(S), NEW f \in [S -> Int]
    PROVE  TotalOf(f) \in Int
<1> DEFINE Bad == {B \in SUBSET S : \E e \in [B -> Int] : TotalOf(e) \notin Int}
<1> SUFFICES ASSUME Bad # {} PROVE FALSE
  OBVIOUS
<1>1. PICK B \in Bad : \A C \in Bad : Cardinality(B) <= Cardinality(C)
  <2>1. Bad \in SUBSET SUBSET S
    OBVIOUS
  <2> HIDE DEF Bad
  <2> QED
    BY <2>1, LeastSet
<1>2. IsFiniteSet(B)
  BY FS_Subset
<1>3. PICK e \in [B -> Int] : TotalOf(e) \notin Int
  OBVIOUS
<1>4. B # {}
  BY <1>3, TotalOfNothing
<1> DEFINE x == Picked(B)
<1>5. /\ x \in B /\ Cardinality(B \ {x}) = Cardinality(B) - 1 /\ Cardinality(B) \in Nat
  BY <1>2, <1>4, WithoutPicked
<1>6. B \ {x} \notin Bad
  <2> HIDE DEF Bad
  <2> QED
    BY <1>1, <1>5
<1>7. Without(e, x) \in [B \ {x} -> Int] /\ e[x] \in Int
  BY <1>5 DEF Without
<1>8. TotalOf(Without(e, x)) \in Int
  BY <1>6, <1>7
<1>9. TotalOf(e) = e[x] + TotalOf(Without(e, x))
  BY <1>2, <1>4, TotalOfSome
<1> QED
  BY <1>3, <1>7, <1>8, <1>9

(* A function changed in one place has its total changed by as much.       *)
LEMMA TotalOfOneChange ==
    ASSUME NEW S, IsFiniteSet(S), NEW f \in [S -> Int], NEW g \in [S -> Int], NEW a \in S,
           \A y \in S \ {a} : f[y] = g[y]
    PROVE  TotalOf(g) = TotalOf(f) + g[a] - f[a]
<1> DEFINE Bad == {B \in SUBSET S : \E d \in [B -> Int], e \in [B -> Int] :
                      /\ \A y \in B \ {a} : d[y] = e[y]
                      /\ TotalOf(e) # TotalOf(d) + IF a \in B THEN e[a] - d[a] ELSE 0}
<1> SUFFICES ASSUME Bad # {} PROVE FALSE
  <2>1. S \notin Bad
    OBVIOUS
  <2>2. TotalOf(g) \in Int /\ TotalOf(f) \in Int
    BY TotalOfIntegers
  <2> QED
    BY <2>1, <2>2
<1>1. PICK B \in Bad : \A C \in Bad : Cardinality(B) <= Cardinality(C)
  <2>1. Bad \in SUBSET SUBSET S
    OBVIOUS
  <2> HIDE DEF Bad
  <2> QED
    BY <2>1, LeastSet
<1>2. IsFiniteSet(B)
  BY FS_Subset
<1>3. PICK d \in [B -> Int], e \in [B -> Int] :
         /\ \A y \in B \ {a} : d[y] = e[y]
         /\ TotalOf(e) # TotalOf(d) + IF a \in B THEN e[a] - d[a] ELSE 0
  OBVIOUS
<1>4. B # {}
  <2>1. SUFFICES ASSUME B = {} PROVE FALSE
    OBVIOUS
  <2>2. TotalOf(d) = 0 /\ TotalOf(e) = 0 /\ a \notin B
    BY <2>1, TotalOfNothing
  <2> QED
    BY <2>2, <1>3
<1> DEFINE x == Picked(B)
<1> DEFINE C == B \ {x}
<1>5. /\ x \in B /\ Cardinality(C) = Cardinality(B) - 1 /\ Cardinality(B) \in Nat
      /\ C \in SUBSET S
  BY <1>2, <1>4, WithoutPicked
<1>6. C \notin Bad
  <2> HIDE DEF Bad, C
  <2> QED
    BY <1>1, <1>5
<1> DEFINE u == Without(d, x)
<1> DEFINE v == Without(e, x)
<1>7. /\ u \in [C -> Int] /\ v \in [C -> Int] /\ d[x] \in Int /\ e[x] \in Int
      /\ \A y \in C : u[y] = d[y] /\ v[y] = e[y]
  BY <1>5 DEF Without
<1>8. TotalOf(v) = TotalOf(u) + IF a \in C THEN v[a] - u[a] ELSE 0
  <2> HIDE DEF u, v, x
  <2> QED
    BY <1>3, <1>5, <1>6, <1>7
<1>9. TotalOf(d) = d[x] + TotalOf(u) /\ TotalOf(e) = e[x] + TotalOf(v)
  BY <1>2, <1>4, TotalOfSome
<1>10. IsFiniteSet(C)
  BY <1>2, FS_RemoveElement
<1>11. TotalOf(u) \in Int /\ TotalOf(v) \in Int
  BY <1>7, <1>10, TotalOfIntegers
<1> HIDE DEF u, v, x
<1>12. CASE a = x
  <2>1. a \in B /\ a \notin C
    BY <1>5, <1>12
  <2> QED
    BY <2>1, <1>3, <1>7, <1>8, <1>9, <1>11, <1>12
<1>13. CASE a # x /\ a \in B
  <2>1. a \in C /\ d[x] = e[x] /\ u[a] = d[a] /\ v[a] = e[a] /\ d[a] \in Int /\ e[a] \in Int
    BY <1>3, <1>5, <1>7, <1>13
  <2> QED
    BY <2>1, <1>3, <1>7, <1>8, <1>9, <1>11, <1>13
<1>14. CASE a # x /\ a \notin B
  <2>1. a \notin C /\ d[x] = e[x]
    BY <1>3, <1>5, <1>14
  <2> QED
    BY <2>1, <1>3, <1>7, <1>8, <1>9, <1>11, <1>14
<1> QED
  BY <1>12, <1>13, <1>14

(* Nothing added up is nothing.                                            *)
LEMMA TotalOfZeros ==
    ASSUME NEW S, IsFiniteSet(S), NEW f \in [S -> {0}]
    PROVE  TotalOf(f) = 0
<1> DEFINE Bad == {B \in SUBSET S : \E e \in [B -> {0}] : TotalOf(e) # 0}
<1> SUFFICES ASSUME Bad # {} PROVE FALSE
  OBVIOUS
<1>1. PICK B \in Bad : \A C \in Bad : Cardinality(B) <= Cardinality(C)
  <2>1. Bad \in SUBSET SUBSET S
    OBVIOUS
  <2> HIDE DEF Bad
  <2> QED
    BY <2>1, LeastSet
<1>2. IsFiniteSet(B)
  BY FS_Subset
<1>3. PICK e \in [B -> {0}] : TotalOf(e) # 0
  OBVIOUS
<1>4. B # {}
  BY <1>3, TotalOfNothing
<1> DEFINE x == Picked(B)
<1>5. /\ x \in B /\ Cardinality(B \ {x}) = Cardinality(B) - 1 /\ Cardinality(B) \in Nat
  BY <1>2, <1>4, WithoutPicked
<1>6. B \ {x} \notin Bad
  <2> HIDE DEF Bad
  <2> QED
    BY <1>1, <1>5
<1>7. Without(e, x) \in [B \ {x} -> {0}] /\ e[x] = 0
  BY <1>5 DEF Without
<1>8. TotalOf(Without(e, x)) = 0
  BY <1>6, <1>7
<1>9. TotalOf(e) = e[x] + TotalOf(Without(e, x))
  BY <1>2, <1>4, TotalOfSome
<1> QED
  BY <1>3, <1>7, <1>8, <1>9

(* A total of natural numbers is one, and at least each of them.           *)
LEMMA TotalOfNaturals ==
    ASSUME NEW S, IsFiniteSet(S), NEW f \in [S -> Nat]
    PROVE  TotalOf(f) \in Nat /\ \A a \in S : f[a] <= TotalOf(f)
<1> DEFINE Bad == {B \in SUBSET S : \E e \in [B -> Nat] :
                      ~(TotalOf(e) \in Nat /\ \A a \in B : e[a] <= TotalOf(e))}
<1> SUFFICES ASSUME Bad # {} PROVE FALSE
  OBVIOUS
<1>1. PICK B \in Bad : \A C \in Bad : Cardinality(B) <= Cardinality(C)
  <2>1. Bad \in SUBSET SUBSET S
    OBVIOUS
  <2> HIDE DEF Bad
  <2> QED
    BY <2>1, LeastSet
<1>2. IsFiniteSet(B)
  BY FS_Subset
<1>3. PICK e \in [B -> Nat] : ~(TotalOf(e) \in Nat /\ \A a \in B : e[a] <= TotalOf(e))
  OBVIOUS
<1>4. B # {}
  <2>1. SUFFICES ASSUME B = {} PROVE FALSE
    OBVIOUS
  <2>2. TotalOf(e) = 0
    BY <2>1, TotalOfNothing
  <2> QED
    BY <2>1, <2>2, <1>3
<1> DEFINE x == Picked(B)
<1>5. /\ x \in B /\ Cardinality(B \ {x}) = Cardinality(B) - 1 /\ Cardinality(B) \in Nat
  BY <1>2, <1>4, WithoutPicked
<1>6. B \ {x} \notin Bad
  <2> HIDE DEF Bad
  <2> QED
    BY <1>1, <1>5
<1> DEFINE u == Without(e, x)
<1>7. u \in [B \ {x} -> Nat] /\ e[x] \in Nat /\ \A y \in B \ {x} : u[y] = e[y]
  BY <1>5 DEF Without
<1>8. TotalOf(u) \in Nat /\ \A a \in B \ {x} : u[a] <= TotalOf(u)
  <2> HIDE DEF u
  <2> QED
    BY <1>6, <1>7
<1>9. TotalOf(e) = e[x] + TotalOf(u)
  BY <1>2, <1>4, TotalOfSome
<1> HIDE DEF u, x
<1>10. TotalOf(e) \in Nat
  BY <1>7, <1>8, <1>9
<1>11. ASSUME NEW a \in B PROVE e[a] <= TotalOf(e)
  <2>1. CASE a = x
    BY <2>1, <1>7, <1>8, <1>9
  <2>2. CASE a # x
    <3>1. u[a] = e[a] /\ u[a] <= TotalOf(u) /\ e[a] \in Nat
      BY <2>2, <1>7, <1>8
    <3> QED
      BY <3>1, <1>7, <1>8, <1>9
  <2> QED
    BY <2>1, <2>2
<1> QED
  BY <1>3, <1>10, <1>11

(* Totals are linear.                                                      *)
LEMMA TotalOfCombination ==
    ASSUME NEW S, IsFiniteSet(S), NEW f \in [S -> Int], NEW g \in [S -> Int], NEW k \in Int,
           NEW h \in [S -> Int], \A x \in S : h[x] = f[x] + k * g[x]
    PROVE  TotalOf(h) = TotalOf(f) + k * TotalOf(g)
<1> DEFINE Mix(B, d, e) == [x \in B |-> d[x] + k * e[x]]
           Bad == {B \in SUBSET S : \E d, e \in [B -> Int] :
                      TotalOf(Mix(B, d, e)) # TotalOf(d) + k * TotalOf(e)}
<1> SUFFICES ASSUME Bad # {} PROVE FALSE
  <2>1. S \notin Bad /\ h = Mix(S, f, g)
    OBVIOUS
  <2>2. TotalOf(Mix(S, f, g)) = TotalOf(f) + k * TotalOf(g)
    BY <2>1
  <2> QED
    BY <2>1, <2>2
<1>1. PICK B \in Bad : \A C \in Bad : Cardinality(B) <= Cardinality(C)
  <2>1. Bad \in SUBSET SUBSET S
    OBVIOUS
  <2> HIDE DEF Bad
  <2> QED
    BY <2>1, LeastSet
<1>2. IsFiniteSet(B)
  BY FS_Subset
<1>3. PICK d \in [B -> Int], e \in [B -> Int] :
         TotalOf(Mix(B, d, e)) # TotalOf(d) + k * TotalOf(e)
  OBVIOUS
<1>4. B # {}
  <2> SUFFICES ASSUME B = {} PROVE FALSE
    OBVIOUS
  <2>1. DOMAIN Mix(B, d, e) = {} /\ DOMAIN d = {} /\ DOMAIN e = {}
    OBVIOUS
  <2>2. TotalOf(Mix(B, d, e)) = 0 /\ TotalOf(d) = 0 /\ TotalOf(e) = 0
    BY <2>1, TotalOfNothing
  <2>3. k * 0 = 0
    OBVIOUS
  <2> HIDE DEF Mix
  <2> QED
    BY <1>3, <2>2, <2>3
<1> DEFINE x == Picked(B)
           R == B \ {x}
<1>5. /\ x \in B /\ Cardinality(R) = Cardinality(B) - 1 /\ Cardinality(B) \in Nat
  BY <1>2, <1>4, WithoutPicked
<1>6. R \notin Bad
  <2> HIDE DEF Bad
  <2> QED
    BY <1>1, <1>5
<1>7. /\ Without(d, x) \in [R -> Int] /\ d[x] \in Int
      /\ Without(e, x) \in [R -> Int] /\ e[x] \in Int
  BY <1>5 DEF Without
<1>8. TotalOf(Mix(R, Without(d, x), Without(e, x)))
        = TotalOf(Without(d, x)) + k * TotalOf(Without(e, x))
  BY <1>6, <1>7
<1>9. /\ Without(Mix(B, d, e), x) = Mix(R, Without(d, x), Without(e, x))
      /\ Mix(B, d, e)[x] = d[x] + k * e[x]
      /\ DOMAIN Mix(B, d, e) = B /\ DOMAIN d = B /\ DOMAIN e = B
  BY <1>5 DEF Without
<1> HIDE DEF Mix
<1>10. TotalOf(Mix(B, d, e)) = Mix(B, d, e)[x] + TotalOf(Without(Mix(B, d, e), x))
  BY <1>2, <1>4, <1>9, TotalOfSome
<1>11. TotalOf(d) = d[x] + TotalOf(Without(d, x)) /\ TotalOf(e) = e[x] + TotalOf(Without(e, x))
  BY <1>2, <1>4, <1>9, TotalOfSome
<1>12. TotalOf(Without(d, x)) \in Int /\ TotalOf(Without(e, x)) \in Int
  <2>1. IsFiniteSet(R)
    BY <1>2, FS_Subset
  <2> QED
    BY <1>7, <2>1, TotalOfIntegers
<1> HIDE DEF x
<1>13. \A a, b, c, t \in Int : (a + k * b) + (c + k * t) = (a + c) + k * (b + t)
  OBVIOUS
<1> QED
  BY <1>3, <1>7, <1>8, <1>9, <1>10, <1>11, <1>12, <1>13

LEMMA TotalOfSums ==
    ASSUME NEW S, IsFiniteSet(S), NEW f \in [S -> Int], NEW g \in [S -> Int],
           NEW h \in [S -> Int], \A x \in S : h[x] = f[x] + g[x]
    PROVE  TotalOf(h) = TotalOf(f) + TotalOf(g)
<1>1. PICK k \in Int : k = 1
  OBVIOUS
<1>2. \A y \in Int : k * y = y
  BY <1>1
<1>3. \A x \in S : h[x] = f[x] + k * g[x]
  BY <1>2
<1>4. TotalOf(h) = TotalOf(f) + k * TotalOf(g)
  BY <1>3, TotalOfCombination
<1>5. TotalOf(g) \in Int
  BY TotalOfIntegers
<1> QED
  BY <1>2, <1>4, <1>5

LEMMA TotalOfMultiples ==
    ASSUME NEW S, IsFiniteSet(S), NEW g \in [S -> Int], NEW k \in Int,
           NEW h \in [S -> Int], \A x \in S : h[x] = k * g[x]
    PROVE  TotalOf(h) = k * TotalOf(g)
<1> DEFINE f == [x \in S |-> 0]
<1>1. f \in [S -> Int] /\ TotalOf(f) = 0
  BY TotalOfZeros
<1>2. \A x \in S : h[x] = f[x] + k * g[x]
  <2>1. \A x \in S : k * g[x] \in Int /\ f[x] = 0
    OBVIOUS
  <2> HIDE DEF f
  <2> QED
    BY <2>1
<1> HIDE DEF f
<1>3. TotalOf(h) = TotalOf(f) + k * TotalOf(g)
  BY <1>1, <1>2, TotalOfCombination
<1>4. k * TotalOf(g) \in Int
  BY TotalOfIntegers
<1> QED
  BY <1>1, <1>3, <1>4

(* A sum of bounded numbers.                                               *)
LEMMA TotalOfBounded ==
    ASSUME NEW S, IsFiniteSet(S), NEW f \in [S -> Int], NEW k \in Int, \A x \in S : f[x] <= k
    PROVE  TotalOf(f) <= k * Cardinality(S)
<1> DEFINE Bad == {B \in SUBSET S : \E e \in [B -> Int] :
                      (\A x \in B : e[x] <= k) /\ ~(TotalOf(e) <= k * Cardinality(B))}
<1> SUFFICES ASSUME Bad # {} PROVE FALSE
  OBVIOUS
<1>1. PICK B \in Bad : \A C \in Bad : Cardinality(B) <= Cardinality(C)
  <2>1. Bad \in SUBSET SUBSET S
    OBVIOUS
  <2> HIDE DEF Bad
  <2> QED
    BY <2>1, LeastSet
<1>2. IsFiniteSet(B)
  BY FS_Subset
<1>3. PICK e \in [B -> Int] : (\A x \in B : e[x] <= k) /\ ~(TotalOf(e) <= k * Cardinality(B))
  OBVIOUS
<1>4. B # {}
  <2> SUFFICES ASSUME B = {} PROVE FALSE
    OBVIOUS
  <2>1. TotalOf(e) = 0 /\ Cardinality(B) = 0
    BY TotalOfNothing, FS_EmptySet
  <2>2. k * 0 = 0
    OBVIOUS
  <2> QED
    BY <1>3, <2>1, <2>2
<1> DEFINE x == Picked(B)
           R == B \ {x}
<1>5. x \in B /\ Cardinality(R) = Cardinality(B) - 1 /\ Cardinality(B) \in Nat
  BY <1>2, <1>4, WithoutPicked
<1>6. R \notin Bad
  <2> HIDE DEF Bad
  <2> QED
    BY <1>1, <1>5
<1>7. /\ Without(e, x) \in [R -> Int] /\ e[x] \in Int /\ e[x] <= k
      /\ \A y \in R : Without(e, x)[y] <= k
  BY <1>3, <1>5 DEF Without
<1>8. TotalOf(Without(e, x)) <= k * Cardinality(R)
  BY <1>6, <1>7
<1>9. TotalOf(e) = e[x] + TotalOf(Without(e, x))
  BY <1>2, <1>4, TotalOfSome
<1>10. TotalOf(Without(e, x)) \in Int
  <2>1. IsFiniteSet(R)
    BY <1>2, FS_Subset
  <2> QED
    BY <1>7, <2>1, TotalOfIntegers
<1>11. \A n \in Nat : k * (n - 1) = k * n - k /\ k * n \in Int
  OBVIOUS
<1> HIDE DEF x, R
<1>12. k * Cardinality(R) = k * Cardinality(B) - k /\ k * Cardinality(B) \in Int
  BY <1>5, <1>11
<1> QED
  BY <1>3, <1>7, <1>8, <1>9, <1>10, <1>12

(* What is left out adds nothing.                                          *)
LEMMA TotalOfPart ==
    ASSUME NEW S, IsFiniteSet(S), NEW f \in [S -> Int], NEW A \in SUBSET S
    PROVE  TotalOf([y \in A |-> f[y]]) = TotalOf([y \in S |-> IF y \in A THEN f[y] ELSE 0])
<1> DEFINE Part(B) == [y \in B |-> f[y]]
           Spread(B) == [y \in S |-> IF y \in B THEN f[y] ELSE 0]
           Bad == {B \in SUBSET S : TotalOf(Part(B)) # TotalOf(Spread(B))}
<1> SUFFICES ASSUME Bad # {} PROVE FALSE
  <2>1. A \notin Bad
    OBVIOUS
  <2> QED
    BY <2>1
<1>1. PICK B \in Bad : \A C \in Bad : Cardinality(B) <= Cardinality(C)
  <2>1. Bad \in SUBSET SUBSET S
    OBVIOUS
  <2> HIDE DEF Bad
  <2> QED
    BY <2>1, LeastSet
<1>2. IsFiniteSet(B) /\ B \subseteq S
  BY FS_Subset
<1>3. TotalOf(Part(B)) # TotalOf(Spread(B))
  OBVIOUS
<1>4. B # {}
  <2> SUFFICES ASSUME B = {} PROVE FALSE
    OBVIOUS
  <2>1. DOMAIN Part(B) = {} /\ Spread(B) \in [S -> {0}]
    OBVIOUS
  <2> HIDE DEF Part, Spread
  <2> QED
    BY <1>3, <2>1, TotalOfNothing, TotalOfZeros
<1> DEFINE x == Picked(B)
           C == B \ {x}
<1>5. /\ x \in B /\ Cardinality(C) = Cardinality(B) - 1 /\ Cardinality(B) \in Nat
  BY <1>2, <1>4, WithoutPicked
<1>6. TotalOf(Part(C)) = TotalOf(Spread(C))
  <2>1. C \notin Bad
    <3> HIDE DEF Bad
    <3> QED
      BY <1>1, <1>5
  <2> QED
    BY <1>2, <2>1
<1>7. TotalOf(Part(B)) = f[x] + TotalOf(Part(C))
  <2>1. DOMAIN Part(B) = B /\ Part(B)[x] = f[x] /\ Without(Part(B), x) = Part(C)
    BY <1>5 DEF Without
  <2> HIDE DEF Part
  <2> QED
    BY <1>2, <1>4, <2>1, TotalOfSome
<1>8. TotalOf(Spread(B)) = TotalOf(Spread(C)) + f[x]
  <2>1. /\ Spread(B) \in [S -> Int] /\ Spread(C) \in [S -> Int] /\ x \in S
        /\ Spread(B)[x] = f[x] /\ Spread(C)[x] = 0
        /\ \A y \in S \ {x} : Spread(C)[y] = Spread(B)[y]
    BY <1>2, <1>5
  <2> HIDE DEF Spread, x, C
  <2>2. TotalOf(Spread(B)) = TotalOf(Spread(C)) + Spread(B)[x] - Spread(C)[x]
    BY <2>1, TotalOfOneChange
  <2>3. TotalOf(Spread(B)) = TotalOf(Spread(C)) + f[x] - 0
    BY <2>1, <2>2
  <2>4. TotalOf(Spread(C)) \in Int /\ f[x] \in Int
    BY <2>1, TotalOfIntegers
  <2> QED
    BY <2>3, <2>4
<1>9. TotalOf(Spread(C)) \in Int /\ f[x] \in Int
  <2>1. Spread(C) \in [S -> Int] /\ x \in S
    BY <1>2, <1>5
  <2> HIDE DEF Spread, x
  <2> QED
    BY <2>1, TotalOfIntegers
<1> HIDE DEF Part, Spread, x, C, Bad
<1> QED
  BY <1>3, <1>6, <1>7, <1>8, <1>9

(* Added up by columns, or by rows.                                        *)
LEMMA TotalsSwap ==
    ASSUME NEW S, IsFiniteSet(S), NEW K, IsFiniteSet(K), NEW a \in [S -> [K -> Int]]
    PROVE  TotalOf([k \in K |-> TotalOf([n \in S |-> a[n][k]])]) = TotalOf([n \in S |-> TotalOf(a[n])])
<1> DEFINE Column(k) == [n \in S |-> a[n][k]]
           ColumnTotals(B) == [k \in B |-> TotalOf(Column(k))]
           Row(n, B) == [k \in B |-> a[n][k]]
           RowTotals(B) == [n \in S |-> TotalOf(Row(n, B))]
           Bad == {B \in SUBSET K : TotalOf(ColumnTotals(B)) # TotalOf(RowTotals(B))}
<1> SUFFICES ASSUME Bad # {} PROVE FALSE
  <2>1. TotalOf(ColumnTotals(K)) = TotalOf(RowTotals(K))
    OBVIOUS
  <2>2. \A n \in S : Row(n, K) = a[n]
    OBVIOUS
  <2>3. RowTotals(K) = [n \in S |-> TotalOf(a[n])]
    BY <2>2
  <2> QED
    BY <2>1, <2>3
<1>1. PICK B \in Bad : \A C \in Bad : Cardinality(B) <= Cardinality(C)
  <2>1. Bad \in SUBSET SUBSET K
    OBVIOUS
  <2> HIDE DEF Bad
  <2> QED
    BY <2>1, LeastSet
<1>2. IsFiniteSet(B) /\ B \subseteq K
  BY FS_Subset
<1>3. TotalOf(ColumnTotals(B)) # TotalOf(RowTotals(B))
  OBVIOUS
<1>4. B # {}
  <2> SUFFICES ASSUME B = {} PROVE FALSE
    OBVIOUS
  <2>1. \A n \in S : TotalOf(Row(n, B)) = 0
    <3>1. \A n \in S : DOMAIN Row(n, B) = {}
      OBVIOUS
    <3> HIDE DEF Row
    <3> QED
      BY <3>1, TotalOfNothing
  <2>2. RowTotals(B) \in [S -> {0}] /\ DOMAIN ColumnTotals(B) = {}
    BY <2>1
  <2> HIDE DEF RowTotals, ColumnTotals
  <2> QED
    BY <1>3, <2>2, TotalOfNothing, TotalOfZeros
<1> DEFINE x == Picked(B)
           C == B \ {x}
<1>5. /\ x \in B /\ x \in K /\ Cardinality(C) = Cardinality(B) - 1 /\ Cardinality(B) \in Nat /\ IsFiniteSet(C)
  BY <1>2, <1>4, WithoutPicked, FS_Subset
<1>6. TotalOf(ColumnTotals(C)) = TotalOf(RowTotals(C))
  <2>1. C \notin Bad
    <3> HIDE DEF Bad
    <3> QED
      BY <1>1, <1>5
  <2> QED
    BY <1>2, <2>1
<1>7. TotalOf(ColumnTotals(B)) = TotalOf(Column(x)) + TotalOf(ColumnTotals(C))
  <2>1. /\ DOMAIN ColumnTotals(B) = B
        /\ ColumnTotals(B)[x] = TotalOf(Column(x))
        /\ Without(ColumnTotals(B), x) = ColumnTotals(C)
    BY <1>5 DEF Without
  <2> HIDE DEF ColumnTotals
  <2> QED
    BY <1>2, <1>4, <2>1, TotalOfSome
<1>8. ASSUME NEW n \in S
      PROVE  RowTotals(B)[n] = Column(x)[n] + RowTotals(C)[n] /\ Column(x)[n] \in Int /\ RowTotals(C)[n] \in Int
  <2>1. /\ DOMAIN Row(n, B) = B /\ Row(n, B)[x] = a[n][x] /\ Without(Row(n, B), x) = Row(n, C)
        /\ Row(n, C) \in [C -> Int] /\ a[n][x] \in Int
    BY <1>2, <1>5 DEF Without
  <2> HIDE DEF Row, x, C
  <2>2. TotalOf(Row(n, B)) = a[n][x] + TotalOf(Row(n, C)) /\ TotalOf(Row(n, C)) \in Int
    BY <1>2, <1>4, <1>5, <2>1, TotalOfSome, TotalOfIntegers DEF x
  <2> QED
    BY <2>1, <2>2
<1>9. /\ Column(x) \in [S -> Int] /\ RowTotals(C) \in [S -> Int] /\ RowTotals(B) \in [S -> Int]
      /\ \A n \in S : RowTotals(B)[n] = Column(x)[n] + RowTotals(C)[n]
  <2>1. DOMAIN Column(x) = S /\ DOMAIN RowTotals(C) = S /\ DOMAIN RowTotals(B) = S
    OBVIOUS
  <2>2. /\ Column(x) = [n \in S |-> Column(x)[n]]
        /\ RowTotals(C) = [n \in S |-> RowTotals(C)[n]]
        /\ RowTotals(B) = [n \in S |-> RowTotals(B)[n]]
    OBVIOUS
  <2> HIDE DEF Column, RowTotals, x, C
  <2>3. \A n \in S : RowTotals(B)[n] \in Int
    BY <1>8
  <2> QED
    BY <1>8, <2>2, <2>3
<1> HIDE DEF Column, RowTotals, ColumnTotals, x, C
<1>10. TotalOf(RowTotals(B)) = TotalOf(Column(x)) + TotalOf(RowTotals(C))
  BY <1>9, TotalOfSums
<1> QED
  BY <1>3, <1>6, <1>7, <1>10

(* Added up in groups, and the groups' totals together: the same total.    *)
GroupTotals(S, G, group, v) == [g \in G |-> TotalOf([n \in {m \in S : group[m] = g} |-> v[n]])]

LEMMA TotalOfGroups ==
    ASSUME NEW S, IsFiniteSet(S), NEW G, IsFiniteSet(G), NEW group \in [S -> G], NEW v \in [S -> Int]
    PROVE  TotalOf(GroupTotals(S, G, group, v)) = TotalOf(v)
<1> DEFINE a == [n \in S |-> [g \in G |-> IF group[n] = g THEN v[n] ELSE 0]]
           Members(g) == {m \in S : group[m] = g}
<1>1. a \in [S -> [G -> Int]]
  OBVIOUS
<1>2. ASSUME NEW g \in G
      PROVE  TotalOf([n \in Members(g) |-> v[n]]) = TotalOf([n \in S |-> a[n][g]])
  <2>1. [n \in S |-> IF n \in Members(g) THEN v[n] ELSE 0] = [n \in S |-> a[n][g]]
    OBVIOUS
  <2>2. Members(g) \in SUBSET S
    OBVIOUS
  <2> HIDE DEF Members, a
  <2>3. TotalOf([n \in Members(g) |-> v[n]]) = TotalOf([n \in S |-> IF n \in Members(g) THEN v[n] ELSE 0])
    BY <2>2, TotalOfPart
  <2> QED
    BY <2>1, <2>3
<1>3. [g \in G |-> TotalOf([n \in Members(g) |-> v[n]])] = [g \in G |-> TotalOf([n \in S |-> a[n][g]])]
  <2> HIDE DEF Members, a
  <2> QED
    BY <1>2
<1>4. ASSUME NEW n \in S
      PROVE  TotalOf(a[n]) = v[n]
  <2> DEFINE zero == [g \in G |-> 0]
             row == a[n]
  <2>1. /\ zero \in [G -> {0}] /\ zero \in [G -> Int] /\ row \in [G -> Int] /\ group[n] \in G
        /\ zero[group[n]] = 0 /\ row[group[n]] = v[n] /\ v[n] \in Int
        /\ \A g \in G \ {group[n]} : zero[g] = row[g]
    OBVIOUS
  <2> HIDE DEF zero, row
  <2>2. TotalOf(row) = TotalOf(zero) + row[group[n]] - zero[group[n]] /\ TotalOf(zero) = 0
    BY <2>1, TotalOfOneChange, TotalOfZeros
  <2> QED
    BY <2>1, <2>2 DEF row
<1>5. [n \in S |-> TotalOf(a[n])] = v
  <2> HIDE DEF a
  <2>1. [n \in S |-> TotalOf(a[n])] = [n \in S |-> v[n]]
    BY <1>4
  <2> QED
    BY <2>1
<1>6. GroupTotals(S, G, group, v) = [g \in G |-> TotalOf([n \in Members(g) |-> v[n]])]
  BY DEF GroupTotals
<1> HIDE DEF a, Members
<1>7. TotalOf([g \in G |-> TotalOf([n \in S |-> a[n][g]])]) = TotalOf([n \in S |-> TotalOf(a[n])])
  BY <1>1, TotalsSwap
<1> QED
  BY <1>3, <1>5, <1>6, <1>7
-----------------------------------------------------------------------------
(* Euclid's algorithm, one step, and for second arguments up to k.         *)
Reduced(p) == <<p[2], p[1] % p[2]>>

Euclid(g, p) == IF p[2] = 0 THEN p[1] ELSE g[Reduced(p)]

IsGcd(k, g) == g = [p \in Nat \X (0 .. k) |-> Euclid(g, p)]

LEMMA ReducedIsLess ==
    ASSUME NEW p \in Nat \X Nat, p[2] # 0
    PROVE  Reduced(p) \in Nat \X Nat /\ Reduced(p)[1] = p[2] /\ Reduced(p)[2] < p[2]
<1>1. p[1] % p[2] \in 0 .. p[2] - 1
  OBVIOUS
<1> QED
  BY <1>1 DEF Reduced

LEMMA GcdExists ==
    ASSUME NEW m \in Nat
    PROVE  \E g : IsGcd(m, g)
<1> DEFINE T == {k \in Nat : ~(\E g : IsGcd(k, g))}
<1> SUFFICES ASSUME T # {} PROVE FALSE
  OBVIOUS
<1>1. PICK k \in T : \A j \in T : k <= j
  <2>1. T \in SUBSET Nat
    OBVIOUS
  <2> HIDE DEF T
  <2> QED
    BY <2>1, LeastNumber
<1>2. k # 0
  <2> DEFINE z == [p \in Nat \X (0 .. 0) |-> p[1]]
  <2>1. IsGcd(0, z)
    BY DEF IsGcd, Euclid
  <2> QED
    BY <1>1, <2>1
<1>3. k - 1 \in Nat /\ k - 1 \notin T
  BY <1>1, <1>2
<1>4. PICK g : IsGcd(k - 1, g)
  BY <1>3
<1> DEFINE h == [p \in Nat \X (0 .. k) |-> Euclid(g, p)]
<1>5. ASSUME NEW p \in Nat \X (0 .. k)
      PROVE  Euclid(g, p) = Euclid(h, p)
  <2>1. CASE p[2] = 0
    BY <2>1 DEF Euclid
  <2>2. CASE p[2] # 0
    <3>1. Reduced(p) \in Nat \X (0 .. k - 1) /\ Reduced(p) \in Nat \X (0 .. k)
      BY <2>2, <1>1, ReducedIsLess
    <3>2. h[Reduced(p)] = Euclid(g, Reduced(p))
      BY <3>1
    <3>3. g[Reduced(p)] = Euclid(g, Reduced(p))
      BY <3>1, <1>4, Zenon DEF IsGcd
    <3> QED
      BY <2>2, <3>2, <3>3, Zenon DEF Euclid
  <2> QED
    BY <2>1, <2>2
<1>6. IsGcd(k, h)
  BY <1>5, Zenon DEF IsGcd
<1> QED
  BY <1>1, <1>6

LEMMA GcdUnique ==
    ASSUME NEW k \in Nat, NEW j \in Nat, k <= j, NEW g, IsGcd(k, g), NEW h, IsGcd(j, h),
           NEW p \in Nat \X (0 .. k)
    PROVE  g[p] = h[p]
<1> DEFINE T == {q \in Nat : q <= k /\ \E x \in Nat \X (0 .. k) : x[2] = q /\ g[x] # h[x]}
<1> SUFFICES ASSUME T # {} PROVE FALSE
  OBVIOUS
<1>1. PICK q \in T : \A r \in T : q <= r
  <2>1. T \in SUBSET Nat
    OBVIOUS
  <2> HIDE DEF T
  <2> QED
    BY <2>1, LeastNumber
<1>2. PICK x \in Nat \X (0 .. k) : x[2] = q /\ g[x] # h[x]
  BY <1>1
<1>3. g[x] = Euclid(g, x) /\ h[x] = Euclid(h, x)
  <2>1. x \in Nat \X (0 .. j)
    OBVIOUS
  <2> QED
    BY <2>1, Zenon DEF IsGcd
<1>4. x[2] # 0
  BY <1>2, <1>3, Zenon DEF Euclid
<1>5. Reduced(x) \in Nat \X (0 .. k) /\ Reduced(x)[2] < x[2] /\ Reduced(x)[2] \in Nat /\ Reduced(x)[2] <= k
  BY <1>4, ReducedIsLess
<1>6. Reduced(x)[2] \notin T
  <2> HIDE DEF T
  <2>1. q \in Nat
    BY DEF T
  <2> QED
    BY <1>1, <1>2, <1>5, <2>1
<1>7. g[Reduced(x)] = h[Reduced(x)]
  BY <1>5, <1>6
<1> QED
  BY <1>2, <1>3, <1>4, <1>7, Zenon DEF Euclid

LEMMA GcdIs ==
    ASSUME NEW p \in Nat \X Nat
    PROVE  Gcd[p] = Euclid(Gcd, p)
<1> DEFINE Up(k) == CHOOSE g : IsGcd(k, g)
<1>1. \A k \in Nat : IsGcd(k, Up(k))
  BY GcdExists
<1> HIDE DEF Up
<1> DEFINE h == [x \in Nat \X Nat |-> Up(x[2])[x]]
<1>2. ASSUME NEW x \in Nat \X Nat
      PROVE  Up(x[2])[x] = Euclid(h, x)
  <2>1. Up(x[2])[x] = Euclid(Up(x[2]), x)
    <3>1. IsGcd(x[2], Up(x[2])) /\ x \in Nat \X (0 .. x[2])
      BY <1>1
    <3> QED
      BY <3>1, Zenon DEF IsGcd
  <2>2. CASE x[2] = 0
    BY <2>1, <2>2 DEF Euclid
  <2>3. CASE x[2] # 0
    <3> DEFINE y == Reduced(x)
    <3>1. y \in Nat \X Nat /\ y[2] < x[2]
      BY <2>3, ReducedIsLess
    <3> HIDE DEF y
    <3>2. Up(y[2])[y] = Up(x[2])[y]
      <4>1. /\ IsGcd(x[2], Up(x[2])) /\ IsGcd(y[2], Up(y[2])) /\ y \in Nat \X (0 .. y[2])
            /\ y[2] \in Nat /\ x[2] \in Nat /\ y[2] <= x[2]
        BY <1>1, <3>1
      <4> QED
        BY <4>1, GcdUnique
    <3>3. h[y] = Up(y[2])[y]
      BY <3>1
    <3> QED
      BY <2>1, <2>3, <3>2, <3>3, Zenon DEF Euclid, y
  <2> QED
    BY <2>2, <2>3
<1> DEFINE Rec(g) == g = [x \in Nat \X Nat |-> IF x[2] = 0 THEN x[1] ELSE g[<<x[2], x[1] % x[2]>>]]
<1>3. Rec(h)
  BY <1>2, Zenon DEF Euclid, Reduced
<1>4. Gcd = CHOOSE g : Rec(g)
  BY Zenon DEF Gcd
<1>5. Rec(Gcd)
  <2> HIDE DEF Rec, h
  <2> QED
    BY <1>3, <1>4
<1> QED
  BY <1>5, Zenon DEF Euclid, Reduced

LEMMA GcdBounds ==
    ASSUME NEW m \in Nat, NEW n \in Nat \ {0}
    PROVE  Gcd[<<m, n>>] \in 1 .. n
<1> DEFINE T == {q \in Nat \ {0} : \E i \in Nat : Gcd[<<i, q>>] \notin 1 .. q}
<1> SUFFICES ASSUME T # {} PROVE FALSE
  OBVIOUS
<1>1. PICK q \in T : \A r \in T : q <= r
  <2>1. T \in SUBSET Nat
    OBVIOUS
  <2> HIDE DEF T
  <2> QED
    BY <2>1, LeastNumber
<1>2. PICK i \in Nat : Gcd[<<i, q>>] \notin 1 .. q
  BY <1>1
<1>3. q \in Nat /\ q # 0 /\ i % q \in 0 .. q - 1 /\ i % q \in Nat
  BY <1>1
<1>4. Gcd[<<i, q>>] = Gcd[<<q, i % q>>]
  BY <1>3, GcdIs DEF Euclid, Reduced
<1>5. CASE i % q = 0
  <2>1. Gcd[<<q, 0>>] = q
    BY <1>3, GcdIs DEF Euclid
  <2> QED
    BY <1>2, <1>3, <1>4, <1>5, <2>1
<1>6. CASE i % q # 0
  <2>1. i % q \notin T /\ i % q \in Nat \ {0}
    BY <1>1, <1>3, <1>6
  <2>2. Gcd[<<q, i % q>>] \in 1 .. i % q
    BY <2>1, <1>3
  <2> QED
    BY <1>2, <1>3, <1>4, <2>2
<1> QED
  BY <1>5, <1>6

FractionSet == Int \X (Nat \ {0})

LEMMA RatioIsFraction ==
    ASSUME NEW n \in Int, NEW d \in Int, d # 0
    PROVE  Ratio(n, d) \in FractionSet
<1> DEFINE g == Gcd[<<AbsInt(n), AbsInt(d)>>]
<1>1. AbsInt(n) \in Nat /\ AbsInt(d) \in Nat \ {0}
  BY DEF AbsInt
<1>2. g \in 1 .. AbsInt(d)
  BY <1>1, GcdBounds
<1> HIDE DEF g
<1>3. n \div g \in Int /\ AbsInt(n) \div g \in Int /\ AbsInt(d) \div g \in Nat \ {0}
  BY <1>1, <1>2
<1> DEFINE s == IF d < 0 THEN -1 ELSE 1
<1>4. s * (IF n < 0 THEN -(AbsInt(n) \div g) ELSE n \div g) \in Int
  BY <1>3
<1> QED
  BY <1>3, <1>4 DEF Ratio, FractionSet, g

LEMMA Products ==
    ASSUME NEW x \in Int, NEW y \in Int
    PROVE  x * y \in Int /\ (x # 0 /\ y # 0 => x * y # 0)
OBVIOUS

LEMMA FractionArithmetic ==
    ASSUME NEW a \in FractionSet, NEW b \in FractionSet
    PROVE  /\ Plus(a, b) \in FractionSet /\ Minus(a, b) \in FractionSet
           /\ Times(a, b) \in FractionSet /\ (b[1] # 0 => Over(a, b) \in FractionSet)
<1>1. /\ a[1] \in Int /\ a[2] \in Int /\ a[2] # 0
      /\ b[1] \in Int /\ b[2] \in Int /\ b[2] # 0 /\ -b[1] \in Int
  BY DEF FractionSet
<1>2. a[2] * b[2] \in Int /\ a[2] * b[2] # 0
  BY <1>1, Products
<1>3. a[1] * b[1] \in Int /\ a[1] * b[2] \in Int /\ a[2] * b[1] \in Int
  BY <1>1, Products
<1>4. b[1] # 0 => a[2] * b[1] # 0
  BY <1>1, Products
<1>5. ASSUME NEW n \in Int
      PROVE  Plus(a, <<n, b[2]>>) \in FractionSet
  <2>1. n * a[2] \in Int
    BY <1>1, Products
  <2>2. a[1] * b[2] + n * a[2] \in Int
    BY <1>3, <2>1
  <2>3. Plus(a, <<n, b[2]>>) = Ratio(a[1] * b[2] + n * a[2], a[2] * b[2])
    BY DEF Plus
  <2> QED
    BY <1>2, <2>2, <2>3, RatioIsFraction
<1>6. b = <<b[1], b[2]>>
  BY DEF FractionSet
<1>7. Plus(a, b) \in FractionSet /\ Minus(a, b) \in FractionSet
  BY <1>1, <1>5, <1>6 DEF Minus
<1>8. Times(a, b) \in FractionSet
  BY <1>2, <1>3, RatioIsFraction DEF Times
<1>9. b[1] # 0 => Over(a, b) \in FractionSet
  BY <1>3, <1>4, RatioIsFraction DEF Over
<1> QED
  BY <1>7, <1>8, <1>9

LEMMA WholeIsFraction ==
    ASSUME NEW n \in Int
    PROVE  Whole(n) \in FractionSet
BY DEF Whole, FractionSet
-----------------------------------------------------------------------------
(* The books on the way through a stream of fills: one for each length.    *)
IsReplay(start, fills, m, g) ==
    g = [n \in 0 .. m |-> IF n = 0 THEN start ELSE Apply(g[n - 1], fills[n])]

LEMMA ReplayExists ==
    ASSUME NEW start, NEW fills, NEW m \in Nat
    PROVE  \E g : IsReplay(start, fills, m, g)
<1> DEFINE T == {k \in Nat : ~(\E g : IsReplay(start, fills, k, g))}
<1> SUFFICES ASSUME T # {} PROVE FALSE
  OBVIOUS
<1>1. PICK k \in T : \A j \in T : k <= j
  BY LeastNumber
<1>2. k # 0
  <2>1. IsReplay(start, fills, 0, [n \in 0 .. 0 |-> start])
    BY DEF IsReplay
  <2> QED
    BY <1>1, <2>1
<1>3. k - 1 \in Nat /\ k - 1 \notin T
  BY <1>1, <1>2
<1>4. PICK g : IsReplay(start, fills, k - 1, g)
  BY <1>3
<1> DEFINE h == [n \in 0 .. k |-> IF n = k THEN Apply(g[k - 1], fills[k]) ELSE g[n]]
<1>5. IsReplay(start, fills, k, h)
  <2>1. ASSUME NEW n \in 0 .. k
        PROVE  h[n] = IF n = 0 THEN start ELSE Apply(h[n - 1], fills[n])
    <3>1. CASE n = k
      BY <3>1, <1>1, <1>2
    <3>2. CASE n # k
      <4>1. n \in 0 .. k - 1
        BY <3>2, <1>1
      <4>2. g[n] = IF n = 0 THEN start ELSE Apply(g[n - 1], fills[n])
        BY <4>1, <1>4 DEF IsReplay
      <4>3. n # 0 => n - 1 \in 0 .. k /\ n - 1 # k
        BY <4>1, <1>1
      <4> QED
        BY <3>2, <4>2, <4>3
    <3> QED
      BY <3>1, <3>2
  <2> QED
    BY <2>1 DEF IsReplay
<1> QED
  BY <1>1, <1>5

(* Two of them agree as far as their fills do.                             *)
LEMMA ReplayUnique ==
    ASSUME NEW start, NEW s, NEW t, NEW k \in Nat, NEW m \in Nat, k <= m,
           \A n \in 1 .. k : s[n] = t[n],
           NEW g, IsReplay(start, s, k, g), NEW h, IsReplay(start, t, m, h)
    PROVE  g[k] = h[k]
<1> DEFINE T == {n \in Nat : n <= k /\ g[n] # h[n]}
<1>1. SUFFICES ASSUME T # {} PROVE FALSE
  OBVIOUS
<1>2. PICK n \in T : \A j \in T : n <= j
  <2>1. T \in SUBSET Nat
    OBVIOUS
  <2> HIDE DEF T
  <2> QED
    BY <1>1, <2>1, LeastNumber
<1>3. n \in 0 .. k /\ n \in 0 .. m
  BY <1>2
<1>4. /\ g[n] = IF n = 0 THEN start ELSE Apply(g[n - 1], s[n])
      /\ h[n] = IF n = 0 THEN start ELSE Apply(h[n - 1], t[n])
  BY <1>3 DEF IsReplay
<1>5. n # 0 => n - 1 \in Nat /\ n - 1 <= k /\ n - 1 \notin T /\ s[n] = t[n]
  BY <1>2, <1>3
<1> QED
  BY <1>2, <1>4, <1>5

LEMMA ReplayIs ==
    ASSUME NEW start, NEW fills, Len(fills) \in Nat
    PROVE  \E g : /\ IsReplay(start, fills, Len(fills), g)
                  /\ FoldFills(start, fills) = g[Len(fills)]
<1> DEFINE after == CHOOSE g : IsReplay(start, fills, Len(fills), g)
<1>1. IsReplay(start, fills, Len(fills), after)
  BY ReplayExists
<1>2. FoldFills(start, fills) = after[Len(fills)]
  BY Zenon DEF FoldFills, IsReplay
<1> QED
  BY <1>1, <1>2

LEMMA ReplayNothing ==
    ASSUME NEW opening
    PROVE  ReplayFills(opening, <<>>) = EmptyBook(opening)
<1>1. Len(<<>>) = 0
  OBVIOUS
<1>2. PICK g : IsReplay(EmptyBook(opening), <<>>, 0, g) /\ ReplayFills(opening, <<>>) = g[0]
  BY <1>1, ReplayIs DEF ReplayFills
<1> QED
  BY <1>2 DEF IsReplay

(* One more fill is one more application.                                  *)
LEMMA ReplayOneMore ==
    ASSUME NEW opening, NEW S, NEW s \in Seq(S), NEW f \in S
    PROVE  ReplayFills(opening, Append(s, f)) = Apply(ReplayFills(opening, s), f)
<1> DEFINE start == EmptyBook(opening)
<1> DEFINE t == Append(s, f)
<1> DEFINE k == Len(s)
<1>1. k \in Nat /\ Len(t) = k + 1 /\ t[k + 1] = f /\ \A n \in 1 .. k : s[n] = t[n]
  OBVIOUS
<1> HIDE DEF t, k
<1>2. PICK g : IsReplay(start, s, k, g) /\ ReplayFills(opening, s) = g[k]
  BY <1>1, ReplayIs DEF k, ReplayFills
<1>3. PICK h : IsReplay(start, t, k + 1, h) /\ ReplayFills(opening, t) = h[k + 1]
  BY <1>1, ReplayIs DEF ReplayFills
<1>4. h[k + 1] = Apply(h[k], f)
  BY <1>1, <1>3 DEF IsReplay
<1>5. g[k] = h[k]
  BY <1>1, <1>2, <1>3, ReplayUnique
<1> QED
  BY <1>2, <1>3, <1>4, <1>5 DEF t
-----------------------------------------------------------------------------
LEMMA ApplyKeepsKeys ==
    ASSUME NEW b, NEW f
    PROVE  /\ FillKey(f) \in Apply(b, f).applied
           /\ \A x \in b.applied : x \in Apply(b, f).applied
BY DEF Apply

LEMMA ApplyAgainChangesNothing ==
    ASSUME NEW b, NEW f, FillKey(f) \in b.applied
    PROVE  Apply(b, f) = b
BY DEF Apply
-----------------------------------------------------------------------------

(* Euclid's algorithm finds a combination of its arguments that divides    *)
(* both.                                                                   *)
IsCombination(g, m, n) ==
    /\ \E x, y \in Int : g = m * x + n * y
    /\ \E i, j \in Int : m = g * i /\ n = g * j

LEMMA GcdCombines ==
    ASSUME NEW m \in Nat, NEW n \in Nat
    PROVE  Gcd[<<m, n>>] \in Nat /\ IsCombination(Gcd[<<m, n>>], m, n)
<1> DEFINE Good(q) == \A k \in Nat : Gcd[<<k, q>>] \in Nat /\ IsCombination(Gcd[<<k, q>>], k, q)
           T == {q \in Nat : ~Good(q)}
<1>1. SUFFICES ASSUME T # {} PROVE FALSE
  OBVIOUS
<1>2. PICK q \in T : \A r \in T : q <= r
  <2>1. T \in SUBSET Nat
    OBVIOUS
  <2> HIDE DEF T
  <2> QED
    BY <1>1, <2>1, LeastNumber
<1>3. q \in Nat /\ ~Good(q) /\ \A r \in Nat : r < q => Good(r)
  <2>1. q \in Nat /\ ~Good(q)
    BY <1>2
  <2>2. ASSUME NEW r \in Nat, r < q, ~Good(r)
        PROVE  FALSE
    <3>1. r \in T
      BY <2>2
    <3> HIDE DEF T
    <3> QED
      BY <1>2, <2>1, <2>2, <3>1
  <2> HIDE DEF Good, T
  <2> QED
    BY <2>1, <2>2
<1>4. PICK k \in Nat : ~(Gcd[<<k, q>>] \in Nat /\ IsCombination(Gcd[<<k, q>>], k, q))
  BY <1>3
<1>5. CASE q = 0
  <2>1. Gcd[<<k, q>>] = k
    BY <1>5, GcdIs DEF Euclid
  <2>2. k = k * 1 + 0 * 0 /\ k = k * 1 /\ 0 = k * 0
    OBVIOUS
  <2>3. IsCombination(k, k, 0)
    BY <2>2 DEF IsCombination
  <2> QED
    BY <1>4, <1>5, <2>1, <2>3
<1>6. CASE q # 0
  <2> DEFINE r == k % q
             d == k \div q
             g == Gcd[<<q, r>>]
  <2>1. q \in Nat \ {0} /\ r \in Nat /\ r < q /\ d \in Nat /\ k = q * d + r
    BY <1>3, <1>6
  <2>2. Gcd[<<k, q>>] = g
    BY <1>3, <1>6, GcdIs DEF Euclid, Reduced
  <2> HIDE DEF r, d, g
  <2>3. g \in Nat /\ IsCombination(g, q, r)
    BY <1>3, <2>1 DEF g
  <2>4. PICK x \in Int, y \in Int : g = q * x + r * y
    BY <2>3 DEF IsCombination
  <2>5. PICK i \in Int, j \in Int : q = g * i /\ r = g * j
    BY <2>3 DEF IsCombination
  <2>6. g = k * y + q * (x - d * y)
    BY <1>3, <2>1, <2>4
  <2>7. k = g * (i * d + j)
    BY <2>1, <2>3, <2>5
  <2>8. x - d * y \in Int /\ i * d + j \in Int
    BY <2>1, <2>4, <2>5
  <2>9. IsCombination(g, k, q)
    BY <2>5, <2>6, <2>7, <2>8, <2>4 DEF IsCombination
  <2> QED
    BY <1>4, <2>2, <2>3, <2>9
<1> QED
  BY <1>5, <1>6

(* A fraction in lowest terms.                                             *)
LowestTerms == {a \in FractionSet : \E x, y \in Int : a[1] * x + a[2] * y = 1}

(* a is v / D.                                                             *)
Valued(a, D, v) == a[1] * D = v * a[2]

LEMMA LowestIsUnique ==
    ASSUME NEW a \in LowestTerms, NEW b \in LowestTerms, a[1] * b[2] = b[1] * a[2]
    PROVE  a = b
<1>1. /\ a[1] \in Int /\ a[2] \in Nat /\ a[2] > 0 /\ b[1] \in Int /\ b[2] \in Nat /\ b[2] > 0
      /\ a = <<a[1], a[2]>> /\ b = <<b[1], b[2]>>
  BY DEF LowestTerms, FractionSet
<1>2. PICK x \in Int, y \in Int : a[1] * x + a[2] * y = 1
  BY DEF LowestTerms
<1>3. PICK u \in Int, v \in Int : b[1] * u + b[2] * v = 1
  BY DEF LowestTerms
<1> DEFINE k == b[1] * x + b[2] * y
           l == a[1] * u + a[2] * v
<1>4. k \in Int /\ l \in Int
  BY <1>1, <1>2, <1>3
<1>5. b[2] = a[2] * k
  <2>1. b[2] = b[2] * (a[1] * x + a[2] * y)
    BY <1>1, <1>2
  <2>2. b[2] * (a[1] * x + a[2] * y) = (a[1] * b[2]) * x + a[2] * (b[2] * y)
    BY <1>1, <1>2
  <2>3. (b[1] * a[2]) * x + a[2] * (b[2] * y) = a[2] * k
    BY <1>1, <1>2
  <2> QED
    BY <2>1, <2>2, <2>3
<1>6. a[2] = b[2] * l
  <2>1. a[2] = a[2] * (b[1] * u + b[2] * v)
    BY <1>1, <1>3
  <2>2. a[2] * (b[1] * u + b[2] * v) = (b[1] * a[2]) * u + b[2] * (a[2] * v)
    BY <1>1, <1>3
  <2>3. (a[1] * b[2]) * u + b[2] * (a[2] * v) = b[2] * l
    BY <1>1, <1>3
  <2> QED
    BY <2>1, <2>2, <2>3
<1> HIDE DEF k, l
<1>7. k > 0 /\ l > 0
  BY <1>1, <1>4, <1>5, <1>6
<1>8. a[2] <= b[2] /\ b[2] <= a[2]
  BY <1>1, <1>4, <1>5, <1>6, <1>7
<1>9. a[2] = b[2]
  BY <1>1, <1>8
<1>10. a[1] = b[1]
  BY <1>1, <1>9
<1> QED
  BY <1>1, <1>9, <1>10

LEMMA Quotient ==
    ASSUME NEW g \in Nat, g > 0, NEW i \in Int
    PROVE  (g * i) \div g = i
<1>1. /\ (g * i) \div g \in Int /\ ((g * i) % g) \in 0 .. g - 1
      /\ g * i = g * ((g * i) \div g) + ((g * i) % g)
  <2>1. \A k \in Int : k \div g \in Int /\ (k % g) \in 0 .. g - 1 /\ k = g * (k \div g) + (k % g)
    OBVIOUS
  <2> QED
    BY <2>1
<1> DEFINE q == (g * i) \div g
           r == (g * i) % g
<1> HIDE DEF q, r
<1>2. q \in Int /\ r \in 0 .. g - 1 /\ g * i = g * q + r
  BY <1>1 DEF q, r
<1>3. g * (i - q) = r
  BY <1>2
<1>4. i - q = 0
  <2>1. ASSUME i - q >= 1
        PROVE  FALSE
    <3>1. g * (i - q) >= g
      BY <1>2, <2>1
    <3> QED
      BY <1>2, <1>3, <3>1
  <2>2. ASSUME i - q <= -1
        PROVE  FALSE
    <3>1. g * (i - q) <= -g
      BY <1>2, <2>2
    <3> QED
      BY <1>2, <1>3, <3>1
  <2> QED
    BY <1>2, <2>1, <2>2
<1> QED
  BY <1>2, <1>4 DEF q

(* Ratio gives the fraction in lowest terms, with the value n / d.         *)
LEMMA RatioIs ==
    ASSUME NEW n \in Int, NEW d \in Int, d # 0
    PROVE  Ratio(n, d) \in LowestTerms /\ Ratio(n, d)[1] * d = n * Ratio(n, d)[2]
<1> DEFINE m == AbsInt(n)
           e == AbsInt(d)
           g == Gcd[<<m, e>>]
           s == IF d < 0 THEN -1 ELSE 1
           t == IF n < 0 THEN -1 ELSE 1
<1>1. /\ m \in Nat /\ e \in Nat /\ e > 0 /\ n = t * m /\ d = s * e
      /\ s \in {-1, 1} /\ t \in {-1, 1}
  BY DEF AbsInt
<1>2. g \in Nat /\ g > 0 /\ IsCombination(g, m, e)
  BY <1>1, GcdCombines, GcdBounds
<1>3. Ratio(n, d) = <<s * (IF n < 0 THEN -(m \div g) ELSE n \div g), e \div g>>
  BY DEF Ratio
<1>4. PICK x \in Int, y \in Int : g = m * x + e * y
  BY <1>2 DEF IsCombination
<1>5. PICK i \in Int, j \in Int : m = g * i /\ e = g * j
  BY <1>2 DEF IsCombination
<1>6. n >= 0 => n = m
  BY DEF AbsInt
<1>7. n < 0 <=> t = -1
  OBVIOUS
<1> HIDE DEF m, e, g, s, t
<1>8. m \div g = i /\ e \div g = j
  BY <1>2, <1>5, Quotient
<1>9. Ratio(n, d) = <<s * (t * i), j>>
  <2>1. CASE n < 0
    <3>1. -(m \div g) = t * i
      BY <1>5, <1>7, <1>8, <2>1
    <3> QED
      BY <1>3, <1>8, <2>1, <3>1
  <2>2. CASE ~(n < 0)
    <3>1. t = 1 /\ n = m
      BY <1>1, <1>6, <1>7, <2>2
    <3>2. n \div g = t * i
      BY <1>5, <1>8, <3>1
    <3> QED
      BY <1>3, <1>8, <2>2, <3>2
  <2> QED
    BY <2>1, <2>2
<1>10. j > 0 /\ i * x + j * y = 1
  <2>1. j > 0
    BY <1>1, <1>2, <1>5
  <2>2. g * (i * x + j * y) = g * 1
    BY <1>2, <1>4, <1>5
  <2>3. i * x + j * y \in Int
    BY <1>4, <1>5
  <2> HIDE DEF m
  <2>4. \A p, q \in Int : g * p = g * q => p = q
    BY <1>2
  <2> QED
    BY <2>1, <2>2, <2>3, <2>4
<1>11. (s * (t * i)) * (s * (t * x)) + j * y = 1
  BY <1>1, <1>4, <1>5, <1>10
<1>12. s * (t * i) \in Int /\ s * (t * x) \in Int /\ j \in Nat \ {0}
  BY <1>1, <1>4, <1>5, <1>10
<1>13. Ratio(n, d) \in LowestTerms
  BY <1>4, <1>9, <1>11, <1>12 DEF LowestTerms, FractionSet
<1>14. (s * (t * i)) * d = n * j
  <2>1. (s * (t * i)) * (s * (g * j)) = (t * (g * i)) * j
    BY <1>1, <1>2, <1>5
  <2> QED
    BY <1>1, <1>5, <2>1
<1> QED
  BY <1>9, <1>13, <1>14

LEMMA FractionParts ==
    ASSUME NEW a \in FractionSet
    PROVE  a[1] \in Int /\ a[2] \in Int /\ a[2] > 0 /\ a[2] # 0
BY DEF FractionSet

LEMMA CancelFactor ==
    ASSUME NEW x \in Int, NEW y \in Int, NEW k \in Int, k # 0, x * k = y * k
    PROVE  x = y
OBVIOUS

(* What has the value v / D after a computation that gives it n / d.       *)
LEMMA ValueOfRatio ==
    ASSUME NEW n \in Int, NEW d \in Int, d # 0, NEW D \in Int, NEW v \in Int, n * D = v * d
    PROVE  Ratio(n, d) \in LowestTerms /\ Valued(Ratio(n, d), D, v)
<1> DEFINE r == Ratio(n, d)
<1>1. r \in LowestTerms /\ r[1] * d = n * r[2]
  BY RatioIs
<1>2. r[1] \in Int /\ r[2] \in Int
  BY <1>1, FractionParts DEF LowestTerms
<1> HIDE DEF r
<1>3. (r[1] * D) * d = (v * r[2]) * d
  <2>1. (r[1] * D) * d = (r[1] * d) * D
    BY <1>2
  <2>2. (n * r[2]) * D = (n * D) * r[2]
    BY <1>2
  <2>3. (v * d) * r[2] = (v * r[2]) * d
    BY <1>2
  <2> QED
    BY <1>1, <2>1, <2>2, <2>3
<1>4. r[1] * D \in Int /\ v * r[2] \in Int
  BY <1>2
<1>5. r[1] * D = v * r[2]
  BY <1>3, <1>4, CancelFactor
<1> QED
  BY <1>1, <1>5 DEF Valued, r

LEMMA ValueOfPlus ==
    ASSUME NEW a \in FractionSet, NEW b \in FractionSet, NEW D \in Int, NEW v \in Int, NEW w \in Int,
           Valued(a, D, v), Valued(b, D, w)
    PROVE  Plus(a, b) \in LowestTerms /\ Valued(Plus(a, b), D, v + w)
<1>1. /\ a[1] \in Int /\ a[2] \in Int /\ a[2] # 0
      /\ b[1] \in Int /\ b[2] \in Int /\ b[2] # 0
  BY FractionParts
<1> DEFINE n == a[1] * b[2] + b[1] * a[2]
           d == a[2] * b[2]
<1>2. n \in Int /\ d \in Int /\ d # 0
  BY <1>1, Products
<1>3. n * D = (v + w) * d
  <2>1. n * D = (a[1] * D) * b[2] + (b[1] * D) * a[2]
    BY <1>1
  <2>2. (v * a[2]) * b[2] + (w * b[2]) * a[2] = (v + w) * d
    BY <1>1
  <2> QED
    BY <2>1, <2>2 DEF Valued
<1>4. Plus(a, b) = Ratio(n, d)
  BY DEF Plus
<1> HIDE DEF n, d
<1>5. v + w \in Int
  OBVIOUS
<1> QED
  BY <1>2, <1>3, <1>4, <1>5, ValueOfRatio

LEMMA ValueOfMinus ==
    ASSUME NEW a \in FractionSet, NEW b \in FractionSet, NEW D \in Int, NEW v \in Int, NEW w \in Int,
           Valued(a, D, v), Valued(b, D, w)
    PROVE  Minus(a, b) \in LowestTerms /\ Valued(Minus(a, b), D, v - w)
<1> DEFINE c == <<-b[1], b[2]>>
<1>1. c \in FractionSet /\ c[1] = -b[1] /\ c[2] = b[2]
  BY DEF FractionSet
<1>2. Valued(c, D, -w)
  <2>1. b[1] \in Int /\ b[2] \in Int /\ b[1] * D = w * b[2]
    BY FractionParts DEF Valued
  <2>2. (-b[1]) * D = (-w) * b[2]
    BY <2>1
  <2> QED
    BY <1>1, <2>2 DEF Valued
<1> HIDE DEF c
<1>3. -w \in Int /\ v + (-w) = v - w
  OBVIOUS
<1>4. Plus(a, c) \in LowestTerms /\ Valued(Plus(a, c), D, v + (-w))
  BY <1>1, <1>2, <1>3, ValueOfPlus
<1> QED
  BY <1>3, <1>4 DEF Minus, c

LEMMA ValueOfTimes ==
    ASSUME NEW a \in FractionSet, NEW k \in Int, NEW D \in Int, NEW v \in Int, Valued(a, D, v)
    PROVE  Times(a, Whole(k)) \in LowestTerms /\ Valued(Times(a, Whole(k)), D, k * v)
<1>1. a[1] \in Int /\ a[2] \in Int /\ a[2] # 0
  BY FractionParts
<1>2. a[1] * k \in Int /\ a[2] * 1 = a[2] /\ k * v \in Int
  BY <1>1
<1>3. (a[1] * k) * D = (k * v) * a[2]
  <2>1. (a[1] * k) * D = k * (a[1] * D)
    BY <1>1
  <2>2. k * (v * a[2]) = (k * v) * a[2]
    BY <1>1
  <2> QED
    BY <2>1, <2>2 DEF Valued
<1>4. Times(a, Whole(k)) = Ratio(a[1] * k, a[2])
  BY <1>2 DEF Times, Whole
<1> QED
  BY <1>1, <1>2, <1>3, <1>4, ValueOfRatio

LEMMA ValueOfOver ==
    ASSUME NEW a \in FractionSet, NEW k \in Int, k # 0, NEW D \in Int, NEW v \in Int, Valued(a, D, v),
           NEW w \in Int, Valued(Over(a, Whole(k)), D, w)
    PROVE  k * w = v
<1>1. a[1] \in Int /\ a[2] \in Int /\ a[2] # 0
  BY FractionParts
<1> DEFINE r == Ratio(a[1], a[2] * k)
<1>2. Over(a, Whole(k)) = r
  <2>1. a[1] * 1 = a[1]
    BY <1>1
  <2> QED
    BY <2>1 DEF Over, Whole
<1>3. a[2] * k \in Int /\ a[2] * k # 0
  BY <1>1, Products
<1>4. r \in LowestTerms /\ r[1] * (a[2] * k) = a[1] * r[2]
  BY <1>1, <1>3, RatioIs
<1>5. r[1] \in Int /\ r[2] \in Int /\ r[2] # 0
  BY <1>4, FractionParts DEF LowestTerms
<1>6. r[1] * D = w * r[2]
  BY <1>2 DEF Valued
<1> HIDE DEF r
<1>7. (k * w) * (r[2] * a[2]) = v * (r[2] * a[2])
  <2>1. (k * w) * (r[2] * a[2]) = (w * r[2]) * (a[2] * k)
    BY <1>1, <1>5
  <2>2. (r[1] * D) * (a[2] * k) = (r[1] * (a[2] * k)) * D
    BY <1>1, <1>5
  <2>3. (a[1] * r[2]) * D = (a[1] * D) * r[2]
    BY <1>1, <1>5
  <2>4. (v * a[2]) * r[2] = v * (r[2] * a[2])
    BY <1>1, <1>5
  <2> QED
    BY <1>4, <1>6, <2>1, <2>2, <2>3, <2>4 DEF Valued
<1>8. r[2] * a[2] \in Int /\ r[2] * a[2] # 0
  BY <1>1, <1>5, Products
<1>9. k * w \in Int
  OBVIOUS
<1> QED
  BY <1>7, <1>8, <1>9, CancelFactor

LEMMA ValueOfWhole ==
    ASSUME NEW n \in Int, NEW D \in Int
    PROVE  Whole(n) \in LowestTerms /\ Valued(Whole(n), D, n * D)
<1>1. n * 0 + 1 * 1 = 1 /\ n * D = (n * D) * 1
  OBVIOUS
<1> QED
  BY <1>1 DEF Whole, LowestTerms, FractionSet, Valued

LEMMA EqualByValue ==
    ASSUME NEW a \in LowestTerms, NEW b \in LowestTerms, NEW D \in Int, D # 0, NEW v \in Int,
           Valued(a, D, v), Valued(b, D, v)
    PROVE  a = b
<1>1. a[1] \in Int /\ a[2] \in Int /\ b[1] \in Int /\ b[2] \in Int
  BY FractionParts DEF LowestTerms
<1>2. (a[1] * b[2]) * D = (b[1] * a[2]) * D
  <2>1. (a[1] * b[2]) * D = (a[1] * D) * b[2]
    BY <1>1
  <2>2. (v * a[2]) * b[2] = (v * b[2]) * a[2]
    BY <1>1
  <2>3. (b[1] * D) * a[2] = (b[1] * a[2]) * D
    BY <1>1
  <2> QED
    BY <2>1, <2>2, <2>3 DEF Valued
<1>3. a[1] * b[2] \in Int /\ b[1] * a[2] \in Int
  BY <1>1
<1>4. a[1] * b[2] = b[1] * a[2]
  BY <1>2, <1>3, CancelFactor
<1> QED
  BY <1>4, LowestIsUnique

LEMMA OneValue ==
    ASSUME NEW a \in FractionSet, NEW D \in Int, NEW v \in Int, NEW w \in Int, Valued(a, D, v), Valued(a, D, w)
    PROVE  v = w
<1>1. a[1] \in Int /\ a[2] \in Int /\ a[2] # 0
  BY FractionParts
<1> QED
  BY <1>1, CancelFactor DEF Valued

(* Four fractions have a common denominator.                               *)
LEMMA CommonDenominator ==
    ASSUME NEW a \in FractionSet, NEW b \in FractionSet, NEW c \in FractionSet, NEW d \in FractionSet
    PROVE  \E D \in Int \ {0} : \E u, v, w, x \in Int :
              Valued(a, D, u) /\ Valued(b, D, v) /\ Valued(c, D, w) /\ Valued(d, D, x)
<1>1. /\ a[1] \in Int /\ a[2] \in Int /\ a[2] # 0
      /\ b[1] \in Int /\ b[2] \in Int /\ b[2] # 0
      /\ c[1] \in Int /\ c[2] \in Int /\ c[2] # 0
      /\ d[1] \in Int /\ d[2] \in Int /\ d[2] # 0
  BY FractionParts
<1> DEFINE ab == a[2] * b[2]
           cd == c[2] * d[2]
           D == ab * cd
<1>2. ab \in Int /\ ab # 0 /\ cd \in Int /\ cd # 0
  BY <1>1, Products
<1>3. D \in Int \ {0}
  <2> HIDE DEF ab, cd
  <2> QED
    BY <1>2, Products
<1>4. /\ a[1] * D = (a[1] * (b[2] * cd)) * a[2] /\ a[1] * (b[2] * cd) \in Int
      /\ b[1] * D = (b[1] * (a[2] * cd)) * b[2] /\ b[1] * (a[2] * cd) \in Int
      /\ c[1] * D = (c[1] * (ab * d[2])) * c[2] /\ c[1] * (ab * d[2]) \in Int
      /\ d[1] * D = (d[1] * (ab * c[2])) * d[2] /\ d[1] * (ab * c[2]) \in Int
  BY <1>1, <1>2
<1> HIDE DEF D, ab, cd
<1> QED
  BY <1>3, <1>4 DEF Valued

(* Addition in any order.                                                  *)
LEMMA PlusCommutes ==
    ASSUME NEW a \in FractionSet, NEW b \in FractionSet, NEW c \in FractionSet
    PROVE  /\ Plus(a, b) = Plus(b, a)
           /\ Plus(Plus(a, b), c) = Plus(a, Plus(b, c))
<1>1. PICK D \in Int \ {0}, u \in Int, v \in Int, w \in Int :
          Valued(a, D, u) /\ Valued(b, D, v) /\ Valued(c, D, w)
  BY CommonDenominator
<1>2. /\ Plus(a, b) \in LowestTerms /\ Valued(Plus(a, b), D, u + v)
      /\ Plus(b, a) \in LowestTerms /\ Valued(Plus(b, a), D, v + u)
      /\ Plus(b, c) \in LowestTerms /\ Valued(Plus(b, c), D, v + w)
  BY <1>1, ValueOfPlus
<1>3. /\ u + v \in Int /\ v + u = u + v /\ v + w \in Int /\ u + (v + w) = (u + v) + w
      /\ (u + v) + w \in Int /\ LowestTerms \subseteq FractionSet
  BY DEF LowestTerms
<1>4. Plus(a, b) = Plus(b, a)
  BY <1>1, <1>2, <1>3, EqualByValue
<1>5. /\ Plus(Plus(a, b), c) \in LowestTerms /\ Valued(Plus(Plus(a, b), c), D, (u + v) + w)
      /\ Plus(a, Plus(b, c)) \in LowestTerms /\ Valued(Plus(a, Plus(b, c)), D, u + (v + w))
  BY <1>1, <1>2, <1>3, ValueOfPlus
<1>6. Plus(Plus(a, b), c) = Plus(a, Plus(b, c))
  BY <1>1, <1>3, <1>5, EqualByValue
<1> QED
  BY <1>4, <1>6

LEMMA WholesAdd ==
    ASSUME NEW n \in Int
    PROVE  /\ Whole(n) \in LowestTerms
           /\ Plus(Whole(n), Whole(0)) = Whole(n)
           /\ Minus(Whole(n), Whole(0)) = Whole(n)
           /\ Times(Whole(0), Whole(n)) = Whole(0)
<1>1. /\ Whole(n) \in LowestTerms /\ Valued(Whole(n), 1, n * 1)
      /\ Whole(0) \in LowestTerms /\ Valued(Whole(0), 1, 0 * 1)
  BY ValueOfWhole
<1>2. /\ n * 1 = n /\ 0 * 1 = 0 /\ n + 0 = n /\ n - 0 = n /\ n * 0 = 0
      /\ LowestTerms \subseteq FractionSet
  BY DEF LowestTerms
<1>3. /\ Plus(Whole(n), Whole(0)) \in LowestTerms /\ Valued(Plus(Whole(n), Whole(0)), 1, n + 0)
      /\ Minus(Whole(n), Whole(0)) \in LowestTerms /\ Valued(Minus(Whole(n), Whole(0)), 1, n - 0)
      /\ Times(Whole(0), Whole(n)) \in LowestTerms /\ Valued(Times(Whole(0), Whole(n)), 1, n * 0)
  BY <1>1, <1>2, ValueOfPlus, ValueOfMinus, ValueOfTimes
<1> QED
  BY <1>1, <1>2, <1>3, EqualByValue

LEMMA PlusSwaps ==
    ASSUME NEW a \in FractionSet, NEW b \in FractionSet, NEW c \in FractionSet
    PROVE  Plus(Plus(a, b), c) = Plus(Plus(a, c), b)
<1>1. Plus(Plus(a, b), c) = Plus(a, Plus(b, c)) /\ Plus(b, c) = Plus(c, b)
  BY PlusCommutes
<1>2. Plus(Plus(a, c), b) = Plus(a, Plus(c, b))
  BY PlusCommutes
<1> QED
  BY <1>1, <1>2

LEMMA MinusUndoes ==
    ASSUME NEW a \in LowestTerms, NEW b \in FractionSet
    PROVE  Minus(Plus(a, b), b) = a
<1>1. a \in FractionSet
  BY DEF LowestTerms
<1>2. PICK D \in Int \ {0}, u \in Int, v \in Int : Valued(a, D, u) /\ Valued(b, D, v)
  BY <1>1, CommonDenominator
<1>3. Plus(a, b) \in FractionSet /\ Valued(Plus(a, b), D, u + v)
  BY <1>1, <1>2, ValueOfPlus DEF LowestTerms
<1>4. u + v \in Int /\ (u + v) - v = u
  OBVIOUS
<1>5. Minus(Plus(a, b), b) \in LowestTerms /\ Valued(Minus(Plus(a, b), b), D, (u + v) - v)
  BY <1>2, <1>3, <1>4, ValueOfMinus
<1> QED
  BY <1>2, <1>4, <1>5, EqualByValue

LEMMA SumOfFractions ==
    ASSUME NEW S, IsFiniteSet(S), NEW f \in [S -> FractionSet]
    PROVE  SumOf(f) \in LowestTerms
<1> DEFINE Bad == {B \in SUBSET S : \E e \in [B -> FractionSet] : SumOf(e) \notin LowestTerms}
<1> SUFFICES ASSUME Bad # {} PROVE FALSE
  OBVIOUS
<1>1. PICK B \in Bad : \A C \in Bad : Cardinality(B) <= Cardinality(C)
  <2>1. Bad \in SUBSET SUBSET S
    OBVIOUS
  <2> HIDE DEF Bad
  <2> QED
    BY <2>1, LeastSet
<1>2. IsFiniteSet(B)
  BY FS_Subset
<1>3. PICK e \in [B -> FractionSet] : SumOf(e) \notin LowestTerms
  OBVIOUS
<1>4. B # {}
  <2>1. Whole(0) \in LowestTerms
    <3>1. 0 \in Int /\ 1 \in Int
      OBVIOUS
    <3> QED
      BY <3>1, ValueOfWhole
  <2>2. SUFFICES ASSUME B = {} PROVE FALSE
    OBVIOUS
  <2>3. SumOf(e) = Whole(0)
    BY <2>2, TotalOfNothing
  <2> QED
    BY <1>3, <2>1, <2>3
<1> DEFINE x == Picked(B)
<1>5. /\ x \in B /\ Cardinality(B \ {x}) = Cardinality(B) - 1 /\ Cardinality(B) \in Nat
  BY <1>2, <1>4, WithoutPicked
<1>6. B \ {x} \notin Bad
  <2> HIDE DEF Bad
  <2> QED
    BY <1>1, <1>5
<1>7. Without(e, x) \in [B \ {x} -> FractionSet] /\ e[x] \in FractionSet
  BY <1>5 DEF Without
<1>8. SumOf(Without(e, x)) \in FractionSet
  BY <1>6, <1>7 DEF LowestTerms
<1>9. SumOf(e) = Plus(SumOf(Without(e, x)), e[x])
  BY <1>2, <1>4, TotalOfSome
<1>10. Plus(SumOf(Without(e, x)), e[x]) \in LowestTerms
  <2> DEFINE s == SumOf(Without(e, x))
  <2>1. s \in FractionSet
    BY <1>8
  <2> HIDE DEF s
  <2>2. PICK D \in Int \ {0}, u \in Int, v \in Int : Valued(s, D, u) /\ Valued(e[x], D, v)
    BY <1>7, <2>1, CommonDenominator
  <2>3. Plus(s, e[x]) \in LowestTerms
    BY <1>7, <2>1, <2>2, ValueOfPlus
  <2> QED
    BY <2>3 DEF s
<1> QED
  BY <1>3, <1>9, <1>10

(* Fractions changed in one place have their sum changed by as much.       *)
LEMMA SumOfOneChange ==
    ASSUME NEW S, IsFiniteSet(S), NEW f \in [S -> FractionSet], NEW g \in [S -> FractionSet], NEW a \in S,
           \A y \in S \ {a} : f[y] = g[y]
    PROVE  SumOf(g) = Minus(Plus(SumOf(f), g[a]), f[a])
<1> DEFINE Same(B, d, e) == IF a \in B THEN Plus(SumOf(e), d[a]) = Plus(SumOf(d), e[a]) ELSE SumOf(e) = SumOf(d)
<1> DEFINE Bad == {B \in SUBSET S : \E d \in [B -> FractionSet], e \in [B -> FractionSet] :
                      /\ \A y \in B \ {a} : d[y] = e[y]
                      /\ ~Same(B, d, e)}
<1>0. SUFFICES ASSUME Bad # {} PROVE FALSE
  <2>1. Plus(SumOf(g), f[a]) = Plus(SumOf(f), g[a])
    BY <1>0
  <2>2. SumOf(g) \in LowestTerms /\ f[a] \in FractionSet
    BY SumOfFractions
  <2> QED
    BY <2>1, <2>2, MinusUndoes
<1>1. PICK B \in Bad : \A C \in Bad : Cardinality(B) <= Cardinality(C)
  <2>1. Bad \in SUBSET SUBSET S
    OBVIOUS
  <2> HIDE DEF Bad
  <2> QED
    BY <1>0, <2>1, LeastSet
<1>2. IsFiniteSet(B)
  BY FS_Subset
<1>3. PICK d \in [B -> FractionSet], e \in [B -> FractionSet] :
         /\ \A y \in B \ {a} : d[y] = e[y]
         /\ ~Same(B, d, e)
  OBVIOUS
<1>4. B # {}
  <2>1. SUFFICES ASSUME B = {} PROVE FALSE
    OBVIOUS
  <2>2. SumOf(d) = Whole(0) /\ SumOf(e) = Whole(0) /\ a \notin B
    BY <2>1, TotalOfNothing
  <2> QED
    BY <2>2, <1>3
<1> DEFINE x == Picked(B)
<1> DEFINE C == B \ {x}
<1>5. /\ x \in B /\ Cardinality(C) = Cardinality(B) - 1 /\ Cardinality(B) \in Nat
      /\ C \in SUBSET S /\ IsFiniteSet(C)
  BY <1>2, <1>4, WithoutPicked
<1>6. C \notin Bad
  <2> HIDE DEF Bad, C
  <2> QED
    BY <1>1, <1>5
<1> DEFINE u == Without(d, x)
<1> DEFINE v == Without(e, x)
<1>7. /\ u \in [C -> FractionSet] /\ v \in [C -> FractionSet]
      /\ d[x] \in FractionSet /\ e[x] \in FractionSet
      /\ \A y \in C : u[y] = d[y] /\ v[y] = e[y]
  BY <1>5 DEF Without
<1>8. Same(C, u, v)
  <2> HIDE DEF u, v, x, Same
  <2> QED
    BY <1>3, <1>5, <1>6, <1>7
<1>9. SumOf(d) = Plus(SumOf(u), d[x]) /\ SumOf(e) = Plus(SumOf(v), e[x])
  BY <1>2, <1>4, TotalOfSome
<1>10. SumOf(u) \in FractionSet /\ SumOf(v) \in FractionSet
  <2> HIDE DEF u, v, C
  <2> QED
    BY <1>5, <1>7, SumOfFractions DEF LowestTerms
<1> HIDE DEF u, v, x
<1>11. CASE a = x
  <2>1. a \in B /\ a \notin C /\ SumOf(v) = SumOf(u)
    BY <1>5, <1>8, <1>11
  <2>2. Plus(Plus(SumOf(u), e[x]), d[x]) = Plus(Plus(SumOf(u), d[x]), e[x])
    BY <1>7, <1>10, PlusSwaps
  <2> QED
    BY <2>1, <2>2, <1>3, <1>9, <1>11
<1>12. CASE a # x /\ a \in B
  <2>1. /\ a \in C /\ d[x] = e[x] /\ u[a] = d[a] /\ v[a] = e[a] /\ d[a] \in FractionSet /\ e[a] \in FractionSet
    BY <1>3, <1>5, <1>7, <1>12
  <2>2. Plus(SumOf(v), d[a]) = Plus(SumOf(u), e[a])
    BY <1>8, <2>1
  <2>3. Plus(Plus(SumOf(v), d[x]), d[a]) = Plus(Plus(SumOf(v), d[a]), d[x])
    BY <1>7, <1>10, <2>1, PlusSwaps
  <2>4. Plus(Plus(SumOf(u), d[x]), e[a]) = Plus(Plus(SumOf(u), e[a]), d[x])
    BY <1>7, <1>10, <2>1, PlusSwaps
  <2> QED
    BY <1>3, <1>9, <1>12, <2>1, <2>2, <2>3, <2>4
<1>13. CASE a # x /\ a \notin B
  <2>1. a \notin C /\ d[x] = e[x]
    BY <1>3, <1>5, <1>13
  <2> QED
    BY <2>1, <1>3, <1>8, <1>9, <1>13
<1> QED
  BY <1>11, <1>12, <1>13

-----------------------------------------------------------------------------
PositionSet == [quantity : Int, average : LowestTerms]

BookIsTyped(b) ==
    /\ b.cash \in Int /\ b.fees \in Int
    /\ b.realized \in LowestTerms
    /\ b.positions \in [Instruments -> PositionSet]

(* What a position's basis grows by is what its fill was paid and what it  *)
(* realised: for opening, adding, reducing, closing and reversing.         *)
LEMMA MergeBalances ==
    ASSUME NEW p \in PositionSet, NEW signed \in Int, NEW price \in Int,
           NEW D \in Int, D # 0, NEW v \in Int, Valued(p.average, D, v)
    PROVE  /\ Merge(p, signed, price) \in PositionSet
           /\ RealizedBy(p, signed, price) \in LowestTerms
           /\ \E r \in Int :
                 /\ Valued(RealizedBy(p, signed, price), D, r)
                 /\ \A w \in Int : Valued(Merge(p, signed, price).average, D, w) =>
                        (p.quantity + signed) * w - p.quantity * v = signed * (price * D) + r
<1> DEFINE q == p.quantity
           m == q + signed
           c == Closing(p, signed) * (IF q > 0 THEN 1 ELSE -1)
           new == Merge(p, signed, price)
           gain == RealizedBy(p, signed, price)
           grown == Plus(Times(p.average, Whole(q)), Whole(price * signed))
           r == c * (price * D - v)
<1>1. q \in Int /\ p.average \in LowestTerms /\ p.average \in FractionSet /\ m \in Int
  BY DEF PositionSet, LowestTerms
<1>2. /\ q = 0 => c = 0
      /\ q # 0 /\ SameDirection(q, signed) => c = 0
      /\ q # 0 /\ ~SameDirection(q, signed) /\ m = 0 => c = q
      /\ q # 0 /\ ~SameDirection(q, signed) /\ m # 0 /\ SameDirection(m, q) => c = -signed
      /\ q # 0 /\ ~SameDirection(q, signed) /\ m # 0 /\ ~SameDirection(m, q) => c = q
      /\ c \in Int
  <2>1. \A x, y \in Int : Min({x, y}) = IF x <= y THEN x ELSE y
    BY DEF Min
  <2>2. AbsInt(signed) \in Int /\ AbsInt(q) \in Int
    BY <1>1 DEF AbsInt
  <2>3. Min({AbsInt(signed), AbsInt(q)}) = IF AbsInt(signed) <= AbsInt(q) THEN AbsInt(signed) ELSE AbsInt(q)
    BY <2>1, <2>2
  <2>4. q # 0 /\ ~SameDirection(q, signed) => Closing(p, signed) = IF AbsInt(signed) <= AbsInt(q) THEN AbsInt(signed) ELSE AbsInt(q)
    BY <2>3 DEF Closing
  <2>5. q = 0 \/ SameDirection(q, signed) => Closing(p, signed) = 0
    BY DEF Closing
  <2> QED
    BY <1>1, <2>4, <2>5 DEF AbsInt, SameDirection
<1>3. /\ new.quantity = m
      /\ q = 0 => new.average = Whole(price)
      /\ q # 0 /\ SameDirection(q, signed) => m # 0 /\ new.average = Over(grown, Whole(m))
      /\ q # 0 /\ ~SameDirection(q, signed) /\ m = 0 => new.average = Whole(0)
      /\ q # 0 /\ ~SameDirection(q, signed) /\ m # 0 /\ SameDirection(m, q) => new.average = p.average
      /\ q # 0 /\ ~SameDirection(q, signed) /\ m # 0 /\ ~SameDirection(m, q) => new.average = Whole(price)
  BY <1>1 DEF Merge, SameDirection
<1>4. /\ gain \in LowestTerms
      /\ Valued(gain, D, c * (price * D - v))
  <2>1. Whole(price) \in FractionSet /\ Valued(Whole(price), D, price * D) /\ price * D \in Int
    <3>1. Whole(price) \in LowestTerms /\ Valued(Whole(price), D, price * D)
      BY ValueOfWhole
    <3>2. price * D \in Int
      OBVIOUS
    <3> QED
      BY <3>1, <3>2 DEF LowestTerms
  <2>2. /\ Minus(Whole(price), p.average) \in FractionSet
        /\ Valued(Minus(Whole(price), p.average), D, price * D - v)
        /\ price * D - v \in Int
    BY <1>1, <2>1, ValueOfMinus DEF LowestTerms
  <2>3. gain = Times(Minus(Whole(price), p.average), Whole(c))
    BY DEF RealizedBy
  <2> QED
    BY <1>2, <2>2, <2>3, ValueOfTimes
<1>5. grown \in FractionSet /\ Valued(grown, D, q * v + (price * signed) * D)
  <2>1. Times(p.average, Whole(q)) \in FractionSet /\ Valued(Times(p.average, Whole(q)), D, q * v)
    BY <1>1, ValueOfTimes DEF LowestTerms
  <2>2. price * signed \in Int /\ (price * signed) * D \in Int /\ q * v \in Int
    BY <1>1
  <2>3. Whole(price * signed) \in FractionSet /\ Valued(Whole(price * signed), D, (price * signed) * D)
    BY <2>2, ValueOfWhole DEF LowestTerms
  <2> QED
    BY <2>1, <2>2, <2>3, ValueOfPlus DEF LowestTerms
<1>6. \A n \in Int : Whole(n) \in LowestTerms /\ Valued(Whole(n), D, n * D)
  BY ValueOfWhole
<1>7. new.average \in LowestTerms
  <2>1. m # 0 => Over(grown, Whole(m)) \in LowestTerms
    <3>1. grown[1] * 1 \in Int /\ grown[2] * m \in Int /\ (m # 0 => grown[2] * m # 0)
      <4> HIDE DEF grown, m
      <4>1. grown[1] \in Int /\ grown[2] \in Int /\ grown[2] # 0
        BY <1>5, FractionParts
      <4> QED
        BY <1>1, <4>1, Products
    <3>2. Over(grown, Whole(m)) = Ratio(grown[1] * 1, grown[2] * m)
      BY DEF Over, Whole
    <3> HIDE DEF grown
    <3> QED
      BY <3>1, <3>2, RatioIs
  <2> QED
    BY <1>1, <1>3, <1>6, <2>1
<1>8. new \in PositionSet
  <2>1. new = [quantity |-> new.quantity, average |-> new.average]
    BY DEF Merge
  <2> QED
    BY <1>1, <1>3, <1>7, <2>1 DEF PositionSet
<1>9. ASSUME NEW w \in Int, Valued(new.average, D, w)
      PROVE  m * w - q * v = signed * (price * D) + r
  <2> HIDE DEF new, gain, c
  <2>1. r = c * (price * D - v)
    OBVIOUS
  <2>2. ASSUME NEW x \in LowestTerms, NEW y \in Int, new.average = x, Valued(x, D, y)
        PROVE  w = y
    BY <1>9, <2>2, OneValue DEF LowestTerms
  <2>3. CASE q = 0
    <3>1. w = price * D /\ c = 0 /\ m = signed
      BY <1>2, <1>3, <1>6, <2>2, <2>3
    <3> QED
      BY <1>1, <2>1, <2>3, <3>1
  <2>4. CASE q # 0 /\ SameDirection(q, signed)
    <3>1. c = 0 /\ m # 0 /\ new.average = Over(grown, Whole(m))
      BY <1>2, <1>3, <2>4
    <3>2. m * w = q * v + (price * signed) * D
      <4>1. q * v + (price * signed) * D \in Int
        BY <1>1
      <4> HIDE DEF grown, m
      <4> QED
        BY <1>1, <1>5, <1>9, <3>1, <4>1, ValueOfOver
    <3> QED
      BY <1>1, <2>1, <3>1, <3>2
  <2>5. CASE q # 0 /\ ~SameDirection(q, signed) /\ m = 0
    <3>1. c = q /\ signed = -q
      BY <1>1, <1>2, <2>5
    <3> QED
      BY <1>1, <2>1, <2>5, <3>1
  <2>6. CASE q # 0 /\ ~SameDirection(q, signed) /\ m # 0 /\ SameDirection(m, q)
    <3>1. c = -signed /\ w = v
      BY <1>1, <1>2, <1>3, <2>2, <2>6
    <3> QED
      BY <1>1, <2>1, <3>1
  <2>7. CASE q # 0 /\ ~SameDirection(q, signed) /\ m # 0 /\ ~SameDirection(m, q)
    <3>1. c = q /\ w = price * D
      BY <1>2, <1>3, <1>6, <2>2, <2>7
    <3> QED
      BY <1>1, <2>1, <3>1
  <2> QED
    BY <2>3, <2>4, <2>5, <2>6, <2>7
<1>10. r \in Int
  <2> HIDE DEF c
  <2> QED
    BY <1>2
<1> HIDE DEF new, gain, r
<1> QED
  BY <1>4, <1>8, <1>9, <1>10 DEF new, gain, r

Bases(b) == [i \in Instruments |-> Times(b.positions[i].average, Whole(b.positions[i].quantity))]

LEMMA BasesAreFractions ==
    ASSUME NEW b, BookIsTyped(b)
    PROVE  Bases(b) \in [Instruments -> FractionSet] /\ Basis(b) = SumOf(Bases(b))
<1>1. ASSUME NEW i \in Instruments
      PROVE  Times(b.positions[i].average, Whole(b.positions[i].quantity)) \in FractionSet
  <2> DEFINE a == b.positions[i].average
             q == b.positions[i].quantity
  <2>1. a \in FractionSet /\ q \in Int
    BY DEF BookIsTyped, PositionSet, LowestTerms
  <2> HIDE DEF a, q
  <2>2. PICK D \in Int, v \in Int : Valued(a, D, v)
    BY <2>1, CommonDenominator
  <2>3. Times(a, Whole(q)) \in LowestTerms
    BY <2>1, <2>2, ValueOfTimes
  <2> QED
    BY <2>3 DEF LowestTerms, a, q
<1> QED
  BY <1>1 DEF Bases, Basis

Balanced(b, opening) ==
    Plus(Whole(b.cash), Basis(b)) = Plus(Whole(opening), Minus(b.realized, Whole(b.fees)))

LEMMA ApplyBalances ==
    ASSUME IsFiniteSet(Instruments), NEW b, BookIsTyped(b), NEW opening \in Int, Balanced(b, opening),
           NEW f, f.instrument \in Instruments, f.quantity \in Int, f.price \in Int, f.costs \in Int
    PROVE  BookIsTyped(Apply(b, f)) /\ Balanced(Apply(b, f), opening)
<1>1. SUFFICES ASSUME FillKey(f) \notin b.applied
               PROVE  BookIsTyped(Apply(b, f)) /\ Balanced(Apply(b, f), opening)
  BY DEF Apply
<1> DEFINE i == f.instrument
           signed == f.quantity * Sign(f.side)
           p == b.positions[i]
           new == Merge(p, signed, f.price)
           gain == RealizedBy(p, signed, f.price)
           n == Apply(b, f)
<1>2. /\ n.cash = b.cash - signed * f.price - f.costs
      /\ n.positions = [b.positions EXCEPT ![i] = new]
      /\ n.realized = Plus(b.realized, gain)
      /\ n.fees = b.fees + f.costs
  BY <1>1 DEF Apply
<1>3. signed \in Int /\ p \in PositionSet /\ i \in Instruments
  BY DEF Sign, BookIsTyped
<1>4. p.average \in FractionSet /\ p.quantity \in Int
  BY <1>3 DEF PositionSet, LowestTerms
<1>5. b.realized \in FractionSet /\ b.cash \in Int /\ b.fees \in Int
  BY DEF BookIsTyped, LowestTerms
<1> HIDE DEF i, p, signed, new, gain, n
<1>6. new \in PositionSet /\ gain \in LowestTerms /\ new.quantity = p.quantity + signed
  <2>1. PICK D \in Int \ {0}, v \in Int : Valued(p.average, D, v)
    BY <1>4, CommonDenominator
  <2> QED
    BY <1>3, <2>1, MergeBalances DEF new, gain, Merge
<1>7. BookIsTyped(n)
  <2>1. n.cash \in Int /\ n.fees \in Int
    BY <1>2, <1>3, <1>5
  <2>2. n.realized \in LowestTerms
    <3>1. gain \in FractionSet
      BY <1>6 DEF LowestTerms
    <3>2. PICK D \in Int, u \in Int, v \in Int : Valued(b.realized, D, u) /\ Valued(gain, D, v)
      BY <1>5, <3>1, CommonDenominator
    <3> QED
      BY <1>2, <1>5, <3>1, <3>2, ValueOfPlus
  <2>3. n.positions \in [Instruments -> PositionSet]
    BY <1>2, <1>3, <1>6 DEF BookIsTyped
  <2> QED
    BY <2>1, <2>2, <2>3 DEF BookIsTyped
<1>8. Basis(n) = Minus(Plus(Basis(b), Bases(n)[i]), Bases(b)[i])
  <2>1. /\ Bases(b) \in [Instruments -> FractionSet] /\ Basis(b) = SumOf(Bases(b))
        /\ Bases(n) \in [Instruments -> FractionSet] /\ Basis(n) = SumOf(Bases(n))
    BY <1>7, BasesAreFractions
  <2>2. \A j \in Instruments \ {i} : Bases(b)[j] = Bases(n)[j]
    <3>1. \A j \in Instruments \ {i} : n.positions[j] = b.positions[j]
      BY <1>2 DEF BookIsTyped
    <3> QED
      BY <3>1 DEF Bases
  <2> QED
    BY <1>3, <2>1, <2>2, SumOfOneChange
<1>9. /\ Bases(n)[i] = Times(new.average, Whole(new.quantity))
      /\ Bases(b)[i] = Times(p.average, Whole(p.quantity))
  BY <1>2, <1>3 DEF Bases, p, BookIsTyped
<1>10. Basis(b) \in LowestTerms /\ Basis(b) \in FractionSet /\ new.average \in FractionSet
  <2>1. Basis(b) \in LowestTerms
    BY BasesAreFractions, SumOfFractions
  <2> QED
    BY <1>6, <2>1 DEF PositionSet, LowestTerms
<1>11. PICK D \in Int \ {0}, v \in Int, w \in Int, R \in Int, B \in Int :
          /\ Valued(p.average, D, v) /\ Valued(new.average, D, w)
          /\ Valued(b.realized, D, R) /\ Valued(Basis(b), D, B)
  BY <1>4, <1>5, <1>10, CommonDenominator
<1>12. PICK r \in Int : /\ Valued(gain, D, r)
                        /\ (p.quantity + signed) * w - p.quantity * v = signed * (f.price * D) + r
  <2>1. PICK r \in Int :
            /\ Valued(gain, D, r)
            /\ \A x \in Int : Valued(new.average, D, x) =>
                  (p.quantity + signed) * x - p.quantity * v = signed * (f.price * D) + r
    BY <1>3, <1>11, MergeBalances DEF new, gain
  <2> QED
    BY <1>11, <2>1
<1>13. \A a : a \in LowestTerms => a \in FractionSet
  BY DEF LowestTerms
<1>14. \A k \in Int : Whole(k) \in FractionSet /\ Valued(Whole(k), D, k * D) /\ k * D \in Int
  <2>1. ASSUME NEW k \in Int
        PROVE  Whole(k) \in FractionSet /\ Valued(Whole(k), D, k * D) /\ k * D \in Int
    <3>1. D \in Int /\ k * D \in Int
      OBVIOUS
    <3>2. Whole(k) \in LowestTerms /\ Valued(Whole(k), D, k * D)
      BY <3>1, ValueOfWhole
    <3> QED
      BY <1>13, <3>1, <3>2
  <2> QED
    BY <2>1
<1>15. b.cash * D + B = opening * D + (R - b.fees * D)
  <2>1. /\ Plus(Whole(b.cash), Basis(b)) \in LowestTerms
        /\ Valued(Plus(Whole(b.cash), Basis(b)), D, b.cash * D + B)
    BY <1>5, <1>10, <1>11, <1>14, ValueOfPlus
  <2>2. /\ Minus(b.realized, Whole(b.fees)) \in FractionSet
        /\ Valued(Minus(b.realized, Whole(b.fees)), D, R - b.fees * D)
        /\ R - b.fees * D \in Int
    <3>1. Whole(b.fees) \in FractionSet /\ Valued(Whole(b.fees), D, b.fees * D) /\ b.fees * D \in Int
      BY <1>5, <1>14
    <3>2. /\ Minus(b.realized, Whole(b.fees)) \in LowestTerms
          /\ Valued(Minus(b.realized, Whole(b.fees)), D, R - b.fees * D)
      BY <1>5, <1>11, <3>1, ValueOfMinus
    <3> QED
      BY <1>11, <1>13, <3>1, <3>2
  <2>3. Valued(Plus(Whole(opening), Minus(b.realized, Whole(b.fees))), D, opening * D + (R - b.fees * D))
    BY <1>14, <2>2, ValueOfPlus
  <2>4. b.cash * D + B \in Int /\ opening * D + (R - b.fees * D) \in Int
    BY <1>5, <1>14
  <2> QED
    BY <1>13, <2>1, <2>3, <2>4, OneValue DEF Balanced
<1> DEFINE m == p.quantity + signed
           N == (B + m * w) - p.quantity * v
<1>16. Basis(n) \in FractionSet /\ Valued(Basis(n), D, N) /\ N \in Int
  <2>1. m \in Int /\ m * w \in Int /\ p.quantity * v \in Int /\ B + m * w \in Int /\ N \in Int
    BY <1>3, <1>4
  <2>2. Bases(n)[i] \in FractionSet /\ Valued(Bases(n)[i], D, m * w)
    <3>1. Bases(n)[i] = Times(new.average, Whole(m))
      BY <1>6, <1>9
    <3> HIDE DEF m
    <3>2. Times(new.average, Whole(m)) \in LowestTerms /\ Valued(Times(new.average, Whole(m)), D, m * w)
      BY <1>10, <1>11, <2>1, ValueOfTimes
    <3> QED
      BY <1>13, <3>1, <3>2
  <2>3. Bases(b)[i] \in FractionSet /\ Valued(Bases(b)[i], D, p.quantity * v)
    BY <1>4, <1>9, <1>11, <1>13, ValueOfTimes
  <2>4. Plus(Basis(b), Bases(n)[i]) \in FractionSet /\ Valued(Plus(Basis(b), Bases(n)[i]), D, B + m * w)
    BY <1>10, <1>11, <1>13, <2>1, <2>2, ValueOfPlus
  <2> HIDE DEF m
  <2> QED
    BY <1>8, <1>11, <1>13, <2>1, <2>3, <2>4, ValueOfMinus
<1>17. Plus(b.realized, gain) \in FractionSet /\ Valued(Plus(b.realized, gain), D, R + r) /\ R + r \in Int
  BY <1>5, <1>6, <1>11, <1>12, <1>13, ValueOfPlus
<1>18. n.cash * D + N = opening * D + ((R + r) - n.fees * D)
  <2>1. n.cash * D = b.cash * D - signed * (f.price * D) - f.costs * D
    BY <1>2, <1>3, <1>5
  <2>2. n.fees * D = b.fees * D + f.costs * D
    BY <1>2, <1>5
  <2>3. m * w - p.quantity * v = signed * (f.price * D) + r
    BY <1>12
  <2>4. /\ b.cash * D \in Int /\ b.fees * D \in Int /\ f.costs * D \in Int /\ opening * D \in Int
        /\ signed * (f.price * D) \in Int /\ m * w \in Int /\ p.quantity * v \in Int
    BY <1>3, <1>4, <1>5
  <2> HIDE DEF m
  <2> QED
    BY <1>15, <2>1, <2>2, <2>3, <2>4
<1> HIDE DEF N, m
<1>19. Balanced(n, opening)
  <2>1. n.cash \in Int /\ n.fees \in Int
    BY <1>7 DEF BookIsTyped
  <2>2. /\ Plus(Whole(n.cash), Basis(n)) \in LowestTerms
        /\ Valued(Plus(Whole(n.cash), Basis(n)), D, n.cash * D + N)
    BY <1>14, <1>16, <2>1, ValueOfPlus
  <2>3. /\ Minus(n.realized, Whole(n.fees)) \in FractionSet
        /\ Valued(Minus(n.realized, Whole(n.fees)), D, (R + r) - n.fees * D)
        /\ (R + r) - n.fees * D \in Int
    <3>1. Whole(n.fees) \in FractionSet /\ Valued(Whole(n.fees), D, n.fees * D) /\ n.fees * D \in Int
      BY <1>14, <2>1
    <3>2. /\ Minus(n.realized, Whole(n.fees)) \in LowestTerms
          /\ Valued(Minus(n.realized, Whole(n.fees)), D, (R + r) - n.fees * D)
      BY <1>2, <1>11, <1>17, <3>1, ValueOfMinus
    <3> QED
      BY <1>13, <1>17, <3>1, <3>2
  <2>4. /\ Plus(Whole(opening), Minus(n.realized, Whole(n.fees))) \in LowestTerms
        /\ Valued(Plus(Whole(opening), Minus(n.realized, Whole(n.fees))), D,
                  opening * D + ((R + r) - n.fees * D))
    BY <1>14, <2>3, ValueOfPlus
  <2>5. n.cash * D + N \in Int
    BY <1>14, <1>16, <2>1
  <2> QED
    BY <1>18, <2>2, <2>4, <2>5, EqualByValue DEF Balanced
<1> QED
  BY <1>7, <1>19 DEF n

LEMMA SumOfZeros ==
    ASSUME NEW S, IsFiniteSet(S), NEW f \in [S -> {Whole(0)}]
    PROVE  SumOf(f) = Whole(0)
<1> DEFINE Bad == {B \in SUBSET S : \E e \in [B -> {Whole(0)}] : SumOf(e) # Whole(0)}
<1> SUFFICES ASSUME Bad # {} PROVE FALSE
  OBVIOUS
<1>1. PICK B \in Bad : \A C \in Bad : Cardinality(B) <= Cardinality(C)
  <2>1. Bad \in SUBSET SUBSET S
    OBVIOUS
  <2> HIDE DEF Bad
  <2> QED
    BY <2>1, LeastSet
<1>2. IsFiniteSet(B)
  BY FS_Subset
<1>3. PICK e \in [B -> {Whole(0)}] : SumOf(e) # Whole(0)
  OBVIOUS
<1>4. B # {}
  BY <1>3, TotalOfNothing
<1> DEFINE x == Picked(B)
<1>5. /\ x \in B /\ Cardinality(B \ {x}) = Cardinality(B) - 1 /\ Cardinality(B) \in Nat
  BY <1>2, <1>4, WithoutPicked
<1>6. B \ {x} \notin Bad
  <2> HIDE DEF Bad
  <2> QED
    BY <1>1, <1>5
<1>7. Without(e, x) \in [B \ {x} -> {Whole(0)}] /\ e[x] = Whole(0)
  BY <1>5 DEF Without
<1>8. SumOf(Without(e, x)) = Whole(0)
  BY <1>6, <1>7
<1>9. SumOf(e) = Plus(SumOf(Without(e, x)), e[x])
  BY <1>2, <1>4, TotalOfSome
<1>10. Plus(Whole(0), Whole(0)) = Whole(0)
  BY WholesAdd
<1> QED
  BY <1>3, <1>7, <1>8, <1>9, <1>10

(* An account begins balanced.                                             *)
LEMMA EmptyBookBalances ==
    ASSUME IsFiniteSet(Instruments), NEW opening \in Int
    PROVE  BookIsTyped(EmptyBook(opening)) /\ Balanced(EmptyBook(opening), opening)
<1> DEFINE b == EmptyBook(opening)
<1>1. /\ b.cash = opening /\ b.fees = 0 /\ b.realized = Whole(0)
      /\ b.positions = [i \in Instruments |-> Flat]
  BY DEF EmptyBook
<1>2. Whole(0) \in LowestTerms /\ Flat \in PositionSet
  <2>1. 0 \in Int
    OBVIOUS
  <2> QED
    BY <2>1, WholesAdd DEF PositionSet, Flat
<1>3. BookIsTyped(b)
  BY <1>1, <1>2 DEF BookIsTyped
<1>4. Basis(b) = Whole(0)
  <2>1. ASSUME NEW i \in Instruments
        PROVE  Bases(b)[i] = Whole(0)
    <3>1. Bases(b)[i] = Times(Whole(0), Whole(0))
      BY <1>1 DEF Bases, Flat
    <3> QED
      BY <3>1, WholesAdd
  <2>2. Bases(b) \in [Instruments -> {Whole(0)}]
    BY <2>1 DEF Bases
  <2> QED
    BY <1>3, <2>2, BasesAreFractions, SumOfZeros
<1> HIDE DEF b
<1>5. Balanced(b, opening)
  BY <1>1, <1>4, WholesAdd DEF Balanced
<1> QED
  BY <1>3, <1>5 DEF b
=============================================================================
