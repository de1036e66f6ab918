----------------------------- MODULE Fractions -----------------------------
(***************************************************************************)
(* Exact fractions <<numerator, denominator>> in lowest terms with a       *)
(* positive denominator: what the program's Decimal arithmetic computes    *)
(* before it rounds, which no property of this project depends on; and     *)
(* totals.                                                                 *)
(***************************************************************************)
EXTENDS Integers, FiniteSetsExt

AbsInt(n) == IF n < 0 THEN -n ELSE n

Gcd[p \in Nat \X Nat] == IF p[2] = 0 THEN p[1] ELSE Gcd[<<p[2], p[1] % p[2]>>]

Ratio(n, d) ==
    LET g == Gcd[<<AbsInt(n), AbsInt(d)>>]
        s == IF d < 0 THEN -1 ELSE 1
    IN  <<s * (IF n < 0 THEN -(AbsInt(n) \div g) ELSE n \div g), AbsInt(d) \div g>>

Whole(n) == <<n, 1>>

Plus(a, b)  == Ratio(a[1] * b[2] + b[1] * a[2], a[2] * b[2])
Minus(a, b) == Plus(a, <<-b[1], b[2]>>)
Times(a, b) == Ratio(a[1] * b[1], a[2] * b[2])
Over(a, b)  == Ratio(a[1] * b[2], a[2] * b[1])

AtMost(a, b) == a[1] * b[2] <= b[1] * a[2]

(* The total of the values of a function.                                  *)
TotalOf(f) == MapThenSumSet(LAMBDA x : f[x], DOMAIN f)
=============================================================================
