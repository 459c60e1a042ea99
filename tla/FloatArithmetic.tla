-------------------------- MODULE FloatArithmetic --------------------------
(***************************************************************************)
(* The operations of the processor that the scalar functions are built from,*)
(* in the four rounding directions of fesetround.  A finite number is its   *)
(* signed value, an integer number of units of the smallest subnormal.      *)
(***************************************************************************)
EXTENDS SmallFloat

Modes == {"nearest", "upward", "downward", "towardzero"}

POS_ONE  == EXPBIAS * IMPBIT
HALF     == (EXPBIAS - 1) * IMPBIT
NEG_ZERO == SIGNBIT

UnitsOfOne == Units(POS_ONE)

IsSignalling(u) == IsNaN(u) /\ ~IsQuiet(u)

AbsValue(v) == IF v < 0 THEN -v ELSE v
Value(u)    == IF Negative(u) THEN -Units(Magnitude(u)) ELSE Units(u)

\* Magnitude and sign of n / d, d > 0, rounded in a direction.
RoundedIn(mode, n, d) ==
    LET k      == Binade(AbsValue(n), d)
        step   == d * pow2[k]
        q      == AbsValue(n) \div step
        r      == AbsValue(n) % step
        away   == \/ mode = "upward" /\ n > 0
                  \/ mode = "downward" /\ n < 0
        larger == IF mode = "nearest" THEN NearestInteger(AbsValue(n), step) > q
                  ELSE away /\ r > 0
        u      == q + (IF larger THEN 1 ELSE 0) + k * IMPBIT
        top    == IF mode = "nearest" \/ away THEN EXPBITS ELSE EXPBITS - 1
    IN  (IF n < 0 THEN SIGNBIT ELSE 0) + (IF u < EXPBITS THEN u ELSE top)

\* a + b of finite numbers: an exact zero is -0 only downward or from -0 + -0.
Sum(mode, a, b) ==
    LET v == Value(a) + Value(b)
    IN  IF v # 0 THEN RoundedIn(mode, v, 1)
        ELSE IF SignOf(a) = SignOf(b) THEN SignOf(a)
        ELSE IF mode = "downward" THEN NEG_ZERO ELSE 0

SumExact(mode, a, b) == /\ Finite(Sum(mode, a, b))
                        /\ Value(Sum(mode, a, b)) = Value(a) + Value(b)

Difference(mode, a, b) == Sum(mode, a, Negated(b))

\* The value of n units after an operation rounded it to nearest.
Nearest(n) == (IF n < 0 THEN -1 ELSE 1) * Units(Rounded(AbsValue(n), 1))

-----------------------------------------------------------------------------
(* Quotients, which have no unit: a / b rounds to p significant bits and   *)
(* its conversion to an integer truncates towards zero.                    *)

QuotientOf(p, n, d) ==
    IF n >= d * pow2[p]
    THEN LET k == CHOOSE j \in 1 .. n : /\ n < d * pow2[p + j]
                                            /\ n >= d * pow2[p + j - 1]
         IN  NearestInteger(n, d * pow2[k]) * pow2[k]
    ELSE LET k == CHOOSE j \in 0 .. p : /\ j < p => n * pow2[j] >= d * pow2[p - 1]
                                        /\ j > 0 => n * pow2[j - 1] < d * pow2[p - 1]
         IN  NearestInteger(n * pow2[k], d) \div pow2[k]

TruncatedQuotient(p, n, d) == IF n < 0 THEN -QuotientOf(p, -n, d) ELSE QuotientOf(p, n, d)
============================================================================
