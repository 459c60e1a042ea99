---------------------------- MODULE SmallFloat -----------------------------
(***************************************************************************)
(* A floating-point format with E exponent bits and M fraction bits: double *)
(* has E = 11 and M = 52, float E = 8 and M = 23.  The value of a finite    *)
(* magnitude is an integer number of units of the smallest subnormal.      *)
(***************************************************************************)
EXTENDS Integers

CONSTANTS E, M

ASSUME SizeAssumption == E \in Nat /\ M \in Nat /\ E >= 3 /\ M >= 2

\* 2 to the power n
pow2[n \in Nat] == IF n = 0 THEN 1 ELSE 2 * pow2[n - 1]

SIGNBIT   == pow2[E + M]
EXPBITS   == (pow2[E] - 1) * pow2[M]
QNAN_MASK == pow2[M - 1]

INSTANCE FloatBits

IMPBIT     == pow2[M]               \* the implicit bit of a normal number
EXPBIAS    == pow2[E - 1] - 1
BIASEDEMAX == pow2[E] - 2           \* the largest exponent field of a finite number
EMIN       == 1 - EXPBIAS
MULTIPLIER == M + 1               \* MULTIPLIER_DP, MULTIPLIER_SP

ExponentField(u) == Magnitude(u) \div IMPBIT
Fraction(u)      == u % IMPBIT

IsSubnormal(u) == ExponentField(u) = 0 /\ ~IsZero(u)

Units(u) == IF ExponentField(u) = 0 THEN Fraction(u)
            ELSE (IMPBIT + Fraction(u)) * pow2[ExponentField(u) - 1]

-----------------------------------------------------------------------------
(* Rounding to nearest, ties to even: what one operation of the processor  *)
(* does to the exact result n / d units.                                   *)

NearestInteger(n, d) ==
    LET q == n \div d
        r == n % d
    IN  IF 2 * r > d \/ (2 * r = d /\ q % 2 = 1) THEN q + 1 ELSE q

\* How many binades n / d is above those of a spacing of one unit.
Binade(n, d) == CHOOSE k \in 0 .. n :
                    /\ n < d * IMPBIT * pow2[k + 1]
                    /\ k > 0 => n >= d * IMPBIT * pow2[k]

\* The magnitude; a carry out of the fraction goes into the exponent.
Rounded(n, d) ==
    LET k == Binade(n, d)
        u == NearestInteger(n, d * pow2[k]) + k * IMPBIT
    IN  IF u > EXPBITS THEN EXPBITS ELSE u

\* x * 2^k in a single rounding, for |k| up to the width of the format.
Numerator(u, k)   == IF k >= 0 THEN Units(u) * pow2[k] ELSE Units(u)
Denominator(k)    == IF k >= 0 THEN 1 ELSE pow2[-k]
Scaled(u, k)      == SignOf(u) + Rounded(Numerator(u, k), Denominator(k))
ScalesExact(u, k) == Units(Rounded(Numerator(u, k), Denominator(k))) * Denominator(k)
                         = Numerator(u, k)
============================================================================
