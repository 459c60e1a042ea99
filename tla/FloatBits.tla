----------------------------- MODULE FloatBits -----------------------------
(***************************************************************************)
(* IEEE-754 numbers as the library handles them: the unsigned integer that *)
(* asuint64 (asuint32) makes of a double (float).  Three masks say how its *)
(* bits are divided; the fraction is the part below EXPBITS.               *)
(***************************************************************************)
EXTENDS Integers

CONSTANTS SIGNBIT,   \* SIGNBIT_DP64, the weight of the sign bit
          EXPBITS,   \* EXPBITS_DP64, the bits of the exponent; also +infinity
          QNAN_MASK  \* QNAN_MASK_64, the highest bit of the fraction

ASSUME FormatAssumption ==
    /\ SIGNBIT \in Nat /\ EXPBITS \in Nat /\ QNAN_MASK \in Nat
    /\ 0 < QNAN_MASK /\ 2 * QNAN_MASK < EXPBITS
    /\ EXPBITS + 2 * QNAN_MASK = SIGNBIT

Patterns == 0 .. 2 * SIGNBIT - 1

Negative(u) == u >= SIGNBIT

\* u & ~SIGNBIT
Magnitude(u) == IF Negative(u) THEN u - SIGNBIT ELSE u

\* u & SIGNBIT
SignOf(u) == IF Negative(u) THEN SIGNBIT ELSE 0

\* -u
Negated(u) == IF Negative(u) THEN u - SIGNBIT ELSE u + SIGNBIT

IsNaN(u)   == Magnitude(u) > EXPBITS
IsQuiet(u) == Magnitude(u) >= EXPBITS + QNAN_MASK
IsInf(u)   == Magnitude(u) = EXPBITS
IsZero(u)  == Magnitude(u) = 0
Finite(u)  == Magnitude(u) < EXPBITS

\* u | QNAN_MASK, for an infinity or a NaN.
Quieted(u) == IF IsQuiet(u) THEN u ELSE u + QNAN_MASK

\* The place of a number on the real axis: consecutive floats have consecutive
\* ordinals, and both zeros have ordinal 0.  Comparing ordinals is what <, ==
\* and > do on two numbers.
Ordinal(u) == IF Negative(u) THEN SIGNBIT - u ELSE u
============================================================================
