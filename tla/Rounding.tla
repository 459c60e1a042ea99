----------------------------- MODULE Rounding ------------------------------
(***************************************************************************)
(* The functions that round to an integer, as they compute it on the bits: *)
(* ceil, floor, trunc, round, nearbyint, lround (src/optimized) and rint,   *)
(* lrint, modf, lroundf (src/ref).  Each gives what a call returns and the  *)
(* exceptions it raises in a rounding direction of the caller.  Lanes of   *)
(* the vector functions vrd2_round to vrs16_roundf are here too.            *)
(***************************************************************************)
EXTENDS FloatArithmetic

CONSTANT LONGBITS     \* the width of long int

ASSUME LongAssumption == LONGBITS \in Nat /\ LONGBITS > M + 2

\* 2^(M + 1), which is beyond all fractions, is a number.
ASSUME RangeAssumption == M < EXPBIAS

LONG_MIN == -pow2[LONGBITS - 1]

Answer(value, raised) == [ret |-> value, flags |-> raised]

Raised(inexact) == IF inexact THEN {"inexact"} ELSE {}

TWOPOW_M  == (EXPBIAS + M) * IMPBIT        \* EXP_VAL_52_DP64, 0x4330...
TWOPOW_M1 == (EXPBIAS + M + 1) * IMPBIT    \* TWOPOW53_DP64, 0x4340...

\* The exponent of the number without its bias: rexp, intexp, xexp.
intexp(u) == ExponentField(Magnitude(u)) - EXPBIAS

\* u with the lowest k bits of its fraction cleared, u & ~mask.
Cleared(u, k) == u - (u % pow2[k])

\* Slip: the bit of one half is kept.
IntegralHalf(x) == IF intexp(x) = M THEN x ELSE Cleared(x, M - 1 - intexp(x))

\* x without its fraction, |x| at least 1 and below 2^(M + 1).
Integral(x) == Cleared(x, M - intexp(x))

Quiet(x) == IF IsSignalling(x) THEN Answer(Quieted(x), {"invalid"}) ELSE Answer(x, {})

\* Slip: the sign of a small negative number is lost.
ceilUnsigned(x, mode) ==
    LET ur == Integral(x)
    IN  CASE Magnitude(x) >= TWOPOW_M1 -> Quiet(x)
          [] Magnitude(x) < POS_ONE    -> Answer(IF IsZero(x) \/ Negative(x) THEN 0
                                                 ELSE POS_ONE, {})
          [] OTHER -> Answer(IF Negative(x) \/ ur = x THEN ur
                             ELSE Sum(mode, ur, POS_ONE), {})

ceil(x, mode) ==
    LET ur == Integral(x)
    IN  CASE Magnitude(x) >= TWOPOW_M1 -> Quiet(x)
          [] Magnitude(x) < POS_ONE    -> Answer(IF IsZero(x) THEN x
                                                 ELSE IF Negative(x) THEN NEG_ZERO
                                                 ELSE POS_ONE, {})
          [] OTHER -> Answer(IF Negative(x) \/ ur = x THEN ur
                             ELSE Sum(mode, ur, POS_ONE), {})

floor(x, mode) ==
    LET ur == Integral(x)
    IN  CASE Magnitude(x) >= TWOPOW_M1 -> Quiet(x)
          [] Magnitude(x) < POS_ONE    -> Answer(IF IsZero(x) THEN x
                                                 ELSE IF Negative(x) THEN Negated(POS_ONE)
                                                 ELSE 0, {})
          [] OTHER -> Answer(IF Negative(x) /\ ur # x THEN Difference(mode, ur, POS_ONE)
                             ELSE ur, {})

\* Every NaN raises invalid and a signalling one comes back as it was.
trunc(x, mode) ==
    IF IsNaN(x) THEN Answer(x, {"invalid"})
    ELSE IF intexp(x) > M - 1 THEN Answer(x, {})
    ELSE Answer(IF intexp(x) < 0 THEN SignOf(x) ELSE Integral(x), {})

\* The half is added to the bits: a carry runs on into the exponent.
round(x, mode) ==
    IF intexp(x) >= M THEN Quiet(x)
    ELSE IF intexp(x) < 0
         THEN Answer(SignOf(x) + (IF intexp(x) = -1 THEN POS_ONE ELSE 0), {})
    ELSE Answer(IF Integral(x) = x THEN x
                ELSE Cleared(x + pow2[M - 1 - intexp(x)], M - intexp(x)), {})

\* A lane of the vector functions: the processor rounds |x| to the nearest integer,
\* an even one in a tie, which the remainder of one half then gives away.
RoundedLane(x, raised) ==
    LET even      == RoundedIn("nearest", NearestInteger(Units(Magnitude(x)), UnitsOfOne) * UnitsOfOne, 1)
        remainder == Difference("nearest", Magnitude(x), even)
    IN  IF IsNaN(x) THEN Quiet(x)
        ELSE IF IsInf(x) THEN Answer(x, {"invalid"})      \* infinity - infinity
        ELSE Answer(SignOf(x) + Sum("nearest", even, IF remainder = HALF THEN POS_ONE ELSE 0),
                    IF even = Magnitude(x) THEN {} ELSE raised)

vrd2_round(x)  == RoundedLane(x, {})           \* _MM_FROUND_NO_EXC
vrs4_roundf(x) == RoundedLane(x, {"inexact"})

-----------------------------------------------------------------------------
(* Adding and taking away 2^M rounds in the direction of the caller.       *)

Shifter(x) == SignOf(x) + TWOPOW_M

Shifted(mode, x) == Difference(mode, Sum(mode, x, Shifter(x)), Shifter(x))

\* Slip: only the second operation is looked at.
ShiftRaisesLate(mode, x) ==
    Raised(~SumExact(mode, Sum(mode, x, Shifter(x)), Negated(Shifter(x))))

ShiftRaises(mode, x) ==
    Raised(\/ ~SumExact(mode, x, Shifter(x))
           \/ ~SumExact(mode, Sum(mode, x, Shifter(x)), Negated(Shifter(x))))

\* The sign is ORed in, which cannot take the sign of a -0 away.
nearbyint(x, mode) ==
    IF Magnitude(x) > TWOPOW_M THEN Quiet(x)
    ELSE Answer(Magnitude(Shifted(mode, x))
                    + (IF Negative(Shifted(mode, x)) THEN SIGNBIT ELSE SignOf(x)),
                ShiftRaises(mode, x))

rint(x, mode) ==
    IF Magnitude(x) > TWOPOW_M THEN Quiet(x)
    ELSE Answer(SignOf(x) + Magnitude(Shifted(mode, x)), ShiftRaises(mode, x))

\* (long)x by the processor: a value out of range gives LONG_MIN and invalid.
ToLong(x) ==
    LET v == Value(x) \div UnitsOfOne
    IN  IF Finite(x) /\ v \in LONG_MIN .. -LONG_MIN - 1 THEN Answer(v, {})
        ELSE Answer(LONG_MIN, {"invalid"})

\* An integer or out of range, so the conversion itself never rounds.
lrint(x, mode) ==
    IF Magnitude(x) > TWOPOW_M THEN ToLong(x)
    ELSE Answer(ToLong(Shifted(mode, x)).ret, ShiftRaises(mode, x))

-----------------------------------------------------------------------------
(* lround: |x| + 1/2 in floating point, then the significand is shifted.   *)

WithSign(x, v) == IF Negative(x) THEN -v ELSE v

Significand(u) == IMPBIT + Fraction(u)

\* Slip: one half is added to large numbers too, where it rounds.
NearestLongAdds(x, mode) ==
    LET r == Sum(mode, Magnitude(x), HALF)
        shift == intexp(r) - M
    IN  Answer(WithSign(x, IF shift < 0 THEN Significand(r) \div pow2[-shift]
                         ELSE Significand(r) * pow2[shift]), {})

NearestLong(x, mode) ==
    LET r == IF intexp(x) < M THEN Sum(mode, Magnitude(x), HALF) ELSE Magnitude(x)
        shift == intexp(r) - M
    IN  Answer(WithSign(x, IF shift < 0 THEN Significand(r) \div pow2[-shift]
                         ELSE Significand(r) * pow2[shift]),
               Raised(intexp(x) < M /\ ~SumExact(mode, Magnitude(x), HALF)))

\* Too large a number, -2^(LONGBITS - 1) included, gives (long)(-0.0).
lround(x, mode) ==
    IF ~Finite(x) THEN Answer(LONG_MIN, {"invalid"})
    ELSE IF intexp(x) < -1 \/ intexp(x) >= LONGBITS - 1 THEN Answer(0, {})
    ELSE NearestLong(x, mode)

lroundf(x, mode) ==
    IF ~Finite(x) THEN Answer(LONG_MIN, IF IsSignalling(x) THEN {"invalid"} ELSE {})
    ELSE IF intexp(x) < -1 THEN Answer(0, {})
    ELSE IF intexp(x) >= LONGBITS - 1 THEN Answer(LONG_MIN, {})
    ELSE NearestLong(x, mode)

-----------------------------------------------------------------------------
(* modf returns the fraction and stores the integer through iptr.          *)

iptr(x) ==
    CASE Magnitude(x) >= TWOPOW_M1 -> x
      [] Magnitude(x) < POS_ONE    -> SignOf(x)
      [] OTHER                     -> Integral(x)

modf(x, mode) ==
    LET r == Difference(mode, x, iptr(x))
    IN  CASE Magnitude(x) >= TWOPOW_M1 -> IF IsNaN(x) THEN Quiet(x)
                                          ELSE Answer(SignOf(x), {})
          [] Magnitude(x) < POS_ONE    -> Answer(x, {})
          [] OTHER -> Answer(Magnitude(r) + (IF Negative(r) THEN SIGNBIT ELSE SignOf(x)), {})
============================================================================
