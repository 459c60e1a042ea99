------------------------------- MODULE Power -------------------------------
(***************************************************************************)
(* The special cases of pow and powf (src/optimized).  A positive x with an *)
(* ordinary y goes to the polynomials; the result is then Kernel, or        *)
(* MinusKernel if its sign is set.                                         *)
(***************************************************************************)
EXTENDS ErrorHandling

CONSTANTS YSMALL,       \* below it, x^y rounds to 1 for every x: 2^-65
          YLARGE        \* from it on, x^y is 0, 1 or infinite: 2^63

\* From YLARGE on a number has no bit of weight one.
ExponentThresholds == /\ YSMALL \in Nat /\ YLARGE \in Nat
                      /\ 0 < YSMALL /\ YSMALL < POS_ONE
                      /\ (EXPBIAS + M + 1) * IMPBIT <= YLARGE /\ YLARGE < EXPBITS

\* 0 for no integer, 1 for an odd and 2 for an even one, from the lowest bit of
\* weight one; that of 1.0 is the lowest bit of its exponent field.
checkint(u) ==
    LET e    == ExponentField(u)
        unit == pow2[EXPBIAS + M - e]
    IN  IF e < EXPBIAS THEN 0
        ELSE IF e > EXPBIAS + M THEN 2
        ELSE IF u % unit # 0 THEN 0
        ELSE IF (u \div unit) % 2 = 1 THEN 1 ELSE 2

MinusKernel == -2

checkzeroinfnan(u) == IsZero(u) \/ ~Finite(u)

\* x + y with a NaN: the first one, or a signalling one, shows.
AddNaN(x, y) ==
    Handled(Quieted(IF IsNaN(x) THEN x ELSE y),
            IF IsSignalling(x) \/ IsSignalling(y) THEN {AMD_F_INVALID} ELSE {})

result_sign(x, y) == IF Negative(x) /\ checkint(y) = 1 THEN SIGNBIT ELSE 0

\* y is zero, infinite or a NaN: alike in pow and powf.
SpecialExponent(x, y) ==
    IF IsZero(y) THEN IF IsSignalling(x) THEN AddNaN(x, y) ELSE Silent(POS_ONE)
    ELSE IF x = POS_ONE THEN IF IsSignalling(y) THEN AddNaN(x, y) ELSE Silent(POS_ONE)
    ELSE IF IsNaN(x) \/ IsNaN(y) THEN AddNaN(x, y)
    ELSE IF Magnitude(x) = POS_ONE THEN Silent(POS_ONE)
    ELSE IF (Magnitude(x) < POS_ONE) = ~Negative(y) THEN Silent(0)
    ELSE Silent(EXPBITS)

\* Slip: the sign is that of x, whether y is odd or not.
SpecialBaseSigned(x, y, poleFlags) ==
    IF IsNaN(x) THEN AddNaN(x, x)
    ELSE IF IsZero(x) /\ Negative(y)
         THEN [ret |-> EXPBITS + SignOf(x), flags |-> poleFlags]
    ELSE IF IsZero(x) = ~Negative(y) THEN Silent(SignOf(x))
    ELSE Silent(EXPBITS + SignOf(x))

\* x is zero, infinite or a NaN and y is none of them; a pole raises poleFlags.
SpecialBase(x, y, poleFlags) ==
    IF IsNaN(x) THEN AddNaN(x, x)
    ELSE IF IsZero(x) /\ Negative(y)
         THEN [ret |-> EXPBITS + result_sign(x, y), flags |-> poleFlags]
    ELSE IF IsZero(x) = ~Negative(y) THEN Silent(result_sign(x, y))
    ELSE Silent(EXPBITS + result_sign(x, y))

\* |y| is so small or so large that only |x| < 1, = 1 or > 1 matters.
ExtremeExponent(x, y) ==
    IF Magnitude(x) = POS_ONE THEN Handled(POS_ONE, {AMD_F_INEXACT})
    ELSE IF Magnitude(y) < YSMALL THEN Handled(POS_ONE, {AMD_F_INEXACT})
    ELSE IF (Magnitude(x) > POS_ONE) = ~Negative(y)
         THEN Handled(EXPBITS, {AMD_F_INEXACT, AMD_F_OVERFLOW})
    ELSE alm_pow_special(0, POW_Z_ZERO)

Extreme(y) == Magnitude(y) < YSMALL \/ Magnitude(y) >= YLARGE

\* The square root of a negative number.
NotReal == Handled(INDEFBITPATT, {AMD_F_INVALID})

Signed(x, y) == Silent(IF result_sign(x, y) = 0 THEN Kernel ELSE MinusKernel)

pow(x, y) ==
    IF ~Negative(x) /\ IMPBIT <= x /\ Finite(x) /\ ~Extreme(y) THEN Silent(Kernel)
    ELSE IF checkzeroinfnan(y) THEN SpecialExponent(x, y)
    ELSE IF checkzeroinfnan(x)
         THEN SpecialBase(x, y, alm_pow_special(0, POW_X_ZERO_Z_INF).flags)
    ELSE IF Negative(x) /\ checkint(y) = 0 THEN NotReal
    ELSE IF Extreme(y) THEN ExtremeExponent(x, y)
    ELSE Signed(x, y)

\* Slip: a power that is no real number is looked for before a zero exponent.
powfDomainFirst(x, y) ==
    IF Negative(x) /\ checkint(y) = 0 THEN NotReal
    ELSE IF checkzeroinfnan(y) THEN SpecialExponent(x, y)
    ELSE IF checkzeroinfnan(x)
         THEN SpecialBase(x, y, Exceptions({AMD_F_DIVBYZERO}))
    ELSE Signed(x, y)

\* powf computes in double precision and takes no y aside for its size.
powf(x, y) ==
    IF ~Negative(x) /\ IMPBIT <= x /\ Finite(x) /\ ~checkzeroinfnan(y) THEN Silent(Kernel)
    ELSE IF checkzeroinfnan(y) THEN SpecialExponent(x, y)
    ELSE IF checkzeroinfnan(x)
         THEN SpecialBase(x, y, Exceptions({AMD_F_DIVBYZERO}))
    ELSE IF Negative(x) /\ checkint(y) = 0 THEN NotReal
    ELSE Signed(x, y)

-----------------------------------------------------------------------------
(* Rules about an answer a that one of them gives for x and y.             *)

IsOdd(y) == checkint(y) = 1

NoRealPower(x, y) == /\ Negative(x) /\ Finite(x) /\ ~IsZero(x)
                     /\ Finite(y) /\ checkint(y) = 0

\* x^0 and 1^y are 1 even if the other argument is a quiet NaN.
IsOne(x, y) == (IsZero(y) /\ ~IsSignalling(x)) \/ (x = POS_ONE /\ ~IsSignalling(y))

\* A NaN comes of a NaN, unless the power is 1 whatever it stands for, and of a
\* negative number to a power that is no integer; it is quiet, and invalid is
\* raised for such a power and for a signalling NaN only.
PowerNaNRule(x, y, a) ==
    /\ IsNaN(a.ret) <=> \/ (IsNaN(x) \/ IsNaN(y)) /\ ~IsOne(x, y)
                        \/ NoRealPower(x, y) /\ ~IsZero(y)
    /\ IsNaN(a.ret) => IsQuiet(a.ret)
    /\ IsOne(x, y) => a.ret \in {POS_ONE, Kernel}
    /\ "invalid" \in a.flags <=>
           \/ IsSignalling(x) \/ IsSignalling(y)
           \/ NoRealPower(x, y) /\ ~IsZero(y)

\* The sign is set exactly for a negative x, also -0 and -infinity, and an odd y.
PowerSignRule(x, y, a) ==
    ~IsNaN(a.ret) => ((a.ret = MinusKernel \/ (a.ret # Kernel /\ Negative(a.ret)))
                          <=> (Negative(x) /\ ~IsNaN(x) /\ Finite(y) /\ IsOdd(y)))

\* Division by zero is raised for zero to a negative finite power.  Of numbers a
\* result is infinite only if |x| > 1 and y > 0 or |x| < 1 and y < 0, zero only the
\* other way round; and of finite numbers other than zero it is told by a flag.
PowerRangeRule(x, y, a) ==
    /\ "divbyzero" \in a.flags <=> IsZero(x) /\ Negative(y) /\ Finite(y) /\ ~IsZero(y)
    /\ IsInf(a.ret) => /\ Magnitude(x) # POS_ONE /\ ~IsZero(y)
                       /\ (Magnitude(x) > POS_ONE) = ~Negative(y)
                       /\ \/ "overflow" \in a.flags \/ "divbyzero" \in a.flags
                          \/ IsInf(x) \/ IsInf(y)
    /\ (a.ret # Kernel /\ IsZero(a.ret)) =>
           /\ Magnitude(x) # POS_ONE /\ ~IsZero(y)
           /\ (Magnitude(x) < POS_ONE) = ~Negative(y)
           /\ "underflow" \in a.flags \/ IsZero(x) \/ IsInf(x) \/ IsInf(y)

Reciprocal(ret) == IF IsZero(ret) THEN ret + EXPBITS
                   ELSE IF IsInf(ret) THEN ret - EXPBITS ELSE ret

\* b is the answer for x and -y: zeros and infinities are exchanged with their
\* sign kept, and a power that is taken aside is taken aside both ways.
ReciprocalRule(a, b) ==
    ~IsNaN(a.ret) => b.ret = IF a.ret \in {Kernel, MinusKernel} THEN a.ret
                             ELSE Reciprocal(a.ret)

\* a of pow and b of powf have the same sign, and the same value and exceptions
\* unless only pow takes the arguments aside.
PowerTwinRule(a, b) ==
    IF b.ret \in {Kernel, MinusKernel} THEN a.ret = b.ret \/ a.ret \in {0, POS_ONE, EXPBITS}
    ELSE a.ret = b.ret /\ a.flags = b.flags
============================================================================
