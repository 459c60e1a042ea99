----------------------------- MODULE Elementary -----------------------------
(***************************************************************************)
(* The special cases of the elementary functions of one argument, double    *)
(* and float (src/optimized): which arguments they take aside before the    *)
(* polynomial, what they return for them and which exceptions they raise.   *)
(* What a polynomial computes is left out; it is the result Kernel.         *)
(***************************************************************************)
EXTENDS ErrorHandling

CONSTANTS HUGE,       \* the smallest number that overflows when it is doubled
          TINY,       \* below it a function is its own first approximation
          OVERARG,    \* the largest argument whose exponential is finite
          DENORMARG,  \* minus it has an exponential below the normal numbers
          UNDERARG,   \* minus it has an exponential that rounds to zero
          SATURATION  \* above it atan and tanh do not change

TWO == POS_ONE + 2 * QNAN_MASK

Thresholds == /\ {POS_ONE, HUGE, TINY, OVERARG, DENORMARG, UNDERARG, SATURATION} \subseteq Nat
              /\ 1 < TINY /\ TINY < POS_ONE
              /\ POS_ONE < SATURATION /\ SATURATION < EXPBITS
              /\ TWO < EXPBITS
              /\ POS_ONE < OVERARG /\ OVERARG < DENORMARG
              /\ DENORMARG < UNDERARG /\ UNDERARG < HUGE /\ HUGE < EXPBITS

MINUS_ONE == SIGNBIT + POS_ONE

\* x | QNANBITPATT: a quiet NaN with the sign of x, without a number's fraction.
MadeNaN(x) == IF Finite(x) THEN SignOf(x) + QNANBITPATT ELSE Quieted(x)

IsQuietNaN(x) == IsNaN(x) /\ IsQuiet(x)

-----------------------------------------------------------------------------
(* Logarithms: double log, log10, log2, log1p                              *)

Logarithm(x, ZeroCode) ==
    IF IsZero(x) THEN alm_log_special(NEG_INF, ZeroCode)
    ELSE IF x = EXPBITS \/ IsQuietNaN(x) THEN Silent(x)
    ELSE IF IsNaN(x) \/ Negative(x) THEN alm_log_special(MadeNaN(x), ALM_E_IN_X_NAN)
    ELSE Silent(Kernel)

log(x)   == Logarithm(x, ALM_E_DIV_BY_ZER0)
log10(x) == Logarithm(x, AMD_F_DIVBYZERO)
log2(x)  == Logarithm(x, AMD_F_DIVBYZERO)

\* The unsigned comparison takes every number from -1 down.
log1p(x) ==
    IF x = EXPBITS THEN Silent(x)
    ELSE IF IsNaN(x) THEN alm_log_special(MadeNaN(x), ALM_E_IN_X_NAN)
    ELSE IF x = MINUS_ONE THEN alm_log_special(NEG_INF, AMD_F_DIVBYZERO)
    ELSE IF x > MINUS_ONE THEN alm_log_special(MadeNaN(x), ALM_E_IN_X_NAN)
    ELSE IF Magnitude(x) < TINY THEN Silent(x)
    ELSE Silent(Kernel)

(* float: logf, log2f, log10f, log1pf                                      *)

\* Slip: a negative number is reported with a code that its handler does not know.
logfUnknownCode(x) ==
    IF IsZero(x) THEN alm_logf_special(NEG_INF, ALM_E_DIV_BY_ZER0)
    ELSE IF IsQuietNaN(x) THEN Silent(x)
    ELSE IF IsNaN(x) \/ Negative(x) THEN alm_logf_special(QNANBITPATT, AMD_F_INVALID)
    ELSE IF IsInf(x) THEN Silent(EXPBITS)
    ELSE Silent(Kernel)

logf(x) ==
    IF IsZero(x) THEN alm_logf_special(NEG_INF, ALM_E_DIV_BY_ZER0)
    ELSE IF IsQuietNaN(x) THEN Silent(x)
    ELSE IF IsNaN(x) THEN After(Equated(x).flags, alm_logf_special(QNANBITPATT, ALM_E_IN_X_NAN))
    ELSE IF Negative(x) THEN alm_logf_special(QNANBITPATT, ALM_E_IN_X_NEG)
    ELSE IF IsInf(x) THEN Silent(EXPBITS)
    ELSE Silent(Kernel)

log2f(x) == logf(x)

\* x * 2 is compared with zero for every negative x, and may overflow; the sign
\* is looked at before x is known to be a number.
Doubled(x) == IF Finite(x) /\ Magnitude(x) >= HUGE THEN Exceptions({AMD_F_OVERFLOW})
              ELSE Equated(x).flags

log10f(x) ==
    IF IsZero(x) THEN alm_logf_special(NEG_INF, ALM_E_IN_X_ZERO)
    ELSE IF Negative(x)
         THEN After(Doubled(x), alm_logf_special(QNANBITPATT, ALM_E_IN_X_NEG))
    ELSE IF IsNaN(x) THEN After(Doubled(x), alm_logf_special(QNANBITPATT, ALM_E_IN_X_NAN))
    ELSE IF IsInf(x) THEN Silent(EXPBITS)
    ELSE Silent(Kernel)

log1pf(x) ==
    IF x = EXPBITS \/ IsQuietNaN(x) THEN Silent(x)
    ELSE IF ~Finite(x) THEN alm_logf_special(QNANBITPATT, ALM_E_IN_X_NEG)
    ELSE IF x = MINUS_ONE THEN alm_logf_special(NEG_INF, AMD_F_DIVBYZERO)
    ELSE IF x > MINUS_ONE THEN alm_logf_special(MadeNaN(x), ALM_E_IN_X_NEG)
    ELSE IF Magnitude(x) < TINY THEN Silent(x)
    ELSE Silent(Kernel)

-----------------------------------------------------------------------------
(* Exponentials: double exp, exp2, exp10, expm1                            *)

Above(x, t)   == ~Negative(x) /\ x > t
AtLeast(x, t) == ~Negative(x) /\ x >= t
Below(x, t)   == Negative(x) /\ Magnitude(x) > t
AtMost(x, t)  == Negative(x) /\ Magnitude(x) >= t

\* The test for a NaN stands behind a comparison that no NaN passes.
exp(x) ==
    IF Magnitude(x) < TINY THEN Silent(POS_ONE)
    ELSE IF IsNaN(x) THEN Ordered(x)
    ELSE IF x = EXPBITS THEN Silent(x)
    ELSE IF x = NEG_INF THEN Silent(0)
    ELSE IF Above(x, OVERARG) THEN alm_exp_special(EXPBITS, ALM_E_IN_X_INF)
    ELSE IF AtMost(x, UNDERARG) THEN alm_exp_special(0, ALM_E_IN_X_ZERO)
    ELSE IF AtMost(x, DENORMARG) THEN alm_exp_special(1, ALM_E_IN_X_ZERO)
    ELSE Silent(Kernel)

\* No infinity is taken aside.
exp2(x) ==
    IF IsNaN(x) THEN Ordered(x)
    ELSE IF AtLeast(x, OVERARG) THEN alm_exp_special(EXPBITS, ALM_E_IN_X_INF)
    ELSE IF AtMost(x, UNDERARG) THEN alm_exp_special(0, ALM_E_IN_X_ZERO)
    ELSE Silent(Kernel)

exp10(x) ==
    IF Magnitude(x) < TINY THEN Silent(POS_ONE)
    ELSE IF IsQuietNaN(x) THEN Silent(x)
    ELSE IF IsNaN(x) THEN After(Equated(x).flags, alm_exp_special(QNANBITPATT, ALM_E_IN_X_NAN))
    ELSE IF x = EXPBITS THEN Silent(x)
    ELSE IF x = NEG_INF THEN Silent(0)
    ELSE IF AtLeast(x, OVERARG) THEN alm_exp_special(EXPBITS, ALM_E_IN_X_INF)
    ELSE IF AtMost(x, UNDERARG) THEN alm_exp_special(0, ALM_E_IN_X_ZERO)
    ELSE Silent(Kernel)

expm1(x) ==
    IF IsNaN(x) THEN Ordered(x)
    ELSE IF Above(x, OVERARG) THEN alm_expm1_special(EXPBITS, ALM_E_OVERFLOW)
    ELSE IF Below(x, SATURATION) THEN Silent(MINUS_ONE)
    ELSE IF IsZero(x) THEN Silent(x)
    ELSE IF Magnitude(x) < TINY THEN alm_expm1_special(x, ALM_E_UNDERFLOW)
    ELSE Silent(Kernel)

(* float: expf, exp2f, exp10f, expm1f                                      *)

expf(x) ==
    IF IsNaN(x) THEN Equated(x)
    ELSE IF x = NEG_INF THEN Silent(0)
    ELSE IF x = EXPBITS THEN Silent(EXPBITS)
    ELSE IF Above(x, OVERARG) THEN alm_exp_special(EXPBITS, ALM_E_IN_X_INF)
    ELSE IF Below(x, UNDERARG) THEN alm_exp_special(0, ALM_E_IN_X_ZERO)
    ELSE Silent(Kernel)

exp2f(x) == expf(x)

exp10f(x) ==
    IF IsNaN(x) THEN Equated(x)
    ELSE IF x = NEG_INF THEN Silent(0)
    ELSE IF x = EXPBITS THEN Silent(EXPBITS)
    ELSE IF Above(x, OVERARG) THEN Handled(EXPBITS, {AMD_F_OVERFLOW, AMD_F_INEXACT})
    ELSE IF Below(x, UNDERARG) THEN Handled(0, {AMD_F_UNDERFLOW, AMD_F_INEXACT})
    ELSE Silent(Kernel)

\* A zero goes through the polynomial, which adds +0 and -0.
expm1f(x) ==
    IF IsNaN(x) THEN Ordered(x)
    ELSE IF Above(x, OVERARG) THEN Handled(EXPBITS, {AMD_F_OVERFLOW, AMD_F_INEXACT})
    ELSE IF AtMost(x, SATURATION) THEN Silent(MINUS_ONE)
    ELSE IF IsZero(x) THEN Silent(0)
    ELSE Silent(Kernel)

-----------------------------------------------------------------------------
(* Trigonometric functions and their inverses                              *)

sin(x) == IF ~Finite(x) THEN _sin_cos_special(x)
          ELSE IF Magnitude(x) <= TINY THEN Silent(x) ELSE Silent(Kernel)
cos(x) == IF ~Finite(x) THEN _sin_cos_special(x)
          ELSE IF Magnitude(x) < TINY THEN Silent(POS_ONE) ELSE Silent(Kernel)
tan(x) == IF ~Finite(x) THEN _sin_cos_special(x)
          ELSE IF IsZero(x) THEN Silent(x)
          ELSE IF Magnitude(x) < TINY THEN Handled(x, {AMD_F_UNDERFLOW, AMD_F_INEXACT})
          ELSE Silent(Kernel)

sinf(x) == IF ~Finite(x) THEN _sin_cos_special(x)
           ELSE IF Magnitude(x) < TINY THEN Silent(x) ELSE Silent(Kernel)
cosf(x) == cos(x)
tanf(x) == tan(x)

acos(x) ==
    IF IsNaN(x) THEN alm_acos_special(x, ALM_E_IN_X_NAN)
    ELSE IF x = POS_ONE THEN Silent(0)
    ELSE IF Magnitude(x) > POS_ONE THEN alm_acos_special(x, ALM_E_OUT_NAN)
    ELSE Silent(Kernel)

asin(x) ==
    IF IsNaN(x) THEN alm_acos_special(x, ALM_E_IN_X_NAN)
    ELSE IF Magnitude(x) < TINY THEN Silent(x)
    ELSE IF Magnitude(x) > POS_ONE THEN alm_acos_special(x, ALM_E_OUT_NAN)
    ELSE Silent(Kernel)

acosf(x) == acos(x)

\* NaNs and zeros go through the polynomial, after x < 0 and Y > 1.0.
asinf(x) ==
    IF IsNaN(x) THEN Ordered(x)
    ELSE IF Magnitude(x) > POS_ONE THEN alm_acos_special(x, ALM_E_OUT_NAN)
    ELSE IF IsZero(x) THEN Silent(x)
    ELSE Silent(Kernel)

atan(x) ==
    IF IsZero(x) THEN Silent(x)
    ELSE IF Magnitude(x) < TINY THEN Handled(x, {AMD_F_UNDERFLOW, AMD_F_INEXACT})
    ELSE IF IsNaN(x) THEN Operated(x)
    ELSE Silent(Kernel)

\* The constant for large arguments is returned with an overflow.
atanf(x) ==
    IF IsNaN(x) THEN Equated(x)
    ELSE IF IsZero(x) THEN Silent(x)
    ELSE IF Magnitude(x) < TINY THEN Handled(x, {AMD_F_UNDERFLOW, AMD_F_INEXACT})
    ELSE IF Magnitude(x) > SATURATION THEN Handled(Kernel, {AMD_F_OVERFLOW})
    ELSE Silent(Kernel)

-----------------------------------------------------------------------------
(* Hyperbolic functions and their inverses                                 *)

\* Slip: an overflow is positive.
sinhUnsigned(x) ==
    IF IsZero(x) \/ IsInf(x) THEN Silent(x)
    ELSE IF Magnitude(x) < TINY THEN Handled(x, {AMD_F_INEXACT, AMD_F_UNDERFLOW})
    ELSE IF IsNaN(x) THEN Operated(x)
    ELSE IF Magnitude(x) >= OVERARG THEN Handled(EXPBITS, {AMD_F_OVERFLOW})
    ELSE Silent(Kernel)

sinh(x) ==
    IF IsZero(x) \/ IsInf(x) THEN Silent(x)
    ELSE IF Magnitude(x) < TINY THEN Handled(x, {AMD_F_INEXACT, AMD_F_UNDERFLOW})
    ELSE IF IsNaN(x) THEN Operated(x)
    ELSE IF Magnitude(x) >= OVERARG THEN Handled(SignOf(x) + EXPBITS, {AMD_F_OVERFLOW})
    ELSE Silent(Kernel)

sinhf(x) == sinh(x)

cosh(x) ==
    IF Magnitude(x) < TINY THEN Silent(POS_ONE)
    ELSE IF IsNaN(x) THEN Operated(x)
    ELSE IF IsInf(x) THEN Silent(EXPBITS)
    ELSE IF Magnitude(x) >= OVERARG THEN Handled(EXPBITS, {AMD_F_OVERFLOW})
    ELSE Silent(Kernel)

coshf(x) ==
    IF IsNaN(x) THEN Operated(x)
    ELSE IF Magnitude(x) > OVERARG THEN Handled(EXPBITS, {AMD_F_OVERFLOW})
    ELSE Silent(Kernel)

tanh(x) ==
    IF IsZero(x) THEN Silent(x)
    ELSE IF Magnitude(x) < TINY THEN Handled(x, {AMD_F_INEXACT, AMD_F_UNDERFLOW})
    ELSE IF IsNaN(x) THEN Equated(x)
    ELSE IF Magnitude(x) > SATURATION THEN Silent(SignOf(x) + POS_ONE)
    ELSE Silent(Kernel)

\* Slip: zero is found to be tiny before it is found to be zero.
tanhfTinyFirst(x) ==
    IF Magnitude(x) < TINY THEN Handled(x, {AMD_F_INEXACT, AMD_F_UNDERFLOW})
    ELSE IF IsNaN(x) THEN Operated(x)
    ELSE IF Magnitude(x) > SATURATION THEN Handled(SignOf(x) + POS_ONE, {AMD_F_INEXACT})
    ELSE Silent(Kernel)

tanhf(x) ==
    IF IsZero(x) THEN Silent(x)
    ELSE IF Magnitude(x) < TINY THEN Handled(x, {AMD_F_INEXACT, AMD_F_UNDERFLOW})
    ELSE IF IsNaN(x) THEN Operated(x)
    ELSE IF Magnitude(x) > SATURATION THEN Handled(SignOf(x) + POS_ONE, {AMD_F_INEXACT})
    ELSE Silent(Kernel)

atanh(x) ==
    IF IsNaN(x) THEN Handled(Quieted(x), IF IsQuiet(x) THEN {} ELSE {AMD_F_INVALID})
    ELSE IF Magnitude(x) > POS_ONE THEN Handled(INDEFBITPATT, {AMD_F_INVALID})
    ELSE IF Magnitude(x) = POS_ONE THEN Handled(SignOf(x) + EXPBITS, {AMD_F_DIVBYZERO})
    ELSE IF IsZero(x) THEN Silent(x)
    ELSE IF Magnitude(x) < TINY THEN Handled(x, {AMD_F_UNDERFLOW, AMD_F_INEXACT})
    ELSE Silent(Kernel)

atanhf(x) == atanh(x)

asinh(x) ==
    IF IsNaN(x) THEN Handled(Quieted(x), IF IsQuiet(x) THEN {} ELSE {AMD_F_INVALID})
    ELSE IF IsInf(x) \/ IsZero(x) THEN Silent(x)
    ELSE IF Magnitude(x) < TINY THEN Handled(x, {AMD_F_UNDERFLOW, AMD_F_INEXACT})
    ELSE Silent(Kernel)

asinhf(x) == asinh(x)

acosh(x) ==
    IF IsNaN(x) THEN Handled(Quieted(x), {AMD_F_INVALID})
    ELSE IF x = EXPBITS THEN Silent(x)
    ELSE IF x = POS_ONE THEN Silent(0)
    ELSE IF Negative(x) \/ x < POS_ONE THEN Handled(INDEFBITPATT, {AMD_F_INVALID})
    ELSE Silent(Kernel)

acoshf(x) ==
    IF IsNaN(x) THEN Handled(Quieted(x), IF IsQuiet(x) THEN {} ELSE {AMD_F_INVALID})
    ELSE IF x = EXPBITS THEN Silent(x)
    ELSE IF Negative(x) \/ x < POS_ONE THEN Handled(INDEFBITPATT, {AMD_F_INVALID})
    ELSE Silent(Kernel)

-----------------------------------------------------------------------------
(* Cube roots                                                              *)

cbrt(x) ==
    IF IsInf(x) THEN After(cbrt_special(x, AMD_F_OVERFLOW), Silent(x))
    ELSE IF IsNaN(x) THEN After(cbrt_special(x, AMD_F_INVALID), Operated(x))
    ELSE IF IsZero(x) THEN Silent(0)
    ELSE Silent(Kernel)

cbrtf(x) ==
    IF IsInf(x) THEN After(Exceptions({AMD_F_OVERFLOW}), Silent(x))
    ELSE IF IsNaN(x) THEN After(Exceptions({AMD_F_INVALID}), Operated(x))
    ELSE IF IsZero(x) THEN Silent(0)
    ELSE Silent(Kernel)
-----------------------------------------------------------------------------
(* Error functions                                                         *)

\* A NaN loses its sign if it is signalling.
erf(x) ==
    IF Magnitude(x) <= SATURATION THEN Silent(Kernel)
    ELSE IF IsSignalling(x) THEN Handled(Magnitude(x), {AMD_F_INVALID})
    ELSE IF IsNaN(x) THEN Silent(Magnitude(x))
    ELSE Silent(SignOf(x) + POS_ONE)

erff(x) ==
    IF Magnitude(x) <= SATURATION THEN Silent(Kernel)
    ELSE IF IsSignalling(x) THEN Handled(Magnitude(x), {AMD_F_INVALID})
    ELSE IF IsNaN(x) THEN Silent(x)
    ELSE Silent(SignOf(x) + POS_ONE)

\* The compiler folds TINY * TINY, so nothing tells of the underflow.
erfc(x) ==
    IF IsInf(x) THEN Silent(IF Negative(x) THEN TWO ELSE 0)
    ELSE IF IsNaN(x) THEN Operated(x)
    ELSE IF AtMost(x, SATURATION) THEN Silent(TWO)
    ELSE IF AtLeast(x, UNDERARG) THEN Silent(0)
    ELSE Silent(Kernel)

erfcf(x) == erfc(x)
-----------------------------------------------------------------------------
\* The float version of each function.
FloatOf == [log |-> "logf", log10 |-> "log10f", log2 |-> "log2f",
            log1p |-> "log1pf", exp |-> "expf", exp2 |-> "exp2f",
            exp10 |-> "exp10f", expm1 |-> "expm1f", sin |-> "sinf",
            cos |-> "cosf", tan |-> "tanf", acos |-> "acosf",
            asin |-> "asinf", atan |-> "atanf", sinh |-> "sinhf",
            cosh |-> "coshf", tanh |-> "tanhf", atanh |-> "atanhf",
            asinh |-> "asinhf", acosh |-> "acoshf", cbrt |-> "cbrtf",
            erf |-> "erff", erfc |-> "erfcf"]

ElementaryFunctions == DOMAIN FloatOf \cup {FloatOf[f] : f \in DOMAIN FloatOf}

\* What a call of f returns and raises.
Answered(f, x) ==
    CASE f = "log"    -> log(x)
      [] f = "logf"   -> logf(x)
      [] f = "log10"  -> log10(x)
      [] f = "log10f" -> log10f(x)
      [] f = "log2"   -> log2(x)
      [] f = "log2f"  -> log2f(x)
      [] f = "log1p"  -> log1p(x)
      [] f = "log1pf" -> log1pf(x)
      [] f = "exp"    -> exp(x)
      [] f = "expf"   -> expf(x)
      [] f = "exp2"   -> exp2(x)
      [] f = "exp2f"  -> exp2f(x)
      [] f = "exp10"  -> exp10(x)
      [] f = "exp10f" -> exp10f(x)
      [] f = "expm1"  -> expm1(x)
      [] f = "expm1f" -> expm1f(x)
      [] f = "sin"    -> sin(x)
      [] f = "sinf"   -> sinf(x)
      [] f = "cos"    -> cos(x)
      [] f = "cosf"   -> cosf(x)
      [] f = "tan"    -> tan(x)
      [] f = "tanf"   -> tanf(x)
      [] f = "acos"   -> acos(x)
      [] f = "acosf"  -> acosf(x)
      [] f = "asin"   -> asin(x)
      [] f = "asinf"  -> asinf(x)
      [] f = "atan"   -> atan(x)
      [] f = "atanf"  -> atanf(x)
      [] f = "sinh"   -> sinh(x)
      [] f = "sinhf"  -> sinhf(x)
      [] f = "cosh"   -> cosh(x)
      [] f = "coshf"  -> coshf(x)
      [] f = "tanh"   -> tanh(x)
      [] f = "tanhf"  -> tanhf(x)
      [] f = "atanh"  -> atanh(x)
      [] f = "atanhf" -> atanhf(x)
      [] f = "asinh"  -> asinh(x)
      [] f = "asinhf" -> asinhf(x)
      [] f = "acosh"  -> acosh(x)
      [] f = "acoshf" -> acoshf(x)
      [] f = "cbrt"   -> cbrt(x)
      [] f = "cbrtf"  -> cbrtf(x)
      [] f = "erf"    -> erf(x)
      [] f = "erff"   -> erff(x)
      [] f = "erfc"   -> erfc(x)
      [] f = "erfcf"  -> erfcf(x)
============================================================================
