---------------------------- MODULE VectorLanes -----------------------------
(***************************************************************************)
(* The vector functions of two to sixteen lanes (src/optimized/vec): which *)
(* lanes are left to the scalar function, and whether the other lanes have  *)
(* a say in it.  An answer is that of one lane, x, while each other lane     *)
(* holds y; its flags are those of the scalar call made for it, since what *)
(* the polynomials raise is left out.                                      *)
(***************************************************************************)
EXTENDS Elementary

CONSTANTS LANEMAX,     \* the largest argument that the exponentials and the
                       \* trigonometric functions compute in a vector
          ErfcBounds   \* where erfc changes its formula: 0.84, 1.25 and 28

LaneThresholds == /\ LANEMAX \in Nat
                  /\ 0 < IMPBIT /\ IMPBIT < TINY /\ TINY < HALF /\ HALF < POS_ONE
                  /\ POS_ONE < LANEMAX /\ LANEMAX < OVERARG
                  /\ ErfcBounds \subseteq 1 .. EXPBITS - 1

\* The polynomial of a vector function, which is not that of the scalar one.
Poly == -2

Polynomial(x) == Silent(IF IsNaN(x) THEN Quieted(x) ELSE Poly)

Fallback(f, x, special) == IF special THEN Answered(f, x) ELSE Polynomial(x)

-----------------------------------------------------------------------------
(* What sends a lane to the scalar function f.                             *)

\* Its magnitude, as an unsigned integer: infinities and NaNs as well.
TooLarge(x) == Magnitude(x) > LANEMAX

\* Slip: the upper bound is still within.
NotPositiveNormalInclusive(x) == x \notin IMPBIT .. EXPBITS

\* x - V_MIN >= V_MAX - V_MIN, unsigned: all but the positive normal numbers.
NotPositiveNormal(x) == x \notin IMPBIT .. EXPBITS - 1

\* ux > LOG_ARG_MAX: positive NaNs and all that have a sign, -0 included.
AboveInfinity(x) == x > EXPBITS

FlatOrTiny(x) == Magnitude(x) >= SATURATION \/ Magnitude(x) <= TINY

\* |x| >= 1.0 as a comparison of numbers.
NotBelowOne(x) == ~IsNaN(x) /\ Magnitude(x) >= POS_ONE

\* Slip: all lanes go to the scalar function if one of them has to.
MaskedTogether(x, y) ==
    IF ~TooLarge(x) /\ ~TooLarge(y) THEN Polynomial(x) ELSE Answered("expf", x)

\* No call of expf: lanes out of range are masked to infinity or zero, if there
\* is a lane that is.
Masked(x, y) ==
    IF ~TooLarge(x) /\ ~TooLarge(y) THEN Polynomial(x)
    ELSE IF ~IsNaN(x) /\ Above(x, OVERARG) THEN Silent(EXPBITS)
    ELSE IF ~IsNaN(x) /\ Below(x, UNDERARG) THEN Silent(0)
    ELSE Polynomial(x)

AboveHalf(x) == ~IsNaN(x) /\ Magnitude(x) > HALF
UpToHalf(x)  == ~IsNaN(x) /\ Magnitude(x) <= HALF

\* The polynomial is for lanes that are all above one half or all up to it.
MixedHalves(x, y) == ~(AboveHalf(x) /\ AboveHalf(y)) /\ ~(UpToHalf(x) /\ UpToHalf(y))

Halves(f, x, y) == Fallback(f, x, NotBelowOne(x) \/ (MixedHalves(x, y) /\ AboveHalf(x)))

\* One of these lanes takes all the others along.
Unusual(x) == ~Finite(x) \/ Magnitude(x) >= POS_ONE \/ Magnitude(x) < TINY

\* The square root of 1 - |x| is all that tells that x is out of range.
Unguarded(f, x) ==
    IF f \in {"asin", "asinf"} /\ ~IsNaN(x) /\ Magnitude(x) > POS_ONE THEN Silent(INDEFBITPATT)
    ELSE Polynomial(x)

\* The bounds that x has passed.
Region(bounds, x) == {b \in bounds : Magnitude(x) >= b}

\* All lanes are in one region or all go to the scalar function; beyond the last
\* bound a lane is 1 or -1, and NaNs are beyond it.
ErfBounds == {POS_ONE + 1, SATURATION + 1}

ErfLane(x, y) ==
    IF Region(ErfBounds, x) # Region(ErfBounds, y) THEN Answered("erf", x)
    ELSE IF Region(ErfBounds, x) = ErfBounds THEN Silent(SignOf(x) + POS_ONE)
    ELSE Silent(Poly)

ErfcLane(f, x, y) ==
    IF ~Finite(x) /\ ~Finite(y)
    THEN IF IsInf(x) THEN Silent(IF Negative(x) THEN TWO ELSE 0) ELSE Operated(x)
    ELSE IF ~Finite(x) \/ ~Finite(y) \/ Region(ErfcBounds, x) # Region(ErfcBounds, y)
    THEN Answered(f, x)
    ELSE Silent(Poly)

-----------------------------------------------------------------------------
(* The functions.                                                          *)

Function(f, guard) == [scalar |-> f, guard |-> guard]

vrd2_exp     == Function("exp", "large")
vrd4_exp     == Function("exp", "large")
vrd8_exp     == Function("exp", "large")
vrd2_exp2    == Function("exp2", "large")
vrd4_exp2    == Function("exp2", "large")
vrd8_exp2    == Function("exp2", "large")
vrs4_expf    == Function("expf", "masked")
vrs8_expf    == Function("expf", "large")
vrs16_expf   == Function("expf", "large")
vrs4_exp2f   == Function("exp2f", "masked")
vrs8_exp2f   == Function("exp2f", "large")
vrs16_exp2f  == Function("exp2f", "large")
vrd2_log     == Function("log", "infinity")
vrd4_log     == Function("log", "infinity")
vrd8_log     == Function("log", "normal")
vrd2_log2    == Function("log2", "normal")
vrd4_log2    == Function("log2", "normal")
vrd8_log2    == Function("log2", "normal")
vrs4_logf    == Function("logf", "normal")
vrs8_logf    == Function("logf", "infinity")
vrs16_logf   == Function("logf", "normal")
vrs4_log2f   == Function("log2f", "normal")
vrs8_log2f   == Function("log2f", "normal")
vrs16_log2f  == Function("log2f", "normal")
vrs4_log10f  == Function("log10f", "normal")
vrs8_log10f  == Function("log10f", "normal")
vrs16_log10f == Function("log10f", "normal")
vrd2_sin     == Function("sin", "large")
vrd4_sin     == Function("sin", "large")
vrd8_sin     == Function("sin", "large")
vrd2_cos     == Function("cos", "large")
vrd4_cos     == Function("cos", "large")
vrd8_cos     == Function("cos", "large")
vrd2_tan     == Function("tan", "large")
vrd4_tan     == Function("tan", "large")
vrd8_tan     == Function("tan", "large")
vrs4_sinf    == Function("sinf", "large")
vrs8_sinf    == Function("sinf", "large")
vrs16_sinf   == Function("sinf", "large")
vrs4_cosf    == Function("cosf", "large")
vrs8_cosf    == Function("cosf", "large")
vrs16_cosf   == Function("cosf", "large")
vrs4_tanf    == Function("tanf", "large")
vrs8_tanf    == Function("tanf", "large")
vrs16_tanf   == Function("tanf", "large")
vrs4_coshf   == Function("coshf", "large")
vrs8_coshf   == Function("coshf", "large")
vrs4_tanhf   == Function("tanhf", "flat")
vrs8_tanhf   == Function("tanhf", "flat")
vrs16_tanhf  == Function("tanhf", "flat")
vrd2_acos    == Function("acos", "halves")
vrd4_acos    == Function("acos", "halves")
vrs4_acosf   == Function("acosf", "halves")
vrs8_acosf   == Function("acosf", "one")
vrs16_acosf  == Function("acosf", "one")
vrd2_asin    == Function("asin", "unusual")
vrd4_asin    == Function("asin", "unusual")
vrd8_asin    == Function("asin", "none")
vrs4_asinf   == Function("asinf", "none")
vrs8_asinf   == Function("asinf", "none")
vrs16_asinf  == Function("asinf", "none")
vrd2_atan    == Function("atan", "none")
vrd4_atan    == Function("atan", "none")
vrd8_atan    == Function("atan", "none")
vrs4_atanf   == Function("atanf", "none")
vrs8_atanf   == Function("atanf", "none")
vrs16_atanf  == Function("atanf", "none")
vrd2_erf     == Function("erf", "erf")
vrd4_erf     == Function("erf", "erf")
vrd8_erf     == Function("erf", "erf")
vrd2_erfc    == Function("erfc", "erfc")
vrd4_erfc    == Function("erfc", "erfc")
vrd8_erfc    == Function("erfc", "erfc")
vrs4_erfcf   == Function("erfcf", "erfc")
vrs8_erfcf   == Function("erfcf", "erfc")
vrs16_erfcf  == Function("erfcf", "erfc")

\* Two results, each from the scalar function of its own.
Both(f, g) == [sin |-> Function(f, "large"), cos |-> Function(g, "large")]

vrd2_sincos   == Both("sin", "cos")
vrd4_sincos   == Both("sin", "cos")
vrd8_sincos   == Both("sin", "cos")
vrs4_sincosf  == Both("sinf", "cosf")
vrs8_sincosf  == Both("sinf", "cosf")
vrs16_sincosf == Both("sinf", "cosf")

VectorFunctions ==
    [vrd2_exp |-> vrd2_exp, vrd4_exp |-> vrd4_exp, vrd8_exp |-> vrd8_exp,
     vrd2_exp2 |-> vrd2_exp2, vrd4_exp2 |-> vrd4_exp2, vrd8_exp2 |-> vrd8_exp2,
     vrs4_expf |-> vrs4_expf, vrs8_expf |-> vrs8_expf, vrs16_expf |-> vrs16_expf,
     vrs4_exp2f |-> vrs4_exp2f, vrs8_exp2f |-> vrs8_exp2f,
     vrs16_exp2f |-> vrs16_exp2f, vrd2_log |-> vrd2_log, vrd4_log |-> vrd4_log,
     vrd8_log |-> vrd8_log, vrd2_log2 |-> vrd2_log2, vrd4_log2 |-> vrd4_log2,
     vrd8_log2 |-> vrd8_log2, vrs4_logf |-> vrs4_logf, vrs8_logf |-> vrs8_logf,
     vrs16_logf |-> vrs16_logf, vrs4_log2f |-> vrs4_log2f,
     vrs8_log2f |-> vrs8_log2f, vrs16_log2f |-> vrs16_log2f,
     vrs4_log10f |-> vrs4_log10f, vrs8_log10f |-> vrs8_log10f,
     vrs16_log10f |-> vrs16_log10f, vrd2_sin |-> vrd2_sin, vrd4_sin |-> vrd4_sin,
     vrd8_sin |-> vrd8_sin, vrd2_cos |-> vrd2_cos, vrd4_cos |-> vrd4_cos,
     vrd8_cos |-> vrd8_cos, vrd2_tan |-> vrd2_tan, vrd4_tan |-> vrd4_tan,
     vrd8_tan |-> vrd8_tan, vrs4_sinf |-> vrs4_sinf, vrs8_sinf |-> vrs8_sinf,
     vrs16_sinf |-> vrs16_sinf, vrs4_cosf |-> vrs4_cosf, vrs8_cosf |-> vrs8_cosf,
     vrs16_cosf |-> vrs16_cosf, vrs4_tanf |-> vrs4_tanf, vrs8_tanf |-> vrs8_tanf,
     vrs16_tanf |-> vrs16_tanf, vrs4_coshf |-> vrs4_coshf,
     vrs8_coshf |-> vrs8_coshf, vrs4_tanhf |-> vrs4_tanhf,
     vrs8_tanhf |-> vrs8_tanhf, vrs16_tanhf |-> vrs16_tanhf,
     vrd2_acos |-> vrd2_acos, vrd4_acos |-> vrd4_acos, vrs4_acosf |-> vrs4_acosf,
     vrs8_acosf |-> vrs8_acosf, vrs16_acosf |-> vrs16_acosf,
     vrd2_asin |-> vrd2_asin, vrd4_asin |-> vrd4_asin, vrd8_asin |-> vrd8_asin,
     vrs4_asinf |-> vrs4_asinf, vrs8_asinf |-> vrs8_asinf,
     vrs16_asinf |-> vrs16_asinf, vrd2_atan |-> vrd2_atan,
     vrd4_atan |-> vrd4_atan, vrd8_atan |-> vrd8_atan, vrs4_atanf |-> vrs4_atanf,
     vrs8_atanf |-> vrs8_atanf, vrs16_atanf |-> vrs16_atanf,
     vrd2_erf |-> vrd2_erf, vrd4_erf |-> vrd4_erf, vrd8_erf |-> vrd8_erf,
     vrd2_erfc |-> vrd2_erfc, vrd4_erfc |-> vrd4_erfc, vrd8_erfc |-> vrd8_erfc,
     vrs4_erfcf |-> vrs4_erfcf, vrs8_erfcf |-> vrs8_erfcf,
     vrs16_erfcf |-> vrs16_erfcf,
     vrd2_sincos_sin |-> vrd2_sincos.sin, vrd2_sincos_cos |-> vrd2_sincos.cos,
     vrd4_sincos_sin |-> vrd4_sincos.sin, vrd4_sincos_cos |-> vrd4_sincos.cos,
     vrd8_sincos_sin |-> vrd8_sincos.sin, vrd8_sincos_cos |-> vrd8_sincos.cos,
     vrs4_sincosf_sin |-> vrs4_sincosf.sin, vrs4_sincosf_cos |-> vrs4_sincosf.cos,
     vrs8_sincosf_sin |-> vrs8_sincosf.sin, vrs8_sincosf_cos |-> vrs8_sincosf.cos,
     vrs16_sincosf_sin |-> vrs16_sincosf.sin, vrs16_sincosf_cos |-> vrs16_sincosf.cos]

\* The answer in lane x of the function named v.
LaneAnswer(v, x, y) ==
    LET f == VectorFunctions[v].scalar
        g == VectorFunctions[v].guard
    IN  CASE g = "large"    -> Fallback(f, x, TooLarge(x))
          [] g = "normal"   -> Fallback(f, x, NotPositiveNormal(x))
          [] g = "infinity" -> Fallback(f, x, AboveInfinity(x))
          [] g = "flat"     -> Fallback(f, x, FlatOrTiny(x))
          [] g = "one"      -> Fallback(f, x, NotBelowOne(x))
          [] g = "unusual"  -> Fallback(f, x, Unusual(x) \/ Unusual(y))
          [] g = "halves"   -> Halves(f, x, y)
          [] g = "masked"   -> Masked(x, y)
          [] g = "none"     -> Unguarded(f, x)
          [] g = "erf"      -> ErfLane(x, y)
          [] g = "erfc"     -> ErfcLane(f, x, y)

-----------------------------------------------------------------------------
(* Rules about the answer a in lane x.                                     *)

Scalar(v, x) == Answered(VectorFunctions[v].scalar, x)

\* The guard of these lets 0 and +infinity through to the polynomial.
Misguarded == {v \in DOMAIN VectorFunctions : VectorFunctions[v].guard = "infinity"}

\* A lane is a NaN or infinite exactly if the scalar function says so for its
\* argument.  Nothing is claimed of three logarithms for 0 and for infinity, nor of
\* the error function for a NaN if every lane is large or a NaN; Conformance has
\* what their comments and tests say of them.
LaneRule(v, x, y, a) ==
    \/ /\ IsNaN(a.ret) <=> IsNaN(Scalar(v, x).ret)
       /\ IsInf(a.ret) <=> IsInf(Scalar(v, x).ret)
    \/ v \in Misguarded /\ x \in {0, EXPBITS}
    \/ VectorFunctions[v].scalar = "erf" /\ IsNaN(x) /\ Magnitude(y) > SATURATION

\* Only these look at other lanes: what they return for x, and so for an element
\* of an array, depends on its neighbours.
LooksAround(v) == VectorFunctions[v].guard \in {"halves", "unusual", "erf", "erfc"}

\* b is the answer in the same lane beside other neighbours.
NeighbourRule(v, a, b) == ~LooksAround(v) => a = b

\* Lanes that a masked load leaves empty hold zero.  The call made for one of them
\* raises nothing; but the logarithms divide by zero, unless they are misguarded.
PaddingRule(v, a) ==
    a.flags = IF VectorFunctions[v].guard = "normal" THEN {"divbyzero"} ELSE {}
============================================================================
