-------------------------- MODULE ElementaryRules --------------------------
(***************************************************************************)
(* What the callers of the elementary functions rely on, as rules about an  *)
(* answer a that f gives for x: C Annex F where the code follows it.  Where *)
(* it does not, a rule names the functions and claims nothing of them;      *)
(* what the repository itself says of those cases is in Conformance.        *)
(***************************************************************************)
EXTENDS Elementary

\* The numbers for which the function has no value.
OutOfDomain(f, x) ==
    CASE f \in {"log", "logf", "log10", "log10f", "log2", "log2f"} -> Ordinal(x) < 0
      [] f \in {"log1p", "log1pf"}                                 -> Ordinal(x) < -POS_ONE
      [] f \in {"acosh", "acoshf"}                                 -> Ordinal(x) < POS_ONE
      [] f \in {"acos", "acosf", "asin", "asinf", "atanh", "atanhf"} -> Magnitude(x) > POS_ONE
      [] f \in {"sin", "sinf", "cos", "cosf", "tan", "tanf"}       -> IsInf(x)
      [] OTHER -> FALSE

\* These compare a NaN with <, double it or call a handler for it before they pass
\* it on: whether a quiet NaN raises invalid is left open for them.
MayRaiseForQuietNaN == {"log1p", "log10f", "exp", "exp2", "expm1", "expm1f", "asinf",
                        "acosh", "cbrt", "cbrtf"}

\* These give a signalling NaN back as they got it, the last two without its sign.
PassOn == {"expf", "exp2f", "exp10f", "atanf", "tanh", "erf", "erff"}

\* A NaN comes of a NaN or of a number outside the domain and of nothing else, it
\* is quiet.  Invalid is raised for such a number and for a signalling NaN, never
\* for another number, and not for a quiet NaN either but by the functions named.
NaNRule(f, x, a) ==
    LET undefined == ~IsNaN(x) /\ OutOfDomain(f, x)
    IN  /\ IsNaN(a.ret) <=> (IsNaN(x) \/ undefined)
        /\ IsNaN(a.ret) /\ ~IsQuiet(a.ret) => f \in PassOn /\ Magnitude(a.ret) = Magnitude(x)
        /\ undefined \/ IsSignalling(x) => "invalid" \in a.flags
        /\ "invalid" \in a.flags =>
               undefined \/ IsSignalling(x) \/ (IsNaN(x) /\ f \in MayRaiseForQuietNaN)

Pole(f, x) ==
    \/ f \in {"log", "logf", "log10", "log10f", "log2", "log2f"} /\ IsZero(x)
    \/ f \in {"log1p", "log1pf"} /\ x = MINUS_ONE
    \/ f \in {"atanh", "atanhf"} /\ Magnitude(x) = POS_ONE

\* Division by zero is raised at the poles, where the result is the infinity of
\* the right sign, and nowhere else.
PoleRule(f, x, a) ==
    /\ "divbyzero" \in a.flags <=> Pole(f, x)
    /\ Pole(f, x) => a.ret = IF f \in {"atanh", "atanhf"} THEN SignOf(x) + EXPBITS ELSE NEG_INF

\* These alone may raise overflow for an infinite argument.
OverflowAtInfinity == {"exp2", "expm1", "expm1f", "coshf", "cbrtf", "atanf"}

\* An infinite result of a finite argument is a pole or is told by overflow;
\* overflow means an infinite result, but for atanf above its largest argument and
\* for log10f, which doubles a negative one; underflow means a result close to
\* zero; and neither comes without inexact.
RangeRule(f, x, a) ==
    /\ Finite(x) /\ IsInf(a.ret) => Pole(f, x) \/ "overflow" \in a.flags
    /\ "overflow" \in a.flags =>
          /\ "inexact" \in a.flags
          /\ IsInf(a.ret) \/ f = "atanf" \/ (f = "log10f" /\ Negative(x))
          /\ IsInf(x) => f \in OverflowAtInfinity
    /\ "underflow" \in a.flags => "inexact" \in a.flags /\ a.ret # Kernel
                                      /\ Magnitude(a.ret) < TINY

Odd  == {"sin", "sinf", "tan", "tanf", "asin", "asinf", "atan", "atanf", "sinh", "sinhf",
         "tanh", "tanhf", "atanh", "atanhf", "asinh", "asinhf", "cbrt", "cbrtf",
         "erf", "erff"}
Even == {"cos", "cosf", "cosh", "coshf"}

\* The answers for x and -x are the same, and for an odd function of opposite sign:
\* also those for zero, subnormal and infinite arguments, unless they are NaNs.  The
\* sign of a zero is left open for the cube roots.
SymmetryRule(f, x, a, b) ==
    (f \in Odd \cup Even /\ ~IsNaN(a.ret)) =>
        /\ a.flags = b.flags
        /\ \/ b.ret = IF f \in Even \/ a.ret = Kernel THEN a.ret ELSE Negated(a.ret)
           \/ f \in {"cbrt", "cbrtf"} /\ IsZero(x)

\* The double and the float version give the same value to the same special
\* argument, and differ in which of them they take aside.  Nothing is claimed of
\* expm1 and expm1f for -0.
TwinRule(f, x, a, b) ==
    (~IsNaN(a.ret) /\ a.ret # Kernel /\ b.ret # Kernel) =>
        b.ret = a.ret \/ (f = "expm1" /\ x = SIGNBIT)
============================================================================
