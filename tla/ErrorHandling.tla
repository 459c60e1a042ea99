--------------------------- MODULE ErrorHandling ---------------------------
(***************************************************************************)
(* src/alm_special.c: how a function hands back a special result.  A       *)
(* handler gets the result and a code, looks the code up in a switch and    *)
(* raises exceptions by computing something that raises them.  The codes    *)
(* come from several enumerations (ALM_E_, AMD_F_, POW_) and are plain      *)
(* integers: nothing checks that a caller uses the one its handler knows.   *)
(***************************************************************************)
EXTENDS FloatArithmetic

AMD_F_INVALID   == 1
AMD_F_DIVBYZERO == 4
AMD_F_OVERFLOW  == 8
AMD_F_UNDERFLOW == 16
AMD_F_INEXACT   == 32

ALM_E_IN_X_NEG    == 256
ALM_E_IN_X_NAN    == 128
ALM_E_IN_X_INF    == 64
ALM_E_IN_X_ZERO   == 32
ALM_E_DIV_BY_ZER0 == 4
ALM_E_OUT_NAN     == 65536
ALM_E_OVERFLOW    == 524288
ALM_E_UNDERFLOW   == 1048576

POW_X_ZERO_Z_INF == 2
POW_Z_ZERO       == 7

\* The exceptions of the operations that raise the given flags: the overflow
\* and the underflow of a product are inexact as well.
Exceptions(raise) ==
    LET Flag(codes, name) == IF raise \cap codes = {} THEN {} ELSE {name}
    IN  Flag({AMD_F_INVALID}, "invalid") \cup Flag({AMD_F_DIVBYZERO}, "divbyzero")
            \cup Flag({AMD_F_OVERFLOW}, "overflow") \cup Flag({AMD_F_UNDERFLOW}, "underflow")
            \cup Flag({AMD_F_INEXACT, AMD_F_OVERFLOW, AMD_F_UNDERFLOW}, "inexact")

\* What a polynomial computes is left out: only that it computed the result is told.
Kernel == -1

Handled(value, raise) == [ret |-> value, flags |-> Exceptions(raise)]

Silent(value) == [ret |-> value, flags |-> {}]

NEG_INF      == SIGNBIT + EXPBITS
QNANBITPATT  == EXPBITS + QNAN_MASK
INDEFBITPATT == SIGNBIT + QNANBITPATT

\* An answer after an operation or a comparison that raised more.
After(raised, answer) == [answer EXCEPT !.flags = @ \cup raised]

\* x + x, or any other operation on a NaN alone.
Operated(x) == Handled(Quieted(x), IF IsSignalling(x) THEN {AMD_F_INVALID} ELSE {})

\* x after <, <=, > or >=, which are invalid for every NaN, and an operation.
Ordered(x) == Handled(Quieted(x), {AMD_F_INVALID})

\* x itself after == or != or a conversion.
Equated(x) == Handled(x, IF IsSignalling(x) THEN {AMD_F_INVALID} ELSE {})

-----------------------------------------------------------------------------
alm_log_special(y, code) ==
    Handled(y, CASE code \in {ALM_E_IN_X_INF, ALM_E_IN_X_NEG, ALM_E_IN_X_NAN} -> {AMD_F_INVALID}
                 [] code = ALM_E_DIV_BY_ZER0 -> {AMD_F_DIVBYZERO}
                 [] OTHER -> {})

alm_logf_special(y, code) ==
    Handled(y, CASE code \in {ALM_E_IN_X_ZERO, ALM_E_DIV_BY_ZER0} -> {AMD_F_DIVBYZERO}
                 [] code = ALM_E_IN_X_NEG -> {AMD_F_INVALID}
                 [] OTHER -> {})          \* y + y for ALM_E_IN_X_NAN, y being quiet

alm_exp_special(y, code) ==
    Handled(y, CASE code = ALM_E_IN_X_ZERO -> {AMD_F_INEXACT, AMD_F_UNDERFLOW}
                 [] code = ALM_E_IN_X_INF  -> {AMD_F_INEXACT, AMD_F_OVERFLOW}
                 [] OTHER -> {})

alm_expm1_special(y, code) ==
    Handled(y, CASE code = ALM_E_OVERFLOW  -> {AMD_F_OVERFLOW, AMD_F_INEXACT}
                 [] code = ALM_E_UNDERFLOW -> {AMD_F_UNDERFLOW, AMD_F_INEXACT}
                 [] OTHER -> {})

\* The functions asin and acos in both precisions.
alm_acos_special(x, code) ==
    IF code = ALM_E_IN_X_NAN
    THEN Handled(Quieted(x), IF IsQuiet(x) THEN {} ELSE {AMD_F_INVALID})
    ELSE Handled(INDEFBITPATT, {AMD_F_INVALID})

\* sin, cos and tan of an infinity or a NaN.
_sin_cos_special(x) ==
    IF IsInf(x) THEN Handled(INDEFBITPATT, {AMD_F_INVALID})
    ELSE Handled(Quieted(x), IF IsQuiet(x) THEN {} ELSE {AMD_F_INVALID})

\* The handler of cbrt, in its own file, with one code of either enumeration.
cbrt_special(x, code) ==
    Exceptions(CASE code = AMD_F_INVALID  -> {AMD_F_INVALID}
                 [] code = ALM_E_OVERFLOW -> {AMD_F_OVERFLOW}
                 [] OTHER -> {})

alm_pow_special(z, code) ==
    Handled(z, CASE code = POW_X_ZERO_Z_INF -> {AMD_F_DIVBYZERO}
                 [] code = POW_Z_ZERO       -> {AMD_F_INEXACT, AMD_F_UNDERFLOW}
                 [] OTHER -> {})
============================================================================
