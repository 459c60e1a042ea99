---------------------------- MODULE Comparison -----------------------------
(***************************************************************************)
(* fmax, fmin (src/optimized), their handlers in src/alm_special.c, and the *)
(* loops of the array functions vrda_fmax and vrda_fmin, whose lanes choose *)
(* by one comparison.                                                      *)
(***************************************************************************)
EXTENDS SmallFloat

\* _fmax_special and _fmin_special: two NaNs of any kind raise invalid.
SpecialExtremum(x, y) ==
    IF IsNaN(x) /\ IsNaN(y) THEN [ret |-> Quieted(y), flags |-> {"invalid"}]
    ELSE [ret |-> IF IsNaN(x) THEN y ELSE x, flags |-> {}]

\* Slip: the comparison of the array function, which is false for a NaN.
fmaxCompares(x, y) ==
    [ret |-> IF ~IsNaN(x) /\ ~IsNaN(y) /\ Ordinal(x) >= Ordinal(y) THEN x ELSE y, flags |-> {}]

fmax(x, y) ==
    IF IsNaN(x) \/ IsNaN(y) THEN SpecialExtremum(x, y)
    ELSE [ret |-> IF Ordinal(x) >= Ordinal(y) THEN x ELSE y, flags |-> {}]

fmin(x, y) ==
    IF IsNaN(x) \/ IsNaN(y) THEN SpecialExtremum(x, y)
    ELSE [ret |-> IF Ordinal(x) <= Ordinal(y) THEN x ELSE y, flags |-> {}]

\* A comparison with a NaN is false, and raises invalid.
Unordered(x, y) == IF IsNaN(x) \/ IsNaN(y) THEN {"invalid"} ELSE {}

vrda_fmax(x, y) ==
    [ret   |-> IF Unordered(x, y) = {} /\ Ordinal(x) > Ordinal(y) THEN x ELSE y,
     flags |-> Unordered(x, y)]

vrda_fmin(x, y) ==
    [ret   |-> IF Unordered(x, y) = {} /\ Ordinal(x) < Ordinal(y) THEN x ELSE y,
     flags |-> Unordered(x, y)]
============================================================================
