---------------------------- MODULE Conformance -----------------------------
(***************************************************************************)
(* The conformance tests (gtests), run one after the other: each is a       *)
(* function and rows of its test data for zeros, infinities and quiet NaNs  *)
(* (for nearbyint also numbers between two integers), with the result and   *)
(* the exceptions that the row expects.  The harness is lenient: it accepts *)
(* more exceptions than those of a row and a zero of either sign.  Here a   *)
(* row is taken by its word.  Left out are rows for signalling NaNs (some   *)
(* with invalid, some without) and rows that another row of the table or a  *)
(* comment in the source contradicts, as for the double exp.                *)
(***************************************************************************)
EXTENDS Rounding, VectorLanes, Sequences

VARIABLES next,      \* the test to run
          differing  \* what the functions did other than expected

vars == <<next, differing>>

Row(x, value, raised) == [x |-> x, ret |-> value, flags |-> raised]

\* The rows that say that x gives itself and raises nothing.
Kept(xs) == {Row(x, x, {}) : x \in xs}

Zeros      == {0, NEG_ZERO}
Infinities == {EXPBITS, NEG_INF}
QuietNaNs  == {QNANBITPATT, INDEFBITPATT}

\* 2.5, and the subnormal and normal numbers with the smallest magnitude.  The results
\* are those of rounding upward.
test_nearbyint ==
    Kept(Zeros \cup Infinities \cup QuietNaNs \cup {POS_ONE, MINUS_ONE})
        \cup {Row(v, POS_ONE, {}) : v \in {1, IMPBIT}}
        \cup {Row(SIGNBIT + v, NEG_ZERO, {}) : v \in {1, IMPBIT}}
        \cup {Row(v, Sum("upward", TWO, POS_ONE), {}) : v \in {Sum("nearest", TWO, HALF)}}

test_expm1 ==
    Kept(Zeros \cup QuietNaNs \cup {EXPBITS}) \cup {Row(NEG_INF, MINUS_ONE, {})}

test_log ==
    Kept(QuietNaNs \cup {EXPBITS})
        \cup {Row(z, NEG_INF, {"divbyzero"}) : z \in Zeros}
        \cup {Row(v, QNANBITPATT, {"invalid"}) : v \in {MINUS_ONE, NEG_INF}}

test_log10f == Kept(QuietNaNs \cup {EXPBITS})
test_log1p  == Kept(Zeros \cup QuietNaNs \cup {EXPBITS})
                   \cup {Row(NEG_INF, INDEFBITPATT, {"invalid"})}
test_exp2   == Kept(QuietNaNs \cup {EXPBITS})
test_coshf  == Kept(QuietNaNs) \cup {Row(v, EXPBITS, {}) : v \in Infinities}
test_tanhf  == Kept(QuietNaNs) \cup {Row(v, SignOf(v) + POS_ONE, {}) : v \in Infinities}
test_acosh  == Kept(QuietNaNs \cup {EXPBITS}) \cup {Row(NEG_INF, INDEFBITPATT, {"invalid"})}
test_asinf  == Kept(QuietNaNs) \cup {Row(v, INDEFBITPATT, {"invalid"}) : v \in Infinities}
test_atanf  == Kept(Zeros \cup QuietNaNs) \cup {Row(v, Kernel, {}) : v \in Infinities}
test_cbrt   == Kept(Zeros \cup Infinities \cup QuietNaNs)
test_erf    == Kept(QuietNaNs) \cup {Row(v, SignOf(v) + POS_ONE, {}) : v \in Infinities}

\* A function and its table; the vector functions have that of the scalar one.
Test(f, rows) == [fn |-> f, rows |-> rows]

Tests == <<
    Test("nearbyint", test_nearbyint), Test("expm1", test_expm1), Test("expm1f", test_expm1),
    Test("log", test_log), Test("log10f", test_log10f), Test("log1p", test_log1p),
    Test("exp2", test_exp2), Test("coshf", test_coshf), Test("tanhf", test_tanhf),
    Test("acosh", test_acosh), Test("asinf", test_asinf), Test("atanf", test_atanf),
    Test("cbrt", test_cbrt), Test("erf", test_erf),
    Test("vrd2_log", test_log), Test("vrd4_log", test_log), Test("vrd8_log", test_log),
    Test("vrs4_logf", test_log), Test("vrs8_logf", test_log),
    Test("vrd2_erf", test_erf), Test("vrd4_erf", test_erf) >>

-----------------------------------------------------------------------------
\* All lanes hold x.
Given(f, x) ==
    IF f = "nearbyint" THEN nearbyint(x, "upward")
    ELSE IF f \in DOMAIN VectorFunctions THEN LaneAnswer(f, x, x)
    ELSE Answered(f, x)

\* NaNs are not told apart.  The tests of arrays, and so of the vector functions, do
\* not look at the exceptions.
AsExpected(f, row) ==
    LET a == Given(f, row.x)
    IN  /\ a.ret = row.ret \/ (a.ret \in Patterns /\ IsNaN(a.ret) /\ IsNaN(row.ret))
        /\ a.flags = row.flags \/ f \in DOMAIN VectorFunctions

Init == next = 1 /\ differing = {}

\* One test: all rows of its table.
RunTest ==
    LET t == Tests[next]
    IN  /\ next <= Len(Tests)
        /\ differing' = differing \cup {[fn |-> t.fn, expected |-> row, given |-> Given(t.fn, row.x)]
                                            : row \in {r \in t.rows : ~AsExpected(t.fn, r)}}
        /\ next' = next + 1

Next == RunTest

Spec == Init /\ [][Next]_vars

-----------------------------------------------------------------------------
\* What the test data and the comments above the functions say: when all tests have
\* run, every function has returned and raised what its rows expect.
AsDocumented == next > Len(Tests) => differing = {}
============================================================================
