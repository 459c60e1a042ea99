----------------------------- MODULE LinearFrac -----------------------------
(***************************************************************************)
(* The element operation of vrda_linearfrac and vrsa_linearfracf,          *)
(*     (scalea * a + shifta) / (scaleb * b + shiftb),                      *)
(* with their shortcut for scaleb = 0 and shiftb = 1, which does without   *)
(* b.  How the drivers walk over the arrays is in VecArray.  Floating      *)
(* point values are classes: a sign and a magnitude, where "fin" stands    *)
(* for all magnitudes other than 0, 1 and infinity, and NaN.  transa,      *)
(* which both branches compute alike, is any value.  A call takes one of   *)
(* the branches for all its elements; element is what it computes one from. *)
(***************************************************************************)
EXTENDS Integers

Signs == {-1, 1}
Magnitudes == {"zero", "one", "fin", "inf"}
FP(s, m) == [sign |-> s, mag |-> m]
NaN == FP(1, "nan")  \* the sign of a NaN means nothing

Numbers == [sign : Signs, mag : Magnitudes]
Values == Numbers \cup {NaN}
Finite == {x \in Numbers : x.mag # "inf"}

VARIABLE element  \* scalea * a + shifta and the other arguments, b being finite

Elements == [transa : Values, scaleb_u : Values, shiftb_u : Values, b : Finite]

-----------------------------------------------------------------------------
(* IEEE 754 arithmetic on classes, rounding to nearest.  An operation maps *)
(* to the set of the classes that its result can have.                     *)

Signed(s, mags) == {FP(s, m) : m \in mags}

\* The exact product of two numbers other than 0 * inf, not rounded yet.
ProductMags(x, y) ==
    LET mags == {x.mag, y.mag} IN
    IF "zero" \in mags THEN {"zero"}
    ELSE IF "inf" \in mags THEN {"inf"}
    ELSE IF "one" \in mags THEN {m \in mags : m # "one" \/ mags = {"one"}}
    ELSE {"one", "fin"}

\* p + z rounded, for a product p that may lie outside the range of z's format.
Sum(p, z) ==
    LET infs == {v \in {p, z} : v.mag = "inf"} IN
    IF infs # {} THEN IF infs = {p, z} /\ p # z THEN {NaN} ELSE infs
    ELSE IF p.mag = "zero" THEN
        IF z.mag = "zero" /\ p.sign # z.sign THEN {FP(1, "zero")} ELSE {z}
    ELSE IF z.mag = "zero" THEN
        Signed(p.sign, IF p.mag = "fin" THEN Magnitudes ELSE {p.mag})
    ELSE IF p.sign = z.sign THEN Signed(p.sign, {"one", "fin", "inf"})
    ELSE Numbers

Fma(x, y, z) ==
    IF \/ NaN \in {x, y, z}
       \/ {x.mag, y.mag} = {"zero", "inf"}
    THEN {NaN}
    ELSE UNION {Sum(FP(x.sign * y.sign, m), z) : m \in ProductMags(x, y)}

Div(x, y) ==
    IF \/ NaN \in {x, y}
       \/ x.mag = y.mag /\ x.mag \in {"zero", "inf"}
    THEN {NaN}
    ELSE Signed(x.sign * y.sign,
           IF x.mag = "zero" \/ y.mag = "inf" THEN {"zero"}
           ELSE IF x.mag = "inf" \/ y.mag = "zero" THEN {"inf"}
           ELSE IF y.mag = "one" THEN {x.mag}
           ELSE Magnitudes)

-----------------------------------------------------------------------------
(* The element operation.  Its result is a set too: the classes that the   *)
(* element stored can have.                                                *)

\* Slip: the test of shiftb is missing.
SpecialScaleOnly(e) == e.scaleb_u.mag = "zero"

\* scaleb is a zero of either sign and shiftb is exactly 1.
Special(e) == e.scaleb_u.mag = "zero" /\ e.shiftb_u = FP(1, "one")

\* (scalea * a + shifta) / (scaleb * b + shiftb)
Quotient(e) == UNION {Div(e.transa, transb) : transb \in Fma(e.scaleb_u, e.b, e.shiftb_u)}

\* The shortcut does not look at b.
linearfrac(e) == IF Special(e) THEN {e.transa} ELSE Quotient(e)

-----------------------------------------------------------------------------
(* Properties.                                                             *)

\* For finite b what is stored is a value of the documented quotient, whichever
\* branch computed it: the shortcut may not be seen in the results.
AgreesWithFormula == linearfrac(element) \subseteq Quotient(element)

=============================================================================
