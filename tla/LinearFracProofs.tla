-------------------------- MODULE LinearFracProofs --------------------------
(***************************************************************************)
(* The shortcut of linearfrac is invisible as long as b is finite.         *)
(***************************************************************************)
EXTENDS LinearFrac, TLAPS

One == FP(1, "one")

\* With a zero scale the denominator of a finite b is shiftb: exactly 1.
LEMMA DenominatorIsOne ==
    ASSUME NEW s \in {-1, 1}, NEW y \in Finite
    PROVE  Fma(FP(s, "zero"), y, One) = {One}
<1>1. /\ y.sign \in {-1, 1}
      /\ y.mag \in {"zero", "one", "fin"}
  BY DEF Finite, Numbers, Signs, Magnitudes
<1>2. ProductMags(FP(s, "zero"), y) = {"zero"}
  BY DEF ProductMags, FP
<1>3. NaN \notin {FP(s, "zero"), y, One}
  BY <1>1 DEF NaN, FP, One
<1>4. {FP(s, "zero").mag, y.mag} # {"zero", "inf"}
  BY <1>1 DEF FP
<1>5. Sum(FP(s * y.sign, "zero"), One) = {One}
  <2> DEFINE p == FP(s * y.sign, "zero")
  <2>1. p.mag = "zero" /\ One.mag = "one"
    BY DEF FP, One
  <2> HIDE DEF p
  <2>2. {v \in {p, One} : v.mag = "inf"} = {}
    BY <2>1
  <2>3. Sum(p, One) = {One}
    BY <2>1, <2>2 DEF Sum
  <2> QED
    BY <2>3 DEF p
<1>6. FP(s, "zero").sign = s
  BY DEF FP
<1> QED
  BY <1>2, <1>3, <1>4, <1>5, <1>6 DEF Fma

\* A division by 1 returns its dividend.
LEMMA DivisionByOne ==
    ASSUME NEW x \in Values
    PROVE  Div(x, One) = {x}
<1>1. CASE x = NaN
  BY <1>1 DEF Div
<1>2. CASE x \in Numbers
  <2>1. /\ x.sign \in {-1, 1}
        /\ x.mag \in {"zero", "one", "fin", "inf"}
        /\ x = FP(x.sign, x.mag)
    BY <1>2 DEF Numbers, Signs, Magnitudes, FP
  <2>2. NaN \notin {x, One}
    BY <2>1 DEF NaN, FP, One
  <2>3. x.sign * One.sign = x.sign /\ One.mag = "one"
    BY <2>1 DEF One, FP
  <2>4. Div(x, One) = Signed(x.sign, {x.mag})
    BY <2>1, <2>2, <2>3 DEF Div
  <2> QED
    BY <2>1, <2>4 DEF Signed
<1> QED
  BY <1>1, <1>2 DEF Values

\* For all classes of the arguments with a finite b, what the code stores is a
\* value of the documented quotient, although the shortcut never looks at b.
THEOREM ShortcutIsInvisible == element \in Elements => AgreesWithFormula
<1> SUFFICES ASSUME element \in Elements
             PROVE  AgreesWithFormula
  OBVIOUS
<1>0. element.transa \in Values /\ element.scaleb_u \in Values /\ element.b \in Finite
  BY DEF Elements
<1>1. CASE Special(element)
  <2>1. PICK s \in {-1, 1} : element.scaleb_u = FP(s, "zero")
    <3>1. element.scaleb_u.mag = "zero"
      BY <1>1 DEF Special
    <3>2. element.scaleb_u \in Numbers
      BY <1>0, <3>1 DEF Values, NaN, FP
    <3> QED
      BY <3>1, <3>2 DEF Numbers, Signs, FP
  <2>2. Fma(element.scaleb_u, element.b, element.shiftb_u) = {One}
    BY <1>0, <1>1, <2>1, DenominatorIsOne DEF Special, One
  <2>3. Quotient(element) = {element.transa}
    BY <1>0, <2>2, DivisionByOne DEF Quotient
  <2> QED
    BY <1>1, <2>3 DEF linearfrac, AgreesWithFormula
<1>2. CASE ~Special(element)
  BY <1>2 DEF linearfrac, AgreesWithFormula
<1> QED
  BY <1>1, <1>2

=============================================================================
