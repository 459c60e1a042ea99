--------------------------- MODULE ScalingProofs ---------------------------
(***************************************************************************)
(* The functions on the exponent, for every format and every width of int  *)
(* and long int: the types, the logarithms of all numbers, and what a      *)
(* number comes to that is scaled, or taken apart and put together again.  *)
(***************************************************************************)
EXTENDS Scaling, SmallFloatProofs

-----------------------------------------------------------------------------
(* Integers of the widths.                                                 *)

\* The ints are among the longs, and wide beside the exponents.
LEMMA IntRanges ==
    LET h == pow2[INTBITS - 1]
        l == pow2[LONGBITS - 1]
    IN  /\ h \in Nat \ {0} /\ pow2[INTBITS] = 2 * h /\ l \in Nat /\ 2 * h <= l
        /\ INT_MIN = -h /\ INT_MAX = h - 1 /\ Ints = -h .. h - 1 /\ Longs = -l .. l - 1
        /\ h > pow2[E] + 2 * MULTIPLIER /\ Ints \subseteq Longs
<1> DEFINE h == pow2[INTBITS - 1]
           l == pow2[LONGBITS - 1]
<1>1. INTBITS - 1 \in Nat /\ LONGBITS - 1 \in Nat /\ INTBITS - 1 < LONGBITS - 1
      /\ (INTBITS - 1) + 1 = INTBITS
  BY WidthAssumption
<1>2. pow2[(INTBITS - 1) + 1] = 2 * h /\ h \in Nat \ {0} /\ l \in Nat
  BY ONLY <1>1, Pow2Next, Pow2Type
<1>3. 2 * h <= l
  BY ONLY <1>1, Pow2Grows
<1>4. h > pow2[E] + 2 * MULTIPLIER
  BY WidthAssumption
<1>5. INT_MIN = -h /\ INT_MAX = h - 1 /\ Ints = -h .. h - 1 /\ Longs = -l .. l - 1
  BY DEF INT_MIN, INT_MAX, Ints, Longs
<1> HIDE DEF h, l
<1>6. Ints \subseteq Longs
  BY <1>2, <1>3, <1>5
<1> QED
  BY <1>1, <1>2, <1>3, <1>4, <1>5, <1>6 DEF h, l

\* The conversion gives an int, and an int for itself.
LEMMA ToIntIs ==
    ASSUME NEW v \in Int
    PROVE  ToInt(v) \in Ints /\ (v \in Ints => ToInt(v) = v)
<1> DEFINE h == pow2[INTBITS - 1]
<1>1. /\ h \in Nat \ {0} /\ pow2[INTBITS] = 2 * h /\ INT_MIN = -h /\ Ints = -h .. h - 1
  BY IntRanges
<1> HIDE DEF h
<1>2. ToInt(v) = ((v + h) % (2 * h)) - h
  BY <1>1 DEF ToInt
<1>3. 2 * h \in Nat \ {0} /\ v + h \in Int
  BY <1>1
<1>4. (v + h) % (2 * h) \in 0 .. 2 * h - 1
  BY ONLY <1>3, Division
<1>5. v \in Ints => (v + h) % (2 * h) = v + h
  BY <1>1
<1> QED
  BY <1>1, <1>2, <1>4, <1>5

-----------------------------------------------------------------------------
(* Types.                                                                  *)

\* A product is a number of the format.
LEMMA ScaledType ==
    ASSUME NEW u \in Patterns, NEW k \in Int
    PROVE  /\ Numerator(u, k) \in Nat /\ Denominator(k) \in Nat \ {0}
           /\ Scaled(u, k) \in Patterns
<1>1. Numerator(u, k) \in Nat /\ Denominator(k) \in Nat \ {0}
  <2>1. Units(u) \in Nat
    BY UnitsBounds
  <2>2. CASE k >= 0
    <3>1. k \in Nat
      BY <2>2
    <3>2. pow2[k] \in Nat
      BY ONLY <3>1, Pow2Type
    <3> QED
      BY <2>1, <2>2, <3>2 DEF Numerator, Denominator
  <2>3. CASE k < 0
    <3>1. -k \in Nat
      BY <2>3
    <3>2. pow2[-k] \in Nat \ {0}
      BY ONLY <3>1, Pow2Type
    <3> QED
      BY <2>1, <2>3, <3>2 DEF Numerator, Denominator
  <2> QED
    BY <2>2, <2>3
<1>2. Rounded(Numerator(u, k), Denominator(k)) \in 0 .. EXPBITS
  BY ONLY <1>1, RoundedType
<1>3. SignOf(u) \in {0, SIGNBIT} /\ EXPBITS < SIGNBIT /\ SIGNBIT \in Nat /\ EXPBITS \in Nat
  BY Fields, Format
<1> QED
  BY <1>1, <1>2, <1>3 DEF Scaled, Patterns

\* So is a NaN made quiet,
LEMMA QuietedType ==
    ASSUME NEW u \in Patterns, IsNaN(u)
    PROVE  Quieted(u) \in Patterns
BY Format DEF Patterns, IsNaN, Quieted, IsQuiet, Magnitude, Negative

\* A pattern may be packed from an exponent one bit wider than its field.
LEMMA PackedType ==
    ASSUME TypeOK, NEW e \in 0 .. BIASEDEMAX + MULTIPLIER
    PROVE  Packed(e) \in Patterns
<1>1. /\ SignOf(x) \in {0, SIGNBIT} /\ Fraction(val) \in 0 .. IMPBIT - 1
      /\ x \in Patterns /\ IMPBIT \in Nat \ {0} /\ EXPBIAS \in Nat
      /\ SIGNBIT = pow2[E] * IMPBIT /\ pow2[E] = 2 * EXPBIAS + 2 /\ BIASEDEMAX = 2 * EXPBIAS
      /\ MULTIPLIER < EXPBIAS /\ MULTIPLIER \in Nat /\ SIGNBIT \in Nat
  BY Fields, Widths, WidthAssumption, SizeAssumption, Format DEF TypeOK, MULTIPLIER
<1>2. CASE e < pow2[E]
  <2>1. e + 1 <= pow2[E] /\ e \in Nat /\ pow2[E] \in Nat
    BY <1>1, <1>2
  <2>2. IMPBIT * (e + 1) <= IMPBIT * pow2[E]
    BY ONLY <1>1, <2>1, Times, e + 1 \in Int
  <2>3. e * IMPBIT + IMPBIT <= SIGNBIT /\ e * IMPBIT \in Nat
    BY <1>1, <2>1, <2>2
  <2> QED
    BY <1>1, <1>2, <2>3 DEF Packed, Patterns
<1>3. CASE e >= pow2[E]
  <2> DEFINE g == e - pow2[E]
  <2>1. g + 1 <= pow2[E] /\ g \in Nat /\ pow2[E] \in Nat /\ g + 1 \in Int
    BY <1>1, <1>3
  <2>2. Packed(e) = SIGNBIT + g * IMPBIT + Fraction(val)
    BY <1>1, <1>3 DEF Packed
  <2> HIDE DEF g
  <2>3. IMPBIT * (g + 1) <= IMPBIT * pow2[E]
    BY ONLY <1>1, <2>1, Times
  <2>4. g * IMPBIT + IMPBIT <= SIGNBIT /\ g * IMPBIT \in Nat
    BY <1>1, <2>1, <2>3
  <2> QED
    BY <1>1, <2>2, <2>4 DEF Patterns
<1> QED
  BY <1>1, <1>2, <1>3

\* and what is multiplied down.
LEMMA LoweredType ==
    ASSUME NEW u \in Patterns
    PROVE  /\ Lowered(u).bits \in Patterns
           /\ Lowered(u).flags \subseteq {"invalid", "inexact", "underflow"}
<1>1. -MULTIPLIER \in Int
  BY SizeAssumption DEF MULTIPLIER
<1>2. Scaled(u, -MULTIPLIER) \in Patterns
  BY ONLY <1>1, u \in Patterns, ScaledType
<1>3. IsNaN(u) \/ IsInf(u) \/ Finite(u)
  BY Fields, Format DEF IsNaN, IsInf, Finite
<1>4. ~(IsNaN(u) /\ IsInf(u)) /\ ~(IsNaN(u) /\ Finite(u)) /\ ~(IsInf(u) /\ Finite(u))
  BY Fields, Format DEF IsNaN, IsInf, Finite
<1> QED
  BY <1>2, <1>3, <1>4, QuietedType DEF Lowered

-----------------------------------------------------------------------------
(* The logarithms.                                                         *)

\* A quotient of one.
LEMMA QuotientOne ==
    ASSUME NEW a \in Nat, NEW c \in Nat \ {0}, c <= a, a < 2 * c
    PROVE  a \div c = 1
<1>1. a = c * 1 + (a - c) /\ a - c \in 0 .. c - 1 /\ a \in Int /\ 1 \in Int
  OBVIOUS
<1> QED
  BY ONLY <1>1, DivisionUnique, c \in Nat \ {0}

\* The logarithm of a normal number is its exponent.
LEMMA LogOfNormal ==
    ASSUME NEW u \in Patterns, Finite(u), ~IsZero(u), ~IsSubnormal(u)
    PROVE  LET e == ExponentField(u) - EXPBIAS
           IN  /\ e \in EMIN .. EXPBIAS /\ e - EMIN + M \in Nat
               /\ Units(u) \div pow2[e - EMIN + M] = 1
<1> DEFINE e == ExponentField(u)
           b == pow2[e - 1]
<1>1. /\ e \in 1 .. 2 * EXPBIAS /\ EXPBIAS \in Nat /\ IMPBIT \in Nat \ {0} /\ M \in Nat
  BY Fields, Widths, SizeAssumption DEF IsSubnormal
<1>2. /\ e - 1 \in Nat /\ b \in Nat \ {0} /\ IMPBIT * b <= Units(u) /\ Units(u) < IMPBIT * pow2[e]
      /\ Units(u) \in Nat
  BY <1>1, UnitsBounds
<1> HIDE DEF e
<1>3. pow2[(e - 1) + 1] = 2 * b /\ pow2[(e - 1) + M] = b * IMPBIT
  BY ONLY <1>1, <1>2, Pow2Next, Pow2Sum DEF IMPBIT
<1>4. (e - 1) + 1 = e /\ (e - EXPBIAS) - EMIN + M = (e - 1) + M /\ (e - 1) + M \in Nat
      /\ e - EXPBIAS \in EMIN .. EXPBIAS
  BY <1>1, <1>2 DEF EMIN
<1> HIDE DEF b
<1>5. b * IMPBIT \in Nat \ {0} /\ b * IMPBIT <= Units(u) /\ Units(u) < 2 * (b * IMPBIT)
  BY <1>1, <1>2, <1>3, <1>4
<1>6. Units(u) \div (b * IMPBIT) = 1
  BY ONLY <1>2, <1>5, QuotientOne
<1> QED
  BY <1>3, <1>4, <1>6 DEF e

\* The logarithm of a subnormal is told by the shifts that make it normal.
LEMMA LogOfSubnormal ==
    ASSUME NEW u \in Patterns, IsSubnormal(u), NEW j \in 0 .. M,
           Fraction(u) * pow2[j] >= IMPBIT, Fraction(u) * pow2[j] < 2 * IMPBIT
    PROVE  LET e == EMIN - j
           IN  /\ e >= EMIN - M /\ e - EMIN + M \in Nat
               /\ Units(u) \div pow2[e - EMIN + M] = 1
<1> DEFINE f == Fraction(u)
           p == pow2[j]
           r == pow2[M - j]
<1>1. j \in Nat /\ M \in Nat /\ j <= M /\ M - j \in Nat /\ EMIN \in Int
  BY SizeAssumption, Widths DEF EMIN
<1>2. p \in Nat \ {0} /\ r \in Nat \ {0} /\ pow2[M] = p * r
  BY ONLY <1>1, Pow2Type, Pow2Grows
<1>3. f \in Nat /\ Units(u) = f
  BY Fields, UnitsBounds DEF IsSubnormal
<1>4. p * r <= f * p /\ f * p < 2 * (p * r)
  BY <1>2 DEF IMPBIT
<1> HIDE DEF f, p, r
<1>5. p * r <= p * f /\ p * f < p * (2 * r)
  BY <1>2, <1>3, <1>4
<1>6. r <= f /\ f < 2 * r
  BY ONLY <1>2, <1>3, <1>5, Times, r \in Int, f \in Int, 2 * r \in Int
<1>7. f \div r = 1
  BY ONLY <1>2, <1>3, <1>6, QuotientOne
<1>8. (EMIN - j) - EMIN + M = M - j /\ EMIN - j >= EMIN - M
  BY <1>1
<1> QED
  BY <1>1, <1>3, <1>7, <1>8 DEF r

\* While a subnormal is shifted, val is x times as many powers of two as the exponent
\* has been lowered, and not yet two binades above the subnormals.
Shifting ==
    pc = "shift" =>
        /\ fn \in LogFunctions /\ IsSubnormal(x)
        /\ \E j \in 0 .. M : /\ exponent = EMIN - j
                             /\ val = Fraction(x) * pow2[j] /\ val < 2 * IMPBIT

\* The counts of all but scalbln are ints, those of a second call too.
CountsFit ==
    /\ fn \in ScaleFunctions \ {"scalbln"} => n \in Ints
    /\ pc = "done" /\ fn \in LogFunctions \cup {"frexp"} /\ Finite(x) /\ ~IsZero(x) =>
          exponent \in Ints /\ -exponent \in Ints
    /\ pc \in {"denormal", "normal"} => fn \in ScaleFunctions

ScalingInv == TypeOK /\ Shifting /\ CountsFit /\ ExponentIsFloorLog

-----------------------------------------------------------------------------
(* The steps.                                                              *)

\* Exponents are small beside the ints, and sums with them fit the longs.
LEMMA SmallInts ==
    LET b == pow2[E] + 2 * MULTIPLIER
    IN  /\ b \in Nat /\ MULTIPLIER \in Nat /\ MULTIPLIER > 0 /\ pow2[E] = 2 * EXPBIAS + 2
        /\ EXPBIAS \in Nat /\ EMIN = 1 - EXPBIAS /\ M \in Nat /\ MULTIPLIER = M + 1
        /\ MULTIPLIER < EXPBIAS /\ BIASEDEMAX = 2 * EXPBIAS
        /\ \A v \in -b .. b : /\ v \in Ints /\ -v \in Ints /\ v \in Longs
                              /\ \A k \in Ints : v + k \in Longs
<1> DEFINE b == pow2[E] + 2 * MULTIPLIER
<1>1. /\ b \in Nat /\ MULTIPLIER \in Nat /\ MULTIPLIER > 0 /\ pow2[E] = 2 * EXPBIAS + 2
      /\ EXPBIAS \in Nat /\ EMIN = 1 - EXPBIAS /\ M \in Nat /\ MULTIPLIER = M + 1
      /\ MULTIPLIER < EXPBIAS /\ BIASEDEMAX = 2 * EXPBIAS
  BY Widths, SizeAssumption, WidthAssumption DEF MULTIPLIER, EMIN
<1>2. PICK h \in Nat, l \in Nat : /\ Ints = -h .. h - 1 /\ Longs = -l .. l - 1
                                  /\ 2 * h <= l /\ h > b
  BY IntRanges
<1> HIDE DEF b
<1>3. \A v \in -b .. b : /\ v \in Ints /\ -v \in Ints /\ v \in Longs
                         /\ \A k \in Ints : v + k \in Longs
  BY <1>1, <1>2
<1> QED
  BY <1>1, <1>3 DEF b

\* A behaviour starts with a call.
LEMMA ScalingInvInit == Init => ScalingInv
<1>1. 0 \in Longs /\ 0 \in Patterns /\ Ints \subseteq Longs
  <2>1. 0 \in -(pow2[E] + 2 * MULTIPLIER) .. pow2[E] + 2 * MULTIPLIER
    BY SmallInts
  <2> QED
    BY <2>1, SmallInts, IntRanges, Format DEF Patterns
<1>2. ASSUME Init PROVE n \in Longs /\ (fn \in ScaleFunctions \ {"scalbln"} => n \in Ints)
  <2>1. CASE fn = "scalbln"
    BY <1>2, <2>1 DEF Init, ScaleFunctions, LogFunctions
  <2>2. CASE fn \in ScaleFunctions \ {"scalbln"}
    BY <1>1, <1>2, <2>2 DEF Init
  <2>3. CASE fn \notin ScaleFunctions
    BY <1>1, <1>2, <2>3 DEF Init, ScaleFunctions
  <2> QED
    BY <2>1, <2>2, <2>3
<1> QED
  BY <1>1, <1>2 DEF Init, ScalingInv, TypeOK, Shifting, CountsFit, ExponentIsFloorLog

\* ldexp, scalbn and scalbln hand a special argument back.
LEMMA ScaleSpecialKeeps == ASSUME ScalingInv, ScaleSpecial PROVE ScalingInv'
<1>1. Return(x, {}) \/ (Return(Quieted(x), {"invalid"}) /\ IsNaN(x))
  BY DEF ScaleSpecial, Signalling
<1>2. fn \in ScaleFunctions /\ UNCHANGED <<fn, x, n, val, exponent, undone>>
  BY DEF ScaleSpecial, Scaling
<1>3. TypeOK'
  BY <1>1, <1>2, QuietedType DEF ScalingInv, TypeOK, Return
<1> QED
  BY <1>1, <1>2, <1>3
     DEF ScalingInv, Shifting, CountsFit, ExponentIsFloorLog, Return, ScaleFunctions, LogFunctions

\* They add the count to the exponent,
LEMMA ScaleStartKeeps == ASSUME ScalingInv, ScaleDenormal \/ ScaleNormal PROVE ScalingInv'
<1>1. /\ fn \in ScaleFunctions /\ x \in Patterns /\ n \in Longs /\ pc' \in {"denormal", "normal"}
      /\ (fn \in ScaleFunctions \ {"scalbln"} => n \in Ints)
      /\ UNCHANGED <<fn, x, n, ret, flags, undone>>
  BY DEF ScaleDenormal, ScaleNormal, Scaling, ScalingInv, TypeOK, CountsFit
<1>2. val' \in Patterns /\ exponent' \in Longs
  <2>1. CASE ScaleDenormal
    <3> DEFINE e == ExponentField(val')
               sum == e + n - MULTIPLIER
    <3>1. MULTIPLIER \in Int /\ Magnitude(x) \in Patterns
      BY <1>1, SmallInts, Fields, Format DEF Patterns
    <3>2. val' \in Patterns
      <4>1. Scaled(Magnitude(x), MULTIPLIER) \in Patterns
        BY ONLY <3>1, ScaledType
      <4> QED
        BY <2>1, <4>1 DEF ScaleDenormal
    <3>3. e - MULTIPLIER \in -(pow2[E] + 2 * MULTIPLIER) .. pow2[E] + 2 * MULTIPLIER
          /\ e \in Int /\ n \in Int
      <4>1. e \in 0 .. 2 * EXPBIAS + 1
        BY ONLY <3>2, Fields
      <4>2. n \in Int
        BY <1>1 DEF Longs
      <4> HIDE DEF e
      <4> QED
        BY <4>1, <4>2, SmallInts
    <3>4. sum = (e - MULTIPLIER) + n /\ sum \in Int
      BY <3>1, <3>3
    <3>5. ToInt(sum) \in Ints /\ Ints \subseteq Longs
      BY ONLY <3>4, ToIntIs, IntRanges
    <3>6. fn # "scalbln" => sum \in Longs
      BY <1>1, <3>3, <3>4, SmallInts
    <3> QED
      BY <2>1, <3>2, <3>5, <3>6 DEF ScaleDenormal, IntSum
  <2>2. CASE ScaleNormal
    <3> DEFINE e == ExponentField(x)
               k == IF fn = "scalbln" THEN ToInt(n) ELSE n
    <3>1. Magnitude(x) \in Patterns
      BY <1>1, Fields, Format DEF Patterns
    <3>2. k \in Ints
      <4>1. n \in Int
        BY <1>1 DEF Longs
      <4>2. ToInt(n) \in Ints
        BY ONLY <4>1, ToIntIs
      <4> QED
        BY <1>1, <4>2
    <3>3. e \in -(pow2[E] + 2 * MULTIPLIER) .. pow2[E] + 2 * MULTIPLIER /\ e + k \in Int
      <4>1. k \in Int
        BY <3>2 DEF Ints
      <4> QED
        BY <1>1, <4>1, Fields, SmallInts
    <3> HIDE DEF k, e
    <3>4. ToInt(e + k) \in Ints /\ Ints \subseteq Longs
      BY ONLY <3>3, ToIntIs, IntRanges
    <3>5. e + k \in Longs
      BY <3>2, <3>3, SmallInts
    <3> QED
      BY <2>2, <3>1, <3>4, <3>5 DEF ScaleNormal, IntSum, e, k
  <2> QED
    BY <2>1, <2>2
<1> QED
  BY <1>1, <1>2
     DEF ScalingInv, TypeOK, Shifting, CountsFit, ExponentIsFloorLog, ScaleFunctions, LogFunctions

\* The returns of a scaling.
LEMMA ScaleReturnKeeps ==
    ASSUME ScalingInv,
           ScaleGuard \/ ScaleUnderflow \/ ScaleOverflow \/ ScaleLower \/ ScalePack
    PROVE  ScalingInv'
<1>1. /\ fn \in ScaleFunctions /\ pc' = "done" /\ UNCHANGED <<fn, x, n, val, undone>>
      /\ TypeOK
  BY DEF ScaleGuard, ScaleUnderflow, ScaleOverflow, ScaleLower, ScalePack, Scaling,
         ScalingInv, CountsFit, Return
<1>2. /\ ret' \in Patterns /\ exponent' \in Longs
      /\ flags' \subseteq {"invalid", "inexact", "overflow", "underflow"}
  <2>1. CASE ScaleGuard \/ ScaleUnderflow \/ ScaleOverflow
    BY <1>1, <2>1, Fields, Format
       DEF ScaleGuard, ScaleUnderflow, ScaleOverflow, Return, Patterns, TypeOK
  <2>2. CASE ScaleLower
    <3>1. exponent + MULTIPLIER \in 0 .. BIASEDEMAX + MULTIPLIER
      <4>1. exponent \in Int
        BY <1>1 DEF TypeOK, Longs
      <4> QED
        BY <2>2, <4>1, SmallInts DEF ScaleLower, Underflow, Overflow
    <3>2. exponent' \in 0 .. BIASEDEMAX + MULTIPLIER /\ exponent' \in Longs
      BY <2>2, <3>1, SmallInts DEF ScaleLower
    <3>3. exponent' = exponent + MULTIPLIER
      BY <2>2 DEF ScaleLower
    <3>4. Packed(exponent') \in Patterns
      BY ONLY <1>1, <3>1, <3>3, PackedType
    <3>5. /\ Lowered(Packed(exponent')).bits \in Patterns
          /\ Lowered(Packed(exponent')).flags \subseteq {"invalid", "inexact", "underflow"}
      BY ONLY <3>4, LoweredType
    <3> QED
      BY <2>2, <3>2, <3>5 DEF ScaleLower, Return
  <2>3. CASE ScalePack
    <3>1. exponent \in 0 .. BIASEDEMAX + MULTIPLIER
      <4>1. exponent \in Int
        BY <1>1 DEF TypeOK, Longs
      <4> QED
        BY <2>3, <4>1, SmallInts DEF ScalePack, Overflow
    <3>2. Packed(exponent) \in Patterns
      BY <1>1, <3>1, PackedType
    <3> QED
      BY <1>1, <2>3, <3>2 DEF ScalePack, Return, TypeOK
  <2> QED
    BY <2>1, <2>2, <2>3
<1> QED
  BY <1>1, <1>2
     DEF ScalingInv, TypeOK, Shifting, CountsFit, ExponentIsFloorLog, ScaleFunctions, LogFunctions

\* frexp, logb and ilogb of special arguments.
LEMMA SpecialKeeps == ASSUME ScalingInv, FrexpSpecial \/ LogSpecial PROVE ScalingInv'
<1>1. TypeOK /\ (~Finite(x) \/ IsZero(x)) /\ UNCHANGED <<fn, x, n, val, undone>>
  BY DEF FrexpSpecial, LogSpecial, ScalingInv
<1>2. /\ IsZero(x) \/ IsInf(x) \/ IsNaN(x)
      /\ ~(IsZero(x) /\ IsInf(x)) /\ ~(IsZero(x) /\ IsNaN(x)) /\ ~(IsInf(x) /\ IsNaN(x))
  BY <1>1, Fields, Format DEF TypeOK, IsInf, IsNaN, Finite, IsZero
<1>3. 0 \in Longs /\ INT_MIN \in Longs /\ INT_MAX \in Longs /\ 0 \in Patterns
      /\ EXPBITS \in Patterns /\ Negated(EXPBITS) \in Patterns
  <2>1. PICK h \in Nat \ {0}, l \in Nat : /\ INT_MIN = -h /\ INT_MAX = h - 1 /\ 2 * h <= l
                                          /\ Longs = -l .. l - 1
    BY IntRanges
  <2>2. 0 \in Longs /\ INT_MIN \in Longs /\ INT_MAX \in Longs
    BY ONLY <2>1
  <2> QED
    BY <2>2, Format DEF Patterns, Negated, Negative
<1>4. /\ fn \in LogFunctions \cup {"frexp"} /\ pc' = "done"
      /\ ret' \in Patterns /\ exponent' \in Longs
      /\ flags' \subseteq {"invalid", "divbyzero"}
  <2>1. CASE FrexpSpecial
    BY <1>1, <1>3, <2>1, QuietedType DEF FrexpSpecial, Return, TypeOK
  <2>2. CASE LogSpecial /\ fn = "logb"
    <3>1. exponent' = 0 /\ CASE IsZero(x) -> Return(Negated(EXPBITS), {"divbyzero"})
               [] IsInf(x)  -> Return(EXPBITS, {})
               [] IsNaN(x)  -> Return(Quieted(x), IF Signalling THEN {"invalid"} ELSE {})
      BY <2>2 DEF LogSpecial
    <3>2. CASE IsZero(x)
      BY <1>2, <1>3, <2>2, <3>1, <3>2 DEF Return, LogFunctions
    <3>3. CASE IsInf(x)
      BY <1>2, <1>3, <2>2, <3>1, <3>3 DEF Return, LogFunctions
    <3>4. CASE IsNaN(x)
      BY <1>1, <1>2, <1>3, <2>2, <3>1, <3>4, QuietedType DEF Return, LogFunctions, TypeOK
    <3> QED
      BY <1>2, <3>2, <3>3, <3>4
  <2>3. CASE LogSpecial /\ fn # "logb"
    BY <1>3, <2>3 DEF LogSpecial, Return, LogFunctions
  <2> QED
    BY <2>1, <2>2, <2>3
<1> QED
  BY <1>1, <1>4
     DEF ScalingInv, TypeOK, Shifting, CountsFit, ExponentIsFloorLog, ScaleFunctions, LogFunctions

\* frexp of a number.
LEMMA FrexpKeeps == ASSUME ScalingInv, Frexp PROVE ScalingInv'
<1> DEFINE c == IF IsSubnormal(x) THEN MULTIPLIER ELSE 0
           b == pow2[E] + 2 * MULTIPLIER
<1>1. /\ fn = "frexp" /\ pc' = "done" /\ TypeOK /\ UNCHANGED <<fn, x, n, undone>>
      /\ val' = IF IsSubnormal(x) THEN Scaled(Magnitude(x), MULTIPLIER) ELSE Magnitude(x)
      /\ exponent' = ExponentField(val') - c - (EXPBIAS - 1)
      /\ ret' = SignOf(x) + (EXPBIAS - 1) * IMPBIT + Fraction(val') /\ flags' = {}
  BY DEF Frexp, Return, ScalingInv
<1>2. val' \in Patterns
  <2>1. MULTIPLIER \in Int /\ Magnitude(x) \in Patterns
    BY <1>1, SmallInts, Fields, Format DEF Patterns, TypeOK
  <2>2. Scaled(Magnitude(x), MULTIPLIER) \in Patterns
    BY ONLY <2>1, ScaledType
  <2> QED
    BY <1>1, <2>1, <2>2
<1>3. exponent' \in -b .. b
  <2>1. ExponentField(val') \in 0 .. 2 * EXPBIAS + 1
    BY ONLY <1>2, Fields
  <2>2. c \in {0, MULTIPLIER} /\ exponent' = ExponentField(val') - c - (EXPBIAS - 1)
    BY <1>1
  <2>3. PICK f \in 0 .. 2 * EXPBIAS + 1 : ExponentField(val') = f
    BY <2>1
  <2>4. /\ MULTIPLIER \in Nat /\ EXPBIAS \in Nat /\ EXPBIAS >= 3
        /\ pow2[E] = 2 * EXPBIAS + 2
    BY SmallInts, Widths
  <2> HIDE DEF c
  <2> QED
    BY ONLY <2>2, <2>3, <2>4
<1>4. exponent' \in Ints /\ -exponent' \in Ints /\ exponent' \in Longs
  BY <1>3, SmallInts
<1>5. ret' \in Patterns
  <2>1. Fraction(val') \in 0 .. IMPBIT - 1 /\ SignOf(x) \in {0, SIGNBIT}
    BY <1>1, <1>2, Fields DEF TypeOK
  <2>2. IMPBIT \in Nat \ {0} /\ EXPBIAS \in Nat /\ EXPBIAS >= 3
        /\ SIGNBIT = (2 * EXPBIAS + 2) * IMPBIT
    BY Widths
  <2>3. (EXPBIAS - 1) * IMPBIT + IMPBIT <= SIGNBIT /\ (EXPBIAS - 1) * IMPBIT \in Nat
    <3>1. (EXPBIAS - 1) * IMPBIT + IMPBIT = IMPBIT * EXPBIAS
          /\ SIGNBIT = IMPBIT * (2 * EXPBIAS + 2) /\ EXPBIAS - 1 \in Nat
      BY <2>2
    <3>2. IMPBIT * EXPBIAS <= IMPBIT * (2 * EXPBIAS + 2)
      BY <2>2
    <3> QED
      BY <2>2, <3>1, <3>2
  <2> QED
    BY <1>1, <2>1, <2>2, <2>3, Format DEF Patterns
<1> HIDE DEF c, b
<1> QED
  BY <1>1, <1>2, <1>4, <1>5
     DEF ScalingInv, TypeOK, Shifting, CountsFit, ExponentIsFloorLog, ScaleFunctions, LogFunctions

\* The logarithm of a normal number is its exponent.
LEMMA LogNormalKeeps == ASSUME ScalingInv, LogNormal PROVE ScalingInv'
<1>1. /\ fn \in LogFunctions /\ pc' = "done" /\ ret' = 0 /\ flags' = {}
      /\ TypeOK /\ UNCHANGED <<fn, x, n, val, undone>>
      /\ Finite(x) /\ ~IsZero(x) /\ ~IsSubnormal(x) /\ exponent' = ExponentField(x) - EXPBIAS
  BY DEF LogNormal, Return, ScalingInv
<1>2. /\ exponent' \in EMIN .. EXPBIAS /\ exponent' - EMIN + M \in Nat
      /\ Units(x) \div pow2[exponent' - EMIN + M] = 1
  BY <1>1, LogOfNormal DEF TypeOK
<1>3. exponent' \in -(pow2[E] + 2 * MULTIPLIER) .. pow2[E] + 2 * MULTIPLIER
      /\ exponent' >= EMIN - M
  BY <1>2, SmallInts
<1>4. exponent' \in Ints /\ -exponent' \in Ints /\ exponent' \in Longs /\ 0 \in Patterns
  BY <1>3, SmallInts, Format DEF Patterns
<1> QED
  BY <1>1, <1>2, <1>3, <1>4
     DEF ScalingInv, TypeOK, Shifting, CountsFit, ExponentIsFloorLog, ScaleFunctions, LogFunctions

\* That of a subnormal is searched,
LEMMA LogDenormalKeeps == ASSUME ScalingInv, LogDenormal PROVE ScalingInv'
<1>1. /\ fn \in LogFunctions /\ pc' = "shift" /\ IsSubnormal(x) /\ TypeOK
      /\ val' = Fraction(x) /\ exponent' = EMIN /\ UNCHANGED <<fn, x, n, ret, flags, undone>>
  BY DEF LogDenormal, ScalingInv
<1>2. Fraction(x) \in 0 .. IMPBIT - 1 /\ val' \in Patterns
  <2>1. x \in Patterns
    BY <1>1 DEF TypeOK
  <2>2. Fraction(x) \in 0 .. IMPBIT - 1
    BY ONLY <2>1, Fields
  <2> QED
    BY <1>1, <2>2, Widths, Format DEF Patterns
<1>3. EMIN \in -(pow2[E] + 2 * MULTIPLIER) .. pow2[E] + 2 * MULTIPLIER
  BY SmallInts
<1>4. exponent' \in Longs
  BY <1>1, <1>3, SmallInts
<1>5. /\ 0 \in 0 .. M /\ exponent' = EMIN - 0 /\ val' = Fraction(x) * pow2[0]
      /\ val' < 2 * IMPBIT
  BY <1>1, <1>2, Pow2Next, SmallInts, Widths
<1> QED
  BY <1>1, <1>2, <1>4, <1>5
     DEF ScalingInv, TypeOK, Shifting, CountsFit, ExponentIsFloorLog, ScaleFunctions, LogFunctions

\* one bit at a time.
LEMMA LogShiftKeeps == ASSUME ScalingInv, LogShift PROVE ScalingInv'
<1>1. /\ pc = "shift" /\ TypeOK /\ fn \in LogFunctions /\ IsSubnormal(x)
      /\ UNCHANGED <<fn, x, n, undone>>
  BY DEF LogShift, ScalingInv, Shifting
<1>2. PICK j \in 0 .. M : /\ exponent = EMIN - j
                          /\ val = Fraction(x) * pow2[j] /\ val < 2 * IMPBIT
  BY <1>1 DEF ScalingInv, Shifting
<1>3. /\ Fraction(x) \in Nat \ {0} /\ IMPBIT \in Nat \ {0} /\ j \in Nat /\ pow2[j] \in Nat \ {0}
      /\ M \in Nat /\ SIGNBIT > 2 * IMPBIT
  <2>1. Fraction(x) \in Nat /\ Magnitude(x) = Fraction(x)
    BY <1>1, Fields, Widths DEF TypeOK, IsSubnormal
  <2>2. pow2[j] \in Nat \ {0} /\ M \in Nat /\ j \in Nat
    BY <1>2, Pow2Type, SizeAssumption
  <2>3. SIGNBIT > 2 * IMPBIT
    BY Widths
  <2> QED
    BY <1>1, <2>1, <2>2, <2>3, Widths DEF IsSubnormal, IsZero
<1>4. exponent \in -(pow2[E] + 2 * MULTIPLIER) .. pow2[E] + 2 * MULTIPLIER
      /\ exponent - 1 \in -(pow2[E] + 2 * MULTIPLIER) .. pow2[E] + 2 * MULTIPLIER
  BY <1>2, <1>3, SmallInts
<1>5. exponent \in Ints /\ -exponent \in Ints /\ exponent - 1 \in Ints /\ exponent - 1 \in Longs
  BY <1>4, SmallInts
<1>6. CASE val < IMPBIT
  <2>1. /\ val' = 2 * val /\ exponent' = ToInt(exponent - 1) /\ UNCHANGED <<pc, ret, flags>>
    BY <1>6 DEF LogShift
  <2>2. exponent' = exponent - 1
    <3>1. exponent - 1 \in Int
      BY <1>4
    <3>2. ToInt(exponent - 1) = exponent - 1
      BY ONLY <1>5, <3>1, ToIntIs
    <3> QED
      BY <2>1, <3>2
  <2>3. j < M
    <3>1. SUFFICES ASSUME j = M PROVE FALSE
      BY <1>2, <1>3
    <3> QED
      BY <1>2, <1>3, <1>6, <3>1 DEF IMPBIT
  <2>4. pow2[j + 1] = 2 * pow2[j] /\ j + 1 \in 0 .. M /\ exponent' = EMIN - (j + 1)
    BY <1>2, <1>3, <2>2, <2>3, Pow2Next, SmallInts
  <2>5. val' = Fraction(x) * pow2[j + 1] /\ val' < 2 * IMPBIT /\ val' \in Nat
    BY <1>2, <1>3, <1>6, <2>1, <2>4
  <2>6. val' \in Patterns /\ exponent' \in Longs
    BY <1>3, <1>5, <2>2, <2>5, Format DEF Patterns
  <2> QED
    BY <1>1, <2>1, <2>4, <2>5, <2>6
       DEF ScalingInv, TypeOK, Shifting, CountsFit, ExponentIsFloorLog, ScaleFunctions,
           LogFunctions
<1>7. CASE ~(val < IMPBIT)
  <2>1. pc' = "done" /\ ret' = 0 /\ flags' = {} /\ UNCHANGED <<val, exponent>>
    BY <1>7 DEF LogShift, Return
  <2>2. val >= IMPBIT
    BY <1>2, <1>3, <1>7
  <2>3. /\ exponent >= EMIN - M /\ Units(x) \div pow2[exponent - EMIN + M] = 1
    BY <1>1, <1>2, <2>2, LogOfSubnormal DEF TypeOK
  <2>4. 0 \in Patterns
    BY Format DEF Patterns
  <2> QED
    BY <1>1, <1>5, <2>1, <2>3, <2>4
       DEF ScalingInv, TypeOK, Shifting, CountsFit, ExponentIsFloorLog, ScaleFunctions,
           LogFunctions
<1> QED
  BY <1>6, <1>7

\* The second call is given what the first one returned.
LEMMA UndoKeeps == ASSUME ScalingInv, Undo PROVE ScalingInv'
<1>1. /\ pc = "done" /\ Finite(x) /\ ~IsZero(x) /\ TypeOK /\ fn \in LogFunctions \cup {"frexp"}
      /\ exponent \in Ints /\ -exponent \in Ints /\ Ints \subseteq Longs
  BY IntRanges DEF Undo, ScalingInv, CountsFit
<1>2. \/ CallAgain("ldexp", ret, exponent)
      \/ CallAgain("scalbn", x, -exponent)
  BY DEF Undo
<1>3. 0 \in Patterns /\ 0 \in Longs
  BY Format, IntRanges DEF Patterns
<1> QED
  BY <1>1, <1>2, <1>3
     DEF CallAgain, ScalingInv, TypeOK, Shifting, CountsFit, ExponentIsFloorLog,
         ScaleFunctions, LogFunctions

\* Every step keeps the inductive invariant.
LEMMA ScalingInvStep == ScalingInv /\ [Next]_vars => ScalingInv'
<1>1. CASE UNCHANGED vars
  BY <1>1 DEF vars, ScalingInv, TypeOK, Shifting, CountsFit, ExponentIsFloorLog
<1> QED
  BY <1>1, ScaleSpecialKeeps, ScaleStartKeeps, ScaleReturnKeeps, SpecialKeeps, FrexpKeeps,
     LogNormalKeeps, LogDenormalKeeps, LogShiftKeeps, UndoKeeps
     DEF Next, Step

\* It holds in every state.
THEOREM SpecScalingInv == Spec => []ScalingInv
<1> QED
  BY ScalingInvInit, ScalingInvStep, PTL DEF Spec

\* Every call, the undoing one included, keeps the widths of the machine.
THEOREM SpecTypeOK == Spec => []TypeOK
<1>1. ScalingInv => TypeOK
  BY DEF ScalingInv
<1> QED
  BY <1>1, SpecScalingInv, PTL

\* logb, ilogb and ilogbf give the exponent of every number: 2^exponent <= |x| and
\* |x| < 2^(exponent + 1), where the leading bit of a subnormal is searched as well.
THEOREM SpecExponentIsFloorLog == Spec => []ExponentIsFloorLog
<1>1. ScalingInv => ExponentIsFloorLog
  BY DEF ScalingInv
<1> QED
  BY <1>1, SpecScalingInv, PTL

-----------------------------------------------------------------------------
(* A number as its leading bit and the bits below it.                      *)

\* The normal number that the code takes apart, and its leading bit with the
\* fraction: x is Mantissa(x) * 2^(Lead(x) - 1) units.
NormalOf(u) == IF IsSubnormal(u) THEN Scaled(Magnitude(u), MULTIPLIER) ELSE Magnitude(u)
Mantissa(u) == IMPBIT + Fraction(NormalOf(u))

\* A subnormal times 2^MULTIPLIER is a normal number, exactly.
LEMMA SubnormalScaled ==
    ASSUME NEW u \in Patterns, IsSubnormal(u)
    PROVE  LET v == Scaled(Magnitude(u), MULTIPLIER)
           IN  /\ v \in Patterns /\ ~Negative(v) /\ Units(v) = Units(u) * pow2[MULTIPLIER]
               /\ ExponentField(v) \in 2 .. MULTIPLIER
<1> DEFINE p == pow2[MULTIPLIER]
           N == Units(u) * p
<1>1. /\ MULTIPLIER \in Nat /\ MULTIPLIER = M + 1 /\ M \in Nat /\ MULTIPLIER < EXPBIAS
      /\ EXPBIAS \in Nat /\ EXPBIAS >= 3 /\ IMPBIT \in Nat \ {0}
  BY SmallInts, Widths
<1>2. /\ Units(u) \in Nat /\ Units(u) > 0 /\ Units(u) < IMPBIT
      /\ Units(Magnitude(u)) = Units(u) /\ SignOf(Magnitude(u)) = 0
      /\ p \in Nat \ {0} /\ p = 2 * IMPBIT
  <2>1. /\ Units(u) \in Nat /\ Units(u) = Fraction(u) /\ Units(u) < IMPBIT
        /\ Units(Magnitude(u)) = Units(u)
    BY UnitsBounds DEF IsSubnormal
  <2>2. /\ Magnitude(u) = Fraction(u) /\ ~Negative(Magnitude(u))
    BY <1>1, Fields, MagnitudeIs DEF IsSubnormal
  <2>3. Magnitude(u) # 0
    BY DEF IsSubnormal, IsZero
  <2>4. pow2[M + 1] = 2 * pow2[M]
    BY ONLY <1>1, Pow2Next
  <2> QED
    BY <1>1, <2>1, <2>2, <2>3, <2>4 DEF SignOf, IMPBIT
<1>3. N \in Int /\ N \in Nat
  BY <1>2
<1>4. PICK v \in Patterns : /\ ~Negative(v) /\ Magnitude(v) < EXPBITS /\ Units(v) = N
  <2>1. Units(u) <= 2 * IMPBIT /\ MULTIPLIER <= 2 * EXPBIAS - 2
    BY <1>1, <1>2
  <2> QED
    BY <1>1, <1>2, <2>1, NumberExists
<1>5. Scaled(Magnitude(u), MULTIPLIER) = v
  <2>1. Numerator(Magnitude(u), MULTIPLIER) = N /\ Denominator(MULTIPLIER) = 1
    BY <1>1, <1>2 DEF Numerator, Denominator
  <2>2. Rounded(1 * Units(v), 1) = Magnitude(v)
    <3>1. Magnitude(v) <= EXPBITS /\ 1 \in Nat \ {0}
      BY <1>4, Fields, Format
    <3> QED
      BY ONLY <3>1, RoundedExact, v \in Patterns
  <2>3. 1 * Units(v) = N /\ Magnitude(v) = v /\ v \in Nat
    BY <1>3, <1>4, MagnitudeIs, Format DEF Patterns
  <2> QED
    BY <1>2, <2>1, <2>2, <2>3 DEF Scaled
<1>6. ExponentField(v) \in 2 .. MULTIPLIER
  <2> DEFINE g == ExponentField(v)
  <2>1. g \in Nat /\ Units(v) >= 2 * IMPBIT /\ Units(v) < IMPBIT * p /\ Units(v) \in Nat
    <3>1. Units(u) * p >= 1 * p /\ Units(u) * p < IMPBIT * p
      BY ONLY <1>1, <1>2
    <3> QED
      BY <1>2, <1>3, <1>4, <3>1, Fields
  <2>2. g # 0
    BY <1>1, <2>1, UnitsBounds
  <2>3. /\ g - 1 \in Nat /\ pow2[g - 1] \in Nat \ {0}
        /\ IMPBIT * pow2[g - 1] <= Units(v) /\ Units(v) < IMPBIT * pow2[g]
    BY <2>1, <2>2, UnitsBounds
  <2>4. g # 1
    <3>1. pow2[0 + 1] = 2 * pow2[0] /\ pow2[0] = 1
      BY Pow2Next
    <3> QED
      BY <1>1, <2>1, <2>3, <3>1
  <2>5. g <= MULTIPLIER
    <3>1. SUFFICES ASSUME g - 1 >= MULTIPLIER PROVE FALSE
      BY <1>1, <2>1
    <3>2. p <= pow2[g - 1]
      BY <1>1, <2>3, <3>1, Pow2Grows
    <3>3. IMPBIT * p <= IMPBIT * pow2[g - 1]
      BY ONLY <1>1, <1>2, <2>3, <3>2, Times, p \in Int, pow2[g - 1] \in Int
    <3> QED
      BY <1>1, <1>2, <2>1, <2>3, <3>3
  <2> QED
    BY <1>1, <2>1, <2>2, <2>4, <2>5
<1> QED
  BY <1>4, <1>5, <1>6

\* What the leading bit and the mantissa of a number are.
LEMMA LeadIs ==
    ASSUME NEW u \in Patterns, Finite(u), ~IsZero(u)
    PROVE  LET l == Lead(u)
               m == Mantissa(u)
               v == NormalOf(u)
           IN  /\ m \in IMPBIT .. 2 * IMPBIT - 1 /\ l \in 1 - M .. BIASEDEMAX
               /\ ExponentField(u) \in l .. l + M - 1
               /\ IsSubnormal(u) <=> l < 1
               /\ l >= 1 => l - 1 \in Nat /\ Units(u) = m * pow2[l - 1] /\ ExponentField(u) = l
               /\ l < 1  => 1 - l \in Nat /\ Units(u) * pow2[1 - l] = m
               /\ Units(u) \in Nat \ {0}
               /\ v \in Patterns /\ Fraction(v) = m - IMPBIT
               /\ ExponentField(v) = l + (IF IsSubnormal(u) THEN MULTIPLIER ELSE 0)
<1> DEFINE l == Lead(u)
           m == Mantissa(u)
           v == NormalOf(u)
           g == ExponentField(v)
<1>1. /\ MULTIPLIER \in Nat /\ MULTIPLIER = M + 1 /\ M \in Nat /\ M >= 2
      /\ BIASEDEMAX \in Nat /\ IMPBIT \in Nat \ {0} /\ BIASEDEMAX >= 1
  BY SmallInts, Widths, SizeAssumption
<1>2. v \in Patterns /\ ~Negative(v)
  BY SubnormalScaled, MagnitudeIs DEF NormalOf
<1>3. Fraction(v) \in 0 .. IMPBIT - 1 /\ g \in Nat
  BY <1>2, Fields
<1>4. m \in IMPBIT .. 2 * IMPBIT - 1 /\ Fraction(v) = m - IMPBIT /\ m \in Nat
  BY <1>1, <1>3 DEF Mantissa
<1>5. CASE IsSubnormal(u)
  <2>1. /\ g \in 2 .. MULTIPLIER /\ Units(v) = Units(u) * pow2[MULTIPLIER] /\ l = g - MULTIPLIER
        /\ ExponentField(u) = 0
    BY <1>5, SubnormalScaled DEF NormalOf, Lead, IsSubnormal
  <2>2. /\ l \in 1 - M .. 0 /\ 1 - l \in Nat /\ g - 1 \in Nat /\ MULTIPLIER = (g - 1) + (1 - l)
        /\ ExponentField(u) \in l .. l + M - 1 /\ g > 0
    BY <1>1, <2>1
  <2>3. /\ pow2[MULTIPLIER] = pow2[g - 1] * pow2[1 - l]
        /\ pow2[g - 1] \in Nat \ {0} /\ pow2[1 - l] \in Nat \ {0}
    <3>1. \A i, j \in Nat : pow2[i + j] = pow2[i] * pow2[j] /\ pow2[i] \in Nat \ {0}
      BY Pow2Sum, Pow2Type
    <3> HIDE DEF g, l
    <3> QED
      BY ONLY <2>2, <3>1
  <2>4. Units(v) = m * pow2[g - 1] /\ Units(u) \in Nat
    BY <1>2, <2>2, UnitsBounds DEF Mantissa
  <2>5. Units(u) * pow2[1 - l] = m
    <3> DEFINE a == pow2[g - 1]
               b == pow2[1 - l]
               U == Units(u)
    <3>1. a \in Nat \ {0} /\ b \in Nat /\ U \in Nat /\ m \in Nat /\ m * a = U * (a * b)
      BY <1>4, <2>1, <2>3, <2>4
    <3> HIDE DEF a, b, U, m
    <3>2. a * m = a * (U * b)
      BY ONLY <3>1
    <3>3. m <= U * b /\ U * b <= m
      BY ONLY <3>1, <3>2, Times, U * b \in Int, m \in Int
    <3>4. U * b \in Nat
      BY ONLY <3>1
    <3>5. U * b = m
      BY ONLY <3>1, <3>3, <3>4
    <3> QED
      BY <3>5 DEF a, b, U
  <2>6. Units(u) # 0
    <3>1. SUFFICES ASSUME Units(u) = 0 PROVE FALSE
      OBVIOUS
    <3>2. 0 * pow2[1 - l] = 0
      BY <2>3
    <3> QED
      BY <1>1, <1>4, <2>5, <3>1, <3>2
  <2> QED
    BY <1>1, <1>2, <1>4, <1>5, <2>1, <2>2, <2>4, <2>5, <2>6
<1>6. CASE ~IsSubnormal(u)
  <2>1. /\ g = ExponentField(u) /\ l = g /\ Fraction(v) = Fraction(u) /\ g # 0
        /\ g <= BIASEDEMAX
    BY <1>6, Fields DEF NormalOf, Lead, IsSubnormal
  <2>2. /\ l \in 1 .. BIASEDEMAX /\ l - 1 \in Nat /\ ExponentField(u) \in l .. l + M - 1
        /\ l \in 1 - M .. BIASEDEMAX
    BY <1>1, <1>3, <2>1
  <2>3. Units(u) = m * pow2[l - 1] /\ IMPBIT * pow2[l - 1] <= Units(u)
        /\ pow2[l - 1] \in Nat \ {0} /\ Units(u) \in Nat
    BY <2>1, <2>2, UnitsBounds DEF Mantissa
  <2>4. Units(u) # 0
    <3> DEFINE b == pow2[l - 1]
               U == Units(u)
    <3>1. b \in Nat \ {0} /\ IMPBIT * b <= U /\ U \in Nat /\ IMPBIT \in Nat \ {0}
      BY <1>1, <2>3
    <3> HIDE DEF b, U
    <3>2. IMPBIT * b > 0
      BY ONLY <3>1
    <3>3. U # 0
      BY ONLY <3>1, <3>2
    <3> QED
      BY <3>3 DEF U
  <2> QED
    BY <1>1, <1>2, <1>4, <1>6, <2>1, <2>2, <2>3, <2>4
<1> QED
  BY <1>5, <1>6

\* A product's numerator and denominator in terms of its leading bit.
LEMMA ProductRatio ==
    ASSUME NEW u \in Patterns, Finite(u), ~IsZero(u), NEW k \in Int
    PROVE  LET L == Lead(u) + k
               m == Mantissa(u)
               N == Numerator(u, k)
               D == Denominator(k)
           IN  /\ N \in Nat \ {0} /\ D \in Nat \ {0} /\ L \in Int
               /\ L >= 1 => L - 1 \in Nat /\ N = D * (m * pow2[L - 1])
               /\ L < 1  => 1 - L \in Nat /\ N * pow2[1 - L] = D * m
<1> DEFINE l == Lead(u)
           m == Mantissa(u)
           U == Units(u)
           L == l + k
           N == Numerator(u, k)
           D == Denominator(k)
<1>1. /\ l \in Int /\ m \in Nat \ {0} /\ U \in Nat \ {0}
      /\ l >= 1 => l - 1 \in Nat /\ U = m * pow2[l - 1]
      /\ l < 1  => 1 - l \in Nat /\ U * pow2[1 - l] = m
  <2>1. IMPBIT \in Nat \ {0} /\ M \in Nat /\ BIASEDEMAX \in Nat
    BY Widths, SizeAssumption
  <2> QED
    BY <2>1, LeadIs
<1> HIDE DEF l, m, U
<1>2. L \in Int /\ (L >= 1 => L - 1 \in Nat) /\ (L < 1 => 1 - L \in Nat)
  BY <1>1
<1>3. \A i \in Nat : pow2[i] \in Nat \ {0}
  BY Pow2Type
<1>4. /\ k >= 0 => k \in Nat /\ N = U * pow2[k] /\ D = 1
      /\ k < 0  => -k \in Nat /\ N = U /\ D = pow2[-k]
  BY DEF Numerator, Denominator, U
<1>5. N \in Nat \ {0} /\ D \in Nat \ {0}
  <2>1. CASE k >= 0
    <3>1. pow2[k] \in Nat \ {0}
      BY <1>3, <1>4, <2>1
    <3>2. U * pow2[k] \in Nat \ {0}
      BY ONLY <1>1, <3>1
    <3> QED
      BY <1>4, <2>1, <3>2
  <2>2. CASE k < 0
    BY <1>1, <1>3, <1>4, <2>2
  <2> QED
    BY <2>1, <2>2
<1> HIDE DEF N, D
<1>6. ASSUME L >= 1 PROVE N = D * (m * pow2[L - 1])
  <2> DEFINE q == pow2[L - 1]
  <2>1. q \in Nat \ {0}
    BY <1>2, <1>3, <1>6
  <2>2. CASE k >= 0 /\ l >= 1
    <3>1. l - 1 \in Nat /\ k \in Nat /\ L - 1 = (l - 1) + k
      BY <1>1, <1>4, <2>2
    <3>2. q = pow2[l - 1] * pow2[k] /\ pow2[l - 1] \in Nat /\ pow2[k] \in Nat
      BY ONLY <3>1, <1>3, Pow2Sum
    <3>3. N = (m * pow2[l - 1]) * pow2[k] /\ D = 1
      BY <1>1, <1>4, <2>2
    <3> HIDE DEF q
    <3>4. N = m * q
      BY ONLY <1>1, <3>2, <3>3, TimesThrice, m \in Int, pow2[l - 1] \in Int, pow2[k] \in Int
    <3>5. m * q \in Int
      BY <1>1, <2>1
    <3> QED
      BY ONLY <3>3, <3>4, <3>5, <1>2, <1>5, <1>6 DEF q
  <2>3. CASE k < 0
    <3>1. l >= 1 /\ l - 1 \in Nat /\ -k \in Nat /\ L - 1 \in Nat /\ l - 1 = (-k) + (L - 1)
      BY <1>1, <1>2, <1>4, <1>6, <2>3
    <3>2. pow2[l - 1] = pow2[-k] * pow2[L - 1]
      BY ONLY <3>1, Pow2Sum
    <3>3. N = m * (D * q) /\ D \in Int
      BY <1>1, <1>4, <1>5, <2>3, <3>1, <3>2
    <3> HIDE DEF q
    <3>4. N = D * (m * q)
      BY ONLY <1>1, <2>1, <3>3, m \in Int, q \in Int, D \in Int
    <3> QED
      BY <1>2, <1>5, <1>6, <3>4 DEF q
  <2>4. CASE k >= 0 /\ l < 1
    <3>1. 1 - l \in Nat /\ L - 1 \in Nat /\ k = (1 - l) + (L - 1) /\ k \in Nat
      BY <1>1, <1>2, <1>4, <1>6, <2>4
    <3>2. pow2[k] = pow2[1 - l] * q /\ pow2[1 - l] \in Nat
      BY ONLY <3>1, <1>3, Pow2Sum
    <3>3. N = U * (pow2[1 - l] * q) /\ D = 1 /\ U * pow2[1 - l] = m
      BY <1>1, <1>4, <2>4, <3>2
    <3> HIDE DEF q
    <3>4. N = m * q
      BY ONLY <1>1, <2>1, <3>2, <3>3, TimesThrice, U \in Int, q \in Int, pow2[1 - l] \in Int
    <3>5. m * q \in Int
      BY <1>1, <2>1
    <3> QED
      BY ONLY <3>3, <3>4, <3>5, <1>2, <1>5, <1>6 DEF q
  <2> QED
    BY <1>1, <2>2, <2>3, <2>4
<1>7. ASSUME L < 1 PROVE N * pow2[1 - L] = D * m
  <2> DEFINE q == pow2[1 - L]
  <2>1. q \in Nat \ {0}
    BY <1>2, <1>3, <1>7
  <2>2. CASE l >= 1
    <3>1. k < 0 /\ l - 1 \in Nat /\ 1 - L \in Nat /\ -k = (l - 1) + (1 - L)
      BY <1>1, <1>2, <1>7, <2>2
    <3>2. pow2[-k] = pow2[l - 1] * pow2[1 - L] /\ pow2[l - 1] \in Nat
      BY ONLY <3>1, <1>3, Pow2Sum
    <3>3. N = m * pow2[l - 1] /\ D = pow2[l - 1] * q
      BY <1>1, <1>4, <2>2, <3>1, <3>2
    <3> HIDE DEF q
    <3>4. (m * pow2[l - 1]) * q = (pow2[l - 1] * q) * m
      BY ONLY <1>1, <2>1, <3>2, TimesThrice, m \in Int, q \in Int, pow2[l - 1] \in Int,
              pow2[l - 1] * q \in Int
    <3> QED
      BY <1>2, <1>5, <1>7, <3>3, <3>4 DEF q
  <2>3. CASE l < 1 /\ k >= 0
    <3>1. 1 - l \in Nat /\ 1 - L \in Nat /\ 1 - l = k + (1 - L) /\ k \in Nat
      BY <1>1, <1>2, <1>4, <1>7, <2>3
    <3>2. pow2[1 - l] = pow2[k] * q /\ pow2[k] \in Nat
      BY ONLY <3>1, <1>3, Pow2Sum
    <3>3. N = U * pow2[k] /\ D = 1 /\ U * (pow2[k] * q) = m
      BY <1>1, <1>4, <2>3, <3>2
    <3> HIDE DEF q
    <3>4. N * q = m
      BY ONLY <1>1, <2>1, <3>2, <3>3, TimesThrice, U \in Int, q \in Int, pow2[k] \in Int
    <3> QED
      BY <1>1, <1>2, <1>5, <1>7, <3>3, <3>4 DEF q
  <2>4. CASE l < 1 /\ k < 0
    <3>1. 1 - l \in Nat /\ 1 - L \in Nat /\ 1 - L = (1 - l) + (-k) /\ -k \in Nat
      BY <1>1, <1>2, <1>4, <1>7, <2>4
    <3>2. q = pow2[1 - l] * pow2[-k] /\ pow2[1 - l] \in Nat /\ pow2[-k] \in Nat
      BY ONLY <3>1, <1>3, Pow2Sum
    <3>3. N = U /\ D = pow2[-k] /\ U * pow2[1 - l] = m
      BY <1>1, <1>4, <2>4
    <3> HIDE DEF q
    <3>4. N * q = D * m
      BY ONLY <1>1, <3>2, <3>3, TimesThrice, U \in Int, pow2[1 - l] \in Int, pow2[-k] \in Int,
              m \in Int
    <3> QED
      BY <1>2, <1>5, <1>7, <3>4 DEF q
  <2> QED
    BY <1>1, <2>2, <2>3, <2>4
<1> QED
  BY <1>2, <1>5, <1>6, <1>7 DEF l, m, N, D

\* Equal quotients round alike:
LEMMA NearestOfRatio ==
    ASSUME NEW a \in Nat, NEW b \in Nat \ {0}, NEW c \in Nat, NEW d \in Nat \ {0},
           a * d = c * b
    PROVE  NearestInteger(a, b) = NearestInteger(c, d)
<1> DEFINE q == a \div b
           r == a % b
           p == c \div d
           s == c % d
<1>1. /\ a = b * q + r /\ q \in Int /\ r \in 0 .. b - 1
      /\ c = d * p + s /\ p \in Int /\ s \in 0 .. d - 1
  <2>1. a \in Int /\ c \in Int
    OBVIOUS
  <2> QED
    BY ONLY <2>1, Division, b \in Nat \ {0}, d \in Nat \ {0}
<1> HIDE DEF q, r, p, s
<1>2. b * d \in Nat \ {0} /\ c * b \in Int
  OBVIOUS
<1>3. c * b = (b * d) * p + b * s /\ b * s \in 0 .. b * d - 1
  <2>1. c * b = (b * d) * p + b * s
    BY ONLY <1>1, b \in Int, d \in Int, s \in Int, p \in Int
  <2>2. b * s < b * d /\ b * s \in Nat
    BY ONLY <1>1, Times, b \in Nat \ {0}, s \in Int, d \in Int, s < d, b \in Nat, b > 0
  <2>3. b * d \in Nat
    OBVIOUS
  <2> QED
    BY ONLY <2>1, <2>2, <2>3
<1>4. c * b = (b * d) * q + d * r /\ d * r \in 0 .. b * d - 1
  <2>1. a * d = (b * d) * q + d * r
    BY ONLY <1>1, b \in Int, d \in Int, r \in Int, q \in Int
  <2>2. d * r < d * b /\ d * r \in Nat /\ d * b = b * d
    BY ONLY <1>1, Times, d \in Nat \ {0}, r \in Int, b \in Int, r < b, d \in Nat, d > 0
  <2>3. b * d \in Nat
    OBVIOUS
  <2> QED
    BY ONLY <2>1, <2>2, <2>3, a * d = c * b
<1>5. p = q /\ b * s = d * r
  <2> DEFINE e == b * d
             f == c * b
             y == b * s
             z == d * r
  <2>1. f \in Int /\ e \in Nat \ {0} /\ y \in 0 .. e - 1 /\ z \in 0 .. e - 1
        /\ f = e * p + y /\ f = e * q + z /\ p \in Int /\ q \in Int
    BY <1>1, <1>2, <1>3, <1>4
  <2> HIDE DEF e, f, y, z
  <2>2. f \div e = p /\ f % e = y /\ f \div e = q /\ f % e = z
    BY ONLY <2>1, DivisionUnique
  <2> QED
    BY <2>2 DEF y, z
<1>6. (2 * r > b <=> 2 * s > d) /\ (2 * r = b <=> 2 * s = d)
  <2>1. b * (2 * s) = d * (2 * r) /\ b * d = d * b
    BY ONLY <1>1, <1>5, b \in Int, d \in Int, r \in Int, s \in Int
  <2>2. /\ d * (2 * r) < d * b => 2 * r < b
        /\ d * b < d * (2 * r) => b < 2 * r
        /\ 2 * r < b => d * (2 * r) < d * b
        /\ b < 2 * r => d * b < d * (2 * r)
    BY ONLY <1>1, Times, d \in Nat, d > 0, 2 * r \in Int, b \in Int
  <2>3. /\ b * (2 * s) < b * d => 2 * s < d
        /\ b * d < b * (2 * s) => d < 2 * s
        /\ 2 * s < d => b * (2 * s) < b * d
        /\ d < 2 * s => b * d < b * (2 * s)
    BY ONLY <1>1, Times, b \in Nat, b > 0, 2 * s \in Int, d \in Int
  <2> DEFINE y == d * (2 * r)
             z == b * d
  <2>4. /\ (y < z <=> 2 * r < b) /\ (z < y <=> b < 2 * r)
        /\ (y < z <=> 2 * s < d) /\ (z < y <=> d < 2 * s)
    BY ONLY <2>1, <2>2, <2>3
  <2> HIDE DEF y, z
  <2> QED
    BY ONLY <1>1, <2>4, b \in Nat, d \in Nat
<1> QED
  BY <1>5, <1>6 DEF NearestInteger, q, r, p, s

\* to an integer and to a number.
LEMMA RoundedOfRatio ==
    ASSUME NEW a \in Nat, NEW b \in Nat \ {0}, NEW c \in Nat, NEW d \in Nat \ {0},
           a * d = c * b
    PROVE  Rounded(a, b) = Rounded(c, d)
<1> DEFINE k == Binade(a, b)
           p == pow2[k]
           t == pow2[k + 1]
<1>1. k \in Nat /\ a < b * IMPBIT * t /\ (k > 0 => a >= b * IMPBIT * p)
  BY BinadeExists
<1>2. p \in Nat \ {0} /\ t \in Nat \ {0} /\ IMPBIT \in Nat \ {0} /\ k + 1 \in Nat
  BY <1>1, Pow2Type, Widths
<1>3. c < d * IMPBIT * t
  <2> HIDE DEF t, k, p
  <2> DEFINE B == IMPBIT * t
  <2>1. b * IMPBIT * t = b * B /\ d * IMPBIT * t = d * B /\ B \in Nat
    BY ONLY <1>2, b \in Int, d \in Int
  <2> HIDE DEF B
  <2>2. d * a < d * (b * B)
    BY ONLY <1>1, <2>1, Times, a \in Int, b * B \in Int, d \in Nat, d > 0, b \in Nat
  <2>3. d * a = b * c /\ d * (b * B) = b * (d * B)
    BY ONLY <2>1, a * d = c * b, a \in Int, b \in Int, c \in Int, d \in Int
  <2>4. c < d * B
    BY ONLY <2>1, <2>2, <2>3, Times, c \in Int, d * B \in Int, b \in Nat, d \in Nat
  <2> QED
    BY <2>1, <2>4
<1>4. k > 0 => c >= d * IMPBIT * p
  <2> HIDE DEF t, k, p
  <2>0. SUFFICES ASSUME k > 0 PROVE c >= d * IMPBIT * p
    OBVIOUS
  <2> DEFINE B == IMPBIT * p
  <2>1. b * IMPBIT * p = b * B /\ d * IMPBIT * p = d * B /\ B \in Nat
    BY ONLY <1>2, b \in Int, d \in Int
  <2> HIDE DEF B
  <2>2. d * (b * B) <= d * a
    BY ONLY <1>1, <2>0, <2>1, Times, a \in Int, b * B \in Int, d \in Nat, b \in Nat
  <2>3. d * a = b * c /\ d * (b * B) = b * (d * B)
    BY ONLY <2>1, a * d = c * b, a \in Int, b \in Int, c \in Int, d \in Int
  <2>4. d * B <= c
    BY ONLY <2>1, <2>2, <2>3, Times, c \in Int, d * B \in Int, b \in Nat, b > 0, d \in Nat
  <2> QED
    BY <2>1, <2>4
<1>5. Binade(c, d) = k
  <2> HIDE DEF k
  <2> QED
    BY ONLY <1>1, <1>3, <1>4, BinadeUnique, c \in Nat, d \in Nat \ {0}
<1>6. NearestInteger(a, b * p) = NearestInteger(c, d * p)
  <2> HIDE DEF p
  <2>1. b * p \in Nat \ {0} /\ d * p \in Nat \ {0} /\ a * (d * p) = c * (b * p)
    <3>1. a * (d * p) = (a * d) * p /\ c * (b * p) = (c * b) * p
      BY ONLY <1>2, a \in Int, b \in Int, c \in Int, d \in Int, p \in Int
    <3> QED
      BY ONLY <1>2, <3>1, a * d = c * b, b \in Nat \ {0}, d \in Nat \ {0}
  <2> QED
    BY ONLY <2>1, NearestOfRatio, a \in Nat, c \in Nat
<1> QED
  BY <1>5, <1>6 DEF Rounded

-----------------------------------------------------------------------------
(* The product rounded once, by the place of its leading bit.              *)

\* R is the product of u and 2^k without its sign, and it is exact.
ProductOf(u, k) == Rounded(Numerator(u, k), Denominator(k))
ExactProduct(u, k) == Units(ProductOf(u, k)) * Denominator(k) = Numerator(u, k)

\* Leading bit and fraction of a product in the normal range are those of u with the
\* exponent moved; above it is an infinity, below at most the smallest normal
\* number, and nothing is left from the width of the format on.
LEMMA ProductByLead ==
    ASSUME NEW u \in Patterns, Finite(u), ~IsZero(u), NEW k \in Int
    PROVE  LET L == Lead(u) + k
               R == ProductOf(u, k)
           IN  /\ R \in 0 .. EXPBITS /\ R \in Patterns
               /\ L >= 1 /\ L <= BIASEDEMAX =>
                     /\ R = Mantissa(u) + (L - 1) * IMPBIT
                     /\ R < EXPBITS /\ ExactProduct(u, k)
               /\ L > BIASEDEMAX => R = EXPBITS
               /\ L < 1 => R <= IMPBIT /\ R < EXPBITS
               /\ L <= -MULTIPLIER => R = 0 /\ ~ExactProduct(u, k)
<1> DEFINE L == Lead(u) + k
           m == Mantissa(u)
           N == Numerator(u, k)
           D == Denominator(k)
           R == ProductOf(u, k)
<1>1. /\ N \in Nat \ {0} /\ D \in Nat \ {0} /\ L \in Int
      /\ L >= 1 => L - 1 \in Nat /\ N = D * (m * pow2[L - 1])
      /\ L < 1  => 1 - L \in Nat /\ N * pow2[1 - L] = D * m
  BY ProductRatio
<1>2. m \in IMPBIT .. 2 * IMPBIT - 1
  BY LeadIs
<1>3. /\ IMPBIT \in Nat \ {0} /\ EXPBIAS \in Nat /\ EXPBIAS >= 3 /\ BIASEDEMAX = 2 * EXPBIAS
      /\ EXPBITS = (2 * EXPBIAS + 1) * IMPBIT /\ SIGNBIT = (2 * EXPBIAS + 2) * IMPBIT
      /\ EXPBITS < SIGNBIT /\ SIGNBIT \in Nat /\ EXPBITS \in Nat
      /\ MULTIPLIER = M + 1 /\ M \in Nat
  BY Widths, SmallInts, Format
<1>4. R = Rounded(N, D) /\ (ExactProduct(u, k) <=> Units(R) * D = N)
  BY DEF ProductOf, ExactProduct
<1> HIDE DEF L, m, N, D, R
<1>5. R \in 0 .. EXPBITS /\ R \in Patterns
  BY ONLY <1>1, <1>4, RoundedType
<1>6. ASSUME L >= 1, L <= BIASEDEMAX
      PROVE  /\ R = m + (L - 1) * IMPBIT /\ R < EXPBITS /\ Units(R) * D = N
  <2> DEFINE j == L - 1
             v == m + j * IMPBIT
  <2>1. j \in Nat /\ j + 1 <= 2 * EXPBIAS /\ N = D * (m * pow2[j]) /\ m \in Nat
        /\ m < 2 * IMPBIT /\ m >= IMPBIT
    BY <1>1, <1>2, <1>3, <1>6
  <2>2. v < EXPBITS
    <3> HIDE DEF j
    <3>1. IMPBIT * (j + 1) <= IMPBIT * (2 * EXPBIAS)
      BY ONLY <1>3, <2>1, Times, j + 1 \in Int, 2 * EXPBIAS \in Int
    <3>2. IMPBIT * (j + 1) = j * IMPBIT + IMPBIT /\ EXPBITS = IMPBIT * (2 * EXPBIAS) + IMPBIT
          /\ j * IMPBIT \in Nat
      BY ONLY <1>3, <2>1
    <3> QED
      BY ONLY <1>3, <2>1, <3>1, <3>2
  <2>3. v \in Patterns /\ ~Negative(v) /\ Units(v) = m * pow2[j]
    <3>1. m + j * IMPBIT < SIGNBIT
      <4> HIDE DEF j
      <4>1. j * IMPBIT \in Nat
        BY ONLY <1>3, <2>1
      <4> QED
        BY ONLY <1>3, <2>1, <2>2, <4>1
    <3>2. m <= 2 * IMPBIT /\ (j > 0 => m >= IMPBIT)
      BY ONLY <1>3, <2>1
    <3> HIDE DEF j
    <3> QED
      BY ONLY <2>1, <3>1, <3>2, Assembled
  <2> HIDE DEF j, v
  <2>4. Rounded(D * Units(v), D) = Magnitude(v)
    <3>1. Magnitude(v) = v
      BY <2>3, MagnitudeIs
    <3>2. Magnitude(v) <= EXPBITS
      BY <1>3, <2>2, <2>3, <3>1 DEF Patterns
    <3> QED
      BY ONLY <1>1, <2>3, <3>2, RoundedExact
  <2>5. Magnitude(v) = v
    BY <2>3, MagnitudeIs
  <2>6. R = v
    BY ONLY <1>4, <2>1, <2>3, <2>4, <2>5
  <2>7. Units(R) * D = N
    <3>1. Units(v) \in Nat /\ N = D * Units(v)
      BY <2>1, <2>3, UnitsBounds
    <3> HIDE DEF v
    <3> QED
      BY ONLY <1>1, <2>6, <3>1
  <2> QED
    BY ONLY <2>2, <2>6, <2>7 DEF v, j
<1>7. ASSUME L > BIASEDEMAX PROVE R = EXPBITS
  <2> DEFINE j == L - 1
             p == pow2[j]
  <2>1. j \in Nat /\ j >= 2 * EXPBIAS /\ N = D * (m * p) /\ m \in Nat
        /\ m <= 2 * IMPBIT - 1 /\ m >= IMPBIT
    BY <1>1, <1>2, <1>3, <1>7
  <2>2. p \in Nat \ {0} /\ pow2[j + 1] = 2 * p
    BY ONLY <2>1, Pow2Next, Pow2Type
  <2> HIDE DEF j, p
  <2>3. N = (D * p) * m + 0 /\ D * p \in Nat \ {0}
    BY ONLY <1>1, <2>1, <2>2
  <2>4. Binade(N, D) = j
    <3> DEFINE q == D * p
    <3>1. q \in Nat \ {0} /\ N = q * m
      BY ONLY <2>1, <2>3
    <3>2. D * IMPBIT * (2 * p) = q * (2 * IMPBIT) /\ D * IMPBIT * p = q * IMPBIT
      BY ONLY <1>1, <1>3, <2>2
    <3> HIDE DEF q
    <3>3. q * m < q * (2 * IMPBIT) /\ q * IMPBIT <= q * m
      BY ONLY <1>3, <2>1, <3>1, Times, m \in Int, 2 * IMPBIT \in Int, IMPBIT \in Int, q \in Nat
    <3>4. N < D * IMPBIT * pow2[j + 1] /\ N >= D * IMPBIT * pow2[j]
      BY <2>2, <3>1, <3>2, <3>3 DEF p
    <3> QED
      BY ONLY <1>1, <2>1, <3>4, BinadeUnique
  <2>5. NearestInteger(N, D * pow2[j]) = m
    <3> DEFINE q == D * p
    <3>1. q \in Nat \ {0} /\ N = q * m + 0 /\ 0 \in 0 .. q - 1 /\ N \in Int /\ m \in Int
      BY ONLY <1>1, <2>1, <2>3
    <3> HIDE DEF q
    <3>2. N \div q = m /\ N % q = 0
      BY ONLY <3>1, DivisionUnique
    <3>3. NearestInteger(N, q) = m
      BY ONLY <1>1, <3>1, <3>2, NearestIs, N \in Nat
    <3> QED
      BY <3>3 DEF q, p
  <2>6. m + j * IMPBIT >= EXPBITS
    <3>1. IMPBIT * (2 * EXPBIAS) <= IMPBIT * j
      BY ONLY <1>3, <2>1, Times, 2 * EXPBIAS \in Int, j \in Int
    <3>2. EXPBITS = IMPBIT * (2 * EXPBIAS) + IMPBIT /\ j * IMPBIT = IMPBIT * j
      BY ONLY <1>3, <2>1
    <3>3. IMPBIT * j \in Int /\ IMPBIT * (2 * EXPBIAS) \in Int
      BY ONLY <1>3, <2>1
    <3> QED
      BY ONLY <1>3, <2>1, <3>1, <3>2, <3>3
  <2>7. m + j * IMPBIT \in Int
    BY ONLY <1>3, <2>1
  <2>8. R = IF m + j * IMPBIT > EXPBITS THEN EXPBITS ELSE m + j * IMPBIT
    BY ONLY <1>4, <2>4, <2>5 DEF Rounded
  <2> QED
    BY ONLY <1>3, <2>6, <2>7, <2>8
<1>8. ASSUME L < 1
      PROVE  /\ R <= IMPBIT
             /\ L <= -MULTIPLIER => R = 0 /\ Units(R) * D # N
  <2> DEFINE p == pow2[1 - L]
  <2>1. 1 - L \in Nat /\ N * p = D * m
    BY <1>1, <1>8
  <2>2. p \in Nat /\ p >= 2
    <3>1. pow2[1] <= p /\ pow2[0 + 1] = 2 * pow2[0] /\ pow2[0] = 1 /\ p \in Nat
      <4>1. 1 \in Nat /\ 1 <= 1 - L
        BY <1>1, <1>8
      <4> QED
        BY ONLY <2>1, <4>1, Pow2Grows, Pow2Next, Pow2Type
    <3> QED
      BY <3>1
  <2>3. D * m < D * (2 * IMPBIT) /\ D * m \in Nat
    BY ONLY <1>1, <1>2, <1>3, Times, m \in Int, 2 * IMPBIT \in Int, D \in Nat, D > 0
  <2> HIDE DEF p
  <2>4. N < D * IMPBIT
    <3>1. N * 2 <= N * p
      BY ONLY <1>1, <2>2, Times, 2 \in Int, p \in Int, N \in Nat
    <3>2. D * (2 * IMPBIT) = 2 * (D * IMPBIT) /\ D * IMPBIT \in Nat
      BY ONLY <1>1, <1>3
    <3>3. N * p \in Nat /\ N \in Nat
      BY ONLY <1>1, <2>2
    <3> QED
      BY ONLY <2>1, <2>3, <3>1, <3>2, <3>3
  <2>5. Binade(N, D) = 0
    <3>1. pow2[0 + 1] = 2 /\ pow2[0] = 1
      BY Pow2Next
    <3>2. N < D * IMPBIT * pow2[0 + 1]
      <4> DEFINE q == D * IMPBIT
      <4>1. q \in Nat /\ N < q /\ N \in Nat
        BY ONLY <1>1, <1>3, <2>4
      <4> HIDE DEF q
      <4>2. N < q * 2
        BY ONLY <4>1
      <4> QED
        BY <3>1, <4>2 DEF q
    <3>3. 0 \in Nat /\ ~(0 > 0)
      OBVIOUS
    <3> QED
      BY ONLY <1>1, <3>2, <3>3, BinadeUnique
  <2>6. R = (IF NearestInteger(N, D) > EXPBITS THEN EXPBITS ELSE NearestInteger(N, D))
    <3>1. D * pow2[0] = D /\ NearestInteger(N, D) \in Nat
      <4>1. NearestInteger(N, D) \in Nat
        BY ONLY <1>1, NearestIs, N \in Nat
      <4>2. pow2[0] = 1
        BY Pow2Next
      <4> QED
        BY ONLY <1>1, <4>1, <4>2
    <3>2. NearestInteger(N, D) + 0 * IMPBIT = NearestInteger(N, D)
      BY ONLY <1>3, <3>1
    <3> QED
      BY ONLY <1>4, <2>5, <3>1, <3>2 DEF Rounded
  <2>7. NearestInteger(N, D) <= IMPBIT /\ NearestInteger(N, D) \in Nat
    BY ONLY <1>1, <1>3, <2>4, NearestIs, N \in Nat, IMPBIT \in Nat
  <2>8. IMPBIT <= EXPBITS
    <3>1. IMPBIT * 1 <= IMPBIT * (2 * EXPBIAS + 1)
      BY ONLY <1>3, Times, 1 \in Int, 2 * EXPBIAS + 1 \in Int, 1 <= 2 * EXPBIAS + 1
    <3> QED
      BY ONLY <1>3, <3>1
  <2>9. R <= IMPBIT
    BY ONLY <1>3, <2>6, <2>7, <2>8
  <2>10. ASSUME L <= -MULTIPLIER PROVE R = 0 /\ Units(R) * D # N
    <3>1. M + 2 \in Nat /\ M + 2 <= 1 - L
      BY <1>1, <1>3, <2>10
    <3>2. pow2[M + 2] <= p
      BY ONLY <2>1, <3>1, Pow2Grows DEF p
    <3>3. pow2[M + 2] = 4 * IMPBIT
      <4>1. pow2[M + 1] = 2 * pow2[M] /\ pow2[(M + 1) + 1] = 2 * pow2[M + 1]
        BY ONLY <1>3, Pow2Next
      <4>2. (M + 1) + 1 = M + 2
        BY <1>3
      <4> QED
        BY <1>3, <4>1, <4>2 DEF IMPBIT
    <3>4. 2 * N < D
      <4>1. N * (4 * IMPBIT) <= N * p
        BY ONLY <1>1, <1>3, <2>2, <3>2, <3>3, Times, 4 * IMPBIT \in Int, p \in Int, N \in Nat
      <4>2. N * (4 * IMPBIT) = (2 * IMPBIT) * (2 * N) /\ D * (2 * IMPBIT) = (2 * IMPBIT) * D
            /\ N * p \in Int
        BY ONLY <1>1, <1>3, <2>2
      <4>3. (2 * IMPBIT) * (2 * N) < (2 * IMPBIT) * D
        <5> DEFINE y == (2 * IMPBIT) * (2 * N)
                   z == (2 * IMPBIT) * D
                   t == N * p
        <5>1. y <= t /\ t < z /\ y \in Int /\ z \in Int /\ t \in Int
          BY ONLY <1>1, <1>3, <2>1, <2>3, <4>1, <4>2
        <5> HIDE DEF y, z, t
        <5>2. y < z
          BY ONLY <5>1
        <5> QED
          BY <5>2 DEF y, z
      <4> QED
        BY ONLY <1>1, <1>3, <4>3, Times, 2 * N \in Int, D \in Int, 2 * IMPBIT \in Nat
    <3>5. N \div D = 0 /\ N % D = N
      <4>1. N = D * 0 + N /\ N \in 0 .. D - 1 /\ N \in Int /\ 0 \in Int
        BY ONLY <1>1, <3>4
      <4> QED
        BY ONLY <1>1, <4>1, DivisionUnique
    <3>6. NearestInteger(N, D) = 0
      BY ONLY <1>1, <3>4, <3>5 DEF NearestInteger
    <3>7. R = 0
      BY ONLY <1>3, <2>6, <3>6
    <3>8. Units(0) = 0
      <4>1. 0 \div IMPBIT = 0 /\ 0 % IMPBIT = 0 /\ Magnitude(0) = 0
        BY <1>3 DEF Magnitude, Negative
      <4> QED
        BY ONLY <4>1 DEF Units, ExponentField, Fraction
    <3> QED
      BY ONLY <1>1, <3>7, <3>8
  <2> QED
    BY ONLY <2>9, <2>10
<1>9. L < 1 /\ R <= IMPBIT => R < EXPBITS
  <2>1. IMPBIT * 1 < IMPBIT * (2 * EXPBIAS + 1)
    BY ONLY <1>3, Times, 1 \in Int, 2 * EXPBIAS + 1 \in Int, IMPBIT > 0, 1 < 2 * EXPBIAS + 1,
            IMPBIT \in Nat
  <2> QED
    BY ONLY <1>3, <1>5, <2>1
<1>10. L <= -MULTIPLIER => L < 1
  BY ONLY <1>1, <1>3
<1> QED
  BY <1>4, <1>5, <1>6, <1>7, <1>8, <1>9, <1>10 DEF L, m, R

\* The product with its sign.
LEMMA SignedProduct ==
    ASSUME NEW u \in Patterns, NEW r \in 0 .. EXPBITS
    PROVE  LET p == SignOf(u) + r
           IN  /\ p \in Patterns /\ Magnitude(p) = r /\ SignOf(p) = SignOf(u)
               /\ Negative(p) = Negative(u)
               /\ IsInf(p) <=> r = EXPBITS
               /\ Finite(p) <=> r < EXPBITS
               /\ ~IsNaN(p) /\ ExponentField(p) = r \div IMPBIT /\ Fraction(p) = Fraction(r)
<1> DEFINE p == SignOf(u) + r
<1>1. /\ SIGNBIT \in Nat /\ EXPBITS \in Nat /\ EXPBITS < SIGNBIT
      /\ SignOf(u) = IF Negative(u) THEN SIGNBIT ELSE 0
  BY Format DEF SignOf
<1>2. p \in Patterns /\ Magnitude(p) = r /\ Negative(p) = Negative(u)
  BY <1>1 DEF Patterns, Magnitude, Negative
<1>3. SignOf(p) = SignOf(u)
  BY <1>2 DEF SignOf
<1>4. Fraction(p) = Fraction(r)
  <2>1. Fraction(Magnitude(p)) = Fraction(p)
    BY <1>2, Fields
  <2> QED
    BY <1>2, <2>1
<1> HIDE DEF p
<1> QED
  BY <1>1, <1>2, <1>3, <1>4 DEF IsInf, Finite, IsNaN, ExponentField, p

\* Where Product does not compute, it knows the product.
LEMMA ProductIs ==
    ASSUME NEW u \in Patterns, Finite(u), ~IsZero(u), NEW k \in Int
    PROVE  /\ Product(u, k) = SignOf(u) + ProductOf(u, k)
           /\ ProductExact(u, k) <=> ProductOf(u, k) < EXPBITS /\ ExactProduct(u, k)
<1> DEFINE L == Lead(u) + k
           R == ProductOf(u, k)
           f == ExponentField(u) + k
<1>1. /\ M \in Nat /\ MULTIPLIER = M + 1 /\ BIASEDEMAX \in Nat /\ EXPBITS \in Nat
      /\ SignOf(u) \in Int
  BY SmallInts, Format, Fields
<1>2. f \in L .. L + M - 1 /\ L \in Int /\ f \in Int
  <2>1. ExponentField(u) \in Lead(u) .. Lead(u) + M - 1 /\ Lead(u) \in 1 - M .. BIASEDEMAX
    BY LeadIs
  <2> QED
    BY <1>1, <2>1
<1>3. /\ R \in 0 .. EXPBITS
      /\ L > BIASEDEMAX => R = EXPBITS
      /\ L <= -MULTIPLIER => R = 0 /\ ~ExactProduct(u, k)
  BY ProductByLead
<1>4. Scaled(u, k) = SignOf(u) + R /\ (ScalesExact(u, k) <=> ExactProduct(u, k))
  BY DEF Scaled, ScalesExact, ProductOf, ExactProduct
<1>5. Finite(SignOf(u) + R) <=> R < EXPBITS
  BY <1>3, SignedProduct
<1> HIDE DEF L, R
<1>6. CASE f > BIASEDEMAX + MULTIPLIER
  <2>1. L > BIASEDEMAX
    BY <1>1, <1>2, <1>6
  <2>2. R = EXPBITS /\ ~(f \in -(M + 2) .. BIASEDEMAX + MULTIPLIER)
    BY <1>1, <1>3, <1>6, <2>1
  <2>3. Product(u, k) = SignOf(u) + EXPBITS
    <3>1. ~(f < -(M + 2))
      BY <1>1, <1>2, <1>6
    <3> QED
      BY <1>6, <3>1 DEF Product
  <2> QED
    BY <1>1, <2>2, <2>3 DEF ProductExact, R
<1>7. CASE f < -(M + 2)
  <2>1. L <= -MULTIPLIER /\ ~(f > BIASEDEMAX + MULTIPLIER)
    BY <1>1, <1>2, <1>7
  <2>2. R = 0 /\ ~ExactProduct(u, k) /\ ~(f \in -(M + 2) .. BIASEDEMAX + MULTIPLIER)
    BY <1>1, <1>3, <1>7, <2>1
  <2>3. Product(u, k) = SignOf(u)
    BY <1>7, <2>1 DEF Product
  <2>4. SignOf(u) + 0 = SignOf(u)
    BY <1>1
  <2> QED
    BY <1>1, <2>2, <2>3, <2>4 DEF ProductExact, R
<1>8. CASE ~(f > BIASEDEMAX + MULTIPLIER) /\ ~(f < -(M + 2))
  <2>1. f \in -(M + 2) .. BIASEDEMAX + MULTIPLIER
    BY <1>1, <1>2, <1>8
  <2>2. Product(u, k) = Scaled(u, k)
    BY <1>8 DEF Product
  <2> QED
    BY <1>4, <1>5, <2>1, <2>2 DEF ProductExact, R
<1> QED
  BY <1>6, <1>7, <1>8

\* The number from which a small product is multiplied down: exponent field e and
\* the fraction of u.
LEMMA PackedIs ==
    ASSUME NEW u \in Patterns, Finite(u), ~IsZero(u), NEW e \in 0 .. BIASEDEMAX
    PROVE  LET f == Mantissa(u) - IMPBIT
               p == SignOf(u) + (e * IMPBIT + f)
           IN  /\ p \in Patterns /\ Finite(p) /\ ~IsNaN(p) /\ ~IsInf(p)
               /\ SignOf(p) = SignOf(u) /\ ExponentField(p) = e /\ Fraction(p) = f
               /\ e > 0 => e - 1 \in Nat /\ Units(p) = Mantissa(u) * pow2[e - 1]
               /\ e = 0 => Units(p) = f
<1> DEFINE f == Mantissa(u) - IMPBIT
           r == e * IMPBIT + f
           p == SignOf(u) + r
<1>1. /\ IMPBIT \in Nat \ {0} /\ EXPBIAS \in Nat /\ BIASEDEMAX = 2 * EXPBIAS
      /\ EXPBITS = (2 * EXPBIAS + 1) * IMPBIT /\ EXPBITS \in Nat
  BY Widths, Format
<1>2. f \in 0 .. IMPBIT - 1 /\ Mantissa(u) = IMPBIT + f
  <2>1. Mantissa(u) \in IMPBIT .. 2 * IMPBIT - 1
    BY LeadIs
  <2> QED
    BY <1>1, <2>1
<1> HIDE DEF f
<1>3. r \in 0 .. EXPBITS /\ r < EXPBITS /\ r = IMPBIT * e + f
  <2>1. IMPBIT * e <= IMPBIT * (2 * EXPBIAS) /\ IMPBIT * e \in Nat
    BY ONLY <1>1, Times, e \in 0 .. BIASEDEMAX, e \in Int, 2 * EXPBIAS \in Int, e <= 2 * EXPBIAS,
            IMPBIT \in Nat
  <2>2. e * IMPBIT = IMPBIT * e /\ EXPBITS = IMPBIT * (2 * EXPBIAS) + IMPBIT
        /\ IMPBIT * (2 * EXPBIAS) \in Nat
    BY ONLY <1>1, e \in 0 .. BIASEDEMAX
  <2> QED
    BY ONLY <1>1, <1>2, <2>1, <2>2
<1>4. r \div IMPBIT = e /\ r % IMPBIT = f
  <2>1. r \in Int /\ e \in Int
    BY <1>1, <1>3
  <2> HIDE DEF r
  <2> QED
    BY ONLY <1>1, <1>2, <1>3, <2>1, DivisionUnique
<1> HIDE DEF r
<1>5. /\ p \in Patterns /\ Finite(p) /\ ~IsNaN(p) /\ ~IsInf(p)
      /\ SignOf(p) = SignOf(u) /\ ExponentField(p) = e /\ Fraction(p) = f
  <2>1. r # EXPBITS
    BY <1>1, <1>3
  <2> QED
    BY <1>3, <1>4, <2>1, SignedProduct DEF Fraction
<1> HIDE DEF p
<1>6. /\ e > 0 => e - 1 \in Nat /\ Units(p) = Mantissa(u) * pow2[e - 1]
      /\ e = 0 => Units(p) = f
  BY <1>1, <1>2, <1>5, UnitsBounds
<1> QED
  BY <1>5, <1>6 DEF p, r, f

\* Equal quotients are met alike by a number of units.
LEMMA ExactOfRatio ==
    ASSUME NEW a \in Nat, NEW b \in Nat \ {0}, NEW c \in Nat, NEW d \in Nat \ {0}, NEW r \in Nat,
           a * d = c * b
    PROVE  r * b = a <=> r * d = c
<1>1. ASSUME r * b = a PROVE r * d = c
  <2>1. b * (r * d) = b * c
    <3>1. (r * b) * d = b * (r * d) /\ c * b = b * c
      BY ONLY r \in Int, b \in Int, d \in Int, c \in Int
    <3> QED
      BY ONLY <1>1, <3>1, a * d = c * b
  <2>2. r * d \in Int /\ c \in Int /\ b \in Nat /\ b > 0
    OBVIOUS
  <2>3. r * d <= c /\ c <= r * d
    BY ONLY <2>1, <2>2, Times
  <2> QED
    BY ONLY <2>2, <2>3
<1>2. ASSUME r * d = c PROVE r * b = a
  <2>1. d * (r * b) = d * a
    <3>1. (r * d) * b = d * (r * b) /\ a * d = d * a
      BY ONLY r \in Int, b \in Int, d \in Int, a \in Int
    <3> QED
      BY ONLY <1>2, <3>1, a * d = c * b
  <2>2. r * b \in Int /\ a \in Int /\ d \in Nat /\ d > 0
    OBVIOUS
  <2>3. r * b <= a /\ a <= r * b
    BY ONLY <2>1, <2>2, Times
  <2> QED
    BY ONLY <2>2, <2>3
<1> QED
  BY <1>1, <1>2

\* Less than half a unit is rounded to nothing.
LEMMA RoundedAway ==
    ASSUME NEW a \in Nat, NEW d \in Nat \ {0}, 2 * a < d
    PROVE  Rounded(a, d) = 0
<1>1. IMPBIT \in Nat \ {0} /\ EXPBITS \in Nat /\ pow2[0 + 1] = 2 /\ pow2[0] = 1
  BY Widths, Format, Pow2Next
<1>2. Binade(a, d) = 0
  <2>1. a < d * IMPBIT * pow2[0 + 1]
    <3>1. d * 1 <= d * (2 * IMPBIT) /\ d * IMPBIT * 2 = d * (2 * IMPBIT)
      BY ONLY <1>1, Times, 1 \in Int, 2 * IMPBIT \in Int, d \in Nat, 1 <= 2 * IMPBIT
    <3>2. a < d * (2 * IMPBIT)
      <4> DEFINE z == d * (2 * IMPBIT)
      <4>1. z \in Int /\ d <= z
        BY ONLY <1>1, <3>1, d \in Nat
      <4> HIDE DEF z
      <4>2. a < z
        BY ONLY <4>1, a \in Nat, d \in Nat, 2 * a < d
      <4> QED
        BY <4>2 DEF z
    <3> QED
      BY ONLY <1>1, <3>1, <3>2
  <2>2. 0 \in Nat /\ ~(0 > 0)
    OBVIOUS
  <2> QED
    BY ONLY <2>1, <2>2, BinadeUnique, a \in Nat, d \in Nat \ {0}
<1>3. d * pow2[0] = d
  BY <1>1
<1>4. NearestInteger(a, d) = 0
  <2>1. a = d * 0 + a /\ a \in 0 .. d - 1 /\ a \in Int /\ 0 \in Int
    OBVIOUS
  <2>2. a \div d = 0 /\ a % d = a
    BY ONLY <2>1, DivisionUnique, d \in Nat \ {0}
  <2> QED
    BY ONLY <2>2, a \in Nat, d \in Nat, 2 * a < d DEF NearestInteger
<1>5. 0 + 0 * IMPBIT = 0 /\ ~(0 > EXPBITS)
  BY <1>1
<1> QED
  BY ONLY <1>2, <1>3, <1>4, <1>5 DEF Rounded

\* Zero is no units.
LEMMA UnitsOfZero == Units(0) = 0
<1>1. 0 \div IMPBIT = 0 /\ 0 % IMPBIT = 0 /\ Magnitude(0) = 0
  BY Widths, Format DEF Magnitude, Negative
<1> QED
  BY ONLY <1>1 DEF Units, ExponentField, Fraction

\* A product that is packed 2^MULTIPLIER times too large and multiplied down is the
\* product rounded once, and the multiplication tells whether it is exact, but for
\* a number whose only bit is lost when it is packed.
LEMMA LoweredIs ==
    ASSUME NEW u \in Patterns, Finite(u), ~IsZero(u), NEW k \in Int,
           Lead(u) + k >= -MULTIPLIER, Lead(u) + k <= BIASEDEMAX - MULTIPLIER
    PROVE  LET L == Lead(u) + k
               o == Lowered(SignOf(u) + ((L + MULTIPLIER) * IMPBIT + (Mantissa(u) - IMPBIT)))
           IN  /\ o.bits = SignOf(u) + ProductOf(u, k)
               /\ L > -MULTIPLIER \/ Mantissa(u) # IMPBIT =>
                     o.flags = IF ExactProduct(u, k) THEN {} ELSE {"inexact", "underflow"}
<1> DEFINE L == Lead(u) + k
           T == MULTIPLIER
           m == Mantissa(u)
           e == L + T
           p == SignOf(u) + (e * IMPBIT + (m - IMPBIT))
           N == Numerator(u, k)
           D == Denominator(k)
           R == ProductOf(u, k)
           a == Units(p)
           b == pow2[T]
<1>1. /\ N \in Nat \ {0} /\ D \in Nat \ {0} /\ L \in Int
      /\ L >= 1 => L - 1 \in Nat /\ N = D * (m * pow2[L - 1])
      /\ L < 1  => 1 - L \in Nat /\ N * pow2[1 - L] = D * m
  BY ProductRatio
<1>2. /\ T \in Nat /\ T = M + 1 /\ M \in Nat /\ BIASEDEMAX \in Nat /\ IMPBIT \in Nat \ {0}
      /\ b \in Nat \ {0} /\ b = 2 * IMPBIT /\ T > 0
  <2>1. T \in Nat /\ T = M + 1 /\ M \in Nat /\ BIASEDEMAX \in Nat /\ IMPBIT \in Nat \ {0}
    BY SmallInts, Widths
  <2>2. pow2[M + 1] = 2 * pow2[M]
    BY ONLY <2>1, Pow2Next
  <2> QED
    BY <2>1, <2>2 DEF IMPBIT
<1>3. e \in 0 .. BIASEDEMAX /\ m \in IMPBIT .. 2 * IMPBIT - 1
  <2>1. m \in IMPBIT .. 2 * IMPBIT - 1
    BY LeadIs
  <2> QED
    BY <1>1, <1>2, <2>1
<1>4. /\ p \in Patterns /\ Finite(p) /\ ~IsNaN(p) /\ ~IsInf(p) /\ SignOf(p) = SignOf(u)
      /\ e > 0 => e - 1 \in Nat /\ a = m * pow2[e - 1]
      /\ e = 0 => a = m - IMPBIT
  <2> HIDE DEF e
  <2> QED
    BY ONLY <1>3, PackedIs, u \in Patterns, Finite(u), ~IsZero(u)
<1>5. a \in Nat
  BY <1>4, UnitsBounds
<1>6. /\ Lowered(p).bits = SignOf(u) + Rounded(a, b)
      /\ Lowered(p).flags = IF Units(Rounded(a, b)) * b = a THEN {} ELSE {"inexact", "underflow"}
  <2>1. -T < 0 /\ ~(-T >= 0) /\ -(-T) = T
    BY <1>2
  <2>2. Numerator(p, -T) = a /\ Denominator(-T) = b
    BY ONLY <2>1 DEF Numerator, Denominator
  <2>3. Lowered(p) = [bits |-> Scaled(p, -T),
                      flags |-> IF ScalesExact(p, -T) THEN {} ELSE {"inexact", "underflow"}]
    BY ONLY <1>4 DEF Lowered
  <2> HIDE DEF p, a, b, T
  <2> QED
    BY ONLY <1>4, <2>2, <2>3 DEF Scaled, ScalesExact
<1>7. R = Rounded(N, D) /\ (ExactProduct(u, k) <=> Units(R) * D = N) /\ R \in Patterns
      /\ (L <= -T => R = 0 /\ ~ExactProduct(u, k))
  BY ProductByLead DEF ProductOf, ExactProduct
<1> HIDE DEF m, p, N, D, R, a, b
<1>8. CASE e > 0
  <2> DEFINE q == pow2[e - 1]
  <2>1. e - 1 \in Nat /\ a = m * q /\ q \in Nat \ {0}
    BY <1>4, <1>8, Pow2Type
  <2>2. a * D = N * b
    <3>1. CASE L >= 1
      <4>1. L - 1 \in Nat /\ e - 1 = (L - 1) + T /\ N = D * (m * pow2[L - 1])
        BY <1>1, <1>2, <3>1
      <4>2. q = pow2[L - 1] * b /\ pow2[L - 1] \in Nat
        BY ONLY <1>2, <4>1, Pow2Sum, Pow2Type DEF b
      <4> DEFINE s == pow2[L - 1]
      <4> HIDE DEF q, s
      <4>3. (m * (s * b)) * D = (D * (m * s)) * b
        <5>1. m \in Int /\ s \in Int /\ b \in Int /\ D \in Int
          BY <1>1, <1>2, <1>3, <4>2 DEF s
        <5> QED
          BY ONLY <5>1
      <4> QED
        BY ONLY <2>1, <4>1, <4>2, <4>3 DEF s
    <3>2. CASE L < 1
      <4>1. 1 - L \in Nat /\ e - 1 \in Nat /\ T = (e - 1) + (1 - L) /\ N * pow2[1 - L] = D * m
        BY <1>1, <1>2, <2>1, <3>2
      <4>2. b = q * pow2[1 - L] /\ pow2[1 - L] \in Nat
        BY ONLY <4>1, Pow2Sum, Pow2Type DEF b
      <4> DEFINE s == pow2[1 - L]
      <4> HIDE DEF q, s
      <4>3. (m * q) * D = (D * m) * q /\ N * (q * s) = (N * s) * q
        <5>1. m \in Int /\ s \in Int /\ q \in Int /\ D \in Int /\ N \in Int
          BY <1>1, <1>2, <1>3, <2>1, <4>2 DEF s
        <5> QED
          BY ONLY <5>1
      <4> QED
        BY ONLY <2>1, <4>1, <4>2, <4>3 DEF s
    <3> QED
      BY <1>1, <3>1, <3>2
  <2>3. Rounded(a, b) = R
    <3>1. N \in Nat
      BY <1>1
    <3> QED
      BY ONLY <1>1, <1>2, <1>5, <1>7, <2>2, <3>1, RoundedOfRatio
  <2>4. Units(R) * b = a <=> Units(R) * D = N
    <3> DEFINE r == Units(R)
    <3>1. /\ a \in Nat /\ b \in Nat \ {0} /\ N \in Nat /\ D \in Nat \ {0} /\ r \in Nat
          /\ a * D = N * b
      BY <1>1, <1>2, <1>5, <1>7, <2>2, UnitsBounds
    <3> HIDE DEF r
    <3>2. r * b = a <=> r * D = N
      BY ONLY <3>1, ExactOfRatio
    <3> QED
      BY <3>2 DEF r
  <2> QED
    BY <1>6, <1>7, <2>3, <2>4 DEF p, R, m
<1>9. CASE e = 0
  <2>1. a = m - IMPBIT /\ L = -T /\ 2 * a < b
    BY <1>1, <1>2, <1>3, <1>4, <1>9
  <2>2. Rounded(a, b) = 0 /\ R = 0 /\ ~ExactProduct(u, k)
    <3>1. Rounded(a, b) = 0
      BY ONLY <1>2, <1>5, <2>1, RoundedAway
    <3>2. L <= -T
      BY <1>1, <1>2, <2>1
    <3> QED
      BY <1>7, <3>1, <3>2
  <2>3. m # IMPBIT => ~(Units(0) * b = a)
    BY <1>2, <1>3, <2>1, UnitsOfZero
  <2>4. ~(L > -T)
    BY <1>1, <1>2, <2>1
  <2> QED
    BY <1>6, <2>2, <2>3, <2>4 DEF p, R, m
<1>10. e \in Nat
  BY <1>2, <1>3
<1> QED
  BY ONLY <1>8, <1>9, <1>10

\* A number without a fraction is a power of two units.
LEMMA SingleBit ==
    ASSUME NEW u \in Patterns, Finite(u), ~IsZero(u), Mantissa(u) = IMPBIT
    PROVE  \E j \in 0 .. E + M + pow2[E] : Units(u) = pow2[j]
<1> DEFINE l == Lead(u)
           U == Units(u)
<1>1. /\ l \in 1 - M .. BIASEDEMAX /\ U \in Nat
      /\ l >= 1 => l - 1 \in Nat /\ U = IMPBIT * pow2[l - 1]
      /\ l < 1  => 1 - l \in Nat /\ U * pow2[1 - l] = IMPBIT
  BY LeadIs
<1>2. M \in Nat /\ E \in Nat /\ pow2[E] \in Nat /\ BIASEDEMAX = pow2[E] - 2
  BY SizeAssumption, Pow2Type DEF BIASEDEMAX
<1> HIDE DEF l, U
<1>3. CASE l >= 1
  <2>1. M + (l - 1) \in 0 .. E + M + pow2[E] /\ l - 1 \in Nat
    BY <1>1, <1>2, <1>3
  <2>2. pow2[M + (l - 1)] = pow2[M] * pow2[l - 1]
    BY ONLY <1>2, <2>1, Pow2Sum
  <2> QED
    BY <1>1, <1>3, <2>1, <2>2 DEF IMPBIT, U
<1>4. CASE l < 1
  <2> DEFINE j == M - (1 - l)
             p == pow2[1 - l]
             q == pow2[j]
  <2>1. j \in 0 .. E + M + pow2[E] /\ j \in Nat /\ 1 - l \in Nat /\ M = j + (1 - l)
    BY <1>1, <1>2, <1>4
  <2>2. pow2[M] = q * p /\ p \in Nat \ {0} /\ q \in Nat
    <3>1. \A i, h \in Nat : pow2[i + h] = pow2[i] * pow2[h] /\ pow2[i] \in Nat \ {0}
      BY Pow2Sum, Pow2Type
    <3> HIDE DEF j
    <3> QED
      BY ONLY <2>1, <3>1
  <2>3. U * p = q * p
    BY <1>1, <1>4, <2>2 DEF IMPBIT
  <2> HIDE DEF p, q
  <2>4. p * U = p * q
    BY ONLY <1>1, <2>2, <2>3
  <2>5. U <= q /\ q <= U
    BY ONLY <1>1, <2>2, <2>4, Times, U \in Int, q \in Int, p \in Nat, p > 0
  <2>6. U = q
    BY ONLY <1>1, <2>2, <2>5
  <2> QED
    BY <2>1, <2>6 DEF U, q
<1> QED
  BY <1>1, <1>2, <1>3, <1>4

-----------------------------------------------------------------------------
(* A call of ldexp, scalbn or scalbln as the product.                      *)

Number(u) == Finite(u) /\ ~IsZero(u)

\* What frexp returns, beside the exponent.
Parts(u) == SignOf(u) + (EXPBIAS - 1) * IMPBIT + (Mantissa(u) - IMPBIT)

\* On its way through the code, a number is its leading bit and its mantissa; the
\* exponent is that of the product if no sum has left the ints.
Working ==
    pc \in {"denormal", "normal"} =>
        /\ Number(x) /\ (pc = "denormal" <=> IsSubnormal(x)) /\ val = NormalOf(x)
        /\ FitsInt => exponent = Lead(x) + n

\* frexp splits a number into its sign and mantissa and the place of its leading bit.
FrexpParts ==
    pc = "done" /\ fn = "frexp" /\ Number(x) =>
        ret = Parts(x) /\ exponent = Lead(x) - (EXPBIAS - 1)

\* The second call has the parts, or the logarithm, of the number it undoes.
Undoing ==
    undone # None =>
        /\ undone \in Patterns /\ Number(undone)
        /\ \/ fn = "ldexp" /\ x = Parts(undone) /\ n = Lead(undone) - (EXPBIAS - 1)
           \/ fn = "scalbn" /\ x = undone /\ n = EXPBIAS - Lead(undone)

ProductInv == /\ ScalingInv /\ Working /\ FrexpParts /\ Undoing
              /\ ScalesAsProduct /\ FlagsTell

\* The exceptions raised tell of the answer r what FlagsTell says.
Tells(r, raised) == /\ "overflow" \in raised <=> IsInf(r)
                    /\ "inexact" \in raised <=> ~ProductExact(x, n)
                    /\ "underflow" \in raised <=> ~ProductExact(x, n) /\ ~IsInf(r)
                    /\ raised \cap {"invalid", "divbyzero"} = {}

\* The product, with the exceptions that belong to it, is right.
LEMMA RightAnswer ==
    ASSUME x \in Patterns, Number(x), n \in Int, NEW raised,
           raised = IF ExactProduct(x, n) /\ ProductOf(x, n) < EXPBITS THEN {}
                    ELSE IF ProductOf(x, n) = EXPBITS THEN {"inexact", "overflow"}
                    ELSE {"inexact", "underflow"}
    PROVE  LET r == SignOf(x) + ProductOf(x, n) IN r = Product(x, n) /\ Tells(r, raised)
<1> DEFINE r == SignOf(x) + ProductOf(x, n)
<1>1. /\ r = Product(x, n)
      /\ ProductExact(x, n) <=> ProductOf(x, n) < EXPBITS /\ ExactProduct(x, n)
  BY ProductIs DEF Number
<1>2. ProductOf(x, n) \in 0 .. EXPBITS /\ EXPBITS \in Nat
  BY ProductByLead, Format DEF Number
<1>3. IsInf(r) <=> ProductOf(x, n) = EXPBITS
  BY <1>2, SignedProduct
<1>4. ~(ProductOf(x, n) < EXPBITS) <=> ProductOf(x, n) = EXPBITS
  BY <1>2
<1> HIDE DEF r
<1>5. Tells(r, raised)
  BY ONLY <1>1, <1>3, <1>4,
          raised = IF ExactProduct(x, n) /\ ProductOf(x, n) < EXPBITS THEN {}
                   ELSE IF ProductOf(x, n) = EXPBITS THEN {"inexact", "overflow"}
                   ELSE {"inexact", "underflow"}
     DEF Tells
<1> QED
  BY <1>1, <1>5 DEF r

\* A product with the count 0.
LEMMA OnceIs ==
    ASSUME NEW u \in Patterns, Number(u)
    PROVE  ProductOf(u, 0) = Magnitude(u) /\ ExactProduct(u, 0)
<1>1. Units(u) \in Nat /\ pow2[0] = 1 /\ Units(Magnitude(u)) = Units(u) /\ 1 \in Nat \ {0}
  BY UnitsBounds, Pow2Next
<1>2. Numerator(u, 0) = 1 * Units(u) /\ Denominator(0) = 1
  BY <1>1 DEF Numerator, Denominator
<1>3. Magnitude(u) <= EXPBITS
  BY Fields, Format DEF Number, Finite
<1>4. Rounded(1 * Units(u), 1) = Magnitude(u)
  BY ONLY <1>1, <1>3, RoundedExact, u \in Patterns
<1>5. Units(u) * 1 = 1 * Units(u)
  BY <1>1
<1> QED
  BY ONLY <1>1, <1>2, <1>4, <1>5 DEF ProductOf, ExactProduct

\* What the code packs from a number, whose exponent the field holds.
LEMMA PackedFrom ==
    ASSUME x \in Patterns, Number(x), val = NormalOf(x), NEW e \in 0 .. BIASEDEMAX
    PROVE  Packed(e) = SignOf(x) + (e * IMPBIT + (Mantissa(x) - IMPBIT))
<1>1. /\ SignOf(x) \in Int /\ IMPBIT \in Nat /\ pow2[E] = BIASEDEMAX + 2 /\ BIASEDEMAX \in Nat
  BY Fields, Format, Widths
<1>2. Fraction(val) = Mantissa(x) - IMPBIT /\ Mantissa(x) \in Int
  <2>1. Mantissa(x) \in IMPBIT .. 2 * IMPBIT - 1 /\ Fraction(NormalOf(x)) = Mantissa(x) - IMPBIT
    BY LeadIs DEF Number
  <2> QED
    BY <1>1, <2>1
<1>3. e < pow2[E] /\ e * IMPBIT \in Int
  BY <1>1
<1>4. Packed(e) = SignOf(x) + e * IMPBIT + Fraction(val)
  BY ONLY <1>3 DEF Packed
<1> DEFINE i == e * IMPBIT
           f == Mantissa(x) - IMPBIT
           s == SignOf(x)
<1>5. s + i + f = s + (i + f)
  <2>1. s \in Int /\ i \in Int /\ f \in Int
    BY <1>1, <1>2, <1>3
  <2> HIDE DEF s, i, f
  <2> QED
    BY ONLY <2>1
<1> QED
  BY <1>2, <1>4, <1>5

\* Each way through the code ends in the product, with its exceptions.
LEMMA ReturnIsRight ==
    ASSUME TypeOK, Working, SoundScale, pc \in {"denormal", "normal"},
           ScaleUnderflow \/ ScaleOverflow \/ ScaleLower \/ ScalePack
    PROVE  ret' = Product(x, n) /\ (~LostBit => Tells(ret', flags'))
<1> DEFINE L == Lead(x) + n
           R == ProductOf(x, n)
           m == Mantissa(x)
<1>1. /\ x \in Patterns /\ n \in Int /\ Number(x) /\ val = NormalOf(x) /\ exponent = L
      /\ pc = "denormal" <=> IsSubnormal(x)
      /\ IsSubnormal(x) => L \notin TopBinades
  BY DEF TypeOK, Working, SoundScale, Longs
<1>2. /\ R \in 0 .. EXPBITS
      /\ L >= 1 /\ L <= BIASEDEMAX =>
            R = m + (L - 1) * IMPBIT /\ R < EXPBITS /\ ExactProduct(x, n)
      /\ L > BIASEDEMAX => R = EXPBITS
      /\ L < 1 => R < EXPBITS
      /\ L <= -MULTIPLIER => R = 0 /\ ~ExactProduct(x, n)
  BY <1>1, ProductByLead DEF Number
<1>3. /\ L \in Int /\ BIASEDEMAX = 2 * EXPBIAS /\ EXPBIAS \in Nat /\ MULTIPLIER \in Nat
      /\ MULTIPLIER < EXPBIAS /\ IMPBIT \in Nat /\ m \in Int /\ EXPBITS \in Nat /\ EXPBITS > 0
      /\ SignOf(x) \in Int /\ MULTIPLIER > 0
  <2>1. BIASEDEMAX \in Nat /\ M \in Nat /\ IMPBIT \in Nat
    BY SizeAssumption, Widths
  <2>2. Lead(x) \in Int /\ m \in Int
    <3>1. Lead(x) \in 1 - M .. BIASEDEMAX /\ m \in IMPBIT .. 2 * IMPBIT - 1
      BY <1>1, LeadIs DEF Number
    <3> QED
      BY <2>1, <3>1
  <2> QED
    BY <1>1, <2>1, <2>2, SmallInts, Format, Fields
<1>4. /\ SignOf(x) + R = Product(x, n)
      /\ \A raised :
            raised = (IF ExactProduct(x, n) /\ R < EXPBITS THEN {}
                      ELSE IF R = EXPBITS THEN {"inexact", "overflow"}
                      ELSE {"inexact", "underflow"}) => Tells(SignOf(x) + R, raised)
  BY ONLY <1>1, RightAnswer
<1> HIDE DEF L, R, m
<1>5. CASE ScaleUnderflow
  <2>1. ret' = SignOf(x) /\ flags' = {"inexact", "underflow"} /\ L < -MULTIPLIER
    BY <1>1, <1>5 DEF ScaleUnderflow, Underflow, Return
  <2>2. R = 0 /\ ~ExactProduct(x, n) /\ R # EXPBITS
    BY <1>2, <1>3, <2>1
  <2>3. ret' = SignOf(x) + R
    BY <1>3, <2>1, <2>2
  <2> QED
    BY ONLY <1>4, <2>1, <2>2, <2>3
<1>6. CASE ScaleOverflow
  <2>1. ret' = SignOf(x) + EXPBITS /\ flags' = {"inexact", "overflow"} /\ L > BIASEDEMAX
    BY <1>1, <1>6 DEF ScaleOverflow, Overflow, Return
  <2>2. R = EXPBITS /\ ~(R < EXPBITS)
    BY <1>2, <1>3, <2>1
  <2> QED
    BY ONLY <1>4, <2>1, <2>2
<1>7. CASE ScaleLower
  <2> DEFINE p == SignOf(x) + ((L + MULTIPLIER) * IMPBIT + (m - IMPBIT))
  <2>1. /\ L >= -MULTIPLIER /\ L <= BIASEDEMAX - MULTIPLIER
    <3>1. ~(L < -MULTIPLIER) /\ ~(L > BIASEDEMAX) /\ (pc = "denormal" \/ L < 1)
      BY <1>1, <1>7 DEF ScaleLower, Underflow, Overflow
    <3>2. CASE pc = "denormal"
      <4>1. ~(L \in BIASEDEMAX + 1 - MULTIPLIER .. BIASEDEMAX)
        BY <1>1, <3>2 DEF TopBinades
      <4> QED
        BY ONLY <1>3, <3>1, <4>1
    <3>3. CASE L < 1
      BY ONLY <1>3, <3>1, <3>3
    <3> QED
      BY <3>1, <3>2, <3>3
  <2>2. L + MULTIPLIER \in 0 .. BIASEDEMAX
    BY ONLY <1>3, <2>1
  <2>3. Packed(L + MULTIPLIER) = p
    BY ONLY <1>1, <2>2, PackedFrom DEF m
  <2>4. ret' = Lowered(p).bits /\ flags' = Lowered(p).flags
    BY <1>1, <1>7, <2>3 DEF ScaleLower, Return
  <2>5. /\ Lowered(p).bits = SignOf(x) + R
        /\ L > -MULTIPLIER \/ m # IMPBIT =>
              Lowered(p).flags = IF ExactProduct(x, n) THEN {} ELSE {"inexact", "underflow"}
    BY <1>1, <2>1, LoweredIs DEF Number, L, R, m
  <2>6. R < EXPBITS /\ R # EXPBITS
    <3>1. L <= BIASEDEMAX /\ (L < 1 \/ L >= 1)
      BY ONLY <1>3, <2>1
    <3>2. R < EXPBITS
      BY ONLY <1>2, <3>1
    <3> QED
      BY <1>2, <1>3, <3>2
  <2>7. ~LostBit => L > -MULTIPLIER \/ m # IMPBIT
    <3>1. SUFFICES ASSUME ~LostBit, ~(L > -MULTIPLIER), m = IMPBIT PROVE FALSE
      OBVIOUS
    <3>2. L = -MULTIPLIER
      BY ONLY <1>3, <2>1, <3>1
    <3>3. \E j \in 0 .. E + M + pow2[E] : Units(x) = pow2[j]
      BY <1>1, <3>1, SingleBit DEF Number, m
    <3> QED
      BY <3>1, <3>2, <3>3 DEF LostBit, L
  <2> HIDE DEF p
  <2> QED
    BY ONLY <1>4, <2>4, <2>5, <2>6, <2>7
<1>8. CASE ScalePack
  <2>1. L >= 1 /\ L <= BIASEDEMAX /\ ret' = Packed(L) /\ flags' = {}
    BY <1>1, <1>3, <1>8 DEF ScalePack, Overflow, Return
  <2>2. L \in 0 .. BIASEDEMAX
    BY ONLY <1>3, <2>1
  <2>3. Packed(L) = SignOf(x) + (L * IMPBIT + (m - IMPBIT))
    BY ONLY <1>1, <2>2, PackedFrom DEF m
  <2>4. R = m + (L - 1) * IMPBIT /\ R < EXPBITS /\ ExactProduct(x, n)
    BY <1>2, <2>1
  <2>5. L * IMPBIT + (m - IMPBIT) = m + (L - 1) * IMPBIT
    BY ONLY <1>3
  <2> QED
    BY ONLY <1>4, <2>1, <2>3, <2>4, <2>5
<1> QED
  BY <1>5, <1>6, <1>7, <1>8

\* The exponent is that of the product, where no sum leaves the ints.
LEMMA StartWorks == ASSUME TypeOK, ScaleDenormal \/ ScaleNormal PROVE Working'
<1>1. /\ x \in Patterns /\ n \in Int /\ Number(x) /\ x' = x /\ n' = n
  BY DEF TypeOK, Longs, ScaleDenormal, ScaleNormal, Ordinary, Number
<1>2. /\ MULTIPLIER \in Nat /\ Ints = INT_MIN .. INT_MAX
      /\ INT_MIN \in Int /\ INT_MAX \in Int
  <2>1. pow2[INTBITS - 1] \in Nat
    BY IntRanges
  <2> QED
    BY <2>1, SmallInts DEF Ints, INT_MIN, INT_MAX
<1>3. CASE ScaleDenormal
  <2> DEFINE e == ExponentField(val')
             sum == e + n - MULTIPLIER
  <2>1. /\ pc' = "denormal" /\ IsSubnormal(x) /\ val' = NormalOf(x)
        /\ exponent' \in {sum, ToInt(sum)}
    BY <1>3 DEF ScaleDenormal, IntSum, NormalOf
  <2>2. e \in 2 .. MULTIPLIER /\ e \in Int
    <3>1. val' = Scaled(Magnitude(x), MULTIPLIER)
      BY <2>1 DEF NormalOf
    <3>2. e \in 2 .. MULTIPLIER
      BY <1>1, <2>1, <3>1, SubnormalScaled
    <3> HIDE DEF e
    <3> QED
      BY <1>2, <3>2
  <2>3. sum \in Int /\ sum = Lead(x) + n
    <3>1. Lead(x) = e - MULTIPLIER
      BY <2>1 DEF Lead, NormalOf
    <3> HIDE DEF e
    <3> QED
      BY <1>1, <1>2, <2>2, <3>1
  <2>4. ASSUME FitsInt PROVE exponent' = Lead(x) + n
    <3>1. n \in Ints /\ n - MULTIPLIER \in Ints
      BY <2>4 DEF FitsInt
    <3>2. sum \in Ints
      <4> HIDE DEF e
      <4> QED
        BY <1>1, <1>2, <2>2, <3>1
    <3>3. ToInt(sum) = sum
      BY ONLY <2>3, <3>2, ToIntIs
    <3> QED
      BY ONLY <2>1, <2>3, <3>3
  <2>5. FitsInt' <=> FitsInt
    BY <1>1 DEF FitsInt
  <2> HIDE DEF sum, e
  <2> QED
    BY <1>1, <2>1, <2>4, <2>5 DEF Working
<1>4. CASE ScaleNormal
  <2> DEFINE e == ExponentField(x)
             k == IF fn = "scalbln" THEN ToInt(n) ELSE n
  <2>1. /\ pc' = "normal" /\ ~IsSubnormal(x) /\ val' = NormalOf(x)
        /\ exponent' \in {e + k, ToInt(e + k)}
    BY <1>4 DEF ScaleNormal, IntSum, NormalOf
  <2>2. e \in Int /\ Lead(x) = e
    <3>1. e \in 0 .. 2 * EXPBIAS + 1 /\ EXPBIAS \in Nat
      BY <1>1, Fields, Widths
    <3>2. Lead(x) = e
      BY <2>1 DEF Lead
    <3> HIDE DEF e
    <3> QED
      BY <3>1, <3>2
  <2>3. ASSUME FitsInt PROVE exponent' = Lead(x) + n
    <3>1. n \in Ints /\ e + n \in Ints
      BY <2>3 DEF FitsInt
    <3>2. ToInt(n) = n
      BY ONLY <1>1, <3>1, ToIntIs
    <3>3. k = n
      BY <3>2
    <3>4. e + n \in Int
      BY ONLY <1>1, <2>2
    <3>5. ToInt(e + n) = e + n
      BY ONLY <3>1, <3>4, ToIntIs
    <3> HIDE DEF k, e
    <3> QED
      BY <2>1, <2>2, <3>3, <3>5
  <2>4. FitsInt' <=> FitsInt
    BY <1>1 DEF FitsInt
  <2> HIDE DEF e, k
  <2> QED
    BY <1>1, <2>1, <2>3, <2>4 DEF Working
<1> QED
  BY <1>3, <1>4

\* ldexp returns early only if its sum would leave the ints.
LEMMA GuardTells == ASSUME TypeOK, ScaleGuard PROVE ~FitsInt
<1>1. n \in Int /\ ExponentField(x) \in Int /\ ExponentField(x) > INT_MAX - n
  <2>1. ExponentField(x) \in 0 .. 2 * EXPBIAS + 1 /\ EXPBIAS \in Nat
    BY Fields, Widths DEF TypeOK
  <2>2. n \in Int /\ ExponentField(x) > INT_MAX - n
    BY DEF TypeOK, Longs, ScaleGuard, LdexpGuard
  <2> QED
    BY <2>1, <2>2
<1>2. INT_MAX \in Int /\ Ints = INT_MIN .. INT_MAX /\ INT_MIN \in Int
  <2>1. pow2[INTBITS - 1] \in Nat
    BY IntRanges
  <2> QED
    BY <2>1 DEF Ints, INT_MIN, INT_MAX
<1>3. SUFFICES ASSUME ExponentField(x) + n \in Ints PROVE FALSE
  BY DEF FitsInt
<1> QED
  BY ONLY <1>1, <1>2, <1>3

\* A count of 0 leaves a number as it is.
LEMMA OnceIsRight ==
    ASSUME TypeOK, Number(x), n = 0
    PROVE  x = Product(x, n) /\ Tells(x, {})
<1>1. x \in Patterns /\ n \in Int
  BY DEF TypeOK
<1>2. ProductOf(x, n) = Magnitude(x) /\ ExactProduct(x, n)
  BY <1>1, OnceIs
<1>3. Magnitude(x) < EXPBITS /\ SignOf(x) + Magnitude(x) = x
  BY <1>1, Fields DEF Number, Finite
<1>4. {} = IF ExactProduct(x, n) /\ ProductOf(x, n) < EXPBITS THEN {}
           ELSE IF ProductOf(x, n) = EXPBITS THEN {"inexact", "overflow"}
           ELSE {"inexact", "underflow"}
  BY <1>2, <1>3
<1>5. LET r == SignOf(x) + ProductOf(x, n) IN r = Product(x, n) /\ Tells(r, {})
  BY ONLY <1>1, <1>4, Number(x), RightAnswer
<1> QED
  BY <1>2, <1>3, <1>5

\* The answers of ldexp, scalbn and scalbln.
LEMMA AnswersRight ==
    ASSUME TypeOK, Working,
           \/ ScaleSpecial \/ ScaleGuard
           \/ ScaleUnderflow \/ ScaleOverflow \/ ScaleLower \/ ScalePack
    PROVE  ScalesAsProduct' /\ FlagsTell'
<1>1. x' = x /\ n' = n
  BY DEF ScaleSpecial, ScaleGuard, ScaleUnderflow, ScaleOverflow, ScaleLower, ScalePack
<1>2. SUFFICES ASSUME Number(x), SoundScale
               PROVE  ret' = Product(x, n) /\ (~LostBit => Tells(ret', flags'))
  BY <1>1
     DEF ScalesAsProduct, FlagsTell, Scaled2n, SoundScale, FitsInt, TopBinades, LostBit,
         RightProduct, Tells, Number
<1>3. CASE ScaleSpecial
  <2>1. ~IsNaN(x) /\ Finite(x) /\ ~IsZero(x)
    BY <1>2, Fields, Format DEF TypeOK, Number, IsNaN, Finite
  <2>2. n = 0 /\ ret' = x /\ flags' = {}
    BY <1>3, <2>1 DEF ScaleSpecial, Signalling, Return
  <2> QED
    BY <1>2, <2>2, OnceIsRight
<1>4. CASE ScaleGuard
  BY <1>2, <1>4, GuardTells DEF SoundScale
<1>5. CASE ScaleUnderflow \/ ScaleOverflow \/ ScaleLower \/ ScalePack
  <2>1. pc \in {"denormal", "normal"}
    BY <1>5 DEF ScaleUnderflow, ScaleOverflow, ScaleLower, ScalePack
  <2> QED
    BY ONLY <1>2, <1>5, <2>1, TypeOK, Working, ReturnIsRight
<1> QED
  BY <1>3, <1>4, <1>5

\* What frexp returns.
LEMMA FrexpWorks == ASSUME TypeOK, Frexp PROVE FrexpParts'
<1> DEFINE c == IF IsSubnormal(x) THEN MULTIPLIER ELSE 0
           e == ExponentField(NormalOf(x))
<1>1. /\ x \in Patterns /\ Number(x) /\ x' = x /\ val' = NormalOf(x)
      /\ exponent' = e - c - (EXPBIAS - 1)
      /\ ret' = SignOf(x) + (EXPBIAS - 1) * IMPBIT + Fraction(NormalOf(x))
  BY DEF TypeOK, Frexp, Return, Number, NormalOf
<1>2. /\ e = Lead(x) + c /\ Fraction(NormalOf(x)) = Mantissa(x) - IMPBIT
      /\ Lead(x) \in 1 - M .. BIASEDEMAX
  BY <1>1, LeadIs DEF Number
<1>3. /\ MULTIPLIER \in Nat /\ c \in Int /\ EXPBIAS \in Int
  BY SmallInts
<1>4. Lead(x) \in Int
  BY <1>2, SmallInts
<1> HIDE DEF c, e
<1>5. exponent' = Lead(x) - (EXPBIAS - 1)
  BY ONLY <1>1, <1>2, <1>3, <1>4
<1>6. ret' = Parts(x)
  BY ONLY <1>1, <1>2 DEF Parts
<1> QED
  BY <1>1, <1>5, <1>6 DEF FrexpParts

-----------------------------------------------------------------------------
(* The call that undoes another.                                           *)

\* The leading bit of a number is where Lead says.
LEMMA LeadingBit ==
    ASSUME NEW u \in Patterns, Number(u)
    PROVE  LET b == M - 1 + Lead(u)
           IN  b \in Nat /\ pow2[b] <= Units(u) /\ Units(u) < 2 * pow2[b]
<1> DEFINE l == Lead(u)
           m == Mantissa(u)
           U == Units(u)
           b == M - 1 + l
           q == pow2[b]
<1>1. /\ m \in IMPBIT .. 2 * IMPBIT - 1 /\ l \in 1 - M .. BIASEDEMAX /\ U \in Nat \ {0}
      /\ l >= 1 => l - 1 \in Nat /\ U = m * pow2[l - 1]
      /\ l < 1  => 1 - l \in Nat /\ U * pow2[1 - l] = m
  BY LeadIs DEF Number
<1>2. M \in Nat /\ BIASEDEMAX \in Nat /\ IMPBIT \in Nat \ {0} /\ IMPBIT = pow2[M]
  BY SizeAssumption, Widths DEF IMPBIT
<1> HIDE DEF l, m, U
<1>3. l \in Int /\ b \in Nat /\ m \in Int /\ IMPBIT <= m /\ m < 2 * IMPBIT
  BY <1>1, <1>2
<1>4. q \in Nat \ {0}
  BY ONLY <1>3, Pow2Type
<1>5. CASE l >= 1
  <2> DEFINE p == pow2[l - 1]
  <2>1. l - 1 \in Nat /\ U = m * p
    BY <1>1, <1>5
  <2>2. b = M + (l - 1) /\ p \in Nat \ {0}
    BY <1>2, <1>3, <2>1, Pow2Type
  <2>3. q = IMPBIT * p
    BY ONLY <1>2, <2>1, <2>2, Pow2Sum
  <2> HIDE DEF p, q, b
  <2>4. p * IMPBIT <= p * m /\ p * m < p * (2 * IMPBIT)
    BY ONLY <1>2, <1>3, <2>2, Times, p \in Nat, p > 0, 2 * IMPBIT \in Int, IMPBIT \in Int
  <2>5. p * IMPBIT = q /\ p * m = U /\ p * (2 * IMPBIT) = 2 * q
    BY ONLY <1>2, <1>3, <2>1, <2>2, <2>3
  <2> QED
    BY <1>3, <2>4, <2>5 DEF l, m, U, q, b
<1>6. CASE l < 1
  <2> DEFINE p == pow2[1 - l]
  <2>1. 1 - l \in Nat /\ U * p = m
    BY <1>1, <1>6
  <2>2. M = b + (1 - l) /\ p \in Nat \ {0}
    BY <1>2, <1>3, <2>1, Pow2Type
  <2>3. IMPBIT = q * p
    BY ONLY <1>2, <1>3, <2>1, <2>2, Pow2Sum
  <2> HIDE DEF p, q, b
  <2>4. p * q <= p * U /\ p * U < p * (2 * q)
    BY ONLY <1>1, <1>2, <1>3, <1>4, <2>1, <2>2, <2>3
  <2>5. q <= U /\ U < 2 * q
    BY ONLY <1>1, <1>4, <2>2, <2>4, Times, q \in Int, U \in Int, 2 * q \in Int, p \in Nat, p > 0
  <2> QED
    BY <1>3, <2>5 DEF l, U, q, b
<1> QED
  BY <1>3, <1>5, <1>6

\* The logarithm is the place of the leading bit.
LEMMA LogIsLead ==
    ASSUME ScalingInv, pc = "done", fn \in LogFunctions, Number(x)
    PROVE  exponent = Lead(x) - EXPBIAS
<1> DEFINE a == exponent - EMIN + M
           b == M - 1 + Lead(x)
           U == Units(x)
<1>1. x \in Patterns /\ exponent \in Int /\ exponent >= EMIN - M /\ U \div pow2[a] = 1
  BY IntRanges DEF ScalingInv, TypeOK, ExponentIsFloorLog, Number, Longs
<1>2. M \in Nat /\ EXPBIAS \in Nat /\ EMIN = 1 - EXPBIAS /\ BIASEDEMAX \in Nat
  BY SmallInts
<1>3. Lead(x) \in Int
  <2>1. Lead(x) \in 1 - M .. BIASEDEMAX
    BY <1>1, LeadIs DEF Number
  <2> QED
    BY <1>2, <2>1
<1>4. b \in Nat /\ pow2[b] <= U /\ U < 2 * pow2[b] /\ U \in Nat
  BY <1>1, LeadingBit, UnitsBounds
<1>5. a \in Nat
  BY <1>1, <1>2
<1> HIDE DEF a, b, U
<1>6. pow2[a] \in Nat \ {0} /\ pow2[b] \in Nat \ {0}
  BY ONLY <1>4, <1>5, Pow2Type
<1>7. pow2[a] <= U /\ U < 2 * pow2[a]
  <2> DEFINE d == pow2[a]
  <2>1. d \in Nat \ {0} /\ U \in Int /\ U \div d = 1
    BY <1>1, <1>4, <1>6
  <2> HIDE DEF d
  <2>2. U = d * 1 + (U % d) /\ U % d \in 0 .. d - 1
    BY ONLY <2>1, Division
  <2>3. d <= U /\ U < 2 * d
    BY ONLY <2>1, <2>2
  <2> QED
    BY <2>3 DEF d
<1>8. ~(a < b) /\ ~(b < a)
  <2>1. /\ a < b => 2 * pow2[a] <= pow2[b]
        /\ b < a => 2 * pow2[b] <= pow2[a]
    BY ONLY <1>4, <1>5, Pow2Grows
  <2> QED
    BY ONLY <1>4, <1>6, <1>7, <2>1
<1> QED
  BY <1>1, <1>2, <1>3, <1>4, <1>5, <1>8 DEF a, b

\* The second call is given what Undoing says.
LEMMA UndoWorks == ASSUME ScalingInv, FrexpParts, Undo PROVE Undoing'
<1>1. pc = "done" /\ Number(x) /\ x \in Patterns
  BY DEF Undo, Number, ScalingInv, TypeOK
<1>2. CASE fn = "frexp" /\ CallAgain("ldexp", ret, exponent)
  BY <1>1, <1>2 DEF FrexpParts, CallAgain, Undoing
<1>3. CASE fn \in LogFunctions /\ CallAgain("scalbn", x, -exponent)
  <2>1. exponent = Lead(x) - EXPBIAS
    BY <1>1, <1>3, LogIsLead
  <2>2. Lead(x) \in Int /\ EXPBIAS \in Int
    <3>1. Lead(x) \in 1 - M .. BIASEDEMAX
      BY <1>1, LeadIs DEF Number
    <3> QED
      BY <3>1, SmallInts
  <2>3. -exponent = EXPBIAS - Lead(x)
    BY ONLY <2>1, <2>2
  <2> QED
    BY <1>1, <1>3, <2>3 DEF CallAgain, Undoing
<1> QED
  BY <1>2, <1>3 DEF Undo

\* The parts have the mantissa and the sign of the number, in the binade below 1.
LEMMA PartsAre ==
    ASSUME NEW u \in Patterns, Number(u)
    PROVE  LET p == Parts(u)
           IN  /\ p \in Patterns /\ Number(p) /\ SignOf(p) = SignOf(u)
               /\ ExponentField(p) = EXPBIAS - 1 /\ ~IsSubnormal(p)
               /\ Lead(p) = EXPBIAS - 1 /\ Mantissa(p) = Mantissa(u)
<1> DEFINE e == EXPBIAS - 1
           f == Mantissa(u) - IMPBIT
           p == SignOf(u) + (e * IMPBIT + f)
<1>1. /\ EXPBIAS \in Nat /\ EXPBIAS >= 3 /\ IMPBIT \in Nat \ {0} /\ BIASEDEMAX = 2 * EXPBIAS
      /\ SignOf(u) \in Int
  BY Widths, Fields, Format
<1>2. Mantissa(u) \in IMPBIT .. 2 * IMPBIT - 1
  BY LeadIs DEF Number
<1>3. e \in 0 .. BIASEDEMAX /\ e > 0 /\ e \in Int /\ f \in Int /\ Mantissa(u) \in Int
  BY <1>1, <1>2
<1>4. /\ p \in Patterns /\ Finite(p) /\ SignOf(p) = SignOf(u)
      /\ ExponentField(p) = e /\ Fraction(p) = f
  BY <1>3, PackedIs DEF Number
<1>5. Parts(u) = p
  <2> DEFINE s == SignOf(u)
             i == e * IMPBIT
  <2>1. s \in Int /\ i \in Int
    BY <1>1, <1>3
  <2> HIDE DEF s, i, f
  <2>2. s + i + f = s + (i + f)
    BY ONLY <1>3, <2>1
  <2> QED
    BY <2>2 DEF Parts, s, i, f
<1> HIDE DEF p
<1>6. ~IsSubnormal(p) /\ Magnitude(p) # 0
  <2>1. Magnitude(p) = e * IMPBIT + f /\ f >= 0
    BY <1>1, <1>2, <1>4, Fields
  <2>2. e * IMPBIT > 0 /\ e * IMPBIT \in Int
    BY ONLY <1>1, <1>3
  <2>3. Magnitude(p) # 0
    BY ONLY <1>3, <2>1, <2>2
  <2>4. ExponentField(p) # 0
    BY <1>3, <1>4
  <2> QED
    BY ONLY <2>3, <2>4 DEF IsSubnormal
<1>7. Lead(p) = e /\ Mantissa(p) = IMPBIT + f
  BY <1>4, <1>6, Fields DEF Lead, Mantissa, NormalOf
<1> HIDE DEF e
<1>8. IMPBIT + f = Mantissa(u)
  BY <1>1, <1>3
<1> QED
  BY <1>4, <1>5, <1>6, <1>7, <1>8 DEF Number, IsZero, e

\* Moved back to the place of its leading bit, a mantissa is the number again, exactly.
LEMMA PartsRejoin ==
    ASSUME NEW u \in Patterns, Number(u), NEW v \in Patterns, Number(v), NEW k \in Int,
           Mantissa(v) = Mantissa(u), Lead(v) + k = Lead(u)
    PROVE  ProductOf(v, k) = Magnitude(u) /\ ExactProduct(v, k)
<1> DEFINE l == Lead(u)
           m == Mantissa(u)
           U == Units(u)
           N == Numerator(v, k)
           D == Denominator(k)
<1>1. /\ N \in Nat \ {0} /\ D \in Nat \ {0} /\ l \in Int
      /\ l >= 1 => l - 1 \in Nat /\ N = D * (m * pow2[l - 1])
      /\ l < 1  => 1 - l \in Nat /\ N * pow2[1 - l] = D * m
  BY ProductRatio DEF Number
<1>2. /\ U \in Nat \ {0} /\ Units(Magnitude(u)) = U
      /\ l >= 1 => U = m * pow2[l - 1]
      /\ l < 1  => U * pow2[1 - l] = m
  BY LeadIs, UnitsBounds DEF Number
<1> HIDE DEF l, m, U, N, D
<1>3. N = D * U
  <2>1. CASE l >= 1
    BY <1>1, <1>2, <2>1
  <2>2. CASE l < 1
    <3> DEFINE p == pow2[1 - l]
    <3>1. p \in Nat \ {0}
      BY <1>1, <2>2, Pow2Type
    <3>2. N * p = D * m /\ U * p = m
      BY <1>1, <1>2, <2>2
    <3> HIDE DEF p
    <3>3. p * N = p * (D * U) /\ D * U \in Int
      BY ONLY <1>1, <1>2, <3>1, <3>2
    <3>4. N <= D * U /\ D * U <= N
      BY ONLY <1>1, <3>1, <3>3, Times, N \in Int, p \in Nat, p > 0
    <3> QED
      BY ONLY <1>1, <3>3, <3>4
  <2> QED
    BY <1>1, <2>1, <2>2
<1>4. Magnitude(u) <= EXPBITS
  BY Fields, Format DEF Number, Finite
<1>5. Rounded(D * U, D) = Magnitude(u)
  BY ONLY <1>1, <1>4, u \in Patterns, RoundedExact DEF U
<1>6. U * D = N
  BY ONLY <1>1, <1>2, <1>3
<1> QED
  BY <1>2, <1>3, <1>5, <1>6 DEF ProductOf, ExactProduct, N, D

\* ldexp of the parts gives the number, scalbn by minus the logarithm one from 1 to 2.
LEMMA SecondCall ==
    ASSUME TypeOK, Undoing, ScalesAsProduct, FlagsTell
    PROVE  SecondCallUndoes
<1> SUFFICES ASSUME pc = "done", undone # None
             PROVE  /\ fn = "ldexp"  => ret = undone
                    /\ fn = "scalbn" => /\ ExponentField(ret) = EXPBIAS
                                        /\ Negative(ret) = Negative(undone)
                    /\ "inexact" \notin flags
  BY DEF SecondCallUndoes
<1> DEFINE u == undone
           l == Lead(u)
           T == MULTIPLIER
           b == pow2[E] + 2 * T
<1>1. /\ u \in Patterns /\ Number(u) /\ x \in Patterns /\ n \in Int
      /\ \/ fn = "ldexp" /\ x = Parts(u) /\ n = l - (EXPBIAS - 1)
         \/ fn = "scalbn" /\ x = u /\ n = EXPBIAS - l
  BY DEF Undoing, TypeOK, Longs
<1>2. /\ l \in 1 - M .. BIASEDEMAX /\ ExponentField(u) \in l .. l + M - 1
  BY <1>1, LeadIs DEF Number
<1>3. /\ T \in Nat /\ T = M + 1 /\ M \in Nat /\ EXPBIAS \in Nat /\ EXPBIAS >= 3 /\ T < EXPBIAS
      /\ BIASEDEMAX = 2 * EXPBIAS /\ pow2[E] = 2 * EXPBIAS + 2 /\ IMPBIT \in Nat \ {0}
      /\ \A i \in -b .. b : i \in Ints
  BY SmallInts, Widths
<1> HIDE DEF u, l, T
<1>4. l \in Int /\ l >= 1 - M /\ l <= 2 * EXPBIAS /\ ExponentField(u) \in Int
      /\ ExponentField(u) >= l /\ ExponentField(u) <= l + M - 1
  BY <1>2, <1>3
<1>5. ASSUME NEW i \in Int, -b <= i, i <= b PROVE i \in Ints
  BY <1>3, <1>5
<1>6. ASSUME FitsInt, IsSubnormal(x) => Lead(x) + n \notin TopBinades, Number(x),
             Lead(x) + n # -T, ProductOf(x, n) < EXPBITS, ExactProduct(x, n)
      PROVE  ret = SignOf(x) + ProductOf(x, n) /\ "inexact" \notin flags
  <2>1. /\ Product(x, n) = SignOf(x) + ProductOf(x, n) /\ ProductExact(x, n)
    BY ONLY <1>1, <1>6, ProductIs DEF Number
  <2>2. Scaled2n /\ SoundScale /\ ~LostBit
    BY <1>1, <1>6 DEF Scaled2n, Scaling, ScaleFunctions, SoundScale, LostBit, Number, T
  <2> QED
    BY ONLY <2>1, <2>2, ScalesAsProduct, FlagsTell
       DEF ScalesAsProduct, FlagsTell, RightProduct
<1>7. CASE fn = "ldexp" /\ x = Parts(u) /\ n = l - (EXPBIAS - 1)
  <2>1. /\ Number(x) /\ SignOf(x) = SignOf(u) /\ ExponentField(x) = EXPBIAS - 1
        /\ ~IsSubnormal(x) /\ Lead(x) = EXPBIAS - 1 /\ Mantissa(x) = Mantissa(u)
    BY <1>1, <1>7, PartsAre
  <2>2. Lead(x) + n = l /\ l # -T
    BY <1>3, <1>4, <1>7, <2>1
  <2>3. FitsInt
    <3>1. n \in Ints
      BY <1>1, <1>3, <1>4, <1>5, <1>7
    <3>2. ExponentField(x) + n = l /\ l \in Ints
      BY <1>3, <1>4, <1>5, <1>7, <2>1
    <3>3. n - T \in Ints
      BY <1>1, <1>3, <1>4, <1>5, <1>7
    <3> QED
      BY <3>1, <3>2, <3>3 DEF FitsInt, T
  <2>4. ProductOf(x, n) = Magnitude(u) /\ ExactProduct(x, n)
    BY ONLY <1>1, <2>1, <2>2, PartsRejoin DEF l
  <2>5. Magnitude(u) < EXPBITS /\ SignOf(u) + Magnitude(u) = u
    BY <1>1, Fields DEF Number, Finite
  <2> QED
    BY <1>6, <1>7, <2>1, <2>2, <2>3, <2>4, <2>5 DEF u
<1>8. CASE fn = "scalbn" /\ x = u /\ n = EXPBIAS - l
  <2> DEFINE R == ProductOf(x, n)
             m == Mantissa(u)
  <2>1. Lead(x) + n = EXPBIAS /\ EXPBIAS # -T
    BY <1>3, <1>4, <1>8 DEF l
  <2>2. FitsInt
    <3>1. n \in Ints
      BY <1>1, <1>3, <1>4, <1>5, <1>8
    <3>2. ExponentField(x) + n \in Ints
      <4> DEFINE e == ExponentField(u)
      <4>1. e \in Int /\ e >= l /\ e <= l + M - 1
        BY <1>4
      <4> HIDE DEF e
      <4>2. e + n \in Ints
        BY <1>1, <1>3, <1>4, <1>5, <1>8, <4>1
      <4> QED
        BY <1>8, <4>2 DEF e
    <3>3. n - T \in Ints
      BY <1>1, <1>3, <1>4, <1>5, <1>8
    <3> QED
      BY <3>1, <3>2, <3>3 DEF FitsInt, T
  <2>3. EXPBIAS \notin TopBinades
    BY <1>3 DEF TopBinades, T
  <2>4. R \in 0 .. EXPBITS /\ R = m + (EXPBIAS - 1) * IMPBIT /\ R < EXPBITS /\ ExactProduct(x, n)
    <3>1. EXPBIAS >= 1 /\ EXPBIAS <= BIASEDEMAX
      BY <1>3
    <3> QED
      BY <1>1, <1>8, <2>1, <3>1, ProductByLead DEF Number
  <2>5. ret = SignOf(u) + R /\ "inexact" \notin flags
    BY <1>1, <1>6, <1>8, <2>1, <2>2, <2>3, <2>4
  <2>6. Negative(ret) = Negative(u) /\ ExponentField(ret) = R \div IMPBIT
    BY <1>1, <2>4, <2>5, SignedProduct
  <2>7. R \div IMPBIT = EXPBIAS
    <3>1. m \in IMPBIT .. 2 * IMPBIT - 1
      BY <1>1, LeadIs DEF Number
    <3>2. R = IMPBIT * EXPBIAS + (m - IMPBIT) /\ m - IMPBIT \in 0 .. IMPBIT - 1
      <4> HIDE DEF m, R
      <4> QED
        BY ONLY <1>3, <2>4, <3>1
    <3>3. R \in Int /\ EXPBIAS \in Int
      BY <1>3, <2>4, Format
    <3> HIDE DEF m, R
    <3> QED
      BY ONLY <1>3, <3>2, <3>3, DivisionUnique
  <2> QED
    BY <1>8, <2>5, <2>6, <2>7 DEF u
<1> QED
  BY <1>1, <1>7, <1>8

-----------------------------------------------------------------------------
(* The steps, for the products.                                            *)

\* What a step keeps that changes neither the call nor the answers of a scaling.
LEMMA SameCall ==
    ASSUME Undoing, UNCHANGED <<fn, x, n, undone>>
    PROVE  Undoing'
BY DEF Undoing

\* ldexp, scalbn and scalbln,
LEMMA ScaleKeepsProducts ==
    ASSUME ProductInv,
           \/ ScaleSpecial \/ ScaleDenormal \/ ScaleGuard \/ ScaleNormal
           \/ ScaleUnderflow \/ ScaleOverflow \/ ScaleLower \/ ScalePack
    PROVE  Working' /\ FrexpParts' /\ Undoing' /\ ScalesAsProduct' /\ FlagsTell'
<1>1. /\ TypeOK /\ Working /\ Undoing /\ fn \in ScaleFunctions /\ UNCHANGED <<fn, x, n, undone>>
  BY DEF ProductInv, ScalingInv, CountsFit, Scaling, ScaleSpecial, ScaleDenormal, ScaleGuard,
         ScaleNormal, ScaleUnderflow, ScaleOverflow, ScaleLower, ScalePack
<1>2. Undoing'
  BY <1>1, SameCall
<1>3. FrexpParts'
  BY <1>1 DEF FrexpParts, ScaleFunctions
<1>4. CASE ScaleDenormal \/ ScaleNormal
  <2>1. pc' # "done"
    BY <1>4 DEF ScaleDenormal, ScaleNormal
  <2>2. ScalesAsProduct' /\ FlagsTell'
    BY <2>1 DEF ScalesAsProduct, FlagsTell, Scaled2n
  <2> QED
    BY <1>1, <1>2, <1>3, <1>4, <2>2, StartWorks
<1>5. CASE \/ ScaleSpecial \/ ScaleGuard
           \/ ScaleUnderflow \/ ScaleOverflow \/ ScaleLower \/ ScalePack
  <2>1. pc' = "done"
    BY <1>5 DEF ScaleSpecial, ScaleGuard, ScaleUnderflow, ScaleOverflow, ScaleLower, ScalePack,
                Return
  <2>2. Working'
    BY <2>1 DEF Working
  <2> QED
    BY <1>1, <1>2, <1>3, <1>5, <2>2, AnswersRight
<1> QED
  BY <1>4, <1>5

\* frexp, logb and ilogb,
LEMMA PartsKeepProducts ==
    ASSUME ProductInv,
           FrexpSpecial \/ Frexp \/ LogSpecial \/ LogNormal \/ LogDenormal \/ LogShift
    PROVE  Working' /\ FrexpParts' /\ Undoing' /\ ScalesAsProduct' /\ FlagsTell'
<1>1. /\ TypeOK /\ Undoing /\ fn \in LogFunctions \cup {"frexp"}
      /\ UNCHANGED <<fn, x, n, undone>> /\ pc' \notin {"denormal", "normal"}
  <2>1. TypeOK /\ Undoing /\ (pc = "shift" => fn \in LogFunctions)
    BY DEF ProductInv, ScalingInv, Shifting
  <2>2. CASE FrexpSpecial \/ Frexp
    BY <2>1, <2>2 DEF FrexpSpecial, Frexp, Return
  <2>3. CASE LogSpecial
    <3>1. fn \in LogFunctions /\ UNCHANGED <<fn, x, n, undone>>
      BY <2>3 DEF LogSpecial, LogFunctions
    <3>2. pc' = "done"
      <4>1. fn \in {"ilogb", "ilogbf"} => pc' = "done"
        BY <2>3 DEF LogSpecial, Return
      <4>2. fn = "logb" => pc' = "done"
        <5>1. IsZero(x) \/ IsInf(x) \/ IsNaN(x)
          BY <2>1, <2>3, Fields, Format DEF LogSpecial, TypeOK, IsInf, IsNaN, Finite, IsZero
        <5> QED
          BY <2>3, <5>1 DEF LogSpecial, Return
      <4> QED
        BY <3>1, <4>1, <4>2 DEF LogFunctions
    <3> QED
      BY <2>1, <3>1, <3>2
  <2>4. CASE LogNormal \/ LogDenormal \/ LogShift
    BY <2>1, <2>4 DEF LogNormal, LogDenormal, LogShift, Return
  <2> QED
    BY <2>2, <2>3, <2>4
<1>2. Undoing' /\ Working' /\ ScalesAsProduct' /\ FlagsTell'
  BY <1>1, SameCall
     DEF Working, ScalesAsProduct, FlagsTell, Scaled2n, Scaling, ScaleFunctions, LogFunctions
<1>3. CASE FrexpSpecial
  BY <1>1, <1>2, <1>3 DEF FrexpSpecial, FrexpParts, Number
<1>4. CASE Frexp
  BY <1>1, <1>2, <1>4, FrexpWorks
<1>5. CASE LogSpecial \/ LogNormal \/ LogDenormal \/ LogShift
  <2>1. fn # "frexp"
    BY <1>5 DEF ProductInv, ScalingInv, Shifting, LogSpecial, LogNormal, LogDenormal, LogShift,
                LogFunctions
  <2> QED
    BY <1>1, <1>2, <2>1 DEF FrexpParts
<1> QED
  BY <1>3, <1>4, <1>5

\* and the caller.
LEMMA UndoKeepsProducts ==
    ASSUME ProductInv, Undo
    PROVE  Working' /\ FrexpParts' /\ Undoing' /\ ScalesAsProduct' /\ FlagsTell'
<1>1. pc' = "call"
  BY DEF Undo, CallAgain
<1>2. Undoing'
  BY UndoWorks DEF ProductInv
<1> QED
  BY <1>1, <1>2 DEF Working, FrexpParts, ScalesAsProduct, FlagsTell, Scaled2n

\* The second inductive invariant holds in every state.
THEOREM SpecProductInv == Spec => []ProductInv
<1>1. Init => ProductInv
  BY ScalingInvInit
     DEF Init, ProductInv, Working, FrexpParts, Undoing, ScalesAsProduct, FlagsTell, Scaled2n
<1>2. ProductInv /\ [Next]_vars => ProductInv'
  <2> SUFFICES ASSUME ProductInv, [Next]_vars PROVE ProductInv'
    OBVIOUS
  <2>1. ScalingInv'
    BY ScalingInvStep DEF ProductInv
  <2>2. CASE UNCHANGED vars
    <3>1. UNCHANGED <<fn, x, n, pc, val, exponent, ret, flags, undone>>
      BY <2>2 DEF vars
    <3>2. ScalesAsProduct' /\ FlagsTell'
      BY <3>1
         DEF ProductInv, ScalesAsProduct, FlagsTell, Scaled2n, Scaling, SoundScale, FitsInt,
             TopBinades, LostBit, RightProduct
    <3>3. Working' /\ FrexpParts' /\ Undoing'
      BY <3>1 DEF ProductInv, Working, FrexpParts, Undoing, FitsInt
    <3> QED
      BY <2>1, <3>2, <3>3 DEF ProductInv
  <2>3. CASE Next
    <3>1. Working' /\ FrexpParts' /\ Undoing' /\ ScalesAsProduct' /\ FlagsTell'
      BY <2>3, ScaleKeepsProducts, PartsKeepProducts, UndoKeepsProducts DEF Next, Step
    <3> QED
      BY <2>1, <3>1 DEF ProductInv
  <2> QED
    BY <2>2, <2>3
<1> QED
  BY <1>1, <1>2, PTL DEF Spec

\* ldexp, scalbn and scalbln multiply every number by 2^n and round once, wherever no
\* sum leaves the ints and no subnormal is scaled into the topmost binades.
THEOREM SpecScalesAsProduct == Spec => []ScalesAsProduct
<1>1. ProductInv => ScalesAsProduct
  BY DEF ProductInv
<1> QED
  BY <1>1, SpecProductInv, PTL

\* They raise inexact for every product that is not exact and for no other, overflow
\* with every infinity and underflow with the inexact rest, but for the lost bit.
THEOREM SpecFlagsTell == Spec => []FlagsTell
<1>1. ProductInv => FlagsTell
  BY DEF ProductInv
<1> QED
  BY <1>1, SpecProductInv, PTL

\* ldexp rebuilds every number from what frexp returned, and scalbn by minus what logb
\* or ilogb returned leaves a number from 1 to 2, both without an exception.
THEOREM SpecSecondCallUndoes == Spec => []SecondCallUndoes
<1>1. ProductInv => SecondCallUndoes
  BY SecondCall DEF ProductInv, ScalingInv
<1> QED
  BY <1>1, SpecProductInv, PTL
============================================================================
