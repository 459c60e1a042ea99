-------------------------- MODULE SmallFloatProofs --------------------------
(***************************************************************************)
(* Powers of two, the formats of SmallFloat and the rounding of its         *)
(* operations, for every number of exponent and fraction bits: what the     *)
(* proofs about the functions that compute on the bits of a number rest on. *)
(* The last parts say when a rounded quotient, a rest, a sum or a product   *)
(* is what it would be without rounding.                                    *)
(***************************************************************************)
EXTENDS FloatArithmetic, WellFoundedInduction, TLAPS

-----------------------------------------------------------------------------
(* Induction over the natural numbers, stated for a set.                   *)

LessThan == OpToRel(<, Nat)

\* A set that contains 0 and with a number the next one contains all of them.
LEMMA Induction ==
    ASSUME NEW S, 0 \in S, \A n \in Nat : n \in S => n + 1 \in S
    PROVE  Nat \subseteq S
<1> DEFINE T == Nat \ S
<1>1. SUFFICES ASSUME T # {} PROVE FALSE
  OBVIOUS
<1> HIDE DEF T
<1>2. PICK m \in T : \A k \in T : <<k, m>> \notin LessThan
  <2>1. T \subseteq Nat
    BY DEF T
  <2>2. IsWellFoundedOn(LessThan, Nat)
    BY NatLessThanWellFounded DEF LessThan
  <2> QED
    BY <1>1, <2>1, <2>2, WFMin
<1>3. m - 1 \in Nat /\ m - 1 < m /\ m \in Nat
  BY DEF T
<1>4. <<m - 1, m>> \in LessThan
  BY <1>3 DEF LessThan, OpToRel
<1>5. m - 1 \in S
  BY <1>2, <1>3, <1>4 DEF T
<1>6. m - 1 + 1 = m
  BY <1>3
<1> QED
  BY <1>3, <1>5, <1>6 DEF T

-----------------------------------------------------------------------------
(* Powers of two.  The function that the recursion defines exists: it is    *)
(* pieced together from functions on the numbers up to n.                   *)

UpTo(n) == {f \in [0 .. n -> Nat] : f[0] = 1 /\ \A k \in 1 .. n : f[k] = 2 * f[k - 1]}

\* There is such a function up to every number,
LEMMA UpToExists == \A n \in Nat : UpTo(n) # {}
<1> DEFINE S == {n \in Nat : UpTo(n) # {}}
<1>1. 0 \in S
  <2>1. [k \in 0 .. 0 |-> 1] \in UpTo(0)
    BY DEF UpTo
  <2> QED
    BY <2>1
<1>2. ASSUME NEW n \in Nat, n \in S PROVE n + 1 \in S
  <2>1. PICK f : f \in UpTo(n)
    BY <1>2
  <2> DEFINE g == [k \in 0 .. n + 1 |-> IF k = n + 1 THEN 2 * f[n] ELSE f[k]]
  <2>2. f \in [0 .. n -> Nat] /\ f[0] = 1 /\ \A k \in 1 .. n : f[k] = 2 * f[k - 1]
    BY <2>1 DEF UpTo
  <2>3. g \in [0 .. n + 1 -> Nat]
    BY <2>2
  <2>4. \A k \in 1 .. n + 1 : g[k] = 2 * g[k - 1]
    BY <2>2
  <2>5. g[0] = 1
    BY <2>2
  <2> HIDE DEF g
  <2>6. g \in UpTo(n + 1)
    BY <2>3, <2>4, <2>5 DEF UpTo
  <2> QED
    BY <2>6
<1> HIDE DEF S
<1>3. Nat \subseteq S
  BY ONLY <1>1, <1>2, Induction
<1> QED
  BY <1>3 DEF S

\* and two of them agree as far as both go.
LEMMA UpToUnique ==
    ASSUME NEW n \in Nat, NEW m \in Nat, NEW f \in UpTo(n), NEW g \in UpTo(m),
           NEW k \in Nat, k <= n, k <= m
    PROVE  f[k] = g[k]
<1> DEFINE S == {j \in Nat : j <= n /\ j <= m => f[j] = g[j]}
<1>1. 0 \in S
  BY DEF UpTo
<1>2. ASSUME NEW j \in Nat, j \in S PROVE j + 1 \in S
  <2>1. SUFFICES ASSUME j + 1 <= n, j + 1 <= m PROVE f[j + 1] = g[j + 1]
    OBVIOUS
  <2>2. f[j] = g[j]
    BY <1>2, <2>1
  <2>3. j + 1 \in 1 .. n /\ j + 1 \in 1 .. m /\ (j + 1) - 1 = j
    BY <2>1
  <2>4. f[j + 1] = 2 * f[(j + 1) - 1] /\ g[j + 1] = 2 * g[(j + 1) - 1]
    BY <2>3 DEF UpTo
  <2> QED
    BY <2>2, <2>3, <2>4
<1> HIDE DEF S
<1>3. Nat \subseteq S
  BY ONLY <1>1, <1>2, Induction
<1> QED
  BY <1>3 DEF S

\* The recursive definition of pow2 has a solution, so pow2 is one.
LEMMA Pow2Def == pow2 = [n \in Nat |-> IF n = 0 THEN 1 ELSE 2 * pow2[n - 1]]
<1> DEFINE F == [n \in Nat |-> (CHOOSE f \in UpTo(n) : TRUE)[n]]
<1>1. ASSUME NEW n \in Nat PROVE (CHOOSE f \in UpTo(n) : TRUE) \in UpTo(n)
  BY UpToExists
<1>2. F[0] = 1
  BY <1>1 DEF UpTo
<1>3. ASSUME NEW n \in Nat, n # 0 PROVE F[n] = 2 * F[n - 1]
  <2>1. PICK f \in UpTo(n) : F[n] = f[n]
    BY <1>1
  <2>2. n - 1 \in Nat /\ n - 1 <= n
    BY <1>3
  <2>3. PICK g \in UpTo(n - 1) : F[n - 1] = g[n - 1]
    BY <1>1, <2>2
  <2>4. f[n - 1] = g[n - 1]
    BY ONLY <2>2, UpToUnique, n \in Nat, f \in UpTo(n), g \in UpTo(n - 1)
  <2>5. f[n] = 2 * f[n - 1]
    BY <1>3 DEF UpTo
  <2> QED
    BY <2>1, <2>3, <2>4, <2>5
<1> HIDE DEF F
<1>4. F = [n \in Nat |-> IF n = 0 THEN 1 ELSE 2 * F[n - 1]]
  <2>1. F = [n \in Nat |-> F[n]]
    BY DEF F
  <2> QED
    BY ONLY <1>2, <1>3, <2>1
<1> QED
  BY <1>4 DEF pow2

\* The equations of the powers.
LEMMA Pow2Next ==
    /\ pow2[0] = 1
    /\ \A n \in Nat : pow2[n + 1] = 2 * pow2[n]
<1>1. pow2[0] = 1
  BY Pow2Def
<1>2. ASSUME NEW n \in Nat PROVE pow2[n + 1] = 2 * pow2[n]
  <2>1. n + 1 \in Nat /\ n + 1 # 0 /\ (n + 1) - 1 = n
    OBVIOUS
  <2>2. pow2[n + 1] = 2 * pow2[(n + 1) - 1]
    BY Pow2Def, <2>1
  <2> QED
    BY <2>1, <2>2
<1> QED
  BY <1>1, <1>2

\* Powers of two are positive, and larger than their exponent.
LEMMA Pow2Type == \A n \in Nat : pow2[n] \in Nat /\ pow2[n] > n
<1> DEFINE S == {n \in Nat : pow2[n] \in Nat /\ pow2[n] > n}
<1>1. 0 \in S
  BY Pow2Next
<1>2. ASSUME NEW n \in Nat, n \in S PROVE n + 1 \in S
  BY <1>2, Pow2Next
<1> HIDE DEF S
<1>3. Nat \subseteq S
  BY ONLY <1>1, <1>2, Induction
<1> QED
  BY <1>3 DEF S

\* Exponents add up.
LEMMA Pow2Sum == \A a, b \in Nat : pow2[a + b] = pow2[a] * pow2[b]
<1>1. SUFFICES ASSUME NEW a \in Nat PROVE \A b \in Nat : pow2[a + b] = pow2[a] * pow2[b]
  OBVIOUS
<1> DEFINE S == {b \in Nat : pow2[a + b] = pow2[a] * pow2[b]}
<1>2. 0 \in S
  BY Pow2Next, Pow2Type
<1>3. ASSUME NEW b \in Nat, b \in S PROVE b + 1 \in S
  <2>1. pow2[a + b] = pow2[a] * pow2[b]
    BY <1>3
  <2>2. a + (b + 1) = (a + b) + 1 /\ a + b \in Nat
    OBVIOUS
  <2>3. pow2[(a + b) + 1] = 2 * pow2[a + b] /\ pow2[b + 1] = 2 * pow2[b]
    BY <2>2, Pow2Next
  <2>4. pow2[a] \in Nat /\ pow2[b] \in Nat
    BY Pow2Type
  <2>5. 2 * (pow2[a] * pow2[b]) = pow2[a] * (2 * pow2[b])
    BY <2>4
  <2> QED
    BY <2>1, <2>2, <2>3, <2>5
<1> HIDE DEF S
<1>4. Nat \subseteq S
  BY ONLY <1>2, <1>3, Induction
<1> QED
  BY <1>4 DEF S

\* They grow with the exponent.
LEMMA Pow2Grows ==
    ASSUME NEW a \in Nat, NEW b \in Nat
    PROVE  /\ a <= b => pow2[a] <= pow2[b]
           /\ a < b => 2 * pow2[a] <= pow2[b]
           /\ a <= b => pow2[b] = pow2[a] * pow2[b - a] /\ pow2[b - a] \in Nat \ {0}
<1>1. ASSUME a <= b
      PROVE  /\ pow2[b] = pow2[a] * pow2[b - a] /\ pow2[b - a] \in Nat \ {0}
             /\ pow2[a] <= pow2[b]
  <2>1. b - a \in Nat /\ a + (b - a) = b
    BY <1>1
  <2>2. pow2[a] \in Nat /\ pow2[b - a] \in Nat \ {0}
    BY <2>1, Pow2Type
  <2>3. pow2[b] = pow2[a] * pow2[b - a]
    BY <2>1, Pow2Sum
  <2>4. pow2[a] <= pow2[a] * pow2[b - a]
    BY <2>2
  <2> QED
    BY <2>2, <2>3, <2>4
<1>2. ASSUME a < b PROVE 2 * pow2[a] <= pow2[b]
  <2>1. b - a - 1 \in Nat /\ (a + 1) + (b - a - 1) = b /\ a + 1 \in Nat
    BY <1>2
  <2>2. pow2[a + 1] \in Nat /\ pow2[b - a - 1] \in Nat \ {0}
    BY <2>1, Pow2Type
  <2>3. pow2[b] = pow2[a + 1] * pow2[b - a - 1]
    BY <2>1, Pow2Sum
  <2>4. pow2[a + 1] <= pow2[a + 1] * pow2[b - a - 1]
    BY <2>2
  <2> QED
    BY <2>3, <2>4, Pow2Next
<1> QED
  BY <1>1, <1>2

-----------------------------------------------------------------------------
(* Division.                                                               *)

\* A quotient and its rest.
LEMMA Division ==
    ASSUME NEW a \in Int, NEW c \in Nat \ {0}
    PROVE  /\ a = c * (a \div c) + (a % c)
           /\ a \div c \in Int /\ a % c \in 0 .. c - 1
           /\ a >= 0 => a \div c \in Nat
OBVIOUS

\* There is one quotient and one rest.
LEMMA DivisionUnique ==
    ASSUME NEW a \in Int, NEW c \in Nat \ {0}, NEW k \in Int, NEW r \in 0 .. c - 1,
           a = c * k + r
    PROVE  a \div c = k /\ a % c = r
OBVIOUS

-----------------------------------------------------------------------------
(* The format.                                                             *)

\* The masks of a format are what FloatBits assumes of its masks.
LEMMA Format ==
    /\ SIGNBIT \in Nat /\ EXPBITS \in Nat /\ QNAN_MASK \in Nat
    /\ 0 < QNAN_MASK /\ 2 * QNAN_MASK < EXPBITS
    /\ EXPBITS + 2 * QNAN_MASK = SIGNBIT
<1>1. E \in Nat /\ M \in Nat /\ E >= 3 /\ M >= 2 /\ M - 1 \in Nat /\ (M - 1) + 1 = M
  BY SizeAssumption
<1>2. pow2[M] = 2 * pow2[M - 1]
  BY <1>1, Pow2Next
<1>3. pow2[M] \in Nat /\ pow2[M - 1] \in Nat \ {0} /\ pow2[E] \in Nat /\ pow2[E] > 3
  BY <1>1, Pow2Type
<1>4. pow2[E + M] = pow2[E] * pow2[M]
  BY <1>1, Pow2Sum
<1>5. pow2[E] * pow2[M] = (pow2[E] - 1) * pow2[M] + pow2[M]
  BY <1>3
<1>6. (pow2[E] - 1) * pow2[M] >= 3 * pow2[M]
  BY <1>3
<1>7. (pow2[E] - 1) * pow2[M] \in Nat /\ pow2[E] * pow2[M] \in Nat
  BY <1>3
<1> QED
  BY <1>2, <1>3, <1>4, <1>5, <1>6, <1>7 DEF SIGNBIT, EXPBITS, QNAN_MASK

\* The bits of a pattern and the exponents.
LEMMA Widths ==
    /\ IMPBIT \in Nat \ {0} /\ IMPBIT = 2 * QNAN_MASK
    /\ EXPBIAS \in Nat /\ EXPBIAS >= 3 /\ BIASEDEMAX = 2 * EXPBIAS
    /\ pow2[E] = 2 * EXPBIAS + 2
    /\ SIGNBIT = (2 * EXPBIAS + 2) * IMPBIT
    /\ EXPBITS = (2 * EXPBIAS + 1) * IMPBIT
<1>1. E \in Nat /\ M \in Nat /\ E >= 3 /\ M >= 2
      /\ M - 1 \in Nat /\ (M - 1) + 1 = M /\ E - 1 \in Nat /\ (E - 1) + 1 = E
  BY SizeAssumption
<1>2. pow2[M] = 2 * pow2[M - 1] /\ pow2[E] = 2 * pow2[E - 1]
  BY <1>1, Pow2Next
<1>3. pow2[M] \in Nat \ {0} /\ pow2[M - 1] \in Nat \ {0} /\ pow2[E - 1] \in Nat
  BY <1>1, Pow2Type
<1>4. pow2[E - 1] >= 4
  <2>1. pow2[1 + 1] = 2 * pow2[0 + 1] /\ pow2[0 + 1] = 2 * pow2[0] /\ pow2[0] = 1
    BY Pow2Next
  <2>2. pow2[2] = 4
    BY <2>1
  <2> QED
    <3>1. 2 \in Nat /\ 2 <= E - 1
      BY <1>1
    <3>2. pow2[2] <= pow2[E - 1]
      BY ONLY <1>1, <3>1, Pow2Grows
    <3> QED
      BY <1>3, <2>2, <3>2
<1>5. pow2[E + M] = pow2[E] * pow2[M]
  BY <1>1, Pow2Sum
<1> QED
  BY <1>2, <1>3, <1>4, <1>5 DEF SIGNBIT, EXPBITS, QNAN_MASK, IMPBIT, EXPBIAS, BIASEDEMAX

\* A pattern is its sign, its exponent field and its fraction.
LEMMA Fields ==
    ASSUME NEW u \in Patterns
    PROVE  /\ Magnitude(u) \in 0 .. SIGNBIT - 1
           /\ SignOf(u) \in {0, SIGNBIT} /\ u = SignOf(u) + Magnitude(u)
           /\ Magnitude(u) = ExponentField(u) * IMPBIT + Fraction(u)
           /\ ExponentField(u) \in 0 .. 2 * EXPBIAS + 1
           /\ Fraction(u) \in 0 .. IMPBIT - 1
           /\ Fraction(Magnitude(u)) = Fraction(u)
           /\ ExponentField(Magnitude(u)) = ExponentField(u)
           /\ Magnitude(Magnitude(u)) = Magnitude(u)
           /\ Finite(u) <=> ExponentField(u) <= BIASEDEMAX
<1>1. /\ Magnitude(u) \in 0 .. SIGNBIT - 1 /\ Magnitude(Magnitude(u)) = Magnitude(u)
      /\ SignOf(u) \in {0, SIGNBIT} /\ u = SignOf(u) + Magnitude(u)
  BY Format DEF Patterns, Magnitude, Negative, SignOf
<1> DEFINE m == Magnitude(u)
           e == m \div IMPBIT
           f == m % IMPBIT
<1>2. m \in Nat /\ IMPBIT \in Nat \ {0}
  BY <1>1, Widths, Format
<1> HIDE DEF m
<1>3. m = IMPBIT * e + f /\ e \in Nat /\ f \in 0 .. IMPBIT - 1
  <2>1. m \in Int /\ m >= 0
    BY <1>2
  <2> QED
    BY ONLY <1>2, <2>1, Division
<1>4. f = u % IMPBIT
  <2>1. u = m \/ u = m + (2 * EXPBIAS + 2) * IMPBIT
    BY <1>1, <1>2, Widths DEF m
  <2>2. m + (2 * EXPBIAS + 2) * IMPBIT = IMPBIT * (e + 2 * EXPBIAS + 2) + f
    BY <1>2, <1>3, Widths
  <2>3. u % IMPBIT = f
    <3>1. CASE u = m
      BY <3>1
    <3>2. CASE u = m + (2 * EXPBIAS + 2) * IMPBIT
      <4>1. e + 2 * EXPBIAS + 2 \in Int /\ u \in Int
        BY <1>3, Widths, Format DEF Patterns
      <4> HIDE DEF e, f
      <4> QED
        BY <1>2, <1>3, <2>2, <3>2, <4>1, DivisionUnique
    <3> QED
      BY <2>1, <3>1, <3>2
  <2> QED
    BY <2>3
<1>5. e <= 2 * EXPBIAS + 1
  <2>1. SUFFICES ASSUME e >= 2 * EXPBIAS + 2 PROVE FALSE
    BY <1>3, Widths
  <2> HIDE DEF e, f
  <2>2. IMPBIT * e >= IMPBIT * (2 * EXPBIAS + 2)
    BY <1>2, <1>3, <2>1, Widths
  <2> QED
    BY <1>1, <1>2, <1>3, <2>2, Widths, Format DEF m
<1>6. m < EXPBITS <=> e <= 2 * EXPBIAS
  <2> HIDE DEF e, f
  <2>1. CASE e <= 2 * EXPBIAS
    <3>1. IMPBIT * e <= IMPBIT * (2 * EXPBIAS)
      BY <1>2, <1>3, <2>1, Widths
    <3> QED
      BY <1>2, <1>3, <2>1, <3>1, Widths
  <2>2. CASE e >= 2 * EXPBIAS + 1
    <3>1. IMPBIT * e >= IMPBIT * (2 * EXPBIAS + 1)
      BY <1>2, <1>3, <2>2, Widths
    <3> QED
      BY <1>2, <1>3, <2>2, <3>1, Widths
  <2> QED
    BY <1>3, <2>1, <2>2, Widths
<1> QED
  <2> HIDE DEF e, f
  <2>1. ExponentField(u) = e /\ Fraction(u) = f /\ ExponentField(m) = e
    BY <1>1, <1>4 DEF ExponentField, Fraction, e, f, m
  <2>2. Fraction(m) = f
    BY DEF Fraction, f
  <2> QED
    BY <1>1, <1>2, <1>3, <1>5, <1>6, <2>1, <2>2, Widths DEF Finite, m

\* Products.
LEMMA Times ==
    ASSUME NEW a \in Int, NEW b \in Int, NEW c \in Nat
    PROVE  /\ a <= b => c * a <= c * b
           /\ a < b /\ c > 0 => c * a < c * b
           /\ c * a < c * b => a < b
           /\ c * a <= c * b /\ c > 0 => a <= b
OBVIOUS

\* Factors may be regrouped.
LEMMA TimesThrice ==
    ASSUME NEW a \in Int, NEW b \in Int, NEW c \in Int
    PROVE  (a * b) * c = a * (b * c) /\ a * b = b * a /\ a * (b + c) = a * b + a * c
OBVIOUS

\* A set of natural numbers that is not empty has a least number.
LEMMA Least ==
    ASSUME NEW S, S \subseteq Nat, NEW n \in S
    PROVE  \E k \in S : k <= n /\ \A j \in 0 .. k - 1 : j \notin S
<1> SUFFICES ASSUME \A k \in S : k <= n => \E j \in 0 .. k - 1 : j \in S
             PROVE  FALSE
  OBVIOUS
<1> DEFINE T == {m \in Nat : \A j \in 0 .. m : j <= n => j \notin S}
<1>1. 0 \in T
  OBVIOUS
<1>2. ASSUME NEW m \in Nat, m \in T PROVE m + 1 \in T
  <2>1. SUFFICES ASSUME m + 1 \in S, m + 1 <= n PROVE FALSE
    BY <1>2
  <2>2. PICK j \in 0 .. (m + 1) - 1 : j \in S
    BY <2>1
  <2> QED
    BY <1>2, <2>1, <2>2
<1>3. Nat \subseteq T
  <2> HIDE DEF T
  <2> QED
    BY <1>1, <1>2, Induction
<1> QED
  BY <1>3

-----------------------------------------------------------------------------
(* The values of the patterns.                                             *)

\* The value of a number lies in the binade of its exponent field.
LEMMA UnitsBounds ==
    ASSUME NEW u \in Patterns
    PROVE  LET e == ExponentField(u)
           IN  /\ Units(u) \in Nat /\ Units(Magnitude(u)) = Units(u)
               /\ e = 0 => Units(u) = Fraction(u) /\ Units(u) < IMPBIT
               /\ e > 0 => /\ e - 1 \in Nat /\ pow2[e - 1] \in Nat \ {0}
                           /\ Units(u) = (IMPBIT + Fraction(u)) * pow2[e - 1]
                           /\ IMPBIT * pow2[e - 1] <= Units(u)
                           /\ Units(u) < IMPBIT * pow2[e]
<1> DEFINE e == ExponentField(u)
           f == Fraction(u)
<1>1. /\ e \in Nat /\ f \in 0 .. IMPBIT - 1 /\ IMPBIT \in Nat \ {0}
      /\ Fraction(Magnitude(u)) = f /\ ExponentField(Magnitude(u)) = e
  BY Fields, Widths
<1>2. Units(u) = (IF e = 0 THEN f ELSE (IMPBIT + f) * pow2[e - 1])
      /\ Units(Magnitude(u)) = Units(u)
  BY <1>1 DEF Units
<1> HIDE DEF e, f
<1>3. CASE e = 0
  BY <1>1, <1>2, <1>3 DEF e, f
<1>4. CASE e > 0
  <2>1. e - 1 \in Nat /\ (e - 1) + 1 = e
    BY <1>1, <1>4
  <2>2. pow2[e - 1] \in Nat \ {0} /\ pow2[e] = 2 * pow2[e - 1]
    <3>1. pow2[(e - 1) + 1] = 2 * pow2[e - 1] /\ pow2[e - 1] \in Nat /\ pow2[e - 1] > e - 1
      BY ONLY <2>1, Pow2Next, Pow2Type
    <3> QED
      BY <2>1, <3>1
  <2> DEFINE p == pow2[e - 1]
  <2>3. p \in Nat \ {0} /\ pow2[e] = 2 * p
    BY <2>2
  <2> HIDE DEF p
  <2>4. /\ (IMPBIT + f) * p \in Nat /\ IMPBIT * p <= (IMPBIT + f) * p
        /\ (IMPBIT + f) * p < (2 * IMPBIT) * p /\ (2 * IMPBIT) * p = IMPBIT * (2 * p)
    BY <1>1, <2>3
  <2> QED
    BY <1>2, <1>4, <2>1, <2>2, <2>3, <2>4 DEF e, f, p
<1> QED
  BY <1>1, <1>3, <1>4

\* The larger pattern is the larger number.
LEMMA UnitsGrow ==
    ASSUME NEW u \in Patterns, NEW v \in Patterns, Magnitude(u) < Magnitude(v)
    PROVE  Units(u) < Units(v)
<1> DEFINE e == ExponentField(u)
           f == Fraction(u)
           d == ExponentField(v)
           g == Fraction(v)
<1>1. /\ e \in Nat /\ f \in 0 .. IMPBIT - 1 /\ d \in Nat /\ g \in 0 .. IMPBIT - 1
      /\ IMPBIT \in Nat \ {0} /\ e * IMPBIT + f < d * IMPBIT + g
  BY Fields, Widths
<1>2. /\ Units(u) \in Nat /\ Units(v) \in Nat
      /\ e = 0 => Units(u) = f
      /\ d = 0 => Units(v) = g
      /\ e > 0 => /\ pow2[e - 1] \in Nat \ {0} /\ Units(u) = (IMPBIT + f) * pow2[e - 1]
                  /\ Units(u) < IMPBIT * pow2[e]
      /\ d > 0 => /\ d - 1 \in Nat /\ pow2[d - 1] \in Nat \ {0}
                  /\ Units(v) = (IMPBIT + g) * pow2[d - 1]
                  /\ IMPBIT * pow2[d - 1] <= Units(v)
  BY UnitsBounds
<1> HIDE DEF e, f, d, g
<1>3. e < d \/ (e = d /\ f < g)
  <2>1. SUFFICES ASSUME e >= d + 1 \/ (e = d /\ f >= g) PROVE FALSE
    BY <1>1
  <2>2. e >= d + 1 => e * IMPBIT >= (d + 1) * IMPBIT
    BY <1>1
  <2>3. (d + 1) * IMPBIT = d * IMPBIT + IMPBIT /\ d * IMPBIT \in Nat /\ e * IMPBIT \in Nat
    BY <1>1
  <2> QED
    BY <1>1, <2>1, <2>2, <2>3
<1>4. CASE e = d /\ f < g
  <2>1. CASE e = 0
    BY <1>2, <1>4, <2>1
  <2>2. CASE e > 0
    <3> DEFINE p == pow2[e - 1]
    <3>1. p \in Nat \ {0} /\ Units(u) = (IMPBIT + f) * p /\ Units(v) = (IMPBIT + g) * p
      BY <1>2, <1>4, <2>2
    <3> HIDE DEF p
    <3>2. IMPBIT + f \in Nat /\ IMPBIT + g \in Nat /\ IMPBIT + f < IMPBIT + g
      BY <1>1, <1>4
    <3>3. (IMPBIT + f) * p < (IMPBIT + g) * p
      BY ONLY <3>1, <3>2
    <3> QED
      BY <3>1, <3>3
  <2> QED
    BY <1>1, <2>1, <2>2
<1>5. CASE e < d
  <2>1. Units(u) < IMPBIT * pow2[d - 1]
    <3>1. d - 1 \in Nat /\ e <= d - 1 /\ pow2[d - 1] \in Nat \ {0}
      BY <1>1, <1>2, <1>5
    <3>2. CASE e = 0
      <4> DEFINE p == pow2[d - 1]
      <4>1. p \in Nat \ {0}
        BY <3>1
      <4> HIDE DEF p
      <4>2. IMPBIT <= IMPBIT * p
        BY <1>1, <4>1
      <4> QED
        BY <1>1, <1>2, <3>2, <4>1, <4>2 DEF p
    <3>3. CASE e > 0
      <4>1. pow2[e] <= pow2[d - 1] /\ pow2[e] \in Nat
        BY ONLY <1>1, <3>1, Pow2Grows, Pow2Type
      <4>2. IMPBIT * pow2[e] <= IMPBIT * pow2[d - 1]
        BY ONLY <1>1, <3>1, <4>1
      <4> QED
        BY <1>1, <1>2, <3>1, <3>3, <4>1, <4>2
    <3> QED
      BY <1>1, <3>2, <3>3
  <2> QED
    BY <1>1, <1>2, <1>5, <2>1
<1> QED
  BY <1>3, <1>4, <1>5

-----------------------------------------------------------------------------
(* Rounding.                                                               *)

\* The quotient n / d lies in one binade.
LEMMA BinadeExists ==
    ASSUME NEW n \in Nat, NEW d \in Nat \ {0}
    PROVE  LET k == Binade(n, d)
           IN  /\ k \in 0 .. n
               /\ n < d * IMPBIT * pow2[k + 1]
               /\ k > 0 => n >= d * IMPBIT * pow2[k]
<1> DEFINE c == d * IMPBIT
           S == {k \in Nat : n < c * pow2[k + 1]}
           P(k) == n < c * pow2[k + 1] /\ (k > 0 => n >= c * pow2[k])
<1>1. c \in Nat \ {0}
  BY Widths
<1> HIDE DEF c
<1>2. n \in S
  <2>1. n + 1 \in Nat /\ pow2[n + 1] \in Nat /\ pow2[n + 1] > n + 1
    BY ONLY n \in Nat, n + 1 \in Nat, Pow2Type
  <2>2. c * pow2[n + 1] >= pow2[n + 1]
    BY <1>1, <2>1
  <2> QED
    BY <1>1, <2>1, <2>2
<1>3. PICK k \in S : k <= n /\ \A j \in 0 .. k - 1 : j \notin S
  <2>1. S \subseteq Nat
    OBVIOUS
  <2> HIDE DEF S
  <2> QED
    BY ONLY <1>2, <2>1, Least
<1>4. k \in 0 .. n /\ P(k)
  <2>1. k > 0 => k - 1 \in 0 .. k - 1 /\ k - 1 \in Nat /\ (k - 1) + 1 = k
    BY <1>3
  <2>2. k > 0 => k - 1 \notin S
    BY ONLY <1>3, <2>1
  <2>3. k > 0 => n >= c * pow2[k]
    <3>1. SUFFICES ASSUME k > 0 PROVE n >= c * pow2[k]
      OBVIOUS
    <3>2. ~(n < c * pow2[(k - 1) + 1])
      BY <2>1, <2>2, <3>1
    <3>3. pow2[k] \in Nat /\ c * pow2[k] \in Nat
      BY <1>1, <1>3, Pow2Type
    <3> QED
      BY <2>1, <3>1, <3>2, <3>3
  <2> QED
    BY <1>3, <2>3
<1>5. Binade(n, d) = CHOOSE j \in 0 .. n : P(j)
  BY DEF Binade, c
<1>6. Binade(n, d) \in 0 .. n /\ P(Binade(n, d))
  <2> HIDE DEF P
  <2> QED
    BY <1>4, <1>5
<1> QED
  BY <1>6 DEF c

\* There is no other.
LEMMA BinadeUnique ==
    ASSUME NEW n \in Nat, NEW d \in Nat \ {0}, NEW k \in Nat,
           n < d * IMPBIT * pow2[k + 1],
           k > 0 => n >= d * IMPBIT * pow2[k]
    PROVE  Binade(n, d) = k
<1> DEFINE c == d * IMPBIT
           j == Binade(n, d)
<1>1. c \in Nat \ {0} /\ j \in Nat /\ n < c * pow2[j + 1] /\ (j > 0 => n >= c * pow2[j])
      /\ n < c * pow2[k + 1] /\ (k > 0 => n >= c * pow2[k])
  <2>1. c \in Nat \ {0}
    BY Widths
  <2>2. j \in 0 .. n /\ n < c * pow2[j + 1] /\ (j > 0 => n >= c * pow2[j])
    BY ONLY n \in Nat, d \in Nat \ {0}, BinadeExists
  <2> QED
    BY <2>1, <2>2
<1> HIDE DEF c, j
<1>2. ASSUME NEW a \in Nat, NEW b \in Nat, a < b, n < c * pow2[a + 1], n >= c * pow2[b]
      PROVE  FALSE
  <2>1. a + 1 \in Nat /\ a + 1 <= b
    BY <1>2
  <2>2. pow2[a + 1] <= pow2[b] /\ pow2[a + 1] \in Nat /\ pow2[b] \in Nat
    BY ONLY <2>1, b \in Nat, Pow2Grows, Pow2Type
  <2>3. c * pow2[a + 1] <= c * pow2[b] /\ c * pow2[a + 1] \in Nat /\ c * pow2[b] \in Nat
    BY ONLY <1>1, <2>2
  <2> QED
    BY <1>2, <2>3
<1>3. CASE j < k
  BY <1>1, <1>2, <1>3
<1>4. CASE k < j
  BY <1>1, <1>2, <1>4
<1> QED
  BY <1>1, <1>3, <1>4 DEF j

\* The nearest integer is one of the two next to the quotient.
LEMMA NearestIs ==
    ASSUME NEW n \in Nat, NEW d \in Nat \ {0}
    PROVE  /\ NearestInteger(n, d) \in Nat
           /\ NearestInteger(n, d) \in {n \div d, n \div d + 1}
           /\ n % d = 0 => NearestInteger(n, d) = n \div d
           /\ \A a \in Nat : n < d * a => NearestInteger(n, d) <= a
           /\ \A a \in Nat : n >= d * a => NearestInteger(n, d) >= a
<1> DEFINE q == n \div d
           r == n % d
           m == NearestInteger(n, d)
<1>1. q \in Nat /\ r \in 0 .. d - 1 /\ n = d * q + r
  <2>1. n \in Int /\ n >= 0
    OBVIOUS
  <2> QED
    BY ONLY <2>1, d \in Nat \ {0}, Division
<1>2. m = IF 2 * r > d \/ (2 * r = d /\ q % 2 = 1) THEN q + 1 ELSE q
  BY DEF NearestInteger
<1> HIDE DEF q, r, m
<1>3. m \in {q, q + 1} /\ m \in Nat /\ (r = 0 => m = q)
  BY <1>1, <1>2
<1>4. ASSUME NEW a \in Nat, n < d * a PROVE q < a
  <2>1. SUFFICES ASSUME a <= q PROVE FALSE
    BY <1>1
  <2>2. d * a <= d * q /\ d * a \in Nat /\ d * q \in Nat
    BY <1>1, <2>1
  <2> QED
    BY <1>1, <1>4, <2>2
<1>5. ASSUME NEW a \in Nat, n >= d * a PROVE q >= a
  <2>1. SUFFICES ASSUME a >= q + 1 PROVE FALSE
    BY <1>1
  <2>2. d * a >= d * (q + 1) /\ d * (q + 1) = d * q + d /\ d * a \in Nat /\ d * q \in Nat
    BY <1>1, <2>1
  <2> QED
    BY <1>1, <1>5, <2>2
<1> QED
  BY <1>1, <1>3, <1>4, <1>5 DEF q, r, m

\* A significand m and the exponent k make the pattern of m * 2^k units; 2 * IMPBIT
\* is carried into the exponent.
LEMMA Assembled ==
    ASSUME NEW m \in Nat, NEW k \in Nat, m <= 2 * IMPBIT, k > 0 => m >= IMPBIT,
           m + k * IMPBIT < SIGNBIT
    PROVE  /\ m + k * IMPBIT \in Patterns /\ ~Negative(m + k * IMPBIT)
           /\ Units(m + k * IMPBIT) = m * pow2[k]
<1> DEFINE u == m + k * IMPBIT
<1>1. IMPBIT \in Nat \ {0} /\ SIGNBIT \in Nat /\ k * IMPBIT \in Nat /\ pow2[k] \in Nat
  BY Widths, Format, Pow2Type
<1>2. u \in Nat /\ u < SIGNBIT
  BY <1>1
<1>3. u \in Patterns /\ ~Negative(u) /\ Magnitude(u) = u
  BY <1>1, <1>2 DEF Patterns, Negative, Magnitude
<1>4. CASE m < IMPBIT
  <2>1. k = 0 /\ u = IMPBIT * 0 + m /\ m \in 0 .. IMPBIT - 1
    BY <1>1, <1>4
  <2>2. u \div IMPBIT = 0 /\ u % IMPBIT = m
    BY <1>1, <1>2, <2>1
  <2> QED
    BY <1>3, <2>1, <2>2, Pow2Next DEF Units, ExponentField, Fraction
<1>5. CASE IMPBIT <= m /\ m < 2 * IMPBIT
  <2>1. u = IMPBIT * (k + 1) + (m - IMPBIT) /\ m - IMPBIT \in 0 .. IMPBIT - 1 /\ k + 1 \in Int
        /\ u \in Int
    BY <1>1, <1>5, <1>2
  <2>2. u \div IMPBIT = k + 1 /\ u % IMPBIT = m - IMPBIT
    BY ONLY <1>1, <2>1, DivisionUnique
  <2>3. (k + 1) - 1 = k /\ k + 1 # 0 /\ IMPBIT + (m - IMPBIT) = m
    BY <1>1
  <2> QED
    BY <1>3, <2>2, <2>3 DEF Units, ExponentField, Fraction
<1>6. CASE m = 2 * IMPBIT
  <2>1. u = IMPBIT * (k + 2) + 0 /\ 0 \in 0 .. IMPBIT - 1 /\ k + 2 \in Int /\ u \in Int
    BY <1>1, <1>6, <1>2
  <2>2. u \div IMPBIT = k + 2 /\ u % IMPBIT = 0
    BY ONLY <1>1, <2>1, DivisionUnique
  <2>3. (k + 2) - 1 = k + 1 /\ k + 2 # 0 /\ IMPBIT + 0 = IMPBIT
    BY <1>1
  <2>4. pow2[k + 1] = 2 * pow2[k]
    BY Pow2Next
  <2>5. IMPBIT * (2 * pow2[k]) = m * pow2[k]
    BY <1>1, <1>6
  <2> QED
    BY <1>3, <2>2, <2>3, <2>4, <2>5 DEF Units, ExponentField, Fraction
<1> QED
  BY <1>1, <1>3, <1>4, <1>5, <1>6

\* The binade and the integer of a rounding: what is rounded is within the binade, and
\* the integer is too, or the first of the next one.
LEMMA RoundedSteps ==
    ASSUME NEW n \in Nat, NEW d \in Nat \ {0}
    PROVE  LET k == Binade(n, d)
               m == NearestInteger(n, d * pow2[k])
           IN  /\ k \in Nat /\ pow2[k] \in Nat \ {0} /\ d * pow2[k] \in Nat \ {0}
               /\ n < (d * pow2[k]) * (2 * IMPBIT)
               /\ k > 0 => n >= (d * pow2[k]) * IMPBIT
               /\ m \in Nat /\ m <= 2 * IMPBIT /\ (k > 0 => m >= IMPBIT)
<1> DEFINE k == Binade(n, d)
           p == pow2[k]
           s == d * p
           m == NearestInteger(n, s)
<1>1. k \in 0 .. n /\ n < d * IMPBIT * pow2[k + 1] /\ (k > 0 => n >= d * IMPBIT * pow2[k])
  BY ONLY n \in Nat, d \in Nat \ {0}, BinadeExists
<1>2. k \in Nat
  BY <1>1
<1> HIDE DEF k
<1>3. p \in Nat \ {0} /\ pow2[k + 1] = 2 * p /\ IMPBIT \in Nat \ {0}
  BY <1>2, Pow2Type, Pow2Next, Widths
<1>4. n < d * IMPBIT * (2 * p) /\ (k > 0 => n >= d * IMPBIT * p)
  BY <1>1, <1>3
<1> HIDE DEF p
<1>5. s \in Nat \ {0} /\ s * IMPBIT = d * IMPBIT * p /\ s * (2 * IMPBIT) = d * IMPBIT * (2 * p)
  BY <1>3
<1>6. n < s * (2 * IMPBIT) /\ (k > 0 => n >= s * IMPBIT)
  BY <1>4, <1>5
<1> HIDE DEF s
<1>7. /\ m \in Nat
      /\ \A a \in Nat : n < s * a => m <= a
      /\ \A a \in Nat : n >= s * a => m >= a
  BY ONLY n \in Nat, <1>5, NearestIs
<1>8. IMPBIT \in Nat /\ 2 * IMPBIT \in Nat
  BY <1>3
<1>9. m <= 2 * IMPBIT /\ (k > 0 => m >= IMPBIT)
  BY <1>6, <1>7, <1>8
<1> QED
  BY <1>2, <1>3, <1>5, <1>6, <1>7, <1>9 DEF k, p, s, m

\* A rounded result is a magnitude of the format.
LEMMA RoundedType ==
    ASSUME NEW n \in Nat, NEW d \in Nat \ {0}
    PROVE  Rounded(n, d) \in 0 .. EXPBITS /\ Rounded(n, d) \in Patterns
<1> DEFINE k == Binade(n, d)
           m == NearestInteger(n, d * pow2[k])
<1>1. k \in Nat /\ m \in Nat
  BY ONLY n \in Nat, d \in Nat \ {0}, RoundedSteps
<1>2. Rounded(n, d) = IF m + k * IMPBIT > EXPBITS THEN EXPBITS ELSE m + k * IMPBIT
  BY DEF Rounded
<1> HIDE DEF k, m
<1>3. k * IMPBIT \in Nat /\ EXPBITS \in Nat /\ EXPBITS < SIGNBIT /\ SIGNBIT \in Nat
  BY <1>1, Widths, Format
<1> QED
  BY <1>1, <1>2, <1>3 DEF Patterns

\* The number of a pattern is a multiple of the spacing of its binade, and the
\* multiple gives the pattern back.
LEMMA SpacingOf ==
    ASSUME NEW u \in Patterns, NEW d \in Nat \ {0}
    PROVE  LET k == Binade(d * Units(u), d)
               m == Magnitude(u) - k * IMPBIT
           IN  k \in Nat /\ m \in Nat /\ pow2[k] \in Nat \ {0} /\ Units(u) = pow2[k] * m
<1> DEFINE e == ExponentField(u)
           f == Fraction(u)
           n == d * Units(u)
<1>1. /\ e \in Nat /\ f \in 0 .. IMPBIT - 1 /\ IMPBIT \in Nat \ {0}
      /\ Magnitude(u) = e * IMPBIT + f /\ Units(u) \in Nat
      /\ e = 0 => Units(u) = f
      /\ e > 0 => /\ e - 1 \in Nat /\ pow2[e - 1] \in Nat \ {0}
                  /\ Units(u) = (IMPBIT + f) * pow2[e - 1]
                  /\ IMPBIT * pow2[e - 1] <= Units(u) /\ Units(u) < IMPBIT * pow2[e]
  BY Fields, Widths, UnitsBounds
<1>2. n \in Nat
  BY <1>1
<1>3. pow2[0] = 1 /\ pow2[0 + 1] = 2
  BY Pow2Next
<1> HIDE DEF e, f
<1>4. CASE e <= 1
  <2>1. e \in {0, 1} /\ (e = 1 => e - 1 = 0 /\ pow2[e - 1] = 1)
    BY <1>1, <1>3, <1>4
  <2>2. Units(u) = Magnitude(u) /\ Units(u) < 2 * IMPBIT /\ Magnitude(u) \in Nat
    BY <1>1, <1>3, <2>1
  <2>3. d * Units(u) < d * (2 * IMPBIT) /\ d * (2 * IMPBIT) = d * IMPBIT * 2
    BY <1>1, <2>2
  <2>4. n < d * IMPBIT * pow2[0 + 1] /\ 0 \in Nat /\ ~(0 > 0)
    BY <1>3, <2>3
  <2>5. Binade(n, d) = 0
    BY ONLY <1>2, <2>4, d \in Nat \ {0}, BinadeUnique
  <2> QED
    BY <1>1, <1>3, <2>2, <2>5
<1>5. CASE e > 1
  <2> DEFINE k == e - 1
             p == pow2[k]
  <2>1. k \in Nat /\ k > 0 /\ p \in Nat \ {0} /\ Units(u) = (IMPBIT + f) * p
        /\ k + 1 = e /\ pow2[e] = 2 * p
    <3>1. k \in Nat /\ k + 1 = e
      BY <1>1, <1>5
    <3>2. pow2[k + 1] = 2 * pow2[k]
      BY ONLY <3>1, Pow2Next
    <3> QED
      BY <1>1, <1>5, <3>1, <3>2
  <2> HIDE DEF p
  <2>2. IMPBIT * p <= Units(u) /\ Units(u) < IMPBIT * (2 * p)
    BY <1>1, <1>5, <2>1 DEF p
  <2>3. /\ d * (IMPBIT * p) <= d * Units(u) /\ d * Units(u) < d * (IMPBIT * (2 * p))
        /\ d * (IMPBIT * p) = d * IMPBIT * p
        /\ d * (IMPBIT * (2 * p)) = d * IMPBIT * (2 * p)
    <3>1. IMPBIT * p \in Nat /\ IMPBIT * (2 * p) \in Nat
      BY <1>1, <2>1
    <3>2. d * (IMPBIT * p) <= d * Units(u) /\ d * Units(u) < d * (IMPBIT * (2 * p))
      BY ONLY <1>1, <2>2, <3>1, d \in Nat \ {0}, Times
    <3> QED
      BY <1>1, <2>1, <3>2
  <2>4. n < d * IMPBIT * pow2[k + 1] /\ (k > 0 => n >= d * IMPBIT * pow2[k])
    BY <2>1, <2>3, <1>1 DEF p
  <2> HIDE DEF k
  <2>5. Binade(n, d) = k
    BY ONLY <1>2, <2>1, <2>4, d \in Nat \ {0}, BinadeUnique
  <2>6. Magnitude(u) - k * IMPBIT = IMPBIT + f
    BY <1>1, <2>1 DEF k
  <2>7. IMPBIT + f \in Nat /\ Units(u) = p * (IMPBIT + f)
    BY <1>1, <2>1
  <2> QED
    BY <2>1, <2>5, <2>6, <2>7 DEF p
<1> QED
  BY <1>1, <1>4, <1>5

\* A number of the format is rounded to itself.
LEMMA RoundedExact ==
    ASSUME NEW u \in Patterns, NEW d \in Nat \ {0}, Magnitude(u) <= EXPBITS
    PROVE  Rounded(d * Units(u), d) = Magnitude(u)
<1> DEFINE n == d * Units(u)
           k == Binade(n, d)
           m == Magnitude(u) - k * IMPBIT
           s == d * pow2[k]
<1>1. k \in Nat /\ m \in Nat /\ pow2[k] \in Nat \ {0} /\ Units(u) = pow2[k] * m
  BY SpacingOf
<1>2. s \in Nat \ {0} /\ n = s * m + 0 /\ n \in Nat /\ 0 \in 0 .. s - 1
  <2> DEFINE p == pow2[k]
  <2>1. p \in Nat \ {0} /\ m \in Nat /\ n = d * (p * m) /\ s = d * p
    BY <1>1
  <2> HIDE DEF p, m, n, s
  <2> QED
    BY <2>1
<1>3. Rounded(n, d) = IF NearestInteger(n, s) + k * IMPBIT > EXPBITS THEN EXPBITS
                      ELSE NearestInteger(n, s) + k * IMPBIT
  BY DEF Rounded
<1>4. m + k * IMPBIT = Magnitude(u) /\ EXPBITS \in Nat /\ Magnitude(u) \in Nat
  BY <1>1, Widths, Format, Fields
<1> HIDE DEF m, n, s, k
<1>5. n \div s = m /\ n % s = 0
  BY ONLY <1>1, <1>2, DivisionUnique, n \in Int, m \in Int
<1>6. NearestInteger(n, s) = m
  BY ONLY <1>2, <1>5, NearestIs
<1> QED
  BY <1>3, <1>4, <1>6 DEF n

\* If the spacing of the binade divides, nothing is rounded away.
LEMMA RoundedDivisible ==
    ASSUME NEW n \in Nat, NEW d \in Nat \ {0},
           n % (d * pow2[Binade(n, d)]) = 0, Rounded(n, d) < EXPBITS
    PROVE  d * Units(Rounded(n, d)) = n
<1> DEFINE k == Binade(n, d)
           p == pow2[k]
           s == d * p
           m == NearestInteger(n, s)
<1>1. k \in Nat /\ p \in Nat \ {0} /\ s \in Nat \ {0} /\ m \in Nat /\ m <= 2 * IMPBIT
      /\ (k > 0 => m >= IMPBIT)
  BY ONLY n \in Nat, d \in Nat \ {0}, RoundedSteps
<1>2. Rounded(n, d) = (IF m + k * IMPBIT > EXPBITS THEN EXPBITS ELSE m + k * IMPBIT)
      /\ n % s = 0
  BY DEF Rounded
<1> HIDE DEF k, m
<1>3. m = n \div s
  <2>1. s \in Nat \ {0} /\ n % s = 0 /\ m = NearestInteger(n, s)
    BY <1>1, <1>2 DEF m
  <2> QED
    BY ONLY n \in Nat, <2>1, NearestIs
<1>4. n = s * m
  <2>1. n \in Int
    OBVIOUS
  <2>2. n = s * (n \div s) + (n % s)
    BY ONLY <2>1, <1>1, Division
  <2> HIDE DEF s
  <2> QED
    BY <1>1, <1>2, <1>3, <2>2
<1>5. Rounded(n, d) = m + k * IMPBIT /\ m + k * IMPBIT < SIGNBIT
  BY <1>1, <1>2, Format, Widths
<1>6. Units(m + k * IMPBIT) = m * p
  BY ONLY <1>1, <1>5, Assembled
<1>7. d * (m * p) = (d * p) * m
  <2> HIDE DEF p
  <2> QED
    BY <1>1
<1> QED
  BY <1>4, <1>5, <1>6, <1>7

-----------------------------------------------------------------------------
(* Signed values, and rounding in a direction.                             *)

\* Negation of a pattern.
LEMMA NegatedIs ==
    ASSUME NEW u \in Patterns
    PROVE  /\ Negated(u) \in Patterns /\ Negated(Negated(u)) = u
           /\ Magnitude(Negated(u)) = Magnitude(u)
           /\ Negative(Negated(u)) <=> ~Negative(u)
BY Format DEF Patterns, Negated, Negative, Magnitude

\* A magnitude is a pattern of its own, and it is the pattern if there is no sign.
LEMMA MagnitudeIs ==
    ASSUME NEW u \in Patterns
    PROVE  /\ Magnitude(u) \in Patterns /\ ~Negative(Magnitude(u))
           /\ Magnitude(Magnitude(u)) = Magnitude(u)
           /\ ~Negative(u) => Magnitude(u) = u
BY Format DEF Patterns, Negative, Magnitude

\* The value of a number has its sign and its units.
LEMMA ValueIs ==
    ASSUME NEW u \in Patterns
    PROVE  /\ Value(u) \in Int /\ Value(Negated(u)) = -Value(u)
           /\ Value(u) = IF Negative(u) THEN -Units(u) ELSE Units(u)
           /\ Units(u) \in Nat /\ Units(Magnitude(u)) = Units(u)
           /\ Units(Negated(u)) = Units(u)
           /\ AbsValue(Value(u)) = Units(u)
           /\ Value(u) = 0 <=> IsZero(u)
<1>1. /\ Negated(u) \in Patterns /\ Magnitude(Negated(u)) = Magnitude(u)
      /\ Negative(Negated(u)) <=> ~Negative(u)
  BY NegatedIs
<1>2. Units(u) \in Nat /\ Units(Magnitude(u)) = Units(u)
  BY UnitsBounds
<1>3. Units(Magnitude(Negated(u))) = Units(Negated(u))
  BY <1>1, UnitsBounds
<1>4. Units(u) = 0 <=> IsZero(u)
  <2>1. 0 \in Patterns /\ Units(0) \in Nat /\ Magnitude(0) = 0
    BY Format, UnitsBounds DEF Patterns, Magnitude, Negative
  <2>2. ASSUME IsZero(u) PROVE Units(u) = 0
    <3> DEFINE e == ExponentField(u)
               f == Fraction(u)
    <3>1. e * IMPBIT + f = 0 /\ e \in Nat /\ f \in Nat /\ IMPBIT \in Nat \ {0}
      BY <2>2, Fields, Widths DEF IsZero
    <3> HIDE DEF e, f
    <3>2. e # 0 => e * IMPBIT = IMPBIT + (e - 1) * IMPBIT /\ (e - 1) * IMPBIT \in Nat
      BY <3>1
    <3>3. e = 0 /\ f = 0
      BY <3>1, <3>2
    <3> QED
      BY <3>3, UnitsBounds DEF e, f
  <2>3. ASSUME ~IsZero(u) PROVE Units(u) # 0
    <3>1. Magnitude(0) < Magnitude(u)
      BY <2>1, <2>3, Fields DEF IsZero
    <3>2. Units(0) < Units(u)
      BY <2>1, <3>1, UnitsGrow
    <3> QED
      BY <2>1, <3>2, <1>2
  <2> QED
    BY <2>2, <2>3
<1> QED
  BY <1>1, <1>2, <1>3, <1>4 DEF Value, AbsValue

\* The order of the values is that of the ordinals.
LEMMA ValueGrows ==
    ASSUME NEW u \in Patterns, NEW v \in Patterns, Ordinal(u) < Ordinal(v)
    PROVE  Value(u) < Value(v)
<1>1. /\ u = SignOf(u) + Magnitude(u) /\ v = SignOf(v) + Magnitude(v)
      /\ Magnitude(u) \in Nat /\ Magnitude(v) \in Nat /\ SIGNBIT \in Nat
  BY Fields, Format
<1>2. /\ Ordinal(u) = IF Negative(u) THEN -Magnitude(u) ELSE Magnitude(u)
      /\ Ordinal(v) = IF Negative(v) THEN -Magnitude(v) ELSE Magnitude(v)
  BY <1>1 DEF Ordinal, SignOf
<1>3. /\ Magnitude(u) < Magnitude(v) => Units(u) < Units(v)
      /\ Magnitude(v) < Magnitude(u) => Units(v) < Units(u)
  BY UnitsGrow
<1>4. /\ Value(u) = IF Negative(u) THEN -Units(u) ELSE Units(u)
      /\ Value(v) = IF Negative(v) THEN -Units(v) ELSE Units(v)
      /\ Units(u) \in Nat /\ Units(v) \in Nat
      /\ Value(u) = 0 <=> Magnitude(u) = 0
      /\ Value(v) = 0 <=> Magnitude(v) = 0
  BY ValueIs DEF IsZero
<1> QED
  BY <1>1, <1>2, <1>3, <1>4

\* The result of a rounding is a number of the format with the sign of what was
\* rounded, and not zero when a number of units was not.
LEMMA RoundedInType ==
    ASSUME NEW m, NEW n \in Int, NEW d \in Nat \ {0}
    PROVE  /\ RoundedIn(m, n, d) \in Patterns
           /\ Magnitude(RoundedIn(m, n, d)) \in 0 .. EXPBITS
           /\ Negative(RoundedIn(m, n, d)) <=> n < 0
           /\ d = 1 /\ n # 0 => Magnitude(RoundedIn(m, n, d)) > 0
<1> DEFINE a      == AbsValue(n)
           k      == Binade(a, d)
           step   == d * pow2[k]
           q      == a \div step
           r      == a % step
           away   == \/ m = "upward" /\ n > 0
                     \/ m = "downward" /\ n < 0
           larger == IF m = "nearest" THEN NearestInteger(a, step) > q ELSE away /\ r > 0
           c      == IF larger THEN 1 ELSE 0
           u      == q + c + k * IMPBIT
           top    == IF m = "nearest" \/ away THEN EXPBITS ELSE EXPBITS - 1
           g      == IF u < EXPBITS THEN u ELSE top
<1>1. RoundedIn(m, n, d) = (IF n < 0 THEN SIGNBIT ELSE 0) + g
  BY DEF RoundedIn
<1>2. a \in Nat /\ (n # 0 => a > 0)
  BY DEF AbsValue
<1>3. k \in Nat /\ pow2[k] \in Nat \ {0} /\ step \in Nat \ {0}
      /\ (k = 0 => pow2[k] = 1)
  BY <1>2, RoundedSteps, Pow2Next
<1>4. q \in Nat
  <2>1. a \in Int /\ a >= 0 /\ step \in Nat \ {0}
    BY <1>2, <1>3
  <2> HIDE DEF a, step
  <2> QED
    BY <2>1, Division
<1>5. c \in {0, 1}
  OBVIOUS
<1>6. top \in {EXPBITS, EXPBITS - 1} /\ EXPBITS \in Nat /\ EXPBITS > 1 /\ SIGNBIT > EXPBITS
      /\ SIGNBIT \in Nat /\ IMPBIT \in Nat \ {0}
  BY Format, Widths
<1>7. k * IMPBIT \in Nat /\ (k > 0 => k * IMPBIT > 0)
  BY <1>3, <1>6
<1>8. d = 1 /\ n # 0 => u > 0
  <2>1. ASSUME d = 1, n # 0, k = 0 PROVE q > 0
    <3>1. step = 1
      BY <1>3, <2>1
    <3>2. q = a
      BY <1>2, <3>1
    <3> QED
      BY <1>2, <2>1, <3>2
  <2> HIDE DEF c, q, k
  <2> QED
    BY <1>3, <1>4, <1>5, <1>7, <2>1
<1> HIDE DEF c, q, k, top
<1>9. u \in Nat
  BY <1>4, <1>5, <1>7
<1> HIDE DEF u
<1>10. g \in 0 .. EXPBITS /\ (d = 1 /\ n # 0 => g > 0)
  BY <1>6, <1>8, <1>9
<1> HIDE DEF g
<1> QED
  BY <1>1, <1>6, <1>10 DEF Patterns, Negative, Magnitude

-----------------------------------------------------------------------------
(* Rounding in a direction.                                                *)

\* How a rounding in a direction is made: the number is a quotient and a rest of the
\* spacing of its binade, and the direction says whether one is added to the quotient.
RoundedParts(m, n, d, k, q, r, c) ==
    LET s == d * pow2[k]
        away == (m = "upward" /\ n > 0) \/ (m = "downward" /\ n < 0)
        u == q + c + k * IMPBIT
        R == RoundedIn(m, n, d)
    IN  /\ k \in Nat /\ s \in Nat \ {0} /\ q \in Nat /\ r \in 0 .. s - 1
        /\ AbsValue(n) = s * q + r
        /\ q < 2 * IMPBIT /\ (k > 0 => q >= IMPBIT)
        /\ c \in {0, 1} /\ (r = 0 => c = 0)
        /\ m = "nearest" => (c = 1 <=> 2 * r > s \/ (2 * r = s /\ q % 2 = 1))
        /\ m # "nearest" => (c = 1 <=> away /\ r > 0)
        /\ R = (IF n < 0 THEN SIGNBIT ELSE 0) + Magnitude(R)
        /\ Magnitude(R) = IF u < EXPBITS THEN u
                          ELSE IF m = "nearest" \/ away THEN EXPBITS ELSE EXPBITS - 1

\* Every number has a spacing, a quotient, a rest and a digit that is added.
LEMMA RoundedInSteps ==
    ASSUME NEW m, NEW n \in Int, NEW d \in Nat \ {0}
    PROVE  LET k == Binade(AbsValue(n), d)
               s == d * pow2[k]
           IN  \E c \in {0, 1} :
                  RoundedParts(m, n, d, k, AbsValue(n) \div s, AbsValue(n) % s, c)
<1> DEFINE a      == AbsValue(n)
           k      == Binade(a, d)
           step   == d * pow2[k]
           q      == a \div step
           r      == a % step
           away   == \/ m = "upward" /\ n > 0
                     \/ m = "downward" /\ n < 0
           larger == IF m = "nearest" THEN NearestInteger(a, step) > q ELSE away /\ r > 0
           c      == IF larger THEN 1 ELSE 0
           u      == q + c + k * IMPBIT
           top    == IF m = "nearest" \/ away THEN EXPBITS ELSE EXPBITS - 1
           g      == IF u < EXPBITS THEN u ELSE top
           R      == RoundedIn(m, n, d)
<1>1. R = (IF n < 0 THEN SIGNBIT ELSE 0) + g
  BY DEF RoundedIn
<1>2. a \in Nat
  BY DEF AbsValue
<1>3. /\ k \in Nat /\ step \in Nat \ {0} /\ a < step * (2 * IMPBIT)
      /\ (k > 0 => a >= step * IMPBIT)
  BY <1>2, RoundedSteps
<1>4. a = step * q + r /\ q \in Nat /\ r \in 0 .. step - 1
  <2>1. a \in Int /\ a >= 0 /\ step \in Nat \ {0}
    BY <1>2, <1>3
  <2> HIDE DEF a, step
  <2> QED
    BY <2>1, Division
<1>5. q < 2 * IMPBIT /\ (k > 0 => q >= IMPBIT)
  <2>1. IMPBIT \in Nat /\ a \in Nat /\ step \in Nat \ {0} /\ q \in Nat /\ r \in 0 .. step - 1
    BY <1>2, <1>3, <1>4, Widths
  <2> HIDE DEF a, step, q, r, k
  <2>2. step * q < step * (2 * IMPBIT) => q < 2 * IMPBIT
    BY <2>1, Times
  <2>3. k > 0 => step * IMPBIT < step * (q + 1)
    BY <1>3, <1>4, <2>1
  <2>4. step * IMPBIT < step * (q + 1) => IMPBIT < q + 1
    BY <2>1, Times
  <2> QED
    BY <1>3, <1>4, <2>1, <2>2, <2>3, <2>4
<1>6. m = "nearest" => (c = 1 <=> 2 * r > step \/ (2 * r = step /\ q % 2 = 1))
  <2>1. NearestInteger(a, step) = IF 2 * r > step \/ (2 * r = step /\ q % 2 = 1)
                                  THEN q + 1 ELSE q
    BY DEF NearestInteger
  <2> HIDE DEF q, r, step, a
  <2> QED
    BY <1>4, <2>1
<1>7. m # "nearest" => (c = 1 <=> away /\ r > 0)
  OBVIOUS
<1>8. c \in {0, 1}
  OBVIOUS
<1>9. top \in {EXPBITS, EXPBITS - 1} /\ EXPBITS \in Nat /\ EXPBITS > 1 /\ SIGNBIT > EXPBITS
      /\ SIGNBIT \in Nat /\ IMPBIT \in Nat \ {0}
  BY Format, Widths
<1>10. r = 0 => c = 0
  <2> HIDE DEF c, r, q, step
  <2> QED
    BY <1>3, <1>4, <1>6, <1>7, <1>8
<1>11. k * IMPBIT \in Nat
  BY <1>3, <1>9
<1>12. Magnitude(R) = g
  <2>1. u \in Nat
    <3> HIDE DEF c, q, k
    <3> QED
      BY <1>4, <1>8, <1>11
  <2> HIDE DEF u, top
  <2>2. g \in 0 .. EXPBITS
    BY <1>9, <2>1
  <2> HIDE DEF g, R
  <2> QED
    BY <1>1, <1>9, <2>2 DEF Magnitude, Negative
<1>13. RoundedParts(m, n, d, k, q, r, c)
  <2> HIDE DEF c, q, r, k, R
  <2> QED
    BY <1>1, <1>3, <1>4, <1>5, <1>6, <1>7, <1>8, <1>10, <1>12 DEF RoundedParts, R
<1> QED
  BY <1>8, <1>13

\* Larger numbers are in binades that are not lower.
LEMMA BinadeGrows ==
    ASSUME NEW a \in Nat, NEW b \in Nat, NEW d \in Nat \ {0}, a <= b
    PROVE  Binade(a, d) <= Binade(b, d)
<1> DEFINE k == Binade(a, d)
           j == Binade(b, d)
           c == d * IMPBIT
<1>1. /\ k \in Nat /\ j \in Nat /\ b < c * pow2[j + 1] /\ (k > 0 => a >= c * pow2[k])
      /\ c \in Nat
  <2>1. k \in 0 .. a /\ j \in 0 .. b /\ b < c * pow2[j + 1] /\ (k > 0 => a >= c * pow2[k])
    BY BinadeExists
  <2>2. IMPBIT \in Nat
    BY Widths
  <2> HIDE DEF k, j
  <2> QED
    BY <2>1, <2>2
<1> HIDE DEF k, j, c
<1>2. SUFFICES ASSUME k > j PROVE FALSE
  BY <1>1 DEF k, j
<1>3. j + 1 \in Nat /\ j + 1 <= k
  BY <1>1, <1>2
<1>4. pow2[j + 1] <= pow2[k] /\ pow2[j + 1] \in Nat /\ pow2[k] \in Nat
  BY ONLY <1>1, <1>3, Pow2Grows, Pow2Type
<1>5. c * pow2[j + 1] <= c * pow2[k] /\ c * pow2[j + 1] \in Nat /\ c * pow2[k] \in Nat
  BY ONLY <1>1, <1>4, Times
<1> QED
  BY <1>1, <1>2, <1>5

\* A number of the format, in its binade.
LEMMA OfBinade ==
    ASSUME NEW v \in Patterns, NEW d \in Nat \ {0}
    PROVE  \E k \in Nat, b \in Nat :
              /\ k = Binade(d * Units(v), d) /\ d * pow2[k] \in Nat \ {0}
              /\ d * Units(v) = (d * pow2[k]) * b /\ Units(v) = pow2[k] * b
              /\ Magnitude(v) = b + k * IMPBIT
              /\ b < 2 * IMPBIT /\ (k > 0 => b >= IMPBIT)
<1> DEFINE n == d * Units(v)
           k == Binade(n, d)
           b == Magnitude(v) - k * IMPBIT
           s == d * pow2[k]
<1>1. k \in Nat /\ b \in Nat /\ pow2[k] \in Nat \ {0} /\ Units(v) = pow2[k] * b
  BY SpacingOf
<1>2. n \in Nat /\ IMPBIT \in Nat /\ Magnitude(v) \in Nat /\ Units(v) \in Nat
  BY UnitsBounds, Widths, Fields
<1>3. s \in Nat \ {0} /\ n < s * (2 * IMPBIT) /\ (k > 0 => n >= s * IMPBIT)
  BY <1>2, RoundedSteps
<1>4. n = s * b
  <2> HIDE DEF b, k
  <2>1. d \in Int /\ pow2[k] \in Int /\ b \in Int
    BY <1>1
  <2>2. (d * pow2[k]) * b = d * (pow2[k] * b)
    BY ONLY <2>1, TimesThrice
  <2> QED
    BY <1>1, <2>2
<1>5. Magnitude(v) = b + k * IMPBIT
  <2>1. k * IMPBIT \in Nat
    BY <1>1, <1>2
  <2> HIDE DEF k
  <2> QED
    BY <1>2, <2>1
<1> HIDE DEF n, k, b, s
<1>6. b < 2 * IMPBIT /\ (k > 0 => b >= IMPBIT)
  <2>1. s * b < s * (2 * IMPBIT) => b < 2 * IMPBIT
    BY <1>1, <1>2, <1>3, Times
  <2>2. s * IMPBIT <= s * b => IMPBIT <= b
    BY <1>1, <1>2, <1>3, Times
  <2> QED
    BY <1>3, <1>4, <2>1, <2>2
<1> QED
  BY <1>1, <1>3, <1>4, <1>5, <1>6 DEF n, k, s

\* A rounding does not pass a number of the format.
LEMMA RoundedInBound ==
    ASSUME NEW m, NEW n \in Int, NEW d \in Nat \ {0}, NEW v \in Patterns,
           Magnitude(v) < EXPBITS
    PROVE  /\ AbsValue(n) <= d * Units(v) =>
                  Magnitude(RoundedIn(m, n, d)) <= Magnitude(v)
           /\ AbsValue(n) >= d * Units(v) =>
                  Magnitude(RoundedIn(m, n, d)) >= Magnitude(v)
<1> DEFINE a == AbsValue(n)
           R == Magnitude(RoundedIn(m, n, d))
<1>1. PICK j \in Nat, b \in Nat :
          /\ j = Binade(d * Units(v), d) /\ d * Units(v) = (d * pow2[j]) * b
          /\ Magnitude(v) = b + j * IMPBIT
          /\ b < 2 * IMPBIT /\ (j > 0 => b >= IMPBIT)
  BY OfBinade
<1>2. PICK k \in Nat, q \in Nat, r \in Nat, c \in {0, 1} :
          k = Binade(a, d) /\ RoundedParts(m, n, d, k, q, r, c)
  <2> DEFINE k == Binade(a, d)
             q == a \div (d * pow2[k])
             r == a % (d * pow2[k])
  <2>1. PICK c \in {0, 1} : RoundedParts(m, n, d, k, q, r, c)
    BY RoundedInSteps
  <2>2. k \in Nat /\ q \in Nat /\ r \in Nat
    <3> HIDE DEF k, q, r
    <3> QED
      BY <2>1 DEF RoundedParts
  <2> QED
    BY <2>1, <2>2
<1>3. /\ d * pow2[k] \in Nat \ {0} /\ r \in 0 .. d * pow2[k] - 1 /\ a = (d * pow2[k]) * q + r
      /\ q < 2 * IMPBIT /\ (k > 0 => q >= IMPBIT) /\ (r = 0 => c = 0)
      /\ R = (IF q + c + k * IMPBIT < EXPBITS THEN q + c + k * IMPBIT
              ELSE IF m = "nearest" \/ (m = "upward" /\ n > 0) \/ (m = "downward" /\ n < 0)
                   THEN EXPBITS ELSE EXPBITS - 1)
  BY <1>2 DEF RoundedParts
<1>4. /\ a \in Nat /\ d * Units(v) \in Nat /\ IMPBIT \in Nat \ {0} /\ EXPBITS \in Nat
      /\ k * IMPBIT \in Nat /\ j * IMPBIT \in Nat
      /\ (k < j => k * IMPBIT + IMPBIT <= j * IMPBIT)
      /\ (j < k => j * IMPBIT + IMPBIT <= k * IMPBIT)
  <2>1. /\ a \in Nat /\ d * Units(v) \in Nat /\ IMPBIT \in Nat \ {0} /\ EXPBITS \in Nat
        /\ k * IMPBIT \in Nat /\ j * IMPBIT \in Nat
    BY UnitsBounds, Widths, Format DEF AbsValue
  <2>2. /\ IMPBIT * (k + 1) = k * IMPBIT + IMPBIT /\ IMPBIT * j = j * IMPBIT
        /\ IMPBIT * (j + 1) = j * IMPBIT + IMPBIT /\ IMPBIT * k = k * IMPBIT
    BY <2>1
  <2>3. /\ k + 1 <= j => IMPBIT * (k + 1) <= IMPBIT * j
        /\ j + 1 <= k => IMPBIT * (j + 1) <= IMPBIT * k
    BY <2>1, Times
  <2> QED
    BY <2>1, <2>2, <2>3
<1>5. /\ a <= d * Units(v) => k <= j
      /\ a >= d * Units(v) => j <= k
  BY <1>1, <1>2, <1>4, BinadeGrows
<1> HIDE DEF a, R
<1>6. ASSUME a <= d * Units(v) PROVE R <= Magnitude(v)
  <2>1. CASE k < j
    BY <1>1, <1>3, <1>4, <2>1
  <2>2. CASE k = j
    <3> DEFINE s == d * pow2[k]
    <3>1. s * q + r <= s * b /\ s \in Nat \ {0} /\ s * q \in Nat /\ s * b \in Nat
          /\ r \in Nat
      BY <1>1, <1>3, <1>6, <2>2
    <3> HIDE DEF s
    <3>2. s * q <= s * b => q <= b
      BY <3>1, Times
    <3>3. q <= b /\ (q = b => r = 0)
      BY <3>1, <3>2
    <3> QED
      BY <1>1, <1>3, <1>4, <2>2, <3>3
  <2> QED
    BY <1>5, <1>6, <2>1, <2>2
<1>7. ASSUME a >= d * Units(v) PROVE R >= Magnitude(v)
  <2>1. CASE j < k
    BY <1>1, <1>3, <1>4, <2>1
  <2>2. CASE k = j
    <3> DEFINE s == d * pow2[k]
    <3>1. s * q + r >= s * b /\ s \in Nat \ {0} /\ s * q \in Nat /\ s * b \in Nat
          /\ r \in 0 .. s - 1
      BY <1>1, <1>3, <1>7, <2>2
    <3> HIDE DEF s
    <3>2. s * (q + 1) = s * q + s
      BY <3>1
    <3>3. s * b < s * (q + 1) => b < q + 1
      BY <3>1, Times
    <3>4. q >= b
      BY <3>1, <3>2, <3>3
    <3>5. q + c + k * IMPBIT >= Magnitude(v) /\ Magnitude(v) \in Nat
      <4>1. Magnitude(v) = b + k * IMPBIT /\ k * IMPBIT \in Nat
        BY <1>1, <1>4, <2>2
      <4> QED
        BY <4>1, <3>4
    <3> HIDE DEF s
    <3> QED
      BY <1>3, <1>4, <3>5
  <2> QED
    BY <1>5, <1>7, <2>1, <2>2
<1> QED
  BY <1>6, <1>7 DEF a, R

\* A number of the format is not changed by a rounding.
LEMMA RoundedInExact ==
    ASSUME NEW m, NEW n \in Int, NEW d \in Nat \ {0}, NEW v \in Patterns,
           Magnitude(v) < EXPBITS, AbsValue(n) = d * Units(v)
    PROVE  RoundedIn(m, n, d) = (IF n < 0 THEN SIGNBIT ELSE 0) + Magnitude(v)
<1>1. Magnitude(RoundedIn(m, n, d)) = Magnitude(v)
  <2>1. AbsValue(n) \in Nat /\ Magnitude(RoundedIn(m, n, d)) \in Nat /\ Magnitude(v) \in Nat
    BY RoundedInType, Fields, Format DEF AbsValue
  <2>2. /\ Magnitude(RoundedIn(m, n, d)) <= Magnitude(v)
        /\ Magnitude(RoundedIn(m, n, d)) >= Magnitude(v)
    BY <2>1, RoundedInBound
  <2> QED
    BY <2>1, <2>2
<1>2. PICK k, q, r, c : RoundedParts(m, n, d, k, q, r, c)
  BY RoundedInSteps
<1> QED
  BY <1>1, <1>2 DEF RoundedParts

\* A product of a number of M + 1 bits, or 2^(M + 1), with a power of two is a number of
\* the format if it is not too large.
LEMMA NumberExists ==
    ASSUME NEW i \in Nat, NEW j \in Nat, i <= 2 * IMPBIT, j <= 2 * EXPBIAS - 2
    PROVE  \E v \in Patterns : /\ ~Negative(v) /\ Magnitude(v) < EXPBITS
                               /\ Units(v) = i * pow2[j]
<1> DEFINE k == Binade(i * pow2[j], 1)
           l == IF i >= IMPBIT THEN j ELSE k
           q == IF i >= IMPBIT THEN i ELSE i * pow2[j - k]
<1>1. /\ IMPBIT \in Nat \ {0} /\ EXPBIAS \in Nat /\ EXPBITS = (2 * EXPBIAS + 1) * IMPBIT
      /\ pow2[j] \in Nat \ {0} /\ i * pow2[j] \in Nat
  <2>1. IMPBIT \in Nat \ {0} /\ EXPBIAS \in Nat /\ EXPBITS = (2 * EXPBIAS + 1) * IMPBIT
    BY Widths
  <2>2. pow2[j] \in Nat \ {0}
    BY Pow2Type
  <2> QED
    BY <2>1, <2>2
<1>2. l \in Nat /\ l <= j /\ q \in Nat /\ q <= 2 * IMPBIT /\ (l > 0 => q >= IMPBIT)
      /\ q * pow2[l] = i * pow2[j]
  <2>1. CASE i >= IMPBIT
    BY <2>1
  <2>2. CASE i < IMPBIT
    <3> DEFINE a == i * pow2[j]
               p == pow2[k]
    <3>1. /\ k \in Nat /\ p \in Nat \ {0} /\ 1 * p \in Nat \ {0} /\ a < (1 * p) * (2 * IMPBIT)
          /\ (k > 0 => a >= (1 * p) * IMPBIT)
      <4>1. a \in Nat /\ 1 \in Nat \ {0}
        BY <1>1
      <4> HIDE DEF a
      <4> QED
        BY ONLY <4>1, RoundedSteps DEF k, a, p
    <3>2. a < IMPBIT * pow2[j]
      <4> DEFINE t == pow2[j]
      <4>1. t * i < t * IMPBIT
        BY <1>1, <2>2, Times
      <4>2. t * i = a /\ t * IMPBIT = IMPBIT * t
        BY <1>1
      <4> QED
        BY <4>1, <4>2
    <3>3. k <= j
      <4>1. SUFFICES ASSUME j < k PROVE FALSE
        BY <3>1
      <4>2. pow2[j] <= p
        BY <3>1, <4>1, Pow2Grows
      <4>3. IMPBIT * pow2[j] <= IMPBIT * p
        BY <1>1, <3>1, <4>2, Times
      <4>4. (1 * p) * IMPBIT = IMPBIT * p /\ IMPBIT * p \in Nat /\ IMPBIT * pow2[j] \in Nat
        BY <1>1, <3>1
      <4> HIDE DEF a, p, k
      <4>5. a \in Nat
        BY <1>1 DEF a
      <4> QED
        BY <3>1, <3>2, <4>1, <4>3, <4>4, <4>5
    <3>4. pow2[j] = p * pow2[j - k] /\ pow2[j - k] \in Nat \ {0}
      BY <3>1, <3>3, Pow2Grows
    <3>5. q = i * pow2[j - k] /\ l = k /\ q \in Nat
      BY <1>1, <2>2, <3>4
    <3>6. q * p = a /\ p * q = a
      <4> DEFINE t == pow2[j - k]
      <4>1. i \in Int /\ p \in Int /\ t \in Int
        BY <3>1, <3>4
      <4> HIDE DEF p, t
      <4>2. (i * t) * p = i * (p * t) /\ p * (i * t) = i * (p * t)
        BY ONLY <4>1, TimesThrice
      <4> QED
        BY <3>4, <3>5, <4>2 DEF a, t
    <3> HIDE DEF a, p, q, k
    <3>7. /\ p * q < p * (2 * IMPBIT) => q < 2 * IMPBIT
          /\ p * IMPBIT <= p * q => IMPBIT <= q
      BY <1>1, <3>1, <3>5, Times
    <3> QED
      BY <1>1, <3>1, <3>3, <3>5, <3>6, <3>7 DEF a, p
  <2> HIDE DEF l, q, k
  <2> QED
    BY <1>1, <2>1, <2>2
<1> HIDE DEF l, q, k
<1>3. l * IMPBIT + 2 * IMPBIT < EXPBITS /\ EXPBITS < SIGNBIT /\ l * IMPBIT \in Nat
  <2>1. IMPBIT * (l + 2) <= IMPBIT * (2 * EXPBIAS)
    BY <1>1, <1>2, Times
  <2>2. /\ IMPBIT * (l + 2) = l * IMPBIT + 2 * IMPBIT /\ l * IMPBIT \in Nat
        /\ (2 * EXPBIAS + 1) * IMPBIT = IMPBIT * (2 * EXPBIAS) + IMPBIT
        /\ IMPBIT * (2 * EXPBIAS) \in Nat
    BY <1>1, <1>2
  <2>3. EXPBITS < SIGNBIT
    BY Format
  <2> QED
    BY <1>1, <2>1, <2>2, <2>3
<1>4. q + l * IMPBIT < EXPBITS /\ q + l * IMPBIT < SIGNBIT /\ SIGNBIT \in Nat /\ EXPBITS \in Nat
  BY <1>1, <1>2, <1>3, Format
<1>5. /\ q + l * IMPBIT \in Patterns /\ ~Negative(q + l * IMPBIT)
      /\ Units(q + l * IMPBIT) = q * pow2[l]
  BY ONLY <1>2, <1>4, Assembled
<1>6. Magnitude(q + l * IMPBIT) = q + l * IMPBIT
  BY <1>5, MagnitudeIs
<1> QED
  BY <1>2, <1>4, <1>5, <1>6

\* Such a number is not rounded by any operation.
LEMMA MultipleExact ==
    ASSUME NEW m, NEW n \in Int, NEW i \in Nat, NEW j \in Nat,
           AbsValue(n) = i * pow2[j], i <= 2 * IMPBIT, j <= 2 * EXPBIAS - 2
    PROVE  /\ RoundedIn(m, n, 1) \in Patterns /\ Finite(RoundedIn(m, n, 1))
           /\ Value(RoundedIn(m, n, 1)) = n
           /\ Units(RoundedIn(m, n, 1)) = AbsValue(n)
<1>1. PICK v \in Patterns : /\ ~Negative(v) /\ Magnitude(v) < EXPBITS
                            /\ Units(v) = i * pow2[j]
  BY NumberExists
<1> DEFINE R == RoundedIn(m, n, 1)
<1>2. Units(v) \in Nat /\ Magnitude(v) \in Nat
  BY <1>1, UnitsBounds, Fields
<1>3. 1 \in Nat \ {0} /\ AbsValue(n) = 1 * Units(v)
  BY <1>1, <1>2
<1>4. R = (IF n < 0 THEN SIGNBIT ELSE 0) + Magnitude(v)
  BY <1>1, <1>3, RoundedInExact
<1>5. R \in Patterns /\ (Negative(R) <=> n < 0)
  BY RoundedInType
<1>6. Magnitude(R) = Magnitude(v)
  BY <1>2, <1>4, <1>5, Format DEF Magnitude
<1>7. Units(R) = Units(v)
  <2>1. Units(Magnitude(R)) = Units(R) /\ Units(Magnitude(v)) = Units(v)
    BY <1>1, <1>5, UnitsBounds
  <2> QED
    BY <1>6, <2>1
<1>8. Value(R) = IF n < 0 THEN -Units(v) ELSE Units(v)
  BY <1>5, <1>7, ValueIs
<1> QED
  BY <1>1, <1>2, <1>3, <1>5, <1>6, <1>7, <1>8 DEF AbsValue, Finite

\* A rounding to nearest gives an integer.
LEMMA NearestType == ASSUME NEW n \in Int PROVE Nearest(n) \in Int
<1>1. AbsValue(n) \in Nat
  BY DEF AbsValue
<1>2. Units(Rounded(AbsValue(n), 1)) \in Nat
  BY <1>1, RoundedType, UnitsBounds
<1> QED
  BY <1>2 DEF Nearest

\* The exponent of a quotient that is at least 2^p.
LEMMA QuotientAbove ==
    ASSUME NEW p \in Nat, NEW n \in Nat, NEW d \in Nat \ {0}, n >= d * pow2[p]
    PROVE  \E j \in 1 .. n : n < d * pow2[p + j] /\ n >= d * pow2[p + j - 1]
<1> DEFINE S == {j \in Nat : n < d * pow2[p + j]}
<1>1. n \in S
  <2>1. pow2[p + n] \in Nat /\ pow2[p + n] > n
    BY Pow2Type
  <2>2. d * pow2[p + n] >= pow2[p + n]
    <3> DEFINE q == pow2[p + n]
    <3>1. q \in Nat
      BY <2>1
    <3> HIDE DEF q
    <3>2. d * q >= q
      BY <3>1
    <3> QED
      BY <3>2 DEF q
  <2>3. d * pow2[p + n] \in Nat
    BY <2>1
  <2> QED
    BY <2>1, <2>2, <2>3
<1>2. PICK k \in S : k <= n /\ \A j \in 0 .. k - 1 : j \notin S
  <2>1. S \subseteq Nat
    OBVIOUS
  <2> HIDE DEF S
  <2> QED
    BY ONLY <1>1, <2>1, Least
<1>3. k # 0
  <2>1. d * pow2[p] \in Nat
    BY Pow2Type
  <2> QED
    BY <1>2, <2>1
<1>4. k - 1 \in Nat /\ k - 1 \in 0 .. k - 1 /\ p + (k - 1) = p + k - 1
  BY <1>2, <1>3
<1>5. ~(n < d * pow2[p + k - 1])
  BY <1>2, <1>4
<1>6. d * pow2[p + k - 1] \in Nat
  BY <1>4, Pow2Type
<1>7. n >= d * pow2[p + k - 1]
  BY <1>5, <1>6
<1> QED
  BY <1>2, <1>3, <1>4, <1>7

\* How far a quotient below 2^p is from having p bits.
LEMMA QuotientBelow ==
    ASSUME NEW p \in Nat, NEW n \in Nat, NEW d \in Nat \ {0}
    PROVE  \E j \in 0 .. p : /\ j < p => n * pow2[j] >= d * pow2[p - 1]
                             /\ j > 0 => n * pow2[j - 1] < d * pow2[p - 1]
<1> DEFINE S == {j \in Nat : j < p => n * pow2[j] >= d * pow2[p - 1]}
<1>1. p \in S
  OBVIOUS
<1>2. PICK k \in S : k <= p /\ \A j \in 0 .. k - 1 : j \notin S
  <2>1. S \subseteq Nat
    OBVIOUS
  <2> HIDE DEF S
  <2> QED
    BY ONLY <1>1, <2>1, Least
<1>3. ASSUME k > 0 PROVE n * pow2[k - 1] < d * pow2[p - 1]
  <2>1. k - 1 \in Nat /\ k - 1 \in 0 .. k - 1 /\ p - 1 \in Nat
    BY <1>2, <1>3
  <2>2. ~(n * pow2[k - 1] >= d * pow2[p - 1])
    BY <1>2, <2>1
  <2>3. n * pow2[k - 1] \in Nat /\ d * pow2[p - 1] \in Nat
    BY <2>1, Pow2Type
  <2> QED
    BY <2>2, <2>3
<1> QED
  BY <1>2, <1>3

\* A quotient is a natural number.
LEMMA QuotientType ==
    ASSUME NEW p \in Nat, NEW n \in Nat, NEW d \in Nat \ {0}
    PROVE  QuotientOf(p, n, d) \in Nat
<1>1. CASE n >= d * pow2[p]
  <2> DEFINE k == CHOOSE j \in 1 .. n : n < d * pow2[p + j] /\ n >= d * pow2[p + j - 1]
  <2>1. k \in 1 .. n
    BY <1>1, QuotientAbove
  <2>2. QuotientOf(p, n, d) = NearestInteger(n, d * pow2[k]) * pow2[k]
    BY <1>1 DEF QuotientOf
  <2> HIDE DEF k
  <2>3. pow2[k] \in Nat \ {0}
    BY <2>1, Pow2Type
  <2>4. d * pow2[k] \in Nat \ {0}
    BY <2>3
  <2>5. NearestInteger(n, d * pow2[k]) \in Nat
    BY <2>4, NearestIs
  <2> QED
    BY <2>2, <2>3, <2>5
<1>2. CASE ~(n >= d * pow2[p])
  <2> DEFINE k == CHOOSE j \in 0 .. p : /\ j < p => n * pow2[j] >= d * pow2[p - 1]
                                        /\ j > 0 => n * pow2[j - 1] < d * pow2[p - 1]
  <2>1. k \in 0 .. p
    BY QuotientBelow
  <2>2. QuotientOf(p, n, d) = NearestInteger(n * pow2[k], d) \div pow2[k]
    BY <1>2 DEF QuotientOf
  <2> HIDE DEF k
  <2>3. pow2[k] \in Nat \ {0} /\ n * pow2[k] \in Nat
    BY <2>1, Pow2Type
  <2>4. NearestInteger(n * pow2[k], d) \in Nat
    BY <2>3, NearestIs
  <2> DEFINE a == NearestInteger(n * pow2[k], d)
             c == pow2[k]
  <2>5. a \in Nat /\ c \in Nat \ {0}
    BY <2>3, <2>4
  <2> HIDE DEF a, c
  <2>6. a \div c \in Nat
    BY ONLY <2>5
  <2> QED
    BY <2>2, <2>6 DEF a, c
<1> QED
  BY <1>1, <1>2

\* So is a truncated one, but for its sign.
LEMMA TruncatedType ==
    ASSUME NEW p \in Nat, NEW n \in Int, NEW d \in Nat \ {0}
    PROVE  TruncatedQuotient(p, n, d) \in Int
<1>1. CASE n < 0
  <2>1. -n \in Nat
    BY <1>1
  <2> QED
    BY <1>1, <2>1, QuotientType DEF TruncatedQuotient
<1>2. CASE n >= 0
  BY <1>2, QuotientType DEF TruncatedQuotient
<1> QED
  BY <1>1, <1>2

-----------------------------------------------------------------------------
(* Quotients.  One of more bits than its precision rounds; one of fewer    *)
(* bits is rounded at a fraction of one, so that its truncation is the     *)
(* quotient or, if that fraction carries, the next integer.                *)

\* Rounding to an integer adds at most one half.
LEMMA NearestHalf ==
    ASSUME NEW n \in Nat, NEW d \in Nat \ {0}
    PROVE  /\ (2 * d) * NearestInteger(n, d) <= 2 * n + d
           /\ 2 * n - d <= (2 * d) * NearestInteger(n, d)
<1> DEFINE q == n \div d
           r == n % d
<1>1. n = d * q + r /\ q \in Nat /\ r \in 0 .. d - 1
  <2>1. n \in Int /\ n >= 0
    OBVIOUS
  <2> QED
    BY ONLY <2>1, d \in Nat \ {0}, Division
<1>2. NearestInteger(n, d) = IF 2 * r > d \/ (2 * r = d /\ q % 2 = 1) THEN q + 1 ELSE q
  BY DEF NearestInteger
<1> HIDE DEF q, r
<1>3. (2 * d) * q = 2 * (d * q) /\ (2 * d) * (q + 1) = 2 * (d * q) + 2 * d /\ d * q \in Nat
  BY <1>1
<1> DEFINE t == d * q
<1>4. CASE 2 * r > d \/ (2 * r = d /\ q % 2 = 1)
  <2>1. NearestInteger(n, d) = q + 1 /\ 2 * r >= d
    BY <1>1, <1>2, <1>4
  <2>2. (2 * d) * NearestInteger(n, d) = 2 * t + 2 * d /\ n = t + r /\ t \in Nat
    BY <1>1, <1>3, <2>1
  <2> HIDE DEF t
  <2> QED
    BY <1>1, <2>1, <2>2
<1>5. CASE ~(2 * r > d \/ (2 * r = d /\ q % 2 = 1))
  <2>1. NearestInteger(n, d) = q /\ 2 * r <= d
    BY <1>1, <1>2, <1>5
  <2>2. (2 * d) * NearestInteger(n, d) = 2 * t /\ n = t + r /\ t \in Nat
    BY <1>1, <1>3, <2>1
  <2> HIDE DEF t
  <2> QED
    BY <1>1, <2>1, <2>2
<1> QED
  BY <1>4, <1>5

\* The exponent that a quotient below 2^p is rounded at.
LEMMA QuotientSteps ==
    ASSUME NEW p \in Nat, NEW n \in Nat, NEW d \in Nat \ {0}, n < d * pow2[p]
    PROVE  \E k \in 0 .. p :
              /\ k < p => n * pow2[k] >= d * pow2[p - 1]
              /\ k > 0 => n * pow2[k - 1] < d * pow2[p - 1]
              /\ QuotientOf(p, n, d) = NearestInteger(n * pow2[k], d) \div pow2[k]
<1> DEFINE k == CHOOSE j \in 0 .. p : /\ j < p => n * pow2[j] >= d * pow2[p - 1]
                                      /\ j > 0 => n * pow2[j - 1] < d * pow2[p - 1]
<1>1. /\ k \in 0 .. p /\ (k < p => n * pow2[k] >= d * pow2[p - 1])
      /\ (k > 0 => n * pow2[k - 1] < d * pow2[p - 1])
  BY QuotientBelow
<1>2. ~(n >= d * pow2[p])
  <2>1. pow2[p] \in Nat
    BY Pow2Type
  <2>2. d * pow2[p] \in Nat
    BY <2>1
  <2> QED
    BY <2>2
<1>3. QuotientOf(p, n, d) = NearestInteger(n * pow2[k], d) \div pow2[k]
  BY <1>2 DEF QuotientOf
<1> QED
  BY <1>1, <1>3

\* A quotient of b bits is rounded up only from just below an integer.
LEMMA QuotientNear ==
    ASSUME NEW p \in Nat, NEW b \in Nat, b <= p,
           NEW n \in Nat, NEW d \in Nat \ {0}, n < d * pow2[b]
    PROVE  /\ QuotientOf(p, n, d) \in {n \div d, n \div d + 1}
           /\ QuotientOf(p, n, d) = n \div d + 1 =>
                 2 * ((d - (n % d)) * pow2[p - b]) <= d
<1> DEFINE q == n \div d
           r == n % d
<1>1. n = d * q + r /\ q \in Nat /\ r \in 0 .. d - 1
  <2>1. n \in Int /\ n >= 0
    OBVIOUS
  <2> QED
    BY ONLY <2>1, d \in Nat \ {0}, Division
<1>2. pow2[p] \in Nat \ {0} /\ pow2[b] \in Nat \ {0} /\ pow2[b] <= pow2[p]
  BY Pow2Type, Pow2Grows
<1>3. n < d * pow2[p]
  <2>1. d * pow2[b] <= d * pow2[p] /\ d * pow2[b] \in Nat /\ d * pow2[p] \in Nat
    BY <1>2, Times
  <2> QED
    BY <2>1
<1>4. PICK k \in 0 .. p :
          /\ k < p => n * pow2[k] >= d * pow2[p - 1]
          /\ QuotientOf(p, n, d) = NearestInteger(n * pow2[k], d) \div pow2[k]
  BY <1>3, QuotientSteps
<1> DEFINE c == pow2[k]
           m == NearestInteger(n * c, d)
<1>5. k \in Nat /\ c \in Nat \ {0}
  BY <1>4, Pow2Type
<1>6. k >= p - b
  <2>1. SUFFICES ASSUME k < p - b PROVE FALSE
    BY <1>4
  <2>2. k + b \in Nat /\ k + b <= p - 1 /\ p - 1 \in Nat
    BY <1>4, <2>1
  <2>3. pow2[k + b] = c * pow2[b] /\ pow2[k + b] <= pow2[p - 1] /\ pow2[p - 1] \in Nat
    BY <1>5, <2>2, Pow2Sum, Pow2Grows, Pow2Type
  <2>4. c * n < c * (d * pow2[b])
    <3>1. d * pow2[b] \in Nat
      BY <1>2
    <3> QED
      BY <1>5, <3>1, Times
  <2>5. d * pow2[k + b] <= d * pow2[p - 1]
    <3>1. pow2[k + b] \in Nat
      BY <2>2, Pow2Type
    <3> QED
      BY <2>3, <3>1, Times
  <2>6. n * c >= d * pow2[p - 1]
    BY <1>4, <2>1
  <2>7. c * (d * pow2[b]) = d * (c * pow2[b]) /\ c * n = n * c /\ n * c \in Nat
        /\ d * pow2[p - 1] \in Nat /\ d * (c * pow2[b]) \in Nat
    <3> DEFINE e == pow2[b]
    <3>1. e \in Nat /\ pow2[p - 1] \in Nat
      BY <1>2, <2>3
    <3> HIDE DEF c, e
    <3>2. c * (d * e) = d * (c * e) /\ c * n = n * c /\ n * c \in Nat /\ d * (c * e) \in Nat
      BY <1>5, <3>1
    <3> QED
      BY <3>1, <3>2 DEF e
  <2> QED
    BY <2>3, <2>4, <2>5, <2>6, <2>7
<1>7. n * c \in Nat /\ n * c = d * (q * c) + r * c /\ q * c \in Nat /\ r * c \in Nat
      /\ r * c < d * c /\ d * c \in Nat
  <2> HIDE DEF c, q, r
  <2>1. n * c \in Nat /\ q * c \in Nat /\ r * c \in Nat /\ d * c \in Nat
    BY <1>1, <1>5
  <2>2. (d * q + r) * c = d * (q * c) + r * c
    BY <1>1, <1>5
  <2>3. c * r < c * d
    BY <1>1, <1>5, Times
  <2>4. c * r = r * c /\ c * d = d * c
    BY <1>1, <1>5
  <2> QED
    BY <1>1, <2>1, <2>2, <2>3, <2>4
<1>8. m \in Nat /\ q * c <= m /\ m <= (q + 1) * c /\ (q + 1) * c \in Nat
  <2> HIDE DEF c, q, r
  <2>1. (q + 1) * c \in Nat /\ d * ((q + 1) * c) = d * (q * c) + d * c
    BY <1>1, <1>5
  <2>2. n * c < d * ((q + 1) * c) /\ n * c >= d * (q * c)
    <3> DEFINE A == d * (q * c)
    <3>1. A \in Nat
      BY <1>1, <1>7
    <3>2. n * c = A + r * c /\ d * ((q + 1) * c) = A + d * c
      BY <1>7, <2>1
    <3> HIDE DEF A
    <3> QED
      BY <1>7, <3>1, <3>2 DEF A
  <2> QED
    BY <1>7, <2>1, <2>2, NearestIs
<1>9. QuotientOf(p, n, d) = m \div c
  BY <1>4
<1>10. CASE m = (q + 1) * c
  <2>1. m \div c = q + 1
    <3> HIDE DEF c, q, r, m
    <3>1. m = c * (q + 1) + 0 /\ 0 \in 0 .. c - 1 /\ q + 1 \in Int
      BY <1>1, <1>5, <1>10
    <3> QED
      BY <1>5, <1>8, <3>1, DivisionUnique
  <2>2. 2 * ((d - r) * c) <= d
    <3>1. (2 * d) * m <= 2 * (n * c) + d
      BY <1>7, NearestHalf
    <3> HIDE DEF c, q, r, m
    <3>2. (2 * d) * m = 2 * (d * (q * c)) + 2 * (d * c)
      BY <1>1, <1>5, <1>10
    <3>3. (d - r) * c = d * c - r * c
      BY <1>1, <1>5
    <3> DEFINE A == d * (q * c)
               B == d * c
               C == r * c
    <3>4. A \in Nat /\ B \in Nat /\ C \in Nat /\ n * c = A + C
      BY <1>1, <1>5, <1>7
    <3>5. (2 * d) * m = 2 * A + 2 * B /\ (d - r) * c = B - C
      BY <3>2, <3>3
    <3> HIDE DEF A, B, C
    <3> QED
      BY <3>1, <3>4, <3>5
  <2>3. (d - r) * pow2[p - b] <= (d - r) * c
    <3>1. p - b \in Nat /\ p - b <= k
      BY <1>6
    <3>2. pow2[p - b] <= c /\ pow2[p - b] \in Nat
      BY <1>5, <3>1, Pow2Grows, Pow2Type
    <3>3. d - r \in Nat
      BY <1>1
    <3> HIDE DEF c, q, r, m
    <3> QED
      BY <1>5, <3>2, <3>3, Times
  <2>4. 2 * ((d - r) * pow2[p - b]) <= d
    <3>1. p - b \in Nat
      OBVIOUS
    <3>2. pow2[p - b] \in Nat /\ d - r \in Nat
      BY <1>1, <3>1, Pow2Type
    <3> DEFINE A == (d - r) * pow2[p - b]
               B == (d - r) * c
    <3>3. A \in Nat /\ B \in Nat
      BY <1>5, <3>2
    <3>4. A <= B /\ 2 * B <= d
      BY <2>2, <2>3
    <3> HIDE DEF A, B
    <3>5. 2 * A <= d
      BY <3>3, <3>4
    <3> QED
      BY <3>5 DEF A
  <2> QED
    BY <1>9, <2>1, <2>4
<1>11. CASE m # (q + 1) * c
  <2> HIDE DEF c, q, r, m
  <2> DEFINE s == m - q * c
  <2>1. (q + 1) * c = q * c + c /\ q * c = c * q
    BY <1>1, <1>5
  <2>2. s \in 0 .. c - 1 /\ m = c * q + s
    <3> DEFINE B == q * c
    <3>1. B \in Nat
      BY <1>7
    <3>2. m \in Nat /\ B <= m /\ m <= B + c /\ m # B + c
      BY <1>8, <1>11, <2>1
    <3>3. s = m - B /\ c * q = B
      BY <2>1
    <3> HIDE DEF B, s
    <3> QED
      BY <1>5, <3>1, <3>2, <3>3
  <2>3. m \div c = q
    <3> HIDE DEF s
    <3> QED
      BY <1>1, <1>5, <1>8, <2>2, DivisionUnique
  <2>4. QuotientOf(p, n, d) = q /\ q # q + 1
    BY <1>1, <1>9, <2>3
  <2> QED
    BY <2>4 DEF q, r
<1> QED
  BY <1>10, <1>11

\* It is exact if dividend and divisor are multiples of one power of two, and the
\* divisor a small one.
LEMMA QuotientExact ==
    ASSUME NEW p \in Nat, NEW b \in Nat, b <= p, NEW n \in Nat, NEW d \in Nat \ {0},
           n < d * pow2[b],
           NEW i \in Nat, NEW W \in Nat, NEW N \in Nat, d = W * pow2[i], n = N * pow2[i],
           W < 2 * pow2[p - b]
    PROVE  QuotientOf(p, n, d) = n \div d
<1> DEFINE q == n \div d
           r == n % d
           c == pow2[i]
           e == pow2[p - b]
<1>1. n = d * q + r /\ q \in Nat /\ r \in 0 .. d - 1
  <2>1. n \in Int /\ n >= 0
    OBVIOUS
  <2> QED
    BY ONLY <2>1, d \in Nat \ {0}, Division
<1>2. c \in Nat \ {0} /\ e \in Nat \ {0}
  BY Pow2Type
<1>3. SUFFICES ASSUME QuotientOf(p, n, d) = q + 1 PROVE FALSE
  BY QuotientNear
<1>4. 2 * ((d - r) * e) <= d
  BY <1>3, QuotientNear
<1>5. d = W * c /\ n = N * c /\ W < 2 * e
  OBVIOUS
<1> HIDE DEF q, r, c, e
<1> DEFINE z == W * (q + 1) - N
<1>6. d - r = z * c /\ z \in Int
  <2>1. W * (q + 1) \in Int /\ (W * (q + 1) - N) * c = W * c * (q + 1) - N * c
    BY <1>1, <1>2
  <2>2. d * (q + 1) = d * q + d
    BY <1>1
  <2>3. d - r = d * (q + 1) - n
    BY <1>1, <2>2
  <2> QED
    BY <1>5, <2>1, <2>3
<1> HIDE DEF z
<1>7. z >= 1
  <2>1. z * c > 0
    BY <1>1, <1>6
  <2>2. c * 0 < c * z
    BY <1>2, <1>6, <2>1
  <2>3. 0 < z
    BY <1>2, <1>6, <2>2, Times
  <2> QED
    BY <1>6, <2>3
<1>8. (d - r) * e = c * (z * e) /\ z * e \in Int
  BY <1>2, <1>6
<1>9. e <= z * e
  <2>1. e * 1 <= e * z
    BY <1>2, <1>6, <1>7, Times
  <2> QED
    BY <1>2, <1>6, <2>1
<1>10. W < 2 * (z * e)
  BY <1>2, <1>5, <1>8, <1>9
<1>11. c * W < c * (2 * (z * e))
  <2>1. 2 * (z * e) \in Int
    BY <1>8
  <2> QED
    BY <1>2, <1>10, <2>1, Times
<1>12. c * (2 * (z * e)) = 2 * (c * (z * e)) /\ c * W = d
  BY <1>2, <1>5, <1>8
<1> DEFINE X == c * (z * e)
<1>13. 2 * X <= d /\ d < 2 * X /\ X \in Int
  <2>1. X \in Int
    BY <1>2, <1>8
  <2>2. (d - r) * e = X /\ c * (2 * (z * e)) = 2 * X
    BY <1>8, <1>12
  <2> HIDE DEF X
  <2> QED
    BY <1>4, <1>11, <1>12, <2>1, <2>2
<1> HIDE DEF X
<1> QED
  BY <1>13

\* An odd factor of a multiple of a power of two leaves the power in the other.
LEMMA OddFactor ==
    ASSUME NEW q \in Nat
    PROVE  \A n \in Nat : \A a, s \in Nat :
              (2 * q + 1) * a = s * pow2[n] => \E c \in Nat : a = c * pow2[n] /\ (2 * q + 1) * c = s
<1> DEFINE o == 2 * q + 1
           P(n) == \A a, s \in Nat :
                      o * a = s * pow2[n] => \E c \in Nat : a = c * pow2[n] /\ o * c = s
           S == {n \in Nat : P(n)}
<1>1. o \in Nat
  OBVIOUS
<1>2. 0 \in S
  <2>1. ASSUME NEW a \in Nat, NEW s \in Nat, o * a = s * pow2[0]
        PROVE  \E c \in Nat : a = c * pow2[0] /\ o * c = s
    <3>1. pow2[0] = 1
      BY Pow2Next
    <3>2. a = a * pow2[0] /\ o * a = s
      BY <2>1, <3>1
    <3> QED
      BY <3>2
  <2> QED
    BY <2>1
<1>3. ASSUME NEW n \in Nat, n \in S PROVE n + 1 \in S
  <2>1. ASSUME NEW a \in Nat, NEW s \in Nat, o * a = s * pow2[n + 1]
        PROVE  \E c \in Nat : a = c * pow2[n + 1] /\ o * c = s
    <3>1. pow2[n + 1] = 2 * pow2[n] /\ pow2[n] \in Nat
      BY Pow2Next, Pow2Type
    <3>2. s * pow2[n + 1] = (2 * s) * pow2[n] /\ 2 * s \in Nat
      BY <3>1
    <3>3. PICK c \in Nat : a = c * pow2[n] /\ o * c = 2 * s
      BY <1>3, <2>1, <3>2
    <3>4. q * c \in Nat /\ o * c = 2 * (q * c) + c
      OBVIOUS
    <3> DEFINE h == s - q * c
    <3>5. h \in Nat /\ c = 2 * h
      BY <3>3, <3>4
    <3>6. a = h * pow2[n + 1]
      <4> HIDE DEF h
      <4>1. (2 * h) * pow2[n] = h * (2 * pow2[n])
        BY <3>1, <3>5
      <4> QED
        BY <3>1, <3>3, <3>5, <4>1
    <3>7. o * h = s
      <4> HIDE DEF h, o
      <4>1. o * (2 * h) = 2 * (o * h) /\ o * h \in Int
        BY <1>1, <3>5
      <4> QED
        BY <3>3, <3>5, <4>1
    <3> QED
      BY <3>5, <3>6, <3>7
  <2> QED
    BY <2>1
<1>4. Nat \subseteq S
  <2> HIDE DEF S
  <2> QED
    BY ONLY <1>2, <1>3, Induction
<1> QED
  BY <1>4

\* The nearest multiple of d to a = k * d + l.
LEMMA NearestMultiple ==
    ASSUME NEW a \in Nat, NEW d \in Nat \ {0}, NEW k \in Int, NEW l \in Int, a = k * d + l
    PROVE  /\ l >= 0 /\ l < d =>
                 /\ a \div d = k
                 /\ NearestInteger(a, d) =
                       IF 2 * l > d \/ (2 * l = d /\ k % 2 = 1) THEN k + 1 ELSE k
           /\ l < 0 /\ 2 * l >= -d /\ (2 * l = -d => k % 2 = 0) => NearestInteger(a, d) = k
<1>1. ASSUME l >= 0, l < d
      PROVE  a \div d = k /\ a % d = l
  <2>1. a = d * k + l /\ l \in 0 .. d - 1
    BY <1>1
  <2> QED
    BY <2>1, DivisionUnique
<1>2. ASSUME l < 0, 2 * l >= -d, 2 * l = -d => k % 2 = 0
      PROVE  NearestInteger(a, d) = k
  <2>1. d * (k - 1) = k * d - d
    OBVIOUS
  <2>2. a = d * (k - 1) + (d + l) /\ d + l \in 0 .. d - 1 /\ k - 1 \in Int
    BY <1>2, <2>1
  <2>3. a \div d = k - 1 /\ a % d = d + l
    <3> DEFINE r == d + l
               j == k - 1
    <3>1. a = d * j + r /\ r \in 0 .. d - 1 /\ j \in Int
      BY <2>2
    <3> HIDE DEF r, j
    <3>2. a \div d = j /\ a % d = r
      BY <3>1, DivisionUnique
    <3> QED
      BY <3>2 DEF r, j
  <2>4. 2 * (d + l) > d \/ (2 * (d + l) = d /\ (k - 1) % 2 = 1)
    BY <1>2
  <2>5. NearestInteger(a, d) = (k - 1) + 1
    BY <2>3, <2>4 DEF NearestInteger
  <2> QED
    BY <2>5
<1>3. ASSUME l >= 0, l < d
      PROVE  NearestInteger(a, d) = IF 2 * l > d \/ (2 * l = d /\ k % 2 = 1) THEN k + 1 ELSE k
  BY <1>1, <1>3 DEF NearestInteger
<1> QED
  BY <1>1, <1>2, <1>3

-----------------------------------------------------------------------------
(* What is left of a dividend is a number: a multiple of a power of two of *)
(* which the divisor is a small multiple.                                  *)

\* A factor is cancelled.
LEMMA Cancel ==
    ASSUME NEW a \in Int, NEW b \in Int, NEW c \in Nat \ {0}, a * c = b * c
    PROVE  a = b
<1>1. ASSUME NEW u \in Int, NEW v \in Int, u < v PROVE c * u < c * v
  BY <1>1, Times
<1>2. c * a = a * c /\ c * b = b * c /\ a * c \in Int /\ b * c \in Int
  OBVIOUS
<1>3. ~(a < b)
  BY <1>1, <1>2
<1>4. ~(b < a)
  BY <1>1, <1>2
<1> QED
  BY <1>3, <1>4

\* The integers that are numbers, up to the largest exponent.
LEMMA ShortExact ==
    ASSUME NEW m, NEW n \in Int, NEW i \in Nat, NEW j \in Nat,
           AbsValue(n) = i * pow2[j], i < 2 * IMPBIT, j <= 2 * EXPBIAS - 1
    PROVE  /\ \E v \in Patterns : ~Negative(v) /\ Magnitude(v) < EXPBITS /\ Units(v) = i * pow2[j]
           /\ RoundedIn(m, n, 1) \in Patterns /\ Finite(RoundedIn(m, n, 1))
           /\ Value(RoundedIn(m, n, 1)) = n
           /\ Nearest(n) = n
<1>1. /\ IMPBIT \in Nat \ {0} /\ EXPBIAS \in Nat /\ EXPBITS = (2 * EXPBIAS + 1) * IMPBIT
      /\ SIGNBIT = (2 * EXPBIAS + 2) * IMPBIT /\ EXPBIAS >= 3
  BY Widths
<1>2. PICK v \in Patterns : ~Negative(v) /\ Magnitude(v) < EXPBITS /\ Units(v) = i * pow2[j]
  <2>1. CASE j <= 2 * EXPBIAS - 2
    BY <1>1, <2>1, NumberExists
  <2>2. CASE j = 2 * EXPBIAS - 1 /\ i < IMPBIT
    <3>1. j - 1 \in Nat /\ j - 1 <= 2 * EXPBIAS - 2 /\ j = (j - 1) + 1
      BY <1>1, <2>2
    <3>2. pow2[j] = 2 * pow2[j - 1] /\ pow2[j - 1] \in Nat
      BY <3>1, Pow2Next, Pow2Type
    <3>3. 2 * i \in Nat /\ 2 * i <= 2 * IMPBIT
      BY <1>1, <2>2
    <3>4. i * pow2[j] = (2 * i) * pow2[j - 1]
      BY <3>2
    <3> QED
      BY <3>1, <3>3, <3>4, NumberExists
  <2>3. CASE j = 2 * EXPBIAS - 1 /\ i >= IMPBIT
    <3>1. j * IMPBIT = 2 * (EXPBIAS * IMPBIT) - IMPBIT /\ EXPBIAS * IMPBIT \in Nat
          /\ EXPBITS = 2 * (EXPBIAS * IMPBIT) + IMPBIT
          /\ SIGNBIT = 2 * (EXPBIAS * IMPBIT) + 2 * IMPBIT
      <4>1. j * IMPBIT = (2 * EXPBIAS - 1) * IMPBIT
        BY <2>3
      <4> HIDE DEF IMPBIT, EXPBIAS, EXPBITS, SIGNBIT
      <4> QED
        BY <1>1, <4>1
    <3> DEFINE B == EXPBIAS * IMPBIT
    <3>2. i + j * IMPBIT < EXPBITS /\ i + j * IMPBIT < SIGNBIT /\ i + j * IMPBIT \in Nat
      <4>1. B \in Nat /\ j * IMPBIT = 2 * B - IMPBIT /\ EXPBITS = 2 * B + IMPBIT
            /\ SIGNBIT = 2 * B + 2 * IMPBIT /\ B >= IMPBIT
        <5>1. IMPBIT * 1 <= IMPBIT * EXPBIAS
          BY <1>1, Times
        <5> QED
          BY <1>1, <3>1, <5>1
      <4> HIDE DEF B, IMPBIT, EXPBITS, SIGNBIT
      <4> QED
        BY <1>1, <4>1
    <3> HIDE DEF B
    <3>3. /\ i + j * IMPBIT \in Patterns /\ ~Negative(i + j * IMPBIT)
          /\ Units(i + j * IMPBIT) = i * pow2[j]
      <4>1. i <= 2 * IMPBIT /\ (j > 0 => i >= IMPBIT)
        BY <1>1, <2>3
      <4> QED
        BY <3>2, <4>1, Assembled
    <3>4. Magnitude(i + j * IMPBIT) = i + j * IMPBIT
      BY <3>3, MagnitudeIs
    <3> QED
      BY <3>2, <3>3, <3>4
  <2> QED
    BY <1>1, <2>1, <2>2, <2>3
<1>3. /\ RoundedIn(m, n, 1) \in Patterns
      /\ RoundedIn(m, n, 1) = (IF n < 0 THEN SIGNBIT ELSE 0) + Magnitude(v)
      /\ (Negative(RoundedIn(m, n, 1)) <=> n < 0)
  <2>1. AbsValue(n) = 1 * Units(v)
    <3>1. Units(v) \in Nat
      BY UnitsBounds
    <3> QED
      BY <1>2, <3>1
  <2> QED
    BY <1>2, <2>1, RoundedInExact, RoundedInType
<1>4. Magnitude(RoundedIn(m, n, 1)) = Magnitude(v)
  <2>1. SIGNBIT \in Nat /\ Magnitude(v) \in Nat /\ Magnitude(v) < SIGNBIT
    BY Format, Fields
  <2> QED
    BY <1>3, <2>1 DEF Magnitude, Negative
<1>5. /\ Units(RoundedIn(m, n, 1)) = Units(v) /\ Units(v) \in Nat
      /\ Units(Magnitude(v)) = Units(v)
  <2>1. /\ Units(Magnitude(RoundedIn(m, n, 1))) = Units(RoundedIn(m, n, 1))
        /\ Units(Magnitude(v)) = Units(v) /\ Units(v) \in Nat
    BY <1>3, UnitsBounds
  <2> QED
    BY <1>4, <2>1
<1>6. Finite(RoundedIn(m, n, 1))
  BY <1>2, <1>4 DEF Finite
<1>7. AbsValue(n) = Units(v)
  BY <1>2
<1>8. Value(RoundedIn(m, n, 1)) = n
  <2>1. Value(RoundedIn(m, n, 1)) = IF n < 0 THEN -Units(v) ELSE Units(v)
    BY <1>3, <1>5, ValueIs
  <2> QED
    BY <1>5, <1>7, <2>1 DEF AbsValue
<1>9. Nearest(n) = n
  <2>1. Magnitude(v) <= EXPBITS
    <3>1. EXPBITS \in Nat /\ Magnitude(v) \in Nat
      BY Format, Fields
    <3> QED
      BY <1>2, <3>1
  <2>2. Rounded(1 * Units(v), 1) = Magnitude(v)
    BY <2>1, RoundedExact
  <2>3. 1 * Units(v) = Units(v)
    BY <1>5
  <2>4. Rounded(AbsValue(n), 1) = Magnitude(v)
    BY <1>7, <2>2, <2>3
  <2>5. Nearest(n) = (IF n < 0 THEN -1 ELSE 1) * Units(v)
    BY <1>5, <2>4 DEF Nearest
  <2> QED
    BY <1>5, <1>7, <2>5 DEF AbsValue
<1> QED
  BY <1>2, <1>3, <1>6, <1>8, <1>9

\* d has few bits and a none below them.
Aligned(a, d) == \E i \in 0 .. 2 * EXPBIAS - 1, f \in 0 .. 2 * IMPBIT - 1, n \in Int :
                     d = f * pow2[i] /\ a = n * pow2[i]

\* What is not larger than d is then a number,
LEMMA AlignedExact ==
    ASSUME NEW m, NEW a \in Int, NEW d \in Nat, Aligned(a, d), AbsValue(a) <= d
    PROVE  /\ RoundedIn(m, a, 1) \in Patterns /\ Finite(RoundedIn(m, a, 1))
           /\ Value(RoundedIn(m, a, 1)) = a
           /\ Nearest(a) = a
<1>1. EXPBIAS \in Nat /\ IMPBIT \in Nat /\ EXPBIAS >= 3
  BY Widths
<1>2. PICK i \in 0 .. 2 * EXPBIAS - 1, f \in 0 .. 2 * IMPBIT - 1, n \in Int :
          d = f * pow2[i] /\ a = n * pow2[i]
  BY DEF Aligned
<1> DEFINE c == pow2[i]
           k == AbsValue(n)
<1>3. i \in Nat /\ i <= 2 * EXPBIAS - 1 /\ c \in Nat \ {0} /\ f \in Nat /\ f < 2 * IMPBIT
  BY <1>1, <1>2, Pow2Type
<1>4. k \in Nat /\ AbsValue(a) = k * c
  <2>1. CASE n >= 0
    <3>1. c * 0 <= c * n
      BY <1>3, <2>1, Times
    <3> QED
      BY <1>2, <1>3, <2>1, <3>1 DEF AbsValue
  <2>2. CASE n < 0
    <3>1. c * n < c * 0
      BY <1>3, <2>2, Times
    <3>2. a < 0
      BY <1>2, <1>3, <3>1
    <3>3. AbsValue(a) = -(n * c) /\ k = -n
      BY <1>2, <2>2, <3>2 DEF AbsValue
    <3> QED
      BY <1>3, <2>2, <3>3
  <2> QED
    BY <2>1, <2>2
<1> HIDE DEF k, c
<1>5. k < 2 * IMPBIT
  <2>1. c * k <= c * f
    BY <1>2, <1>3, <1>4 DEF c
  <2>2. k <= f
    BY <1>3, <1>4, <2>1, Times
  <2> QED
    BY <1>1, <1>3, <1>4, <2>2
<1> QED
  BY <1>3, <1>4, <1>5, ShortExact DEF c

\* and so is what is left after multiples of d are taken away.
LEMMA AlignedLeft ==
    ASSUME NEW a \in Int, NEW d \in Nat, NEW t \in Int, Aligned(a, d)
    PROVE  Aligned(a - t * d, d) /\ Aligned(t * d - a, d)
<1>1. PICK i \in 0 .. 2 * EXPBIAS - 1, f \in 0 .. 2 * IMPBIT - 1, n \in Int :
          d = f * pow2[i] /\ a = n * pow2[i]
  BY DEF Aligned
<1>2. EXPBIAS \in Nat /\ IMPBIT \in Nat
  BY Widths
<1> DEFINE c == pow2[i]
<1>3. c \in Nat /\ f \in Int
  BY <1>2, Pow2Type
<1>4. d = f * c /\ a = n * c
  BY <1>1
<1> HIDE DEF c
<1>5. /\ a - t * d = (n - t * f) * c /\ n - t * f \in Int
      /\ t * d - a = (t * f - n) * c /\ t * f - n \in Int
  BY <1>3, <1>4
<1> QED
  BY <1>1, <1>5 DEF Aligned, c

\* The divisor is divided by a power of two from one round to the next.
LEMMA AlignedLower ==
    ASSUME NEW a \in Int, NEW d \in Nat, NEW k \in Nat, Aligned(a, d * pow2[k])
    PROVE  Aligned(a, d)
<1>1. PICK i \in 0 .. 2 * EXPBIAS - 1, f \in 0 .. 2 * IMPBIT - 1, n \in Int :
          d * pow2[k] = f * pow2[i] /\ a = n * pow2[i]
  BY DEF Aligned
<1>2. EXPBIAS \in Nat /\ IMPBIT \in Nat /\ i \in Nat /\ f \in Nat /\ EXPBIAS >= 3 /\ IMPBIT > 0
  BY Widths
<1>3. CASE i >= k
  <2>1. i - k \in Nat /\ i - k \in 0 .. 2 * EXPBIAS - 1 /\ i = (i - k) + k
    BY <1>2, <1>3
  <2>2. pow2[i] = pow2[i - k] * pow2[k]
    BY <2>1, Pow2Sum
  <2> DEFINE c == pow2[i - k]
             e == pow2[k]
  <2>3. c \in Nat \ {0} /\ e \in Nat \ {0} /\ pow2[i] = c * e
    BY <2>1, <2>2, Pow2Type
  <2>4. d * e = f * (c * e) /\ a = n * (c * e)
    BY <1>1, <2>2
  <2> HIDE DEF c, e
  <2>5. d * e = (f * c) * e /\ a = (n * e) * c /\ f * c \in Int /\ n * e \in Int
    BY <1>2, <2>3, <2>4
  <2>6. d = f * c
    BY <2>3, <2>5, Cancel
  <2> QED
    BY <2>1, <2>5, <2>6 DEF Aligned, c
<1>4. CASE i < k
  <2>1. k - i \in Nat /\ k = (k - i) + i
    BY <1>2, <1>4
  <2>2. pow2[k] = pow2[k - i] * pow2[i]
    BY <1>2, <2>1, Pow2Sum
  <2> DEFINE c == pow2[k - i]
             e == pow2[i]
  <2>3. c \in Nat \ {0} /\ e \in Nat \ {0}
    BY <1>2, <2>1, Pow2Type
  <2>4. d * (c * e) = f * e
    BY <1>1, <2>2
  <2>5. a = n * e
    BY <1>1
  <2> HIDE DEF c, e
  <2>6. (d * c) * e = f * e /\ d * c \in Int
    BY <2>3, <2>4
  <2>7. d * c = f
    BY <1>2, <2>3, <2>6, Cancel
  <2>8. d <= f
    <3>1. d * 1 <= d * c
      BY <2>3, Times
    <3> QED
      BY <2>3, <2>7, <3>1
  <2>9. d \in 0 .. 2 * IMPBIT - 1
    BY <1>2, <2>8
  <2>10. d = d * pow2[0] /\ a = a * pow2[0] /\ 0 \in 0 .. 2 * EXPBIAS - 1
    <3>1. pow2[0] = 1
      BY Pow2Next
    <3> QED
      BY <1>2, <3>1
  <2> QED
    BY <2>9, <2>10 DEF Aligned
<1> QED
  BY <1>2, <1>3, <1>4

\* n units have their leading bit at place k, whether or not they are a normal number.
Leading(n, k) == \E f \in IMPBIT .. 2 * IMPBIT - 1 : n * IMPBIT = f * pow2[k]

\* The larger of two has the higher leading bit, and less than one bit more than that.
LEMMA LeadingOrder ==
    ASSUME NEW a \in Nat, NEW c \in Nat, NEW i \in Nat, NEW j \in Nat,
           Leading(a, i), Leading(c, j)
    PROVE  /\ c <= a => j <= i
           /\ j <= i => a < c * pow2[i - j + 1]
<1>1. IMPBIT \in Nat \ {0}
  BY Widths
<1>2. PICK f \in IMPBIT .. 2 * IMPBIT - 1 : a * IMPBIT = f * pow2[i]
  BY DEF Leading
<1>3. PICK g \in IMPBIT .. 2 * IMPBIT - 1 : c * IMPBIT = g * pow2[j]
  BY DEF Leading
<1> DEFINE p == pow2[i]
           q == pow2[j]
<1>4. /\ p \in Nat \ {0} /\ q \in Nat \ {0} /\ f \in Nat /\ g \in Nat
      /\ f < 2 * IMPBIT /\ IMPBIT <= g /\ a * IMPBIT = f * p /\ c * IMPBIT = g * q
  BY <1>1, <1>2, <1>3, Pow2Type
<1>5. ASSUME c <= a PROVE j <= i
  <2>1. SUFFICES ASSUME i < j PROVE FALSE
    OBVIOUS
  <2>2. 2 * p <= q
    BY <2>1, Pow2Grows
  <2> HIDE DEF p, q, IMPBIT
  <2>3. p * f < p * (2 * IMPBIT) /\ IMPBIT * (2 * p) <= IMPBIT * q /\ q * IMPBIT <= q * g
        /\ IMPBIT * c <= IMPBIT * a
    BY <1>1, <1>4, <1>5, <2>2, Times
  <2> DEFINE B == p * IMPBIT
             C == q * IMPBIT
  <2>4. /\ B \in Nat /\ C \in Nat /\ p * (2 * IMPBIT) = 2 * B /\ IMPBIT * (2 * p) = 2 * B
        /\ IMPBIT * q = C /\ p * f = a * IMPBIT /\ q * g = c * IMPBIT
        /\ IMPBIT * c = c * IMPBIT /\ IMPBIT * a = a * IMPBIT
    BY <1>1, <1>4
  <2>5. a * IMPBIT \in Nat /\ c * IMPBIT \in Nat
    BY <1>1
  <2> DEFINE A == a * IMPBIT
             D == c * IMPBIT
  <2>6. A < 2 * B /\ 2 * B <= C /\ C <= D /\ D <= A /\ A \in Nat /\ D \in Nat
    BY <2>3, <2>4, <2>5
  <2> HIDE DEF A, B, C, D
  <2> QED
    BY <2>4, <2>6
<1>6. ASSUME j <= i PROVE a < c * pow2[i - j + 1]
  <2>1. i - j + 1 \in Nat /\ (i - j + 1) + j = i + 1
    BY <1>6
  <2> DEFINE r == pow2[i - j + 1]
  <2>2. r * q = 2 * p /\ r \in Nat \ {0}
    <3>1. pow2[(i - j + 1) + j] = r * q
      BY <2>1, Pow2Sum
    <3>2. pow2[i + 1] = 2 * p
      BY Pow2Next
    <3> QED
      BY <2>1, <3>1, <3>2, Pow2Type
  <2> HIDE DEF p, q, r, IMPBIT
  <2>3. p * f < p * (2 * IMPBIT) /\ (2 * p) * IMPBIT <= (2 * p) * g
    BY <1>1, <1>4, Times
  <2>4. /\ p * f = a * IMPBIT /\ p * (2 * IMPBIT) = (2 * p) * IMPBIT
        /\ (2 * p) * g = (r * q) * g
    BY <1>1, <1>4, <2>2
  <2>5. (r * q) * g = r * (c * IMPBIT)
    <3>1. (r * q) * g = r * (g * q)
      BY <1>4, <2>2
    <3> QED
      BY <1>4, <3>1
  <2>6. r * (c * IMPBIT) = IMPBIT * (c * r) /\ a * IMPBIT = IMPBIT * a
        /\ c * r \in Nat /\ IMPBIT * (c * r) \in Nat /\ IMPBIT * a \in Nat
        /\ (2 * p) * IMPBIT \in Nat
    BY <1>1, <1>4, <2>2
  <2> DEFINE A == IMPBIT * a
             B == IMPBIT * (c * r)
             C == (2 * p) * IMPBIT
  <2>7. A < C /\ C <= B /\ A \in Nat /\ B \in Nat /\ C \in Nat
    BY <2>3, <2>4, <2>5, <2>6
  <2>8. A < B
    <3> HIDE DEF A, B, C
    <3> QED
      BY <2>7
  <2> QED
    BY <1>1, <2>6, <2>8, Times DEF r
<1> QED
  BY <1>5, <1>6

\* The divisor may be moved up to the leading bit of the dividend.
LEMMA LeadingAligned ==
    ASSUME NEW a \in Nat, NEW c \in Nat, NEW i \in Nat, NEW j \in Nat, NEW k \in Nat,
           Leading(a, i), Leading(c, j), j + k <= i, i <= 2 * EXPBIAS - 1 + M
    PROVE  Aligned(a, c * pow2[k])
<1>1. IMPBIT \in Nat \ {0} /\ EXPBIAS \in Nat /\ EXPBIAS >= 3 /\ M \in Nat
  BY Widths, SizeAssumption
<1>2. PICK f \in IMPBIT .. 2 * IMPBIT - 1 : a * IMPBIT = f * pow2[i]
  BY DEF Leading
<1>3. PICK g \in IMPBIT .. 2 * IMPBIT - 1 : c * IMPBIT = g * pow2[j]
  BY DEF Leading
<1> DEFINE e == pow2[k]
           d == c * e
<1>4. e \in Nat \ {0} /\ d \in Nat /\ f \in Nat /\ g \in Nat /\ g \in 0 .. 2 * IMPBIT - 1
  BY <1>1, Pow2Type
<1>5. d * IMPBIT = g * pow2[j + k]
  <2>1. pow2[j + k] = pow2[j] * e
    BY Pow2Sum
  <2> DEFINE q == pow2[j]
  <2>2. q \in Nat /\ c * IMPBIT = g * q
    BY <1>3, Pow2Type
  <2> HIDE DEF q, e
  <2>3. (c * e) * IMPBIT = (c * IMPBIT) * e
    BY <1>1, <1>4
  <2>4. (g * q) * e = g * (q * e)
    BY <1>4, <2>2
  <2> QED
    BY <2>1, <2>2, <2>3, <2>4 DEF q
<1>6. CASE j + k >= M
  <2> DEFINE n == j + k - M
             r == i - (j + k)
             s == pow2[n]
             t == pow2[r]
  <2>1. /\ n \in Nat /\ j + k = n + M /\ r \in Nat /\ i = (n + r) + M /\ n + r \in Nat
        /\ n \in 0 .. 2 * EXPBIAS - 1
    BY <1>1, <1>6
  <2>2. pow2[j + k] = s * IMPBIT /\ pow2[i] = (s * t) * IMPBIT
    <3> HIDE DEF n, r
    <3>1. pow2[n + M] = s * pow2[M] /\ pow2[n + r] = s * t /\ pow2[(n + r) + M] = pow2[n + r] * pow2[M]
      BY <1>1, <2>1, Pow2Sum
    <3> QED
      BY <2>1, <3>1 DEF IMPBIT
  <2>3. s \in Nat /\ t \in Nat
    BY <2>1, Pow2Type
  <2> HIDE DEF s, t, d, n, r, IMPBIT
  <2>4. d * IMPBIT = (g * s) * IMPBIT /\ g * s \in Int /\ a * IMPBIT = ((f * t) * s) * IMPBIT
        /\ (f * t) * s \in Int /\ f * t \in Int
    <3>1. g * (s * IMPBIT) = (g * s) * IMPBIT /\ f * ((s * t) * IMPBIT) = ((f * t) * s) * IMPBIT
      BY <1>1, <1>4, <2>3
    <3> QED
      BY <1>2, <1>4, <1>5, <2>2, <2>3, <3>1
  <2>5. d = g * s /\ a = (f * t) * s
    BY <1>1, <1>4, <2>4, Cancel
  <2> QED
    BY <1>4, <2>1, <2>4, <2>5 DEF Aligned, s, d, e
<1>7. CASE j + k < M
  <2>1. pow2[j + k] <= IMPBIT /\ pow2[j + k] \in Nat
    <3>1. j + k \in Nat /\ j + k <= M /\ M \in Nat
      BY <1>1, <1>7
    <3> QED
      BY <3>1, Pow2Grows, Pow2Type DEF IMPBIT
  <2> DEFINE p == pow2[j + k]
  <2>2. d <= g
    <3>1. g * p <= g * IMPBIT
      BY <1>1, <1>4, <2>1, Times
    <3> HIDE DEF d, p, IMPBIT
    <3>2. IMPBIT * d <= IMPBIT * g
      BY <1>1, <1>4, <1>5, <3>1 DEF p
    <3> QED
      BY <1>1, <1>4, <3>2, Times
  <2>3. d \in 0 .. 2 * IMPBIT - 1
    <3> HIDE DEF d
    <3> QED
      BY <1>1, <1>4, <2>2
  <2>4. d = d * pow2[0] /\ a = a * pow2[0] /\ 0 \in 0 .. 2 * EXPBIAS - 1
    <3>1. pow2[0] = 1
      BY Pow2Next
    <3> HIDE DEF d
    <3> QED
      BY <1>1, <1>4, <3>1
  <2> HIDE DEF d
  <2>5. Aligned(a, d)
    BY <2>3, <2>4 DEF Aligned
  <2> QED
    BY <2>5 DEF d
<1> QED
  BY <1>1, <1>6, <1>7

\* The leading bit of a normal number.
LEMMA NormalLeading ==
    ASSUME NEW u \in Patterns, ExponentField(u) > 0, Finite(u)
    PROVE  /\ Leading(Units(u), ExponentField(u) - 1 + M)
           /\ ExponentField(u) \in 1 .. 2 * EXPBIAS
<1>1. IMPBIT \in Nat \ {0} /\ EXPBIAS \in Nat /\ M \in Nat /\ BIASEDEMAX = 2 * EXPBIAS
  BY Widths, SizeAssumption
<1> DEFINE e == ExponentField(u)
<1>2. e \in 1 .. 2 * EXPBIAS /\ e - 1 \in Nat /\ Fraction(u) \in 0 .. IMPBIT - 1
  BY <1>1, Fields
<1>3. Units(u) = (IMPBIT + Fraction(u)) * pow2[e - 1]
  BY UnitsBounds
<1>4. pow2[e - 1 + M] = pow2[e - 1] * IMPBIT /\ pow2[e - 1] \in Nat
  BY <1>1, <1>2, Pow2Sum, Pow2Type DEF IMPBIT
<1> DEFINE f == IMPBIT + Fraction(u)
           p == pow2[e - 1]
<1>5. f \in IMPBIT .. 2 * IMPBIT - 1 /\ p \in Nat /\ Units(u) = f * p
  BY <1>1, <1>2, <1>3, <1>4
<1>6. Units(u) * IMPBIT = f * (p * IMPBIT)
  <2> HIDE DEF f, p
  <2> QED
    BY <1>1, <1>5
<1> QED
  BY <1>2, <1>4, <1>5, <1>6 DEF Leading

\* A larger number is a multiple of the unit of a smaller one.
LEMMA NumbersAligned ==
    ASSUME NEW u \in Patterns, NEW v \in Patterns, Finite(u), Finite(v), Units(v) <= Units(u)
    PROVE  Aligned(Units(u), Units(v))
<1>1. IMPBIT \in Nat \ {0} /\ EXPBIAS \in Nat /\ EXPBIAS >= 3 /\ BIASEDEMAX = 2 * EXPBIAS
  BY Widths
<1> DEFINE e == ExponentField(u)
           k == ExponentField(v)
<1>2. e \in 0 .. 2 * EXPBIAS /\ k \in 0 .. 2 * EXPBIAS /\ Fraction(v) \in 0 .. IMPBIT - 1
      /\ Fraction(u) \in 0 .. IMPBIT - 1
  BY <1>1, Fields
<1>3. CASE k = 0
  <2>1. Units(v) \in 0 .. 2 * IMPBIT - 1 /\ Units(u) \in Int /\ Units(v) \in Nat
    BY <1>1, <1>3, UnitsBounds
  <2>2. Units(v) = Units(v) * pow2[0] /\ Units(u) = Units(u) * pow2[0]
        /\ 0 \in 0 .. 2 * EXPBIAS - 1
    BY <1>1, <2>1, Pow2Next
  <2> QED
    BY <2>1, <2>2 DEF Aligned
<1>4. CASE k > 0
  <2>1. /\ k - 1 \in Nat /\ pow2[k - 1] \in Nat \ {0} /\ IMPBIT * pow2[k - 1] <= Units(v)
        /\ Units(v) = (IMPBIT + Fraction(v)) * pow2[k - 1]
    BY <1>4, UnitsBounds
  <2>2. k <= e
    <3>1. SUFFICES ASSUME e < k PROVE FALSE
      BY <1>2
    <3>2. e <= k - 1 /\ e \in Nat
      BY <1>2, <3>1
    <3>3. pow2[e] <= pow2[k - 1] /\ pow2[e] \in Nat \ {0}
      BY <2>1, <3>2, Pow2Grows, Pow2Type
    <3>4. IMPBIT * pow2[e] <= IMPBIT * pow2[k - 1]
      BY <1>1, <2>1, <3>3, Times
    <3>5. Units(u) < IMPBIT * pow2[e] /\ Units(u) \in Nat
      <4>1. CASE e > 0
        BY <4>1, UnitsBounds
      <4>2. CASE e = 0
        <5>1. pow2[0] = 1
          BY Pow2Next
        <5> QED
          BY <1>1, <4>2, <5>1, UnitsBounds
      <4> QED
        BY <1>2, <4>1, <4>2
    <3>6. IMPBIT * pow2[e] \in Nat /\ IMPBIT * pow2[k - 1] \in Nat /\ Units(v) \in Nat
      BY <1>1, <2>1, <3>3, UnitsBounds
    <3> QED
      BY <2>1, <3>4, <3>5, <3>6
  <2>3. /\ Units(u) = (IMPBIT + Fraction(u)) * pow2[e - 1] /\ e - 1 \in Nat
    <3>1. ExponentField(u) > 0
      BY <1>2, <1>4, <2>2
    <3> QED
      BY <3>1, UnitsBounds
  <2>4. pow2[e - 1] = pow2[k - 1] * pow2[(e - 1) - (k - 1)]
        /\ pow2[(e - 1) - (k - 1)] \in Nat
    BY <1>2, <2>1, <2>2, <2>3, Pow2Grows
  <2> DEFINE f == IMPBIT + Fraction(u)
             p == pow2[k - 1]
             r == pow2[(e - 1) - (k - 1)]
  <2>5. f \in Int /\ p \in Nat /\ r \in Nat /\ Units(u) = f * (p * r)
    BY <1>1, <1>2, <2>1, <2>3, <2>4
  <2>6. Units(u) = (f * r) * p /\ f * r \in Int
    <3> HIDE DEF f, p, r
    <3> QED
      BY <2>5
  <2>7. k - 1 \in 0 .. 2 * EXPBIAS - 1 /\ IMPBIT + Fraction(v) \in 0 .. 2 * IMPBIT - 1
    BY <1>1, <1>2, <2>1
  <2> HIDE DEF f, r, k, e
  <2> QED
    BY <2>1, <2>6, <2>7 DEF Aligned
<1> QED
  BY <1>2, <1>3, <1>4

\* Half of a number is one unless it is subnormal or of the lowest binade.
LEMMA HalfExact ==
    ASSUME NEW u \in Patterns, ExponentField(u) > 1, Finite(u)
    PROVE  2 * Units(Rounded(Units(u), 2)) = Units(u)
<1>1. IMPBIT \in Nat \ {0} /\ EXPBIAS \in Nat /\ BIASEDEMAX = 2 * EXPBIAS /\ EXPBIAS >= 3
  BY Widths
<1> DEFINE e == ExponentField(u)
           f == IMPBIT + Fraction(u)
<1>2. e \in 2 .. 2 * EXPBIAS /\ f \in Nat /\ f < 2 * IMPBIT
  BY <1>1, Fields
<1>3. Units(u) = f * pow2[e - 1]
  <2>1. ExponentField(u) > 0
    BY <1>2
  <2> QED
    BY <2>1, UnitsBounds
<1>4. pow2[e - 1] = 2 * pow2[e - 2] /\ pow2[e - 2] \in Nat /\ e - 2 \in Nat
      /\ e - 2 <= 2 * EXPBIAS - 2
  <2> HIDE DEF e, f
  <2>1. e - 2 \in Nat /\ e - 1 = (e - 2) + 1 /\ e - 2 <= 2 * EXPBIAS - 2
    BY <1>1, <1>2
  <2>2. pow2[(e - 2) + 1] = 2 * pow2[e - 2] /\ pow2[e - 2] \in Nat
    BY <2>1, Pow2Next, Pow2Type
  <2> QED
    BY <2>1, <2>2
<1>5. PICK v \in Patterns : ~Negative(v) /\ Magnitude(v) < EXPBITS /\ Units(v) = f * pow2[e - 2]
  <2> HIDE DEF e, f
  <2>1. f <= 2 * IMPBIT
    BY <1>1, <1>2
  <2> QED
    BY <1>2, <1>4, <2>1, NumberExists
<1>6. Units(u) = 2 * Units(v)
  <2> DEFINE p == pow2[e - 2]
  <2>1. p \in Nat /\ pow2[e - 1] = 2 * p
    BY <1>4
  <2> HIDE DEF f, p
  <2>2. f * (2 * p) = 2 * (f * p)
    BY <1>2, <2>1
  <2> QED
    BY <1>3, <1>5, <2>1, <2>2 DEF p
<1>7. Magnitude(v) <= EXPBITS
  <2>1. EXPBITS \in Nat /\ Magnitude(v) \in Nat
    BY Format, Fields
  <2> QED
    BY <1>5, <2>1
<1>8. Rounded(2 * Units(v), 2) = Magnitude(v)
  BY <1>7, RoundedExact
<1> QED
  BY <1>6, <1>8, UnitsBounds

\* A quotient that is a multiple of a power of two and has few digits is not rounded.
LEMMA QuotientDyadic ==
    ASSUME NEW p \in Nat, p > 0, NEW n \in Nat, NEW d \in Nat \ {0}, NEW N \in Nat, NEW s \in Nat,
           s <= p, n * pow2[s] = N * d, N < pow2[p]
    PROVE  QuotientOf(p, n, d) = N \div pow2[s]
<1>1. pow2[p] = 2 * pow2[p - 1] /\ pow2[p - 1] \in Nat \ {0} /\ p - 1 \in Nat
  <2>1. p - 1 \in Nat /\ p = (p - 1) + 1
    OBVIOUS
  <2> QED
    BY <2>1, Pow2Next, Pow2Type
<1> DEFINE e == pow2[p - 1]
           u == pow2[s]
<1>2. e \in Nat \ {0} /\ u \in Nat \ {0} /\ pow2[p] = 2 * e
  BY <1>1, Pow2Type
<1> HIDE DEF e, u
<1>3. n * u < d * (2 * e) /\ n * u = d * N /\ n * u \in Nat
  <2>1. d * N < d * (2 * e)
    BY <1>2, Times
  <2>2. n * u = d * N /\ n * u \in Nat
    BY <1>2 DEF u
  <2> QED
    BY <2>1, <2>2
<1>4. n < d * pow2[p]
  <2>1. n * 1 <= n * u
    BY <1>2, Times
  <2>2. d * (2 * e) \in Nat
    BY <1>2
  <2> QED
    BY <1>2, <1>3, <2>1, <2>2
<1>5. PICK k \in 0 .. p :
          /\ k < p => n * pow2[k] >= d * pow2[p - 1]
          /\ QuotientOf(p, n, d) = NearestInteger(n * pow2[k], d) \div pow2[k]
  BY <1>4, QuotientSteps
<1>6. s <= k
  <2>1. SUFFICES ASSUME k < s PROVE FALSE
    BY <1>5
  <2> DEFINE v == pow2[k]
             x == pow2[s - k]
  <2>2. n * v >= d * e /\ v \in Nat \ {0}
    BY <1>5, <2>1, Pow2Type DEF e
  <2>3. s - k \in Nat /\ 1 <= s - k /\ s = k + (s - k)
    BY <1>5, <2>1
  <2>4. x >= 2 /\ x \in Nat /\ u = v * x
    <3>1. pow2[1] = 2
      BY Pow2Next
    <3>2. pow2[1] <= x /\ x \in Nat
      BY <2>3, Pow2Grows, Pow2Type
    <3>3. pow2[k + (s - k)] = v * x
      BY <1>5, <2>3, Pow2Sum
    <3> QED
      BY <2>3, <3>1, <3>2, <3>3 DEF u
  <2> HIDE DEF v, x
  <2> DEFINE a == n * v
             b == d * e
  <2>5. a \in Nat /\ b \in Nat /\ a >= b
    BY <1>2, <2>2
  <2>6. n * u = a * x /\ d * (2 * e) = 2 * b
    BY <1>2, <2>2, <2>4
  <2> HIDE DEF a, b
  <2>7. a * 2 <= a * x
    BY <2>4, <2>5, Times
  <2>8. a * x < 2 * b /\ a * x \in Nat
    BY <1>3, <2>6
  <2> QED
    BY <2>5, <2>7, <2>8
<1>7. k - s \in Nat /\ pow2[k] = u * pow2[k - s] /\ pow2[k - s] \in Nat \ {0}
  <2>1. k - s \in Nat /\ k = s + (k - s)
    BY <1>5, <1>6
  <2>2. pow2[s + (k - s)] = pow2[s] * pow2[k - s]
    BY <2>1, Pow2Sum
  <2> QED
    BY <2>1, <2>2, Pow2Type DEF u
<1> DEFINE c == pow2[k - s]
           z == N * c
<1>8. c \in Nat \ {0} /\ pow2[k] = u * c /\ z \in Nat
  BY <1>7
<1> HIDE DEF c
<1>9. n * (u * c) = d * z /\ n * (u * c) \in Nat
  <2>1. n * (u * c) = (n * u) * c /\ (d * N) * c = d * (N * c) /\ n * (u * c) \in Nat
    BY <1>2, <1>8
  <2> QED
    BY <1>3, <2>1
<1>10. NearestInteger(n * (u * c), d) = z
  <2> DEFINE m == n * (u * c)
  <2>1. m = d * z /\ m \in Nat
    BY <1>9
  <2> HIDE DEF m, z
  <2>2. m = d * z + 0 /\ 0 \in 0 .. d - 1
    BY <1>8, <2>1
  <2>3. m \div d = z /\ m % d = 0
    <3>1. m \in Int /\ z \in Int /\ d \in Nat \ {0}
      BY <1>8, <2>1
    <3> QED
      BY ONLY <2>2, <3>1, DivisionUnique
  <2>4. NearestInteger(m, d) = z
    BY <2>1, <2>3, NearestIs
  <2> QED
    BY <2>4 DEF m
<1>11. z \div (u * c) = N \div u
  <2> DEFINE q == N \div u
             r == N % u
  <2>1. q \in Int /\ r \in 0 .. u - 1 /\ N = u * q + r
    <3>1. N \in Int /\ u \in Nat \ {0}
      BY <1>2
    <3> QED
      BY ONLY <3>1, Division
  <2> HIDE DEF q, r
  <2>2. (u * q + r) * c = (u * c) * q + r * c /\ u * c \in Nat \ {0} /\ r * c \in Nat
    BY <1>2, <1>8, <2>1
  <2>3. r * c < u * c
    <3>1. c * r < c * u
      BY <1>2, <1>8, <2>1, Times
    <3> QED
      BY <1>2, <1>8, <2>1, <3>1
  <2>4. z = (u * c) * q + r * c /\ r * c \in 0 .. u * c - 1
    BY <2>1, <2>2, <2>3
  <2> DEFINE g == u * c
             h == r * c
  <2>5. z = g * q + h /\ h \in 0 .. g - 1 /\ g \in Nat \ {0} /\ z \in Int
    BY <1>8, <2>2, <2>4
  <2> HIDE DEF g, h, z
  <2>6. z \div g = q
    BY ONLY <2>1, <2>5, DivisionUnique
  <2> QED
    BY <2>6 DEF g, q
<1>12. QuotientOf(p, n, d) = NearestInteger(n * (u * c), d) \div (u * c)
  BY <1>5, <1>8
<1> QED
  BY <1>10, <1>11, <1>12 DEF u

\* So not one in the middle between two integers,
LEMMA QuotientMiddle ==
    ASSUME NEW p \in Nat, p > 0, NEW n \in Nat, NEW d \in Nat \ {0}, NEW q \in Nat,
           2 * n = (2 * q + 1) * d, 2 * q + 1 < pow2[p]
    PROVE  QuotientOf(p, n, d) = q
<1> DEFINE N == 2 * q + 1
<1>1. pow2[1] = 2
  BY Pow2Next
<1>2. n * pow2[1] = N * d /\ N \in Nat
  BY <1>1
<1>3. N \div 2 = q
  <2>1. N = 2 * q + 1 /\ 1 \in 0 .. 2 - 1 /\ N \in Int /\ 2 \in Nat \ {0}
    OBVIOUS
  <2> HIDE DEF N
  <2> QED
    BY <2>1, DivisionUnique
<1>4. QuotientOf(p, n, d) = N \div pow2[1]
  <2> HIDE DEF N
  <2>1. 1 <= p /\ 1 \in Nat
    OBVIOUS
  <2>2. N < pow2[p]
    BY DEF N
  <2> QED
    BY <1>2, <2>1, <2>2, QuotientDyadic
<1> QED
  BY <1>1, <1>3, <1>4

\* n has at most p digits, and zeros.
Short(p, n) == \E f \in Nat, j \in Nat : f < pow2[p] /\ n = f * pow2[j]

\* What is missing to a quotient that was rounded up is less than half a place.
LEMMA QuotientStrict ==
    ASSUME NEW p \in Nat, NEW b \in Nat \ {0}, b <= p,
           NEW n \in Nat, NEW d \in Nat \ {0}, n < d * pow2[b], Short(p, n),
           QuotientOf(p, n, d) = n \div d + 1
    PROVE  2 * ((d - (n % d)) * pow2[p - b]) < d
<1> DEFINE q == n \div d
           m == d - (n % d)
           s == p - b + 1
           u == pow2[s]
           N == (q + 1) * u - 1
<1>1. q \in Nat /\ m \in 1 .. d /\ n = d * (q + 1) - m
  <2> DEFINE r == n % d
  <2>1. q \in Nat /\ r \in 0 .. d - 1 /\ n = d * q + r
    <3>1. n \in Int /\ n >= 0 /\ d \in Nat \ {0}
      OBVIOUS
    <3> QED
      BY ONLY <3>1, Division
  <2>2. q \in Nat
    BY <2>1
  <2> HIDE DEF q, r
  <2>3. d * (q + 1) = d * q + d /\ d * q \in Nat
    BY <2>2
  <2> QED
    BY <2>1, <2>2, <2>3 DEF r
<1>2. s \in Nat \ {0} /\ s <= p /\ p - b \in Nat /\ u = 2 * pow2[p - b] /\ u \in Nat \ {0}
      /\ pow2[p - b] \in Nat \ {0}
  <2>1. s \in Nat \ {0} /\ s <= p /\ p - b \in Nat
    OBVIOUS
  <2>2. pow2[(p - b) + 1] = 2 * pow2[p - b] /\ pow2[p - b] \in Nat \ {0}
    BY <2>1, Pow2Next, Pow2Type
  <2> QED
    BY <2>1, <2>2
<1>3. 2 * (m * pow2[p - b]) <= d
  BY QuotientNear
<1>4. SUFFICES ASSUME 2 * (m * pow2[p - b]) = d PROVE FALSE
  <2> DEFINE k == pow2[p - b]
  <2>1. m \in Int /\ k \in Int
    BY <1>1, <1>2
  <2> HIDE DEF k, m
  <2>2. 2 * (m * k) \in Int
    BY <2>1
  <2> QED
    BY <1>3, <2>2 DEF m, k
<1>5. d = m * u
  <2> DEFINE k == pow2[p - b]
  <2>1. m \in Int /\ k \in Int /\ u = 2 * k
    BY <1>1, <1>2
  <2>2. 2 * (m * k) = d
    BY <1>4
  <2> HIDE DEF k, m, u
  <2>3. m * (2 * k) = 2 * (m * k)
    BY <2>1
  <2> QED
    BY <2>1, <2>2, <2>3
<1> HIDE DEF q, m
<1>6. N \in Nat /\ N > 0 /\ n * u = N * d
  <2>1. u >= 2
    <3> HIDE DEF u
    <3> QED
      BY <1>2
  <2> HIDE DEF u
  <2>2. (q + 1) * u = q * u + u /\ q * u \in Nat
    BY <1>1, <1>2
  <2>3. N \in Nat /\ N > 0
    BY <1>2, <2>1, <2>2
  <2>4. n = d * (q + 1) - m
    BY <1>1
  <2>5. n * u = ((d * (q + 1)) * u) - m * u
    <3> DEFINE a == d * (q + 1)
    <3>1. a \in Int /\ n = a - m /\ m \in Int /\ u \in Int
      BY <1>1, <1>2
    <3> HIDE DEF a
    <3>2. (a - m) * u = a * u - m * u
      BY <3>1
    <3> QED
      BY <3>1, <3>2 DEF a
  <2>6. (d * (q + 1)) * u = ((q + 1) * u) * d
    BY <1>1, <1>2
  <2> DEFINE c == (q + 1) * u
  <2>7. c \in Int /\ n * u = c * d - d /\ N = c - 1
    BY <1>1, <1>2, <1>5, <2>5, <2>6
  <2> HIDE DEF c, N
  <2>8. (c - 1) * d = c * d - d
    BY <2>7
  <2> QED
    BY <2>3, <2>7, <2>8
<1>7. PICK f \in Nat, j \in Nat : f < pow2[p] /\ n = f * pow2[j]
  BY DEF Short
<1>8. \E h \in Nat : N = 2 * h + 1
  <2> DEFINE k == pow2[p - b]
             h == (q + 1) * k - 1
  <2>1. k \in Nat \ {0} /\ u = 2 * k /\ q + 1 \in Nat \ {0}
    BY <1>1, <1>2
  <2> HIDE DEF k, u
  <2>2. (q + 1) * k = q * k + k /\ q * k \in Nat
    BY <1>1, <2>1
  <2>3. h \in Nat
    BY <2>1, <2>2
  <2>4. (q + 1) * (2 * k) = 2 * ((q + 1) * k)
    BY <1>1, <2>1
  <2>5. N = 2 * h + 1
    BY <2>1, <2>2, <2>4
  <2> QED
    BY <2>3, <2>5
<1>9. PICK h \in Nat : N = 2 * h + 1
  BY <1>8
<1>10. N * d = f * pow2[j + s] /\ j + s \in Nat
  <2> DEFINE w == pow2[j]
  <2>1. pow2[j + s] = w * u /\ w \in Nat
    BY <1>2, Pow2Sum, Pow2Type
  <2> HIDE DEF w, u, N
  <2>2. (f * w) * u = f * (w * u)
    BY <1>2, <2>1
  <2> QED
    BY <1>2, <1>6, <1>7, <2>1, <2>2 DEF w
<1> HIDE DEF N, u
<1>11. PICK c \in Nat : d = c * pow2[j + s] /\ N * c = f
  <2>1. (2 * h + 1) * d = f * pow2[j + s]
    BY <1>9, <1>10
  <2>2. \E c \in Nat : d = c * pow2[j + s] /\ (2 * h + 1) * c = f
    BY <1>10, <2>1, OddFactor
  <2> QED
    BY <1>9, <2>2
<1>12. N < pow2[p]
  <2>1. c \in Nat \ {0}
    <3>1. SUFFICES ASSUME c = 0 PROVE FALSE
      OBVIOUS
    <3>2. 0 * pow2[j + s] = 0
      BY <1>10, Pow2Type
    <3> QED
      BY <1>11, <3>1, <3>2
  <2>2. N * 1 <= N * c
    BY <1>6, <2>1, Times
  <2>3. pow2[p] \in Nat
    BY Pow2Type
  <2> QED
    BY <1>6, <1>7, <1>11, <2>2, <2>3
<1>13. QuotientOf(p, n, d) = N \div u
  <2>1. p > 0
    BY <1>2
  <2> QED
    <3>1. s \in Nat /\ s <= p /\ N \in Nat /\ n * pow2[s] = N * d
      BY <1>2, <1>6 DEF u
    <3>2. p \in Nat /\ n \in Nat /\ d \in Nat \ {0} /\ N < pow2[p]
      BY <1>12
    <3> HIDE DEF s
    <3>3. QuotientOf(p, n, d) = N \div pow2[s]
      BY ONLY <2>1, <3>1, <3>2, QuotientDyadic
    <3> QED
      BY <3>3 DEF u
<1>14. N \div u = q
  <2>0. u \in Nat \ {0}
    BY <1>2
  <2>1. N = u * q + (u - 1) /\ u - 1 \in 0 .. u - 1 /\ N \in Int
    <3>0. q \in Int /\ u \in Int
      BY <1>1, <2>0
    <3>1. (q + 1) * u = u * q + u
      BY ONLY <3>0
    <3> QED
      BY <1>1, <2>0, <1>6, <3>1 DEF N
  <2> QED
    BY ONLY <1>1, <2>0, <2>1, DivisionUnique
<1> QED
  BY <1>1, <1>13, <1>14 DEF q

\* A small rest has the quotient 0.
LEMMA SmallQuotient ==
    ASSUME NEW p \in Nat \ {0}, NEW n \in Nat, NEW d \in Nat \ {0}, 2 * n < d
    PROVE  QuotientOf(p, n, d) = 0
<1>1. n \div d = 0 /\ n % d = n
  <2>1. n = d * 0 + n /\ n \in 0 .. d - 1 /\ n \in Int /\ 0 \in Int
    OBVIOUS
  <2> QED
    BY ONLY <2>1, d \in Nat \ {0}, DivisionUnique
<1>2. n < d * pow2[0]
  <2>1. pow2[0] = 1 /\ d * 1 = d
    BY Pow2Next
  <2> QED
    BY <2>1
<1>3. QuotientOf(p, n, d) \in {0, 1} /\ (QuotientOf(p, n, d) = 1 => 2 * ((d - n) * pow2[p]) <= d)
  <2>1. p - 0 = p /\ p \in Nat /\ 0 \in Nat /\ 0 <= p
    OBVIOUS
  <2>2. /\ QuotientOf(p, n, d) \in {n \div d, n \div d + 1}
        /\ QuotientOf(p, n, d) = n \div d + 1 => 2 * ((d - (n % d)) * pow2[p - 0]) <= d
    BY <1>2, <2>1, QuotientNear
  <2> QED
    BY <1>1, <2>1, <2>2
<1>4. 2 * ((d - n) * pow2[p]) > d
  <2> DEFINE m == d - n
             u == pow2[p]
  <2>1. m \in Nat /\ 2 * m > d /\ u \in Nat \ {0}
    BY Pow2Type
  <2> HIDE DEF m, u
  <2>2. m * 1 <= m * u /\ m * u \in Nat
    BY <2>1, Times
  <2> QED
    BY <2>1, <2>2 DEF m, u
<1> DEFINE z == 2 * ((d - n) * pow2[p])
<1>5. z \in Int
  <2> DEFINE m == d - n
             u == pow2[p]
  <2>1. m \in Nat /\ u \in Nat
    BY Pow2Type
  <2> HIDE DEF m, u
  <2>2. 2 * (m * u) \in Int
    BY <2>1
  <2> QED
    BY <2>2 DEF m, u
<1> HIDE DEF z
<1>6. QuotientOf(p, n, d) = 1 => z <= d
  BY <1>3 DEF z
<1>7. z > d
  BY <1>4 DEF z
<1> QED
  BY <1>3, <1>5, <1>6, <1>7

\* In double precision the quotient of floats is not rounded up to an integer.
LEMMA WideQuotient ==
    ASSUME NEW p \in Nat, p > 2 * M + 2, NEW b \in Nat, b <= M + 1,
           NEW n \in Nat, NEW d \in Nat \ {0}, n < d * pow2[b], Aligned(n, d)
    PROVE  QuotientOf(p, n, d) = n \div d
<1>1. M \in Nat /\ IMPBIT = pow2[M] /\ IMPBIT \in Nat \ {0}
  BY SizeAssumption, Widths DEF IMPBIT
<1>2. PICK i \in 0 .. 2 * EXPBIAS - 1, f \in 0 .. 2 * IMPBIT - 1, N \in Int :
          d = f * pow2[i] /\ n = N * pow2[i]
  BY DEF Aligned
<1>3. i \in Nat /\ f \in Nat /\ pow2[i] \in Nat \ {0}
  <2>1. EXPBIAS \in Nat
    BY Widths
  <2> QED
    BY <1>1, <2>1, Pow2Type
<1>4. N \in Nat
  <2> DEFINE u == pow2[i]
  <2>1. u \in Nat \ {0} /\ n = N * u
    BY <1>2, <1>3
  <2> HIDE DEF u
  <2>2. SUFFICES ASSUME N < 0 PROVE FALSE
    OBVIOUS
  <2>3. u * N < u * 0
    BY <2>1, <2>2, Times
  <2> QED
    BY <2>1, <2>3
<1>5. f < 2 * pow2[p - b]
  <2>1. p - b \in Nat /\ M <= p - b
    BY <1>1
  <2>2. pow2[M] <= pow2[p - b] /\ pow2[p - b] \in Nat
    BY <1>1, <2>1, Pow2Grows, Pow2Type
  <2> QED
    BY <1>1, <2>2
<1>6. b <= p
  BY <1>1
<1>7. d = f * pow2[i] /\ n = N * pow2[i]
  BY <1>2
<1> QED
  BY ONLY p \in Nat, b \in Nat, n \in Nat, d \in Nat \ {0}, n < d * pow2[b],
          <1>3, <1>4, <1>5, <1>6, <1>7, QuotientExact, SMTT(30)

\* What a quotient leaves that may have been rounded up.
LEMMA RestOfQuotient ==
    ASSUME NEW a \in Nat, NEW d \in Nat \ {0}, NEW b \in 1 .. M + 1, a < d * pow2[b],
           Aligned(a, d), Short(M + 1, a), NEW t, t = QuotientOf(M + 1, a, d)
    PROVE  /\ t \in Nat /\ t \in {a \div d, a \div d + 1} /\ t <= pow2[b]
           /\ a - t * d \in {a % d, (a % d) - d} /\ a - t * d \in -d .. d - 1
           /\ a - t * d < 0 => 2 * ((t * d - a) * pow2[M + 1 - b]) < d
           /\ Aligned(a - t * d, d)
<1> DEFINE q == a \div d
           r == a % d
<1>1. M + 1 \in Nat /\ b \in Nat \ {0} /\ b <= M + 1
  BY SizeAssumption
<1>2. q \in Nat /\ r \in 0 .. d - 1 /\ a = d * q + r
  <2>1. a \in Int /\ a >= 0 /\ d \in Nat \ {0}
    OBVIOUS
  <2> QED
    BY ONLY <2>1, Division
<1>3. /\ t \in {q, q + 1}
      /\ t = q + 1 => 2 * ((d - r) * pow2[M + 1 - b]) < d
  <2>1. t \in {q, q + 1}
    BY <1>1, QuotientNear
  <2>2. ASSUME t = q + 1 PROVE 2 * ((d - r) * pow2[M + 1 - b]) < d
    <3> DEFINE p == M + 1
    <3>1. p \in Nat /\ b <= p /\ Short(p, a) /\ QuotientOf(p, a, d) = a \div d + 1
      BY <1>1, <2>2
    <3> HIDE DEF p
    <3>2. 2 * ((d - (a % d)) * pow2[p - b]) < d
      BY <1>1, <3>1, QuotientStrict
    <3>3. M + 1 - b = p - b
      BY <1>1, SizeAssumption DEF p
    <3> QED
      BY ONLY <3>2, <3>3 DEF r
  <2> QED
    BY <2>1, <2>2
<1>4. Aligned(a - t * d, d)
  <2>1. t \in Int /\ a \in Int /\ d \in Nat
    BY <1>2, <1>3
  <2> QED
    BY <2>1, AlignedLeft
<1>5. q < pow2[b]
  <2>1. pow2[b] \in Nat
    BY <1>1, Pow2Type
  <2> HIDE DEF q, r
  <2>2. d * q < d * pow2[b]
    <3>1. d * q \in Nat
      BY <1>2
    <3> QED
      BY <1>2, <2>1, <3>1
  <2> QED
    BY <1>2, <2>1, <2>2, Times
<1>6. pow2[b] \in Nat
  BY <1>1, Pow2Type
<1> HIDE DEF q, r
<1>7. d * (q + 1) = d * q + d /\ q * d = d * q /\ (q + 1) * d = d * q + d /\ d * q \in Nat
  BY <1>2
<1>8. CASE t = q
  <2>1. a - t * d = r
    BY <1>2, <1>7, <1>8
  <2> QED
    BY <1>2, <1>3, <1>4, <1>5, <1>6, <1>8, <2>1 DEF q, r
<1>9. CASE t = q + 1
  <2>1. a - t * d = r - d /\ t * d - a = d - r
    BY <1>2, <1>7, <1>9
  <2>2. 2 * ((t * d - a) * pow2[M + 1 - b]) < d
    BY <1>3, <1>9, <2>1
  <2> QED
    BY <1>2, <1>3, <1>4, <1>5, <1>6, <1>9, <2>1, <2>2 DEF q, r
<1> QED
  BY <1>3, <1>8, <1>9

\* A rest that is small beside w is so beside the divisor, if few rounds are to come.
LEMMA RestIsSmall ==
    ASSUME NEW m \in Nat, NEW c \in Nat \ {0}, NEW e \in Nat, NEW b \in 1 .. M + 1, b + e <= M + 1,
           2 * (m * pow2[M + 1 - b]) < c * pow2[e]
    PROVE  2 * m < c
<1>1. M + 1 - b \in Nat /\ e <= M + 1 - b
  BY SizeAssumption
<1> DEFINE u == pow2[e]
           v == pow2[M + 1 - b]
<1>2. u \in Nat \ {0} /\ v \in Nat \ {0} /\ u <= v
  BY <1>1, Pow2Grows, Pow2Type
<1> HIDE DEF u, v
<1>3. m * u <= m * v /\ m * u \in Nat /\ m * v \in Nat
  BY <1>2, Times
<1>4. 2 * (m * v) < c * u /\ c * u \in Nat
  BY <1>2 DEF u, v
<1>5. 2 * (m * u) < c * u
  BY <1>3, <1>4
<1>6. u * (2 * m) < u * c
  BY <1>2, <1>5
<1> QED
  BY <1>2, <1>6, Times

\* The quotient of two numbers that is in the middle of two integers has few bits.
LEMMA MiddleIsShort ==
    ASSUME NEW a \in Nat, NEW d \in Nat \ {0}, NEW q \in Nat, Short(M + 1, a),
           2 * a = (2 * q + 1) * d
    PROVE  2 * q + 1 < pow2[M + 1]
<1>1. PICK f \in Nat, j \in Nat : f < pow2[M + 1] /\ a = f * pow2[j]
  BY DEF Short
<1>2. pow2[j + 1] = 2 * pow2[j] /\ pow2[j] \in Nat /\ j + 1 \in Nat
  BY Pow2Next, Pow2Type
<1>3. (2 * q + 1) * d = f * pow2[j + 1]
  <2> DEFINE u == pow2[j]
  <2>1. u \in Nat /\ pow2[j + 1] = 2 * u /\ a = f * u
    BY <1>1, <1>2
  <2> HIDE DEF u
  <2>2. f * (2 * u) = 2 * (f * u)
    BY <2>1
  <2> QED
    BY <2>1, <2>2
<1>4. PICK c \in Nat : d = c * pow2[j + 1] /\ (2 * q + 1) * c = f
  <2> DEFINE n == j + 1
  <2>1. n \in Nat /\ d \in Nat /\ f \in Nat /\ q \in Nat /\ (2 * q + 1) * d = f * pow2[n]
    BY <1>1, <1>2, <1>3
  <2> HIDE DEF n
  <2>2. \E c \in Nat : d = c * pow2[n] /\ (2 * q + 1) * c = f
    BY ONLY <2>1, OddFactor
  <2> QED
    BY <2>2 DEF n
<1>5. c # 0
  <2>1. pow2[j + 1] \in Nat
    BY <1>2
  <2>2. SUFFICES ASSUME c = 0 PROVE FALSE
    OBVIOUS
  <2> QED
    BY <1>4, <2>1, <2>2
<1> DEFINE o == 2 * q + 1
<1>6. o \in Nat
  OBVIOUS
<1>7. pow2[M + 1] \in Nat
  BY SizeAssumption, Pow2Type
<1>8. o * c = f
  BY <1>4
<1> HIDE DEF o
<1>9. o * 1 <= o * c
  BY <1>5, <1>6, Times
<1>10. o < pow2[M + 1]
  BY <1>1, <1>6, <1>7, <1>8, <1>9
<1> QED
  BY <1>10 DEF o

\* A number has few digits.
LEMMA UnitsShort == ASSUME NEW u \in Patterns PROVE Short(M + 1, Units(u))
<1>1. M \in Nat /\ pow2[M + 1] = 2 * IMPBIT /\ IMPBIT \in Nat \ {0}
  BY SizeAssumption, Pow2Next, Widths DEF IMPBIT
<1> DEFINE e == ExponentField(u)
           f == Fraction(u)
<1>2. f \in 0 .. IMPBIT - 1 /\ e \in Nat
  BY Fields, Widths
<1>3. CASE e = 0
  <2>1. Units(u) = f * pow2[0]
    <3>1. Units(u) = f
      BY <1>3, UnitsBounds
    <3> HIDE DEF f
    <3> QED
      BY <1>1, <1>2, <3>1, Pow2Next
  <2> QED
    BY <1>1, <1>2, <2>1 DEF Short
<1>4. CASE e > 0
  <2>1. Units(u) = (IMPBIT + f) * pow2[e - 1] /\ e - 1 \in Nat
    BY <1>4, UnitsBounds
  <2>2. IMPBIT + f \in Nat /\ IMPBIT + f < pow2[M + 1]
    BY <1>1, <1>2
  <2> QED
    BY <2>1, <2>2 DEF Short
<1> QED
  BY <1>2, <1>3, <1>4

\* What is on the grid of a number and not larger has few digits.
LEMMA AlignedShort ==
    ASSUME NEW a \in Int, NEW d \in Nat, Aligned(a, d), AbsValue(a) <= d
    PROVE  Short(M + 1, AbsValue(a))
<1>1. M \in Nat /\ pow2[M + 1] = 2 * IMPBIT /\ IMPBIT \in Nat \ {0} /\ EXPBIAS \in Nat
  BY SizeAssumption, Pow2Next, Widths DEF IMPBIT
<1>2. PICK i \in 0 .. 2 * EXPBIAS - 1, f \in 0 .. 2 * IMPBIT - 1, n \in Int :
          d = f * pow2[i] /\ a = n * pow2[i]
  BY DEF Aligned
<1> DEFINE p == pow2[i]
           m == AbsValue(n)
<1>3. p \in Nat \ {0} /\ i \in Nat /\ f \in Nat
  BY <1>1, Pow2Type
<1> HIDE DEF p
<1>4. m \in Nat /\ AbsValue(a) = m * p
  <2>1. m \in Nat /\ m = (IF n < 0 THEN -n ELSE n) /\ a = n * p
    BY <1>2 DEF AbsValue, p
  <2>2. CASE n >= 0
    <3>1. p * 0 <= p * n
      BY <1>3, <2>2, Times
    <3> QED
      BY <1>3, <2>1, <2>2, <3>1 DEF AbsValue
  <2>3. CASE n < 0
    <3>1. p * n < p * 0
      BY <1>3, <2>3, Times
    <3>2. (-n) * p = -(n * p) /\ n * p < 0
      BY <1>3, <3>1
    <3> QED
      BY <1>3, <2>1, <2>3, <3>2 DEF AbsValue
  <2> QED
    BY <2>2, <2>3
<1> HIDE DEF m
<1>5. m <= f
  <2>1. p * m <= p * f
    BY <1>2, <1>3, <1>4 DEF p
  <2> QED
    BY <1>3, <1>4, <2>1, Times
<1>6. m < pow2[M + 1]
  BY <1>1, <1>4, <1>5
<1> QED
  BY <1>3, <1>4, <1>6 DEF Short, p

\* A number is congruent to its rest.
LEMMA RestOfSum ==
    ASSUME NEW n \in Nat, NEW d \in Nat \ {0}, NEW k \in Nat
    PROVE  (n + d * k) % d = n % d
<1> DEFINE q == n \div d
           r == n % d
<1>1. q \in Nat /\ r \in 0 .. d - 1 /\ n = d * q + r
  <2>1. n \in Int /\ n >= 0 /\ d \in Nat \ {0}
    OBVIOUS
  <2> QED
    BY ONLY <2>1, Division
<1> HIDE DEF q, r
<1> DEFINE s == n + d * k
<1>2. s = d * (q + k) + r /\ s \in Int /\ q + k \in Int
  <2>1. d * (q + k) = d * q + d * k /\ d * q \in Nat /\ d * k \in Nat
    BY <1>1
  <2> QED
    BY <1>1, <2>1
<1> HIDE DEF s
<1>3. s % d = r
  <2>1. d \in Nat \ {0}
    OBVIOUS
  <2> QED
    BY ONLY <1>1, <1>2, <2>1, DivisionUnique
<1> QED
  BY <1>3 DEF s, r

\* Eight divides the higher powers of two.
LEMMA EightDivides == ASSUME NEW n \in Nat, n >= 3 PROVE \E c \in Nat : pow2[n] = 8 * c
<1>1. pow2[3 + (n - 3)] = pow2[3] * pow2[n - 3] /\ pow2[n - 3] \in Nat
  BY Pow2Sum, Pow2Type
<1>2. pow2[0] = 1 /\ pow2[0 + 1] = 2 * pow2[0] /\ pow2[1 + 1] = 2 * pow2[1] /\ pow2[2 + 1] = 2 * pow2[2]
  BY Pow2Next
<1>3. 0 + 1 = 1 /\ 1 + 1 = 2 /\ 2 + 1 = 3 /\ 3 + (n - 3) = n
  OBVIOUS
<1>4. pow2[3] = 8
  BY <1>2, <1>3
<1> QED
  BY <1>1, <1>3, <1>4

-----------------------------------------------------------------------------
(* Sums that need no rounding: their parts are on one grid, and they are   *)
(* not too large for it.                                                   *)

\* n is a multiple of 2^j.
OnGrid(n, j) == \E m \in Int : n = m * pow2[j]

\* The first value that is too large.
Top == (2 * IMPBIT) * pow2[2 * EXPBIAS - 1]

\* Sums and differences stay on a grid.
LEMMA GridSum ==
    ASSUME NEW a \in Int, NEW b \in Int, NEW j \in Nat, OnGrid(a, j), OnGrid(b, j)
    PROVE  OnGrid(a + b, j) /\ OnGrid(a - b, j)
<1>1. PICK m \in Int, n \in Int : a = m * pow2[j] /\ b = n * pow2[j]
  BY DEF OnGrid
<1> DEFINE u == pow2[j]
<1>2. u \in Nat /\ a = m * u /\ b = n * u
  BY <1>1, Pow2Type
<1> HIDE DEF u
<1>3. a + b = (m + n) * u /\ a - b = (m - n) * u /\ m + n \in Int /\ m - n \in Int
  BY <1>2
<1> QED
  BY <1>3 DEF OnGrid, u

\* A multiple is on the grid of its factor,
LEMMA GridTimes ==
    ASSUME NEW a \in Int, NEW n \in Int, NEW j \in Nat, OnGrid(a, j)
    PROVE  OnGrid(n * a, j) /\ OnGrid(a * n, j)
<1>1. PICK m \in Int : a = m * pow2[j]
  BY DEF OnGrid
<1> DEFINE u == pow2[j]
<1>2. u \in Nat /\ a = m * u
  BY <1>1, Pow2Type
<1> HIDE DEF u
<1>3. n * a = (n * m) * u /\ a * n = (n * m) * u /\ n * m \in Int
  BY <1>2
<1> QED
  BY <1>3 DEF OnGrid, u

\* and what is on a grid is on the finer ones.
LEMMA GridFiner ==
    ASSUME NEW a \in Int, NEW i \in Nat, NEW j \in Nat, i <= j, OnGrid(a, j)
    PROVE  OnGrid(a, i)
<1>1. PICK m \in Int : a = m * pow2[j]
  BY DEF OnGrid
<1>2. j - i \in Nat /\ i + (j - i) = j
  OBVIOUS
<1> DEFINE u == pow2[i]
           v == pow2[j - i]
<1>3. pow2[j] = u * v /\ u \in Nat /\ v \in Nat
  <2>1. u \in Nat /\ v \in Nat
    BY <1>2, Pow2Type
  <2>2. pow2[i + (j - i)] = pow2[i] * pow2[j - i]
    BY ONLY i \in Nat, <1>2, Pow2Sum
  <2> QED
    BY <1>2, <2>1, <2>2
<1> HIDE DEF u, v
<1>4. a = (m * v) * u /\ m * v \in Int
  BY <1>1, <1>3
<1> QED
  BY <1>4 DEF OnGrid, u

\* A number of few bits is not rounded.
LEMMA Exact1 ==
    ASSUME NEW n \in Int, NEW i \in Nat, NEW j \in Nat,
           AbsValue(n) = i * pow2[j], i < 2 * IMPBIT, j <= 2 * EXPBIAS - 1
    PROVE  Nearest(n) = n
<1>1. Value(RoundedIn("nearest", n, 1)) = n /\ Nearest(n) = n
  BY ShortExact
<1> QED
  BY <1>1

\* A number on a grid, if it is not too large for it.
LEMMA GridExact ==
    ASSUME NEW n \in Int, NEW j \in Nat, OnGrid(n, j),
           AbsValue(n) <= (2 * IMPBIT) * pow2[j], AbsValue(n) < Top
    PROVE  Nearest(n) = n
<1>1. IMPBIT \in Nat \ {0} /\ EXPBIAS \in Nat /\ EXPBIAS >= 3
  BY Widths
<1> DEFINE h == 2 * EXPBIAS - 1
           u == pow2[j]
           b == 2 * IMPBIT
<1>2. h \in Nat /\ u \in Nat \ {0} /\ b \in Nat /\ b = 2 * IMPBIT
  BY <1>1, Pow2Type
<1>3. PICK m \in Int : n = m * u
  BY DEF OnGrid
<1>4. AbsValue(n) <= b * u /\ AbsValue(n) < b * pow2[h]
  BY DEF Top
<1> HIDE DEF h, u, b
<1> DEFINE i == AbsValue(m)
<1>5. i \in Nat /\ AbsValue(n) = i * u
  <2>1. CASE m >= 0
    <3>1. m * u \in Nat
      BY <1>2, <2>1
    <3> QED
      BY <1>2, <1>3, <2>1, <3>1 DEF AbsValue
  <2>2. CASE m < 0
    <3>1. (-m) * u = -(m * u) /\ (-m) * u \in Nat /\ u * m < u * 0
      BY <1>2, <2>2, Times
    <3>2. m * u < 0
      BY <1>2, <2>2, <3>1
    <3> QED
      BY <1>2, <1>3, <2>2, <3>1, <3>2 DEF AbsValue
  <2> QED
    BY <2>1, <2>2
<1> HIDE DEF i
<1>6. i <= b
  <2>1. u * i <= u * b
    BY <1>2, <1>4, <1>5
  <2> QED
    BY <1>2, <1>5, <2>1, Times
<1>7. CASE j >= h
  <2>1. h + (j - h) = j /\ j - h \in Nat
    BY <1>2, <1>7
  <2> DEFINE c == pow2[j - h]
             d == pow2[h]
  <2>2. u = d * c /\ c \in Nat /\ d \in Nat \ {0}
    <3> DEFINE k == j - h
    <3>1. h + k = j /\ k \in Nat
      BY <2>1
    <3> HIDE DEF k
    <3>2. h \in Nat
      BY <1>2
    <3>3. pow2[k] \in Nat /\ pow2[h] \in Nat \ {0}
      BY ONLY <3>1, <3>2, Pow2Type
    <3>4. pow2[h + k] = pow2[h] * pow2[k]
      BY ONLY <3>1, <3>2, Pow2Sum
    <3> QED
      BY <3>1, <3>3, <3>4 DEF u, k
  <2> HIDE DEF c, d
  <2>3. AbsValue(n) = (i * c) * d /\ i * c \in Nat
    BY <1>5, <2>2
  <2> DEFINE k == i * c
  <2>4. k \in Nat /\ AbsValue(n) = k * d /\ k * d < b * d
    BY <1>4, <2>3 DEF d
  <2> HIDE DEF k
  <2>5. k < b
    <3>1. d * k < d * b
      BY <1>2, <2>2, <2>4
    <3> QED
      BY <1>2, <2>2, <2>4, <3>1, Times
  <2> QED
    BY <1>2, <2>4, <2>5, Exact1 DEF d, h
<1>8. CASE j < h /\ i < b
  <2>1. AbsValue(n) = i * pow2[j] /\ i < 2 * IMPBIT /\ j <= 2 * EXPBIAS - 1
    BY <1>2, <1>5, <1>8 DEF u, h
  <2> QED
    BY <1>5, <2>1, Exact1
<1>9. CASE j < h /\ i = b
  <2>1. j + 1 \in Nat /\ j + 1 <= h /\ pow2[j + 1] = 2 * u
    BY <1>2, <1>9, Pow2Next DEF u
  <2>2. IMPBIT * (2 * u) = (2 * IMPBIT) * u
    BY <1>1, <1>2
  <2>3. AbsValue(n) = IMPBIT * pow2[j + 1] /\ IMPBIT < 2 * IMPBIT
    BY <1>1, <1>2, <1>5, <1>9, <2>1, <2>2
  <2> QED
    BY <1>1, <2>1, <2>3, Exact1 DEF h
<1> QED
  BY <1>2, <1>5, <1>6, <1>7, <1>8, <1>9

\* How a rounding spaces its results: k is the spacing, q what there is of it.
Spaced(n, k, q, c) ==
    /\ k <= 2 * EXPBIAS - 1 /\ c \in {0, 1}
    /\ q * pow2[k] <= n /\ n < (q + 1) * pow2[k]
    /\ k > 0 => IMPBIT * pow2[k] <= n
    /\ n < (2 * IMPBIT) * pow2[k] /\ q < 2 * IMPBIT
    /\ Nearest(n) = (q + c) * pow2[k]
    /\ -pow2[k] <= 2 * (n - Nearest(n)) /\ 2 * (n - Nearest(n)) <= pow2[k]
    /\ q * pow2[k] = n => c = 0
    /\ Nearest(n) < Top

\* So does each rounding that does not overflow.
LEMMA NearestSpaced ==
    ASSUME NEW n \in Nat, Rounded(n, 1) # EXPBITS
    PROVE  \E k \in Nat, q \in Nat, c \in {0, 1} : Spaced(n, k, q, c)
<1> DEFINE k == Binade(n, 1)
           s == pow2[k]
           m == NearestInteger(n, s)
           q == n \div s
           r == n % s
           c == m - q
           u == m + k * IMPBIT
<1>1. IMPBIT \in Nat \ {0} /\ EXPBIAS \in Nat /\ EXPBITS = (2 * EXPBIAS + 1) * IMPBIT
      /\ SIGNBIT = (2 * EXPBIAS + 2) * IMPBIT
  BY Widths
<1>2. /\ k \in Nat /\ s \in Nat \ {0} /\ 1 * s = s
      /\ n < s * (2 * IMPBIT) /\ (k > 0 => n >= s * IMPBIT)
      /\ m \in Nat /\ m <= 2 * IMPBIT /\ (k > 0 => m >= IMPBIT)
  <2>1. k \in Nat /\ s \in Nat \ {0}
    BY RoundedSteps
  <2>2. 1 * s = s
    BY <2>1
  <2>3. /\ n < (1 * pow2[k]) * (2 * IMPBIT) /\ (k > 0 => n >= (1 * pow2[k]) * IMPBIT)
        /\ NearestInteger(n, 1 * pow2[k]) \in Nat /\ NearestInteger(n, 1 * pow2[k]) <= 2 * IMPBIT
        /\ (k > 0 => NearestInteger(n, 1 * pow2[k]) >= IMPBIT)
    BY RoundedSteps
  <2> QED
    BY <2>1, <2>2, <2>3
<1>3. u \in Nat /\ u < EXPBITS /\ Rounded(n, 1) = u
  <2>1. Rounded(n, 1) = IF u > EXPBITS THEN EXPBITS ELSE u
    <3>1. NearestInteger(n, 1 * pow2[k]) = m
      BY <1>2
    <3> HIDE DEF m
    <3> QED
      BY <3>1 DEF Rounded
  <2>2. k * IMPBIT \in Nat
    BY <1>1, <1>2
  <2> HIDE DEF k, m
  <2>3. u \in Nat
    BY <1>2, <2>2
  <2>4. EXPBITS \in Nat
    BY Format
  <2> HIDE DEF u
  <2> QED
    BY <2>1, <2>3, <2>4
<1>4. /\ q \in Nat /\ r \in 0 .. s - 1 /\ n = s * q + r /\ m \in {q, q + 1}
      /\ m = q + 1 => 2 * r >= s
      /\ m = q => 2 * r <= s
  <2>1. n \in Int /\ n >= 0 /\ s \in Nat \ {0}
    BY <1>2
  <2>2. q \in Nat /\ r \in 0 .. s - 1 /\ n = s * q + r
    BY ONLY <2>1, Division
  <2>3. m = IF 2 * r > s \/ (2 * r = s /\ q % 2 = 1) THEN q + 1 ELSE q
    BY DEF NearestInteger
  <2> HIDE DEF q, r, s, m
  <2> QED
    BY <2>1, <2>2, <2>3
<1> HIDE DEF k, m, q, r
<1>5. c \in {0, 1} /\ m = q + c
  BY <1>2, <1>4
<1> HIDE DEF c
<1>6. Nearest(n) = (q + c) * s
  <2>1. k > 0 => m >= IMPBIT
    BY <1>2
  <2>2. m + k * IMPBIT < SIGNBIT
    <3>1. EXPBITS \in Nat /\ SIGNBIT \in Nat /\ EXPBITS < SIGNBIT
      BY Format
    <3> QED
      BY <1>3, <3>1
  <2>3. Units(u) = m * s
    BY <1>2, <2>1, <2>2, Assembled
  <2>4. m * s \in Nat
    BY <1>2
  <2>5. AbsValue(n) = n /\ ~(n < 0)
    BY DEF AbsValue
  <2>6. Nearest(n) = 1 * Units(u)
    BY <1>3, <2>5 DEF Nearest
  <2> QED
    BY <1>5, <2>3, <2>4, <2>6
<1>7. k <= 2 * EXPBIAS - 1
  <2> DEFINE b == IMPBIT
             e == 2 * EXPBIAS + 1
  <2>1. b \in Nat \ {0} /\ e \in Nat /\ e >= 3 /\ EXPBITS = e * b /\ u = m + k * b /\ m + k * b < e * b
    <3>1. EXPBIAS >= 3
      BY Widths
    <3> QED
      BY <1>1, <1>3, <3>1
  <2>0. k \in Nat /\ e - 2 = 2 * EXPBIAS - 1 /\ e - 2 \in Nat
    BY <1>1, <1>2, <2>1
  <2>2. ASSUME k > 0 PROVE k <= e - 2
    <3>1. m >= b
      BY <1>2, <2>2
    <3> HIDE DEF b, e, u
    <3>2. (k + 1) * b = k * b + b /\ k * b \in Nat /\ e * b \in Nat
      BY <1>2, <2>1
    <3>3. b * (k + 1) < b * e
      BY <1>2, <2>1, <3>1, <3>2
    <3>4. k + 1 < e
      BY <1>2, <2>1, <3>3, Times
    <3> QED
      BY <1>2, <2>1, <3>4
  <2>3. ~(k > 0) => k <= e - 2
    BY <2>0
  <2> QED
    BY <2>0, <2>2, <2>3
<1> DEFINE z == Nearest(n)
<1>8. /\ q * s <= n /\ n < (q + 1) * s /\ z = q * s + c * s
      /\ n - q * s = r /\ q * s \in Nat /\ (q * s = n => r = 0)
  <2>1. q * s = s * q /\ (q + 1) * s = s * q + s /\ s * q \in Nat
    BY <1>2, <1>4
  <2>2. (q + c) * s = q * s + c * s
    BY <1>2, <1>4, <1>5
  <2> HIDE DEF s
  <2> QED
    BY <1>2, <1>4, <1>6, <2>1, <2>2
<1>9. q < 2 * IMPBIT
  <2>1. s * q < s * (2 * IMPBIT)
    <3>1. s * q \in Nat /\ s * (2 * IMPBIT) \in Nat /\ s * q <= n
      BY <1>1, <1>2, <1>4
    <3> HIDE DEF s
    <3> QED
      BY <1>2, <3>1
  <2> QED
    BY <1>1, <1>2, <1>4, <2>1, Times
<1>10. -s <= 2 * (n - z) /\ 2 * (n - z) <= s /\ (q * s = n => c = 0)
  <2> HIDE DEF s
  <2>1. c * s = IF c = 0 THEN 0 ELSE s
    BY <1>2, <1>5
  <2> DEFINE i == q * s
             j == c * s
  <2>2. i \in Nat /\ z = i + j /\ n - i = r /\ (i = n => r = 0) /\ j = IF c = 0 THEN 0 ELSE s
    BY <1>8, <2>1
  <2> HIDE DEF i, j, z
  <2>3. -s <= 2 * (n - z) /\ 2 * (n - z) <= s
    BY <1>2, <1>4, <1>5, <2>2
  <2>4. i = n => c = 0
    BY <1>2, <1>4, <1>5, <2>2
  <2> QED
    BY <2>3, <2>4 DEF i, z
<1>11. z < Top
  <2> DEFINE h == 2 * EXPBIAS - 1
             b == 2 * IMPBIT
             t == pow2[h]
  <2>1. h \in Nat /\ b \in Nat \ {0} /\ k <= h
    <3>1. EXPBIAS >= 3
      BY Widths
    <3> QED
      BY <1>1, <1>7, <3>1
  <2>2. t \in Nat \ {0}
    BY <2>1, Pow2Type
  <2>3. s <= t
    BY <1>2, <2>1, Pow2Grows
  <2>4. z = m * s /\ m <= b
    BY <1>2, <1>5, <1>6
  <2>5. CASE m < b
    <3> HIDE DEF s, t, b, h, z
    <3>1. m * s <= m * t /\ m * t < b * t
      <4>1. t * m < t * b
        BY <1>2, <2>1, <2>2, <2>5, Times
      <4> QED
        BY <1>2, <2>1, <2>2, <2>3, <4>1, Times
    <3>2. z < b * t
      BY <1>2, <2>1, <2>2, <2>4, <3>1
    <3> QED
      BY <3>2 DEF Top, b, t, h
  <2>6. CASE m = b
    <3>1. k < h
      <4>1. k \in Nat /\ h \in Nat /\ k <= h
        BY <1>2, <2>1
      <4>2. ASSUME k = h PROVE FALSE
        <5> DEFINE B == EXPBIAS * IMPBIT
        <5>1. B \in Nat
          BY <1>1
        <5>2. (2 * EXPBIAS - 1) * IMPBIT = 2 * B - IMPBIT /\ (2 * EXPBIAS + 1) * IMPBIT = 2 * B + IMPBIT
          BY <1>1
        <5>3. u = 2 * IMPBIT + (2 * EXPBIAS - 1) * IMPBIT
          BY <2>6, <4>2
        <5> HIDE DEF B, u
        <5>4. u = (2 * EXPBIAS + 1) * IMPBIT
          BY <1>1, <5>1, <5>2, <5>3
        <5> QED
          BY <1>1, <1>3, <5>4
      <4> QED
        BY <4>1, <4>2
    <3>2. s < t
      <4>1. pow2[k + 1] <= pow2[h] /\ pow2[k + 1] = 2 * pow2[k]
        BY <1>2, <2>1, <3>1, Pow2Grows, Pow2Next
      <4> DEFINE d == pow2[k + 1]
      <4>2. d <= t /\ d = 2 * s
        BY <4>1
      <4> HIDE DEF d, s, t
      <4> QED
        BY <1>2, <2>2, <4>2
    <3> HIDE DEF s, t, b, h, z
    <3>3. b * s < b * t
      BY <1>2, <2>1, <2>2, <3>2, Times
    <3> QED
      BY <2>4, <2>6, <3>3 DEF Top, b, t, h
  <2> QED
    BY <1>2, <2>1, <2>4, <2>5, <2>6
<1>12. s * (2 * IMPBIT) = (2 * IMPBIT) * s /\ s * IMPBIT = IMPBIT * s
  BY <1>1, <1>2
<1>13. Spaced(n, k, q, c)
  <2>1. n < (2 * IMPBIT) * s /\ (k > 0 => IMPBIT * s <= n)
    BY <1>1, <1>2, <1>12
  <2> QED
    BY <1>5, <1>6, <1>7, <1>8, <1>9, <1>10, <1>11, <2>1 DEF Spaced
<1> QED
  BY <1>2, <1>4, <1>5, <1>13

\* What a rounding misses is a number, and so is what a multiple of the spacing misses
\* of the rounded result, or one on a finer grid that is near.
LEMMA MissedExact ==
    ASSUME NEW n \in Nat, NEW k \in Nat, NEW q \in Nat, NEW c \in {0, 1}, Spaced(n, k, q, c),
           NEW a \in Nat, a <= n, NEW j \in Nat, OnGrid(a, j),
           j < k => 2 * (n - a) + pow2[k] <= 2 * ((2 * IMPBIT) * pow2[j])
    PROVE  /\ Nearest(a - Nearest(n)) = a - Nearest(n)
           /\ Nearest(Nearest(n) - a) = Nearest(n) - a
<1> DEFINE z == Nearest(n)
           s == pow2[k]
           b == 2 * IMPBIT
<1>1. s \in Nat \ {0} /\ IMPBIT \in Nat \ {0} /\ b \in Nat \ {0} /\ b = 2 * IMPBIT
  BY Pow2Type, Widths
<1>2. /\ z = (q + c) * s /\ z < Top /\ q * s <= n /\ n < (q + 1) * s /\ q < b
      /\ -s <= 2 * (n - z) /\ 2 * (n - z) <= s /\ k <= 2 * EXPBIAS - 1
  BY DEF Spaced
<1>3. z \in Nat /\ OnGrid(z, k)
  <2>1. q + c \in Int /\ (q + c) * s \in Nat
    BY <1>1
  <2> QED
    BY <1>2, <2>1 DEF OnGrid
<1> HIDE DEF z, b
<1>4. CASE k <= j
  <2>1. OnGrid(a, k)
    BY <1>4, GridFiner
  <2>2. PICK m \in Int : a = m * s
    BY <2>1 DEF OnGrid
  <2> HIDE DEF s
  <2>3. m < q + 1
    <3>1. s * m < s * (q + 1)
      BY <1>1, <1>2, <2>2
    <3> QED
      BY <1>1, <3>1, Times
  <2>4. a <= z /\ z <= b * s
    <3>1. m <= q + c /\ q + c <= b
      BY <1>1, <1>2, <2>3
    <3>2. s * m <= s * (q + c) /\ s * (q + c) <= s * b
      BY <1>1, <3>1, Times
    <3> QED
      BY <1>1, <1>2, <2>2, <3>2
  <2>5. AbsValue(a - z) = z - a /\ AbsValue(z - a) = z - a /\ z - a <= b * s /\ z - a < Top
        /\ a - z \in Int /\ z - a \in Int
    <3>1. AbsValue(a - z) = z - a /\ AbsValue(z - a) = z - a
      BY <1>3, <2>4 DEF AbsValue
    <3>2. b * s \in Nat /\ Top \in Int
      <4>1. pow2[2 * EXPBIAS - 1] \in Nat
        <5>1. EXPBIAS \in Nat /\ EXPBIAS >= 3
          BY Widths
        <5> QED
          BY <5>1, Pow2Type
      <4> QED
        BY <1>1, <4>1 DEF Top
    <3> QED
      BY <1>2, <1>3, <2>4, <3>1, <3>2
  <2>6. OnGrid(a - z, k) /\ OnGrid(z - a, k)
    BY <1>3, <2>1, GridSum
  <2>7. b * s = (2 * IMPBIT) * pow2[k]
    BY DEF b, s
  <2>8. /\ AbsValue(a - z) <= (2 * IMPBIT) * pow2[k] /\ AbsValue(a - z) < Top
        /\ AbsValue(z - a) <= (2 * IMPBIT) * pow2[k] /\ AbsValue(z - a) < Top
    BY <2>5, <2>7
  <2>9. Nearest(a - z) = a - z
    BY ONLY <2>5, <2>6, <2>8, k \in Nat, GridExact
  <2>10. Nearest(z - a) = z - a
    BY ONLY <2>5, <2>6, <2>8, k \in Nat, GridExact
  <2> QED
    BY <2>9, <2>10 DEF z
<1>5. CASE j < k
  <2> DEFINE t == pow2[2 * EXPBIAS - 1]
             d == b * pow2[j]
  <2>1. t \in Nat \ {0} /\ s <= t
    <3>1. EXPBIAS \in Nat /\ EXPBIAS >= 3
      BY Widths
    <3>2. 2 * EXPBIAS - 1 \in Nat
      BY <3>1
    <3> DEFINE h == 2 * EXPBIAS - 1
    <3>3. k \in Nat /\ h \in Nat /\ k <= h
      BY <1>2, <3>2
    <3> HIDE DEF h
    <3>4. pow2[k] <= pow2[h]
      BY ONLY <3>3, Pow2Grows
    <3>5. pow2[h] \in Nat \ {0}
      BY ONLY <3>3, Pow2Type
    <3> QED
      BY <3>4, <3>5 DEF h
  <2>2. Top = b * t /\ b * t \in Nat /\ t <= b * t /\ b >= 2
    <3> HIDE DEF t
    <3>1. t * 1 <= t * b
      BY <1>1, <2>1, Times
    <3> QED
      BY <1>1, <2>1, <3>1 DEF Top, b, t
  <2>3. d \in Nat /\ 2 * (n - a) + s <= 2 * d
    <3>1. pow2[j] \in Nat
      BY Pow2Type
    <3> QED
      BY <1>1, <1>5, <3>1 DEF b
  <2> HIDE DEF t, d, s
  <2>4. AbsValue(a - z) <= d /\ AbsValue(z - a) <= d
    BY <1>1, <1>2, <1>3, <2>3 DEF AbsValue
  <2>5. AbsValue(a - z) < Top /\ AbsValue(z - a) < Top
    <3>1. CASE a <= z
      BY <1>2, <1>3, <2>1, <2>2, <3>1 DEF AbsValue
    <3>2. CASE a > z
      <4>1. 2 * (a - z) <= t
        BY <1>1, <1>2, <1>3, <2>1, <3>2
      <4> QED
        BY <1>3, <2>1, <2>2, <3>2, <4>1 DEF AbsValue
    <3> QED
      BY <1>3, <3>1, <3>2
  <2>6. OnGrid(a - z, j) /\ OnGrid(z - a, j)
    <3>1. OnGrid(z, j)
      BY <1>3, <1>5, GridFiner
    <3> QED
      BY <1>3, <3>1, GridSum
  <2>7. a - z \in Int /\ z - a \in Int
    BY <1>3
  <2>8. d = (2 * IMPBIT) * pow2[j]
    BY DEF b, d
  <2>9. /\ AbsValue(a - z) <= (2 * IMPBIT) * pow2[j] /\ AbsValue(a - z) < Top
        /\ AbsValue(z - a) <= (2 * IMPBIT) * pow2[j] /\ AbsValue(z - a) < Top
    BY <2>4, <2>5, <2>8
  <2>10. Nearest(a - z) = a - z
    BY ONLY <2>6, <2>7, <2>9, j \in Nat, GridExact
  <2>11. Nearest(z - a) = z - a
    BY ONLY <2>6, <2>7, <2>9, j \in Nat, GridExact
  <2> QED
    BY <2>10, <2>11 DEF z
<1> QED
  BY <1>4, <1>5 DEF z

\* Products of bounded factors.
LEMMA TimesBoth ==
    ASSUME NEW a \in Nat, NEW b \in Nat, NEW c \in Nat, NEW d \in Nat, a <= c, b <= d
    PROVE  a * b <= c * d /\ a * b \in Nat /\ c * d \in Nat
<1>1. b * a <= b * c /\ c * b <= c * d
  BY Times
<1>2. b * a = a * b /\ b * c = c * b /\ a * b \in Nat /\ c * b \in Nat /\ c * d \in Nat
  OBVIOUS
<1> QED
  BY <1>1, <1>2

\* A rounding has the opposite result for the opposite number.
LEMMA NearestOdd == ASSUME NEW n \in Int PROVE Nearest(-n) = -Nearest(n) /\ Nearest(0) = 0
<1>1. Nearest(0) = 0
  <2>1. EXPBIAS \in Nat /\ EXPBIAS >= 3 /\ IMPBIT \in Nat \ {0}
    BY Widths
  <2>2. 0 \in Int /\ 0 \in Nat /\ AbsValue(0) = 0 * pow2[0] /\ 0 < 2 * IMPBIT /\ 0 <= 2 * EXPBIAS - 1
    BY <2>1, Pow2Next DEF AbsValue
  <2> QED
    BY ONLY <2>2, Exact1
<1>2. AbsValue(-n) = AbsValue(n) /\ AbsValue(n) \in Nat
  BY DEF AbsValue
<1> DEFINE z == Units(Rounded(AbsValue(n), 1))
<1>3. z \in Nat
  BY <1>2, RoundedType, UnitsBounds
<1>4. CASE n = 0
  BY <1>1, <1>4
<1>5. CASE n > 0
  <2>1. Nearest(n) = 1 * z /\ Nearest(-n) = (-1) * z
    BY <1>2, <1>5 DEF Nearest
  <2> QED
    BY <1>1, <1>3, <2>1
<1>6. CASE n < 0
  <2>1. Nearest(n) = (-1) * z /\ Nearest(-n) = 1 * z
    BY <1>2, <1>6 DEF Nearest
  <2> QED
    BY <1>1, <1>3, <2>1
<1> QED
  BY <1>4, <1>5, <1>6

\* A rounded number is one.
LEMMA NearestTwice ==
    ASSUME NEW n \in Nat, Rounded(n, 1) # EXPBITS
    PROVE  Nearest(Nearest(n)) = Nearest(n) /\ Nearest(n) \in Nat /\ Nearest(n) < Top
<1>1. PICK k \in Nat, q \in Nat, c \in {0, 1} : Spaced(n, k, q, c)
  BY NearestSpaced
<1>2. Nearest(n) \in Nat /\ Nearest(n) < Top
  <2>1. Nearest(n) = (q + c) * pow2[k] /\ Nearest(n) < Top /\ pow2[k] \in Nat /\ q + c \in Nat
    BY <1>1, Pow2Type DEF Spaced
  <2> DEFINE u == pow2[k]
             v == q + c
  <2>2. u \in Nat /\ v \in Nat /\ Nearest(n) = v * u
    BY <2>1
  <2> HIDE DEF u, v
  <2>3. v * u \in Nat
    BY <2>2
  <2> QED
    BY <2>1, <2>2, <2>3
<1>3. OnGrid(0, k)
  <2>1. 0 = 0 * pow2[k]
    BY Pow2Type
  <2> QED
    BY <2>1, 0 \in Int DEF OnGrid
<1>4. Nearest(Nearest(n) - 0) = Nearest(n) - 0
  <2>1. /\ n \in Nat /\ k \in Nat /\ q \in Nat /\ c \in {0, 1} /\ Spaced(n, k, q, c)
        /\ 0 \in Nat /\ 0 <= n /\ OnGrid(0, k) /\ ~(k < k)
    BY <1>1, <1>3
  <2> QED
    BY ONLY <2>1, MissedExact
<1>5. Nearest(n) - 0 = Nearest(n)
  BY <1>2
<1> QED
  BY <1>2, <1>4, <1>5

\* A number and a rounded product are close enough for their exact difference.
LEMMA CloseExact ==
    ASSUME NEW a \in Nat, NEW d \in Nat \ {0}, NEW t \in Nat, Aligned(a, d), Short(M + 1, a),
           NEW n \in Nat, n = d * t, Rounded(n, 1) # EXPBITS,
           -d < 2 * (a - n), a - n < d
    PROVE  Nearest(a - Nearest(n)) = a - Nearest(n)
<1> DEFINE c == Nearest(n)
<1>1. c \in Nat /\ c < Top
  BY NearestTwice
<1>2. CASE t = 0
  <2>1. n = 0
    BY <1>2
  <2>2. c = 0 /\ a < d
    BY <2>1, NearestOdd
  <2>3. AbsValue(a) <= d /\ a - 0 = a
    BY <2>2 DEF AbsValue
  <2>4. Nearest(a) = a
    BY ONLY <2>3, a \in Int, d \in Nat, Aligned(a, d), AlignedExact
  <2> QED
    BY <2>2, <2>3, <2>4
<1>3. CASE t # 0
  <2>1. c <= 2 * a /\ a <= 2 * c
    <3>1. PICK k \in Nat, q \in Nat, o \in {0, 1} : Spaced(n, k, q, o)
      BY NearestSpaced
    <3> DEFINE e == pow2[k]
    <3>2. e \in Nat \ {0}
      BY Pow2Type
    <3>3. IMPBIT \in Nat /\ IMPBIT >= 4
      <4>1. pow2[2] = 4
        <5>1. pow2[0 + 1] = 2 * pow2[0] /\ pow2[1 + 1] = 2 * pow2[1] /\ pow2[0] = 1 /\ 0 + 1 = 1 /\ 1 + 1 = 2
          BY Pow2Next
        <5> QED
          BY <5>1
      <4>2. pow2[2] <= pow2[M]
        <5>1. 2 \in Nat /\ M \in Nat /\ 2 <= M
          BY SizeAssumption
        <5> QED
          BY ONLY <5>1, Pow2Grows
      <4> QED
        BY <4>1, <4>2, Widths DEF IMPBIT
    <3>4. /\ -e <= 2 * (n - c) /\ 2 * (n - c) <= e /\ (k > 0 => IMPBIT * e <= n)
          /\ q * e <= n /\ n < (q + 1) * e /\ c = (q + o) * e /\ (q * e = n => o = 0)
      BY <3>1 DEF Spaced
    <3> HIDE DEF e, c
    <3>5. k = 0 => c = n
      <4>1. SUFFICES ASSUME k = 0 PROVE c = n
        OBVIOUS
      <4>2. e = 1
        BY <4>1, Pow2Next DEF e
      <4>3. q * 1 = q /\ (q + 1) * 1 = q + 1 /\ (q + o) * 1 = q + o
        OBVIOUS
      <4> QED
        BY <3>4, <4>2, <4>3
    <3>6. k > 0 => 4 * e <= n
      <4>1. e * 4 <= e * IMPBIT /\ e * IMPBIT = IMPBIT * e /\ IMPBIT * e \in Nat
        BY <3>2, <3>3, Times
      <4> QED
        BY <3>2, <3>4, <4>1
    <3>7. CASE t = 1
      <4>1. n = d
        BY <3>7
      <4>2. c = n
        <5>1. Aligned(d, d)
          <6>1. PICK i \in 0 .. 2 * EXPBIAS - 1, f \in 0 .. 2 * IMPBIT - 1 : d = f * pow2[i]
            BY DEF Aligned
          <6>2. f \in Int
            BY Widths
          <6> QED
            BY <6>1, <6>2 DEF Aligned
        <5>2. d \in Int /\ d \in Nat /\ AbsValue(d) <= d
          BY DEF AbsValue
        <5>3. Nearest(d) = d
          BY ONLY <5>1, <5>2, AlignedExact
        <5> QED
          BY <4>1, <5>3 DEF c
      <4> QED
        BY <4>1, <4>2
    <3>8. CASE t >= 2
      <4>1. 2 * d <= n
        <5>1. d * 2 <= d * t /\ d * 2 = 2 * d
          BY <3>8, Times
        <5> QED
          BY <5>1
      <4> QED
        BY <1>1, <3>2, <3>4, <3>5, <3>6, <4>1
    <3> QED
      BY <1>3, <3>7, <3>8
  <2>2. PICK f \in Nat, j \in Nat : f < pow2[M + 1] /\ a = f * pow2[j]
    BY DEF Short
  <2>3. PICK k \in Nat, q \in Nat, o \in {0, 1} : Spaced(n, k, q, o)
    BY NearestSpaced
  <2>4. pow2[M + 1] = 2 * IMPBIT /\ IMPBIT \in Nat
    BY SizeAssumption, Pow2Next, Widths DEF IMPBIT
  <2>5. OnGrid(a, j) /\ a <= (2 * IMPBIT) * pow2[j]
    <3>1. pow2[j] \in Nat /\ f <= 2 * IMPBIT
      BY <2>2, <2>4, Pow2Type
    <3> DEFINE u == pow2[j]
    <3>2. u \in Nat /\ a = f * u /\ f <= 2 * IMPBIT /\ 2 * IMPBIT \in Nat
      BY <2>2, <2>4, <3>1
    <3> HIDE DEF u
    <3>3. f * u <= (2 * IMPBIT) * u
      BY <3>2, u <= u, TimesBoth
    <3>4. OnGrid(a, j)
      BY <2>2, f \in Int DEF OnGrid
    <3> QED
      BY <3>2, <3>3, <3>4 DEF u
  <2>6. OnGrid(c, k) /\ c <= (2 * IMPBIT) * pow2[k]
    <3>1. c = (q + o) * pow2[k] /\ q < 2 * IMPBIT
      BY <2>3 DEF Spaced
    <3> DEFINE u == pow2[k]
               z == q + o
    <3>2. u \in Nat /\ z \in Nat /\ c = z * u /\ z <= 2 * IMPBIT /\ 2 * IMPBIT \in Nat
      BY <2>4, <3>1, Pow2Type
    <3> HIDE DEF u, z
    <3>3. z * u <= (2 * IMPBIT) * u
      BY <3>2, u <= u, TimesBoth
    <3>4. OnGrid(c, k)
      <4>1. z \in Int
        BY <3>2
      <4> QED
        BY <3>2, <4>1 DEF OnGrid, u
    <3> QED
      BY <3>2, <3>3, <3>4 DEF u
  <2> HIDE DEF c
  <2>7. a - c \in Int /\ AbsValue(a - c) <= a /\ AbsValue(a - c) <= c
    BY <1>1, <2>1 DEF AbsValue
  <2>8. Top \in Int
    <3>1. 2 * EXPBIAS - 1 \in Nat /\ IMPBIT \in Nat
      BY Widths
    <3>2. pow2[2 * EXPBIAS - 1] \in Nat
      BY ONLY <3>1, Pow2Type
    <3> QED
      BY <3>1, <3>2 DEF Top
  <2>9. AbsValue(a - c) < Top /\ AbsValue(a - c) \in Int
    <3>1. AbsValue(a - c) \in Int
      BY <2>7 DEF AbsValue
    <3> QED
      BY <1>1, <2>7, <2>8, <3>1
  <2>10. CASE j <= k
    <3>1. OnGrid(c, j) /\ OnGrid(a, j)
      BY <1>1, <2>5, <2>6, <2>10, GridFiner
    <3>2. OnGrid(a - c, j)
      <4>1. a \in Int /\ c \in Int /\ j \in Nat /\ OnGrid(c, j) /\ OnGrid(a, j)
        BY <1>1, <3>1
      <4> QED
        BY ONLY <4>1, GridSum
    <3>3. AbsValue(a - c) <= (2 * IMPBIT) * pow2[j]
      <4>1. pow2[j] \in Nat
        BY Pow2Type
      <4> DEFINE v == (2 * IMPBIT) * pow2[j]
      <4>2. v \in Nat /\ a <= v
        BY <2>4, <2>5, <4>1
      <4> HIDE DEF v
      <4> QED
        BY <2>7, <2>9, <4>2 DEF v
    <3> QED
      BY ONLY <2>7, <2>9, <3>2, <3>3, j \in Nat, GridExact DEF c
  <2>11. CASE ~(j <= k)
    <3>1. OnGrid(c, k) /\ OnGrid(a, k)
      BY <2>5, <2>6, <2>11, GridFiner
    <3>2. OnGrid(a - c, k)
      <4>1. a \in Int /\ c \in Int /\ k \in Nat /\ OnGrid(c, k) /\ OnGrid(a, k)
        BY <1>1, <3>1
      <4> QED
        BY ONLY <4>1, GridSum
    <3>3. AbsValue(a - c) <= (2 * IMPBIT) * pow2[k]
      <4>1. pow2[k] \in Nat
        BY Pow2Type
      <4> DEFINE v == (2 * IMPBIT) * pow2[k]
      <4>2. v \in Nat /\ c <= v
        BY <2>4, <2>6, <4>1
      <4> HIDE DEF v
      <4> QED
        BY <1>1, <2>7, <2>9, <4>2 DEF v
    <3> QED
      BY ONLY <2>7, <2>9, <3>2, <3>3, k \in Nat, GridExact DEF c
  <2> QED
    BY <2>10, <2>11
<1> QED
  BY <1>2, <1>3

-----------------------------------------------------------------------------
(* Products that are not too large for the format.                         *)

\* The bits of the partial products of a split, counted by the powers S, Q and K.
LEMMA PartsBound ==
    ASSUME NEW S \in Nat \ {0}, NEW Q \in Nat, NEW K \in Nat \ {0}, 2 <= Q, Q <= S,
           NEW A \in Nat, NEW B \in Nat, NEW C \in Nat, NEW D \in Nat,
           A < Q, B < S, C < Q, D < K, NEW t \in Nat, t = C * K + D,
           K <= S \/ (D = 0 /\ K = 2 * S /\ t <= S * Q)
    PROVE  /\ t < Q * K /\ Q * K \in Nat /\ S * Q \in Nat
           /\ Q * K <= 2 * (S * Q)
           /\ 2 * (B * t) + Q * K <= 2 * ((S * Q) * S)
           /\ D = 0 \/ 2 * (B * D) + Q * K <= 2 * ((S * Q) * K)
<1> DEFINE m == S * Q
           n == Q * K
<1>1. m \in Nat /\ n \in Nat /\ K >= 1 /\ S >= 1 /\ S <= m
  <2>1. 1 * S <= Q * S /\ Q * S = S * Q /\ S * Q \in Nat
    <3>1. S * 1 <= S * Q
      BY Times
    <3> QED
      BY <3>1
  <2> QED
    BY <2>1
<1>2. t < n
  <2>1. K * (C + 1) <= K * Q
    BY Times
  <2>2. K * (C + 1) = C * K + K /\ C * K \in Nat /\ K * Q = Q * K
    OBVIOUS
  <2> HIDE DEF n
  <2> QED
    BY <1>1, <2>1, <2>2 DEF n
<1>3. n <= 2 * m /\ (K <= S => n <= m)
  <2>1. CASE K <= S
    <3>1. Q * K <= Q * S /\ Q * S = m
      BY <2>1, Times
    <3> QED
      BY <1>1, <2>1, <3>1
  <2>2. CASE K = 2 * S
    <3>1. Q * (2 * S) = 2 * (S * Q)
      OBVIOUS
    <3> QED
      BY <1>1, <2>2, <3>1
  <2> QED
    BY <2>1, <2>2
<1>4. 2 * (B * t) + n <= 2 * (m * S)
  <2>1. ASSUME NEW z \in Nat, t <= z, n <= 2 * z, z <= m PROVE 2 * (B * t) + n <= 2 * (m * S)
    <3> HIDE DEF m, n
    <3>1. B * t <= (S - 1) * z /\ B * t \in Nat
      BY <2>1, S - 1 \in Nat, B <= S - 1, TimesBoth
    <3>2. (S - 1) * z = S * z - z /\ S * z \in Nat
      BY <2>1
    <3>3. S * z <= S * m /\ S * m = m * S /\ m * S \in Nat
      BY <1>1, <2>1, Times
    <3> QED
      BY <1>1, <2>1, <3>1, <3>2, <3>3
  <2>2. CASE K <= S
    <3>1. n \in Nat /\ t <= n /\ n <= 2 * n /\ n <= m
      BY <1>1, <1>2, <1>3, <2>2
    <3> QED
      BY <2>1, <3>1
  <2>3. CASE ~(K <= S)
    <3>1. m \in Nat /\ t <= m /\ n <= 2 * m /\ m <= m
      BY <1>1, <1>3, <2>3
    <3> QED
      BY <2>1, <3>1
  <2> QED
    BY <2>2, <2>3
<1>5. D = 0 \/ 2 * (B * D) + n <= 2 * (m * K)
  <2>1. SUFFICES ASSUME D # 0 PROVE 2 * (B * D) + n <= 2 * (m * K)
    OBVIOUS
  <2>2. B * D <= S * K /\ B * D \in Nat /\ S * K \in Nat
    BY TimesBoth
  <2> DEFINE j == S * K
  <2>3. m * K = Q * j /\ 2 * j <= Q * j /\ Q * j \in Nat
    <3>1. (S * Q) * K = Q * (S * K)
      OBVIOUS
    <3>2. j * 2 <= j * Q /\ j * 2 = 2 * j /\ j * Q = Q * j
      BY <2>2, Times
    <3> QED
      BY <2>2, <3>1, <3>2
  <2>4. n <= Q * j
    <3>1. K <= j
      <4>1. K * 1 <= K * S /\ K * S = S * K
        BY Times
      <4> QED
        BY <4>1
    <3>2. Q * K <= Q * j
      BY <2>2, <3>1, Times
    <3> QED
      BY <3>2
  <2> DEFINE e == B * D
             f == Q * j
  <2>5. e \in Nat /\ e <= j /\ f \in Nat /\ 2 * j <= f /\ n <= f /\ j \in Nat /\ m * K = f
    BY <2>2, <2>3, <2>4
  <2> HIDE DEF e, f, j, n, m
  <2>6. 2 * e + n <= 2 * f
    BY <1>1, <2>5
  <2> QED
    BY <2>5, <2>6 DEF e
<1> QED
  BY <1>1, <1>2, <1>3, <1>4, <1>5

\* What is spaced below the infinity is below it.
LEMMA SpacedBelow ==
    ASSUME NEW n \in Nat, NEW k \in Nat, NEW q \in Nat, NEW c \in {0, 1}, Spaced(n, k, q, c)
    PROVE  n < Top
<1> DEFINE h == 2 * EXPBIAS - 1
           b == 2 * IMPBIT
<1>1. k \in Nat /\ h \in Nat /\ k <= h /\ b \in Nat /\ n < b * pow2[k]
  <2>1. EXPBIAS \in Nat /\ EXPBIAS >= 3 /\ IMPBIT \in Nat
    BY Widths
  <2>2. k <= 2 * EXPBIAS - 1 /\ n < (2 * IMPBIT) * pow2[k]
    BY DEF Spaced
  <2> QED
    BY <2>1, <2>2
<1> HIDE DEF h, b
<1>2. pow2[k] <= pow2[h]
  BY ONLY <1>1, Pow2Grows
<1>3. pow2[k] \in Nat /\ pow2[h] \in Nat
  BY ONLY <1>1, Pow2Type
<1> DEFINE u == pow2[k]
           v == pow2[h]
<1>4. u \in Nat /\ v \in Nat /\ u <= v /\ n < b * u
  BY <1>1, <1>2, <1>3
<1> HIDE DEF u, v
<1>5. b * u <= b * v /\ b * u \in Nat /\ b * v \in Nat
  BY <1>1, <1>4, Times
<1>6. n < b * v
  BY <1>1, <1>4, <1>5
<1> QED
  BY <1>6 DEF v, b, h, Top

\* The spacing at a product of split factors.
LEMMA ProductSpacing ==
    ASSUME NEW n \in Nat, NEW k \in Nat, NEW q \in Nat, NEW c \in {0, 1}, Spaced(n, k, q, c),
           NEW j \in Nat, n < (2 * IMPBIT) * pow2[j]
    PROVE  k <= j /\ pow2[k] <= pow2[j]
<1>1. IMPBIT \in Nat \ {0}
  BY Widths
<1>2. k <= j
  <2>1. SUFFICES ASSUME k > j PROVE FALSE
    OBVIOUS
  <2>2. IMPBIT * pow2[k] <= n
    BY <2>1 DEF Spaced
  <2>3. 2 * pow2[j] <= pow2[k]
    BY <2>1, Pow2Grows
  <2>4. pow2[j] \in Nat /\ pow2[k] \in Nat
    BY Pow2Type
  <2> DEFINE u == pow2[j]
             v == pow2[k]
  <2>5. u \in Nat /\ v \in Nat /\ 2 * u <= v /\ IMPBIT * v <= n /\ n < (2 * IMPBIT) * u
    BY <2>2, <2>3, <2>4
  <2> HIDE DEF u, v
  <2>6. IMPBIT * (2 * u) <= IMPBIT * v /\ IMPBIT * (2 * u) = (2 * IMPBIT) * u
        /\ (2 * IMPBIT) * u \in Nat /\ IMPBIT * v \in Nat
    BY <1>1, <2>5, Times
  <2> QED
    BY <2>5, <2>6
<1> QED
  BY <1>2, Pow2Grows

\* What is not above the largest number does not overflow.
LEMMA BelowOverflow ==
    ASSUME NEW n \in Nat, n <= (2 * IMPBIT - 1) * pow2[2 * EXPBIAS - 1]
    PROVE  Rounded(n, 1) # EXPBITS
<1> DEFINE h == 2 * EXPBIAS - 1
           k == Binade(n, 1)
           s == pow2[k]
           m == NearestInteger(n, s)
           H == pow2[h]
           u == m + k * IMPBIT
<1>1. /\ IMPBIT \in Nat \ {0} /\ h \in Nat /\ EXPBITS = (h + 2) * IMPBIT /\ EXPBITS \in Nat
  <2>1. EXPBIAS \in Nat /\ EXPBIAS >= 3 /\ EXPBITS = (2 * EXPBIAS + 1) * IMPBIT /\ IMPBIT \in Nat \ {0}
    BY Widths
  <2>2. h + 2 = 2 * EXPBIAS + 1 /\ h \in Nat /\ EXPBITS \in Nat
    BY <2>1, Format
  <2> QED
    BY <2>1, <2>2
<1>2. /\ k \in Nat /\ s \in Nat \ {0} /\ n < s * (2 * IMPBIT) /\ (k > 0 => n >= s * IMPBIT)
      /\ m \in Nat /\ m <= 2 * IMPBIT
  <2>1. k \in Nat /\ s \in Nat \ {0} /\ 1 * s = s
    <3>1. 1 \in Nat \ {0}
      OBVIOUS
    <3>2. k \in Nat /\ s \in Nat \ {0}
      BY ONLY n \in Nat, <3>1, RoundedSteps
    <3> HIDE DEF s
    <3> QED
      BY <3>2
  <2>2. /\ n < (1 * pow2[k]) * (2 * IMPBIT) /\ (k > 0 => n >= (1 * pow2[k]) * IMPBIT)
        /\ NearestInteger(n, 1 * pow2[k]) \in Nat /\ NearestInteger(n, 1 * pow2[k]) <= 2 * IMPBIT
    BY RoundedSteps
  <2> QED
    BY <2>1, <2>2
<1>3. H \in Nat \ {0} /\ n <= (2 * IMPBIT - 1) * H
  BY <1>1, Pow2Type
<1>4. Rounded(n, 1) = IF u > EXPBITS THEN EXPBITS ELSE u
  <2>1. NearestInteger(n, 1 * pow2[k]) = m
    BY <1>2
  <2> HIDE DEF m
  <2> QED
    BY <2>1 DEF Rounded
<1> HIDE DEF h
<1>5. k <= h
  <2>1. SUFFICES ASSUME k > h PROVE FALSE
    BY <1>1, <1>2
  <2>2. 2 * H <= s
    BY <1>1, <1>2, <2>1, Pow2Grows
  <2> HIDE DEF s, H, k
  <2>3. IMPBIT * (2 * H) <= IMPBIT * s /\ IMPBIT * s = s * IMPBIT /\ IMPBIT * (2 * H) = 2 * (IMPBIT * H)
        /\ IMPBIT * H \in Nat /\ s * IMPBIT \in Nat
    BY <1>1, <1>2, <1>3, <2>2, Times
  <2>4. (2 * IMPBIT - 1) * H = 2 * (IMPBIT * H) - H
    BY <1>1, <1>3
  <2> QED
    BY <1>1, <1>2, <1>3, <2>1, <2>3, <2>4
<1>6. k = h => m <= 2 * IMPBIT - 1
  <2>1. SUFFICES ASSUME k = h PROVE m <= 2 * IMPBIT - 1
    OBVIOUS
  <2>2. s = H
    BY <2>1
  <2> DEFINE q == n \div s
             r == n % s
  <2>3. m \in {q, q + 1} /\ (r = 0 => m = q)
    BY <1>2, NearestIs
  <2>4. q \in Nat /\ r \in 0 .. s - 1 /\ n = s * q + r
    <3>1. n \in Int /\ n >= 0 /\ s \in Nat \ {0}
      BY <1>2
    <3> HIDE DEF s
    <3> QED
      BY ONLY <3>1, Division
  <2> HIDE DEF q, r, s, m, H, k
  <2> DEFINE b == 2 * IMPBIT - 1
  <2>5. b \in Nat /\ n <= s * b /\ s \in Nat \ {0}
    <3>1. b * s = s * b
      BY <1>1, <1>2
    <3> QED
      BY <1>1, <1>2, <1>3, <2>2, <3>1
  <2> HIDE DEF b
  <2>6. q <= b
    <3>1. s * q < s * (b + 1)
      <4>1. s * (b + 1) = s * b + s /\ s * b \in Nat /\ s * q \in Nat
        BY <2>4, <2>5
      <4> QED
        BY <2>4, <2>5, <4>1
    <3> QED
      BY <2>4, <2>5, <3>1, Times
  <2>7. q = b => r = 0
    <3>1. s * b \in Nat
      BY <2>5
    <3> QED
      BY <2>4, <2>5, <3>1
  <2>8. m <= b
    BY <2>3, <2>4, <2>5, <2>6, <2>7
  <2> QED
    BY <2>8 DEF b
<1>7. u < EXPBITS
  <2> HIDE DEF m, k
  <2>1. k * IMPBIT \in Nat /\ (h + 2) * IMPBIT = h * IMPBIT + 2 * IMPBIT /\ h * IMPBIT \in Nat
    BY <1>1, <1>2
  <2>2. CASE k = h
    BY <1>1, <1>2, <1>6, <2>1, <2>2
  <2>3. CASE k < h
    <3>1. IMPBIT * (k + 1) <= IMPBIT * h
      BY <1>1, <1>2, <2>3, Times
    <3>2. IMPBIT * (k + 1) = k * IMPBIT + IMPBIT /\ IMPBIT * h = h * IMPBIT
      BY <1>1, <1>2
    <3> QED
      BY <1>1, <1>2, <2>1, <3>1, <3>2
  <2> QED
    BY <1>1, <1>2, <1>5, <2>2, <2>3
<1> HIDE DEF u
<1>8. u \in Int
  BY <1>1, <1>2 DEF u
<1> QED
  BY <1>1, <1>4, <1>7, <1>8

\* A number below the largest one is at least one spacing below it.
LEMMA UnitsBelowLargest ==
    ASSUME NEW u \in Patterns, Finite(u), Magnitude(u) # EXPBITS - 1
    PROVE  Units(u) <= (2 * IMPBIT - 2) * pow2[2 * EXPBIAS - 1]
<1> DEFINE h == 2 * EXPBIAS - 1
           H == pow2[h]
           e == ExponentField(u)
           f == Fraction(u)
<1>1. /\ IMPBIT \in Nat /\ IMPBIT >= 2 /\ EXPBIAS \in Nat /\ EXPBIAS >= 3 /\ h \in Nat
      /\ EXPBITS = (2 * EXPBIAS + 1) * IMPBIT
  <2>1. EXPBIAS \in Nat /\ EXPBIAS >= 3 /\ EXPBITS = (2 * EXPBIAS + 1) * IMPBIT /\ IMPBIT \in Nat \ {0}
        /\ IMPBIT = 2 * QNAN_MASK /\ QNAN_MASK \in Nat
    BY Widths, Format
  <2> QED
    BY <2>1
<1>2. H \in Nat \ {0}
  BY <1>1, Pow2Type
<1>3. /\ e \in Nat /\ f \in 0 .. IMPBIT - 1 /\ Magnitude(u) = e * IMPBIT + f /\ Magnitude(u) < EXPBITS
      /\ e = 0 => Units(u) = f
      /\ e > 0 => Units(u) = (IMPBIT + f) * pow2[e - 1]
  BY Fields, UnitsBounds DEF Finite
<1> DEFINE z == (2 * IMPBIT - 2) * H
<1>4. z \in Nat /\ IMPBIT * H <= z /\ IMPBIT <= IMPBIT * H /\ IMPBIT * H \in Nat
  <2> HIDE DEF H
  <2>1. IMPBIT <= 2 * IMPBIT - 2 /\ 2 * IMPBIT - 2 \in Nat
    BY <1>1
  <2>2. IMPBIT * H <= (2 * IMPBIT - 2) * H /\ (2 * IMPBIT - 2) * H \in Nat /\ IMPBIT * H \in Nat
    BY <1>1, <1>2, <2>1, H <= H, TimesBoth
  <2>3. IMPBIT * 1 <= IMPBIT * H
    BY <1>1, <1>2, Times
  <2> QED
    BY <1>1, <2>2, <2>3
<1> HIDE DEF z
<1>5. CASE e = 0
  BY <1>1, <1>3, <1>4, <1>5 DEF z, H, h
<1>6. e <= 2 * EXPBIAS
  <2>1. SUFFICES ASSUME e >= 2 * EXPBIAS + 1 PROVE FALSE
    BY <1>1, <1>3
  <2>2. IMPBIT * (2 * EXPBIAS + 1) <= IMPBIT * e
    BY <1>1, <1>3, <2>1, Times
  <2>3. IMPBIT * (2 * EXPBIAS + 1) = (2 * EXPBIAS + 1) * IMPBIT /\ IMPBIT * e = e * IMPBIT
        /\ e * IMPBIT \in Nat /\ EXPBITS \in Nat
    BY <1>1, <1>3, Format
  <2> HIDE DEF e, f
  <2> QED
    BY <1>1, <1>3, <2>2, <2>3
<1>7. CASE e = 2 * EXPBIAS
  <2>1. f <= IMPBIT - 2
    <3>1. (2 * EXPBIAS + 1) * IMPBIT = (2 * EXPBIAS) * IMPBIT + IMPBIT /\ (2 * EXPBIAS) * IMPBIT \in Nat
      BY <1>1
    <3> HIDE DEF e, f
    <3> QED
      BY <1>1, <1>3, <1>7, <3>1
  <2>2. e - 1 = h /\ e > 0
    BY <1>1, <1>7
  <2>3. Units(u) = (IMPBIT + f) * H
    BY <1>3, <2>2
  <2>4. IMPBIT + f \in Nat /\ 2 * IMPBIT - 2 \in Nat /\ IMPBIT + f <= 2 * IMPBIT - 2
    BY <1>1, <1>3, <2>1
  <2> HIDE DEF H, f
  <2>5. (IMPBIT + f) * H <= (2 * IMPBIT - 2) * H
    BY <1>2, <2>4, H <= H, TimesBoth
  <2> QED
    BY <2>3, <2>5 DEF H, h
<1>8. CASE e > 0 /\ e < 2 * EXPBIAS
  <2> DEFINE p == pow2[e - 1]
             o == IMPBIT + f
  <2>1. e - 1 \in Nat /\ e - 1 < h
    BY <1>1, <1>3, <1>8
  <2>2. 2 * p <= H /\ p \in Nat
    BY <1>1, <2>1, Pow2Grows, Pow2Type
  <2>3. Units(u) = o * p /\ o \in Nat /\ o <= 2 * IMPBIT /\ IMPBIT * (2 * p) = (2 * IMPBIT) * p
    BY <1>1, <1>3, <1>8, <2>2
  <2> HIDE DEF o, p, H
  <2>4. o * p <= (2 * IMPBIT) * p /\ o * p \in Nat
    BY <1>1, <2>2, <2>3, p <= p, 2 * IMPBIT \in Nat, TimesBoth
  <2>5. IMPBIT * (2 * p) <= IMPBIT * H /\ (2 * IMPBIT) * p \in Nat
    BY <1>1, <1>2, <2>2, Times
  <2> QED
    BY <1>4, <2>3, <2>4, <2>5 DEF z, H, h
<1> QED
  BY <1>1, <1>3, <1>5, <1>6, <1>7, <1>8

-----------------------------------------------------------------------------
(* Units, magnitudes, the parity of a pattern and the powers of two.       *)

\* Magnitudes are in the order of their values.
LEMMA UnitsOrder ==
    ASSUME NEW u \in Patterns, NEW v \in Patterns
    PROVE  /\ Units(u) < Units(v) <=> Magnitude(u) < Magnitude(v)
           /\ Units(u) = Units(v) <=> Magnitude(u) = Magnitude(v)
<1>1. /\ Units(u) \in Nat /\ Units(v) \in Nat /\ Magnitude(u) \in Nat /\ Magnitude(v) \in Nat
      /\ Units(Magnitude(u)) = Units(u) /\ Units(Magnitude(v)) = Units(v)
  BY UnitsBounds, Fields, Format
<1>2. /\ Magnitude(u) < Magnitude(v) => Units(u) < Units(v)
      /\ Magnitude(v) < Magnitude(u) => Units(v) < Units(u)
  BY UnitsGrow
<1> QED
  BY <1>1, <1>2

\* A number with the same magnitude.
LEMMA SameMagnitude ==
    ASSUME NEW u \in Patterns, NEW v \in Patterns, Magnitude(u) = Magnitude(v)
    PROVE  Units(u) = Units(v) /\ (Finite(u) <=> Finite(v))
BY UnitsOrder DEF Finite

\* A number with the sign of another one.
LEMMA GivenSign ==
    ASSUME NEW u \in Patterns, NEW p \in Patterns, ~Negative(p)
    PROVE  LET v == SignOf(u) + p
           IN  /\ v \in Patterns /\ SignOf(v) = SignOf(u) /\ Magnitude(v) = p
               /\ Units(v) = Units(p) /\ (Finite(v) <=> Finite(p))
               /\ (Negative(v) <=> Negative(u))
<1> DEFINE v == SignOf(u) + p
<1>1. SignOf(u) \in {0, SIGNBIT} /\ SIGNBIT \in Nat /\ SIGNBIT > 0 /\ Magnitude(p) = p
  BY Fields, Format DEF Magnitude
<1>2. /\ v \in Patterns /\ SignOf(v) = SignOf(u) /\ Magnitude(v) = p
      /\ (Negative(v) <=> Negative(u))
  BY <1>1 DEF Patterns, SignOf, Negative, Magnitude
<1> QED
  BY <1>1, <1>2, SameMagnitude

\* The sign turned round twice.
LEMMA NegatedTwice ==
    ASSUME NEW u \in Patterns
    PROVE  Negated(u) \in Patterns /\ Negated(Negated(u)) = u
BY Format DEF Patterns, Negated, Negative

\* A sum is a float, whatever it is rounded to.
LEMMA SumType ==
    ASSUME NEW m, NEW a \in Patterns, NEW b \in Patterns
    PROVE  Sum(m, a, b) \in Patterns
<1>1. Value(a) \in Int /\ Value(b) \in Int
  BY ValueIs
<1>2. RoundedIn(m, Value(a) + Value(b), 1) \in Patterns
  <2> DEFINE v == Value(a) + Value(b)
  <2>1. v \in Int
    BY <1>1
  <2> HIDE DEF v
  <2>2. RoundedIn(m, v, 1) \in Patterns
    BY <2>1, RoundedInType
  <2> QED
    BY <2>2 DEF v
<1>3. SignOf(a) \in Patterns /\ NEG_ZERO \in Patterns /\ 0 \in Patterns
  BY Format DEF SignOf, NEG_ZERO, Patterns
<1> QED
  BY <1>2, <1>3 DEF Sum

\* An even multiple of c changes neither the rest nor the parity of the quotient.
LEMMA EvenMultiple ==
    ASSUME NEW a \in Nat, NEW c \in Nat \ {0}, NEW h \in Nat
    PROVE  /\ (a + c * (2 * h)) % c = a % c
           /\ ((a + c * (2 * h)) \div c) % 2 = (a \div c) % 2
<1> DEFINE q == a \div c
           r == a % c
<1>1. a = c * q + r /\ q \in Nat /\ r \in 0 .. c - 1
  <2>1. a \in Int /\ a >= 0
    OBVIOUS
  <2> QED
    BY ONLY <2>1, c \in Nat \ {0}, Division
<1> HIDE DEF q, r
<1>2. a + c * (2 * h) = c * (q + 2 * h) + r
  BY <1>1
<1>3. q + 2 * h \in Int /\ a + c * (2 * h) \in Int
  BY <1>1, <1>2
<1>4. (a + c * (2 * h)) \div c = q + 2 * h /\ (a + c * (2 * h)) % c = r
  BY ONLY <1>1, <1>2, <1>3, DivisionUnique, c \in Nat \ {0}
<1>5. (q + 2 * h) % 2 = q % 2
  BY <1>1
<1> QED
  BY <1>4, <1>5 DEF q, r

\* The sign bit is an even multiple of every unit up to that of the fraction.
LEMMA SignIsEven ==
    ASSUME NEW k \in 0 .. M
    PROVE  \E h \in Nat : SIGNBIT = pow2[k] * (2 * h)
<1>1. k \in Nat /\ E + M \in Nat /\ k <= E + M /\ E + M - k - 1 \in Nat
      /\ (E + M - k - 1) + 1 = E + M - k
  BY SizeAssumption
<1>2. SIGNBIT = pow2[k] * pow2[E + M - k]
  <2> DEFINE n == E + M
  <2>1. n \in Nat /\ k <= n /\ k \in Nat
    BY <1>1
  <2> HIDE DEF n
  <2>2. pow2[n] = pow2[k] * pow2[n - k]
    BY ONLY <2>1, Pow2Grows
  <2>3. SIGNBIT = pow2[n] /\ n - k = E + M - k
    BY SizeAssumption DEF SIGNBIT, n
  <2> QED
    BY ONLY <2>2, <2>3
<1>3. pow2[E + M - k] = 2 * pow2[E + M - k - 1] /\ pow2[E + M - k - 1] \in Nat
  BY <1>1, Pow2Next, Pow2Type
<1> QED
  BY <1>2, <1>3

\* The powers of two among the normal numbers.
LEMMA PowerIs ==
    ASSUME NEW e \in 1 .. 2 * EXPBIAS
    PROVE  /\ e * IMPBIT \in Patterns /\ ~Negative(e * IMPBIT) /\ Finite(e * IMPBIT)
           /\ Magnitude(e * IMPBIT) = e * IMPBIT /\ SignOf(e * IMPBIT) = 0
           /\ e - 1 \in Nat /\ Units(e * IMPBIT) = IMPBIT * pow2[e - 1]
<1>1. /\ IMPBIT \in Nat \ {0} /\ EXPBIAS \in Nat
      /\ EXPBITS = (2 * EXPBIAS + 1) * IMPBIT /\ SIGNBIT = (2 * EXPBIAS + 2) * IMPBIT
  BY Widths
<1>2. /\ e - 1 \in Nat /\ e * IMPBIT = IMPBIT + (e - 1) * IMPBIT
      /\ e * IMPBIT < EXPBITS /\ EXPBITS < SIGNBIT /\ IMPBIT <= 2 * IMPBIT
  BY <1>1
<1>3. /\ e * IMPBIT \in Patterns /\ ~Negative(e * IMPBIT)
      /\ Units(e * IMPBIT) = IMPBIT * pow2[e - 1]
  <2> DEFINE k == e - 1
  <2>1. k \in Nat /\ IMPBIT \in Nat /\ IMPBIT <= 2 * IMPBIT /\ (k > 0 => IMPBIT >= IMPBIT)
        /\ IMPBIT + k * IMPBIT < SIGNBIT
    <3>1. EXPBITS \in Int /\ SIGNBIT \in Int /\ e * IMPBIT \in Int
      BY <1>1, Format
    <3> QED
      BY <1>1, <1>2, <3>1
  <2> HIDE DEF k
  <2>2. /\ IMPBIT + k * IMPBIT \in Patterns /\ ~Negative(IMPBIT + k * IMPBIT)
        /\ Units(IMPBIT + k * IMPBIT) = IMPBIT * pow2[k]
    BY ONLY <2>1, Assembled
  <2> QED
    BY <1>2, <2>2 DEF k
<1> QED
  BY <1>2, <1>3 DEF Finite, Magnitude, SignOf

-----------------------------------------------------------------------------
(* Dekker's product.  A number of M + 1 bits is split into a head and a    *)
(* tail, so that the four partial products are exact; what is computed on  *)
(* the way is exact as well, even where the product is rounded.            *)

\* The bits of a number are split into halves; of an odd number of them the heads have
\* one less.
SplitsInHalf(half) == half \in Nat /\ 2 * half \in {M + 1, M + 2}

\* The heads of a number, whose last half bits are cleared, and of an integer.
HeadOf(u, half)    == Units(u - (u % pow2[half]))
IntHeadOf(t, half) == LET k == CHOOSE j \in 0 .. AbsValue(t) :
                                   /\ t < pow2[M + 1 - half + j]
                                   /\ j > 0 => t >= pow2[M - half + j]
                      IN  t - (t % pow2[k])

\* Dekker's split: the heads have at most as many bits as the tails.
LEMMA SplitIs ==
    ASSUME NEW half, SplitsInHalf(half)
    PROVE  /\ half \in Nat /\ M + 1 - half \in Nat \ {0} /\ M + 1 - half <= half
           /\ pow2[half] \in Nat \ {0} /\ pow2[M + 1 - half] \in Nat
           /\ pow2[half] * pow2[M + 1 - half] = 2 * IMPBIT
           /\ 2 <= pow2[M + 1 - half] /\ pow2[M + 1 - half] <= pow2[half]
<1> DEFINE g == M + 1 - half
<1>1. /\ half \in Nat /\ M \in Nat /\ M + 1 \in Nat /\ M >= 2 /\ g \in Nat \ {0} /\ g <= half
      /\ half + g = M + 1
  BY SizeAssumption, SplitsInHalf(half) DEF SplitsInHalf
<1> HIDE DEF g
<1>2. pow2[half + g] = pow2[half] * pow2[g]
  BY ONLY <1>1, Pow2Sum
<1>3. pow2[half] \in Nat \ {0} /\ pow2[g] \in Nat
  BY ONLY <1>1, Pow2Type
<1>4. pow2[M + 1] = 2 * IMPBIT
  BY <1>1, Pow2Next DEF IMPBIT
<1>5. pow2[g] <= pow2[half]
  BY ONLY <1>1, Pow2Grows
<1>6. pow2[1] = 2
  <2>1. pow2[0 + 1] = 2 * pow2[0] /\ pow2[0] = 1 /\ 0 + 1 = 1
    BY Pow2Next
  <2> QED
    BY <2>1
<1>7. pow2[1] <= pow2[g]
  <2>1. 1 \in Nat /\ g \in Nat /\ 1 <= g
    BY <1>1
  <2> QED
    BY ONLY <2>1, Pow2Grows
<1> QED
  BY <1>1, <1>2, <1>3, <1>4, <1>5, <1>6, <1>7 DEF g

\* The heads h and r and the tails l and D of two factors, whose product is n.
SplitProduct(half, i, k, A, B, C, D, h, l, r, t, n, v) ==
    /\ SplitsInHalf(half)
    /\ i \in Nat /\ k \in Nat /\ A \in Nat /\ B \in Nat /\ C \in Nat /\ D \in Nat
    /\ h \in Nat /\ l \in Nat /\ r \in Nat /\ t \in Nat /\ n \in Nat /\ v \in Nat
    /\ A < pow2[M + 1 - half] /\ C < pow2[M + 1 - half] /\ B < pow2[half] /\ D < pow2[k]
    /\ h = A * pow2[half + i] /\ l = B * pow2[i] /\ r = C * pow2[k] /\ t = r + D
    /\ k <= half \/ (D = 0 /\ k = half + 1 /\ t <= 2 * IMPBIT)
    /\ n = (h + l) * t /\ v = h * t + l * r /\ Rounded(n, 1) # EXPBITS

\* Dekker's product: the partial products, the error of the rounded product, and all
\* that is computed on the way to it are numbers.
LEMMA DekkerExact ==
    ASSUME NEW half, NEW i, NEW k, NEW A, NEW B, NEW C, NEW D, NEW h, NEW l, NEW r, NEW t, NEW n, NEW v,
           SplitProduct(half, i, k, A, B, C, D, h, l, r, t, n, v)
    PROVE  /\ Nearest(h * r - Nearest(n)) = h * r - Nearest(n)
           /\ Nearest(h * t - Nearest(n)) = h * t - Nearest(n)
           /\ Nearest(v - Nearest(n)) = v - Nearest(n)
           /\ Nearest(n - Nearest(n)) = n - Nearest(n)
           /\ Nearest(h * D) = h * D /\ Nearest(l * r) = l * r
           /\ D = 0 \/ k < half => Nearest(l * D) = l * D
<1>0. /\ SplitsInHalf(half)
      /\ i \in Nat /\ k \in Nat /\ A \in Nat /\ B \in Nat /\ C \in Nat /\ D \in Nat
      /\ h \in Nat /\ l \in Nat /\ r \in Nat /\ t \in Nat /\ n \in Nat /\ v \in Nat
      /\ A < pow2[M + 1 - half] /\ C < pow2[M + 1 - half] /\ B < pow2[half] /\ D < pow2[k]
      /\ h = A * pow2[half + i] /\ l = B * pow2[i] /\ r = C * pow2[k] /\ t = r + D
      /\ k <= half \/ (D = 0 /\ k = half + 1 /\ t <= 2 * IMPBIT)
      /\ n = (h + l) * t /\ v = h * t + l * r /\ Rounded(n, 1) # EXPBITS
  BY DEF SplitProduct
<1> USE <1>0
<1> DEFINE S == pow2[half]
           g == M + 1 - half
           Q == pow2[g]
           K == pow2[k]
           I == pow2[i]
<1>1. /\ half \in Nat /\ g \in Nat \ {0} /\ g <= half /\ S \in Nat \ {0} /\ Q \in Nat
      /\ S * Q = 2 * IMPBIT /\ 2 <= Q /\ Q <= S
  BY SplitIs
<1>2. K \in Nat \ {0} /\ I \in Nat \ {0} /\ IMPBIT \in Nat \ {0}
  BY Pow2Type, Widths
<1> HIDE DEF g
<1>3. pow2[half + i] = S * I
  BY <1>1, Pow2Sum
<1>4. pow2[k + i] = K * I
  BY Pow2Sum
<1>5. pow2[half + (k + i)] = S * (K * I) /\ k + i \in Nat
  <2>1. k + i \in Nat /\ half \in Nat
    BY <1>1
  <2>2. pow2[half + (k + i)] = S * pow2[k + i]
    BY ONLY <2>1, Pow2Sum
  <2> QED
    BY <1>4, <2>1, <2>2
<1>6. pow2[g + (k + i)] = Q * (K * I)
  <2>1. k + i \in Nat /\ g \in Nat
    BY <1>1
  <2>2. pow2[g + (k + i)] = Q * pow2[k + i]
    BY ONLY <2>1, Pow2Sum
  <2> QED
    BY <1>4, <2>2
<1>7. /\ A < Q /\ C < Q /\ B < S /\ D < K /\ h = A * (S * I) /\ l = B * I /\ r = C * K /\ t = C * K + D
      /\ K <= S \/ (D = 0 /\ K = 2 * S /\ t <= S * Q)
  <2>1. CASE k <= half
    <3>1. K <= S
      BY <1>1, <2>1, Pow2Grows
    <3> QED
      BY <1>3, <3>1 DEF g
  <2>2. CASE ~(k <= half)
    <3>1. K = 2 * S
      BY <1>1, <2>2, Pow2Next
    <3> QED
      BY <1>1, <1>3, <2>2, <3>1 DEF g
  <2> QED
    BY <2>1, <2>2
<1>8. D # 0 => k <= half
  OBVIOUS
<1>9. k < half => K <= Q
  <2>1. k < half => k <= g
    <3>1. 2 * half <= M + 2 /\ M \in Nat
      BY SizeAssumption DEF SplitsInHalf
    <3> QED
      BY <1>1, <3>1 DEF g
  <2> QED
    BY <1>1, <2>1, Pow2Grows
<1> HIDE DEF S, Q, K, I
<1>10. /\ t < Q * K /\ Q * K \in Nat /\ S * Q \in Nat
       /\ Q * K <= 2 * (S * Q)
       /\ 2 * (B * t) + Q * K <= 2 * ((S * Q) * S)
       /\ D = 0 \/ 2 * (B * D) + Q * K <= 2 * ((S * Q) * K)
  <2>1. /\ S \in Nat \ {0} /\ Q \in Nat /\ K \in Nat \ {0} /\ 2 <= Q /\ Q <= S
        /\ A \in Nat /\ B \in Nat /\ C \in Nat /\ D \in Nat /\ t \in Nat /\ t = C * K + D
        /\ A < Q /\ B < S /\ C < Q /\ D < K
        /\ K <= S \/ (D = 0 /\ K = 2 * S /\ t <= S * Q)
    BY <1>1, <1>2, <1>7
  <2> QED
    BY ONLY <2>1, PartsBound
<1> DEFINE b == 2 * IMPBIT
           hl == h + l
<1>11. hl <= b * I /\ hl \in Nat
  <2>1. hl = (A * S + B) * I
    BY <1>1, <1>2, <1>7
  <2>2. A * S + B <= b
    <3>1. S * (A + 1) <= S * Q
      BY <1>1, <1>7, Times
    <3>2. S * (A + 1) = A * S + S /\ A * S \in Nat
      BY <1>1
    <3> QED
      BY <1>1, <1>7, <3>1, <3>2
  <2> DEFINE j == A * S + B
  <2>3. j \in Nat /\ j <= b /\ hl = j * I /\ b \in Nat
    <3>1. A * S \in Nat
      BY <1>1
    <3> QED
      BY <1>2, <2>1, <2>2, <3>1
  <2> HIDE DEF j, b
  <2>4. j * I <= b * I
    BY <1>2, <2>3, I <= I, TimesBoth
  <2> QED
    BY <2>3, <2>4
<1>12. n < b * (Q * (K * I))
  <2> DEFINE m == Q * K
  <2>1. m \in Nat /\ t + 1 <= m /\ b * I \in Nat \ {0}
    BY <1>2, <1>10
  <2>2. hl * t <= (b * I) * t
    BY <1>11, <2>1, t <= t, TimesBoth
  <2>3. (b * I) * t < (b * I) * m
    BY <2>1, Times
  <2>4. (b * I) * m = b * (Q * (K * I))
    <3>1. (Q * K) * I = Q * (K * I)
      BY <1>1, <1>2
    <3>2. b \in Nat
      BY <1>2
    <3> HIDE DEF m, b
    <3>3. (b * I) * m = b * (m * I)
      BY <1>2, <2>1, <3>2
    <3> QED
      BY <3>1, <3>3 DEF m
  <2>5. n = hl * t /\ (b * I) * t \in Nat /\ (b * I) * m \in Nat
    <3> DEFINE vv == b * I
    <3>1. vv \in Nat
      BY <2>1
    <3> HIDE DEF vv, m
    <3>2. vv * t \in Nat /\ vv * m \in Nat
      BY <2>1, <3>1
    <3> QED
      BY <3>2 DEF vv
  <2> HIDE DEF m, hl, b
  <2> QED
    BY <2>2, <2>3, <2>4, <2>5
<1>13. PICK kk \in Nat, q \in Nat, c \in {0, 1} : Spaced(n, kk, q, c)
  BY NearestSpaced
<1> DEFINE e == pow2[kk]
<1>14. e \in Nat /\ e <= Q * (K * I) /\ kk <= g + (k + i) /\ n < Top
  <2> DEFINE j == g + (k + i)
  <2>1. j \in Nat /\ n < (2 * IMPBIT) * pow2[j]
    BY <1>1, <1>6, <1>12
  <2> HIDE DEF j
  <2>2. kk <= j /\ pow2[kk] <= pow2[j]
    BY <1>13, <2>1, ProductSpacing
  <2>3. e \in Nat
    BY Pow2Type
  <2>4. n < Top
    BY <1>13, SpacedBelow
  <2> QED
    BY <1>6, <2>2, <2>3, <2>4 DEF j
<1> HIDE DEF e
<1> DEFINE hr == h * r
           hd == h * D
           lr == l * r
           ld == l * D
<1>15. hr \in Nat /\ hd \in Nat /\ lr \in Nat /\ ld \in Nat
       /\ h * t = hr + hd /\ l * t = lr + ld /\ n = hr + hd + lr + ld
  <2>1. h * (r + D) = h * r + h * D /\ l * (r + D) = l * r + l * D
    OBVIOUS
  <2>2. n = h * t + l * t
    OBVIOUS
  <2>3. hr \in Nat /\ hd \in Nat /\ lr \in Nat /\ ld \in Nat
    OBVIOUS
  <2> HIDE DEF hr, hd, lr, ld
  <2> QED
    BY <2>1, <2>2, <2>3 DEF hr, hd, lr, ld
<1>16. OnGrid(h, half + i) /\ OnGrid(l, i) /\ OnGrid(r, k) /\ OnGrid(hr, half + (k + i))
       /\ OnGrid(lr, k + i) /\ OnGrid(n, i)
  <2>1. OnGrid(h, half + i) /\ OnGrid(l, i) /\ OnGrid(r, k)
    BY DEF OnGrid
  <2>2. hr = (A * C) * pow2[half + (k + i)]
    BY <1>1, <1>2, <1>5, <1>7
  <2>3. lr = (B * C) * pow2[k + i]
    BY <1>2, <1>4, <1>7
  <2>4. OnGrid(hr, half + (k + i)) /\ OnGrid(lr, k + i)
    <3>1. A * C \in Int /\ B * C \in Int
      OBVIOUS
    <3> QED
      BY <2>2, <2>3, <3>1 DEF OnGrid
  <2>5. OnGrid(h, i)
    BY <1>1, <2>1, i <= half + i, GridFiner
  <2>6. OnGrid(h + l, i)
    <3>1. h \in Int /\ l \in Int /\ i \in Nat /\ OnGrid(h, i) /\ OnGrid(l, i)
      BY <2>1, <2>5
    <3> QED
      BY ONLY <3>1, GridSum
  <2>7. OnGrid((h + l) * t, i)
    BY <1>11, <2>6, GridTimes
  <2> QED
    BY <2>1, <2>4, <2>7
<1> HIDE DEF hr, hd, lr, ld, b, hl
<1>17. Nearest(hr - Nearest(n)) = hr - Nearest(n)
  <2> DEFINE j == half + (k + i)
  <2>1. j \in Nat /\ kk <= j
    BY <1>1, <1>14
  <2>2. hr <= n
    BY <1>15
  <2> HIDE DEF j
  <2>3. ~(j < kk) /\ OnGrid(hr, j)
    BY <1>16, <2>1 DEF j
  <2> QED
    <3>1. /\ n \in Nat /\ kk \in Nat /\ q \in Nat /\ c \in {0, 1} /\ Spaced(n, kk, q, c)
          /\ hr \in Nat /\ hr <= n /\ j \in Nat /\ OnGrid(hr, j) /\ ~(j < kk)
      BY <1>13, <1>15, <2>1, <2>2, <2>3
    <3> QED
      BY ONLY <3>1, MissedExact
<1>18. Nearest(h * t - Nearest(n)) = h * t - Nearest(n)
  <2> DEFINE j == half + i
             a == h * t
  <2>1. j \in Nat /\ a \in Nat /\ a <= n /\ n - a = l * t
    <3>1. j \in Nat
      BY <1>0, <1>1
    <3> DEFINE z == h * t
               o == l * t
    <3>2. z = hr + hd /\ o = lr + ld /\ n = hr + hd + lr + ld
          /\ hr \in Nat /\ hd \in Nat /\ lr \in Nat /\ ld \in Nat
      BY <1>15
    <3> HIDE DEF z, o
    <3>3. z \in Nat /\ z <= n /\ n - z = o
      BY ONLY <3>2
    <3> QED
      BY ONLY <3>1, <3>3 DEF z, o
  <2>2. OnGrid(a, j)
    <3>1. h \in Int /\ t \in Int /\ j \in Nat /\ OnGrid(h, j)
      BY <1>16, <2>1
    <3> HIDE DEF j
    <3> QED
      BY ONLY <3>1, GridTimes DEF a
  <2>3. 2 * (n - a) + e <= 2 * ((2 * IMPBIT) * pow2[j])
    <3> DEFINE m == B * t
               f == (S * Q) * S
    <3>1. m \in Nat /\ f \in Nat /\ Q * K \in Nat /\ 2 * m + Q * K <= 2 * f
      BY <1>1, <1>10
    <3>2. l * t = m * I /\ (2 * IMPBIT) * pow2[j] = f * I /\ Q * (K * I) = (Q * K) * I
      <4>1. (B * I) * t = (B * t) * I
        BY <1>2
      <4>2. (S * Q) * (S * I) = ((S * Q) * S) * I
        BY <1>1, <1>2, <1>10
      <4>3. Q * (K * I) = (Q * K) * I
        BY <1>1, <1>2
      <4> QED
        BY <1>1, <1>3, <1>7, <4>1, <4>2, <4>3
    <3> DEFINE o == Q * K
    <3>3. o \in Nat /\ 2 * m + o <= 2 * f /\ e <= o * I
      BY <1>14, <3>1, <3>2
    <3> HIDE DEF m, f, o
    <3>4. I * (2 * m + o) <= I * (2 * f)
      BY <1>2, <3>1, <3>3, Times
    <3>5. I * (2 * m + o) = 2 * (m * I) + o * I /\ I * (2 * f) = 2 * (f * I)
          /\ m * I \in Nat /\ o * I \in Nat /\ f * I \in Nat
      BY <1>2, <3>1, <3>3
    <3> HIDE DEF a, j
    <3>6. 2 * (m * I) + e <= 2 * (f * I)
      BY <1>14, <3>3, <3>4, <3>5
    <3> QED
      BY <2>1, <3>2, <3>6
  <2> HIDE DEF a, j
  <2>4. Nearest(a - Nearest(n)) = a - Nearest(n)
    <3>1. /\ n \in Nat /\ kk \in Nat /\ q \in Nat /\ c \in {0, 1} /\ Spaced(n, kk, q, c)
          /\ a \in Nat /\ a <= n /\ j \in Nat /\ OnGrid(a, j)
          /\ 2 * (n - a) + pow2[kk] <= 2 * ((2 * IMPBIT) * pow2[j])
      BY <1>13, <2>1, <2>2, <2>3 DEF e
    <3> QED
      BY ONLY <3>1, MissedExact
  <2> QED
    BY <2>4 DEF a
<1>19. Nearest(n - Nearest(n)) = n - Nearest(n)
  <2>1. e <= 2 * ((2 * IMPBIT) * I)
    <3> DEFINE m == S * Q
               o == Q * K
    <3>1. m \in Nat /\ o \in Nat /\ o <= 2 * m /\ Q * (K * I) = o * I
      BY <1>1, <1>2, <1>10
    <3>2. 2 * IMPBIT = m
      BY <1>1
    <3> HIDE DEF m, o
    <3>3. I * o <= I * (2 * m) /\ I * o = o * I /\ I * (2 * m) = 2 * (m * I) /\ o * I \in Nat /\ m * I \in Nat
      BY <1>2, <3>1, Times
    <3>4. e <= 2 * (m * I)
      BY <1>14, <3>1, <3>3
    <3> QED
      BY <3>2, <3>4
  <2>2. n - n = 0 /\ n <= n
    OBVIOUS
  <2>3. 2 * (n - n) + pow2[kk] <= 2 * ((2 * IMPBIT) * pow2[i])
    <3> DEFINE vv == (2 * IMPBIT) * I
    <3>1. e <= 2 * vv
      BY <2>1
    <3> HIDE DEF vv
    <3>2. 2 * (n - n) + e <= 2 * vv
      BY <1>14, <2>2, <3>1
    <3> QED
      BY <3>2 DEF vv, e, I
  <2> QED
    <3>1. /\ n \in Nat /\ kk \in Nat /\ q \in Nat /\ c \in {0, 1} /\ Spaced(n, kk, q, c)
          /\ n <= n /\ i \in Nat /\ OnGrid(n, i)
          /\ 2 * (n - n) + pow2[kk] <= 2 * ((2 * IMPBIT) * pow2[i])
      BY <1>13, <1>16, <2>2, <2>3
    <3> QED
      BY ONLY <3>1, MissedExact
<1>20. Nearest(v - Nearest(n)) = v - Nearest(n)
  <2>1. CASE D = 0
    <3>1. v = n
      <4>1. ld = 0
        BY <2>1 DEF ld
      <4> QED
        BY <1>15, <4>1 DEF lr
    <3> QED
      BY ONLY <1>19, <3>1
  <2>2. CASE D # 0
    <3> DEFINE j == k + i
               a == v
    <3>1. j \in Nat /\ a \in Nat /\ a <= n /\ n - a = ld
      BY <1>15 DEF lr
    <3>2. OnGrid(a, j)
      <4>1. k + i <= half + i /\ half + i \in Nat /\ k + i \in Nat
        BY <1>1, <2>2
      <4>2. OnGrid(h, k + i)
        BY <1>16, <4>1, GridFiner
      <4>3. OnGrid(h * t, k + i) /\ h * t \in Int
        BY <4>1, <4>2, GridTimes
      <4> QED
        <5>1. a = h * t + lr /\ h * t \in Int /\ lr \in Int /\ k + i \in Nat /\ OnGrid(h * t, k + i) /\ OnGrid(lr, k + i)
          BY <1>15, <1>16, <4>1, <4>3 DEF lr
        <5> QED
          BY ONLY <5>1, GridSum
    <3>3. 2 * (n - a) + e <= 2 * ((2 * IMPBIT) * pow2[j])
      <4> DEFINE m == B * D
                 f == (S * Q) * K
                 o == Q * K
      <4>1. m \in Nat /\ f \in Nat /\ o \in Nat /\ 2 * m + o <= 2 * f
        BY <1>1, <1>2, <1>10, <2>2
      <4>2. ld = m * I /\ (2 * IMPBIT) * pow2[j] = f * I /\ Q * (K * I) = o * I
        <5>1. (B * I) * D = (B * D) * I
          BY <1>2
        <5>2. (S * Q) * (K * I) = ((S * Q) * K) * I
          BY <1>1, <1>2, <1>10
        <5>3. Q * (K * I) = (Q * K) * I
          BY <1>1, <1>2
        <5> QED
          BY <1>1, <1>4, <1>7, <5>1, <5>2, <5>3 DEF ld
      <4>3. e <= o * I
        BY <1>14, <4>2
      <4> HIDE DEF m, f, o, a, j
      <4>4. I * (2 * m + o) <= I * (2 * f)
        BY <1>2, <4>1, Times
      <4>5. I * (2 * m + o) = 2 * (m * I) + o * I /\ I * (2 * f) = 2 * (f * I)
            /\ m * I \in Nat /\ o * I \in Nat /\ f * I \in Nat
        BY <1>2, <4>1
      <4>6. 2 * (m * I) + e <= 2 * (f * I)
        BY <1>14, <4>3, <4>4, <4>5
      <4> QED
        BY <3>1, <4>2, <4>6
    <3> HIDE DEF a, j
    <3>4. Nearest(a - Nearest(n)) = a - Nearest(n)
      <4>1. /\ n \in Nat /\ kk \in Nat /\ q \in Nat /\ c \in {0, 1} /\ Spaced(n, kk, q, c)
            /\ a \in Nat /\ a <= n /\ j \in Nat /\ OnGrid(a, j)
            /\ 2 * (n - a) + pow2[kk] <= 2 * ((2 * IMPBIT) * pow2[j])
        BY <1>13, <3>1, <3>2, <3>3 DEF e
      <4> QED
        BY ONLY <4>1, MissedExact
    <3> QED
      BY <3>4 DEF a
  <2> QED
    BY <2>1, <2>2
<1>21. ASSUME NEW o \in Nat, o <= n, NEW j \in Nat, NEW m \in Nat, m <= S * Q, o = m * pow2[j]
       PROVE  Nearest(o) = o
  <2> DEFINE u == pow2[j]
  <2>1. u \in Nat
    BY Pow2Type
  <2>2. OnGrid(o, j)
    BY <1>21, m \in Int DEF OnGrid
  <2>3. m * u <= (S * Q) * u
    BY <1>10, <1>21, <2>1, u <= u, TimesBoth
  <2>4. AbsValue(o) = o
    BY DEF AbsValue
  <2>5. AbsValue(o) <= (2 * IMPBIT) * pow2[j]
    BY <1>1, <1>21, <2>3, <2>4
  <2>6. Top \in Int
    <3>1. 2 * EXPBIAS - 1 \in Nat
      BY Widths
    <3>2. pow2[2 * EXPBIAS - 1] \in Nat
      BY ONLY <3>1, Pow2Type
    <3> QED
      BY <1>2, <3>2 DEF Top
  <2>7. AbsValue(o) < Top
    BY <1>14, <1>21, <2>4, <2>6
  <2> QED
    BY <2>2, <2>5, <2>7, GridExact
<1>22. Nearest(hd) = hd
  <2>1. hd = (A * D) * pow2[half + i] /\ half + i \in Nat /\ A * D \in Nat /\ hd <= n
    <3>1. (A * (S * I)) * D = (A * D) * (S * I) /\ A * D \in Nat
      BY <1>1, <1>2
    <3> QED
      BY <1>1, <1>3, <1>7, <1>15, <3>1 DEF hd
  <2>2. A * D <= S * Q
    <3>1. CASE D = 0
      BY <1>10, <3>1
    <3>2. CASE K <= S
      <4>1. D <= S /\ A <= Q
        BY <1>1, <1>2, <1>7, <3>2
      <4>2. D * A <= S * Q /\ D * A = A * D
        BY <1>1, <4>1, TimesBoth
      <4> QED
        BY <4>2
    <3> QED
      BY <1>7, <3>1, <3>2
  <2> QED
    BY <1>15, <1>21, <2>1, <2>2
<1>23. Nearest(lr) = lr
  <2>1. lr = (B * C) * pow2[k + i] /\ k + i \in Nat /\ B * C \in Nat /\ lr <= n
    BY <1>2, <1>4, <1>7, <1>15 DEF lr
  <2>2. B * C <= S * Q
    BY <1>1, <1>7, B <= S, C <= Q, TimesBoth
  <2> QED
    BY <1>15, <1>21, <2>1, <2>2
<1>24. D = 0 \/ k < half => Nearest(ld) = ld
  <2>1. SUFFICES ASSUME D = 0 \/ K <= Q PROVE Nearest(ld) = ld
    BY <1>9
  <2>2. ld = (B * D) * pow2[i] /\ B * D \in Nat /\ ld <= n
    <3>1. (B * I) * D = (B * D) * I /\ B * D \in Nat
      BY <1>2
    <3> QED
      BY <1>7, <1>15, <3>1 DEF ld, I
  <2>3. B * D <= S * Q
    <3>1. CASE D = 0
      BY <1>10, <3>1
    <3>2. CASE K <= Q
      <4>1. D <= Q /\ B <= S
        BY <1>1, <1>2, <1>7, <3>2
      <4> QED
        BY <1>1, <4>1, TimesBoth
    <3> QED
      BY <2>1, <3>1, <3>2
  <2> QED
    BY <1>15, <1>21, <2>2, <2>3
<1> QED
  BY <1>17, <1>18, <1>19, <1>20, <1>22, <1>23, <1>24 DEF hr, hd, lr, ld

\* The head of a number is a multiple of its tail's range.
LEMMA HeadIs ==
    ASSUME NEW half, SplitsInHalf(half), NEW u \in Patterns, ~Negative(u), Finite(u)
    PROVE  \E i \in Nat, A \in Nat, B \in Nat :
              /\ A < pow2[M + 1 - half] /\ B < pow2[half]
              /\ HeadOf(u, half) = A * pow2[half + i] /\ Units(u) = HeadOf(u, half) + B * pow2[i]
<1> DEFINE e == ExponentField(u)
           f == Fraction(u)
           k == IF e = 0 THEN 0 ELSE e - 1
           m == IF e = 0 THEN f ELSE IMPBIT + f
           S == pow2[half]
           Q == pow2[M + 1 - half]
           R == pow2[M - half]
           A == m \div S
           B == m % S
<1>1. /\ IMPBIT \in Nat \ {0} /\ S \in Nat \ {0} /\ Q \in Nat /\ S * Q = 2 * IMPBIT /\ half \in Nat
  BY SplitIs, Widths
<1>2. R \in Nat /\ IMPBIT = S * R
  <2> DEFINE z == M - half
  <2>1. z \in Nat /\ half + z = M /\ half \in Nat
    BY SizeAssumption, SplitIs
  <2> HIDE DEF z
  <2>2. pow2[half + z] = pow2[half] * pow2[z]
    BY ONLY <2>1, Pow2Sum
  <2>3. pow2[z] \in Nat
    BY ONLY <2>1, Pow2Type
  <2> QED
    BY <2>1, <2>2, <2>3 DEF z, IMPBIT
<1>3. /\ e \in Nat /\ f \in 0 .. IMPBIT - 1 /\ u = e * IMPBIT + f
      /\ e = 0 => Units(u) = f
      /\ e > 0 => Units(u) = (IMPBIT + f) * pow2[e - 1]
      /\ u \in Nat /\ u < SIGNBIT /\ SIGNBIT \in Nat
  <2>1. /\ e \in Nat /\ f \in 0 .. IMPBIT - 1 /\ Magnitude(u) = e * IMPBIT + f
        /\ e = 0 => Units(u) = f
        /\ e > 0 => Units(u) = (IMPBIT + f) * pow2[e - 1]
    BY Fields, UnitsBounds
  <2>2. Magnitude(u) = u /\ u \in Nat /\ u < SIGNBIT /\ SIGNBIT \in Nat
    BY Format DEF Magnitude, Negative, Patterns
  <2> QED
    BY <2>1, <2>2
<1> HIDE DEF e, f, S, Q, R
<1>4. /\ k \in Nat /\ m \in Nat /\ m < 2 * IMPBIT /\ u = k * IMPBIT + m /\ (k > 0 => m >= IMPBIT)
      /\ Units(u) = m * pow2[k]
  <2>1. CASE e = 0
    <3>1. 0 * IMPBIT = 0 /\ pow2[0] = 1
      BY <1>1, Pow2Next
    <3> QED
      BY <1>1, <1>3, <2>1, <3>1
  <2>2. CASE e # 0
    <3>1. e * IMPBIT = (e - 1) * IMPBIT + IMPBIT /\ (e - 1) * IMPBIT \in Nat
      BY <1>1, <1>3, <2>2
    <3> QED
      BY <1>1, <1>3, <2>2, <3>1
  <2> QED
    BY <2>1, <2>2
<1> HIDE DEF k, m
<1>5. A \in Nat /\ B \in 0 .. S - 1 /\ m = S * A + B
  <2>1. m \in Int /\ m >= 0 /\ S \in Nat \ {0}
    BY <1>1, <1>4
  <2> QED
    BY ONLY <2>1, Division
<1> HIDE DEF A, B
<1>6. A < Q
  <2>1. S * A < S * Q
    <3>1. S * A \in Nat
      BY <1>1, <1>5
    <3> QED
      BY <1>1, <1>4, <1>5, <3>1
  <2> QED
    BY <1>1, <1>5, <2>1, Times
<1>7. u % S = B
  <2> DEFINE z == A + k * R
  <2>1. z \in Int /\ u = S * z + B
    <3>1. S * (A + k * R) = S * A + S * (k * R) /\ S * (k * R) = k * (S * R) /\ k * R \in Nat
      BY <1>1, <1>2, <1>4, <1>5
    <3>2. k * IMPBIT \in Nat /\ S * A \in Nat
      BY <1>1, <1>4, <1>5
    <3> QED
      BY <1>2, <1>4, <1>5, <3>1, <3>2
  <2> HIDE DEF z
  <2>2. u \in Int /\ S \in Nat \ {0} /\ z \in Int /\ B \in 0 .. S - 1 /\ u = S * z + B
    BY <1>1, <1>3, <1>5, <2>1
  <2> QED
    BY ONLY <2>2, DivisionUnique
<1>8. HeadOf(u, half) = (S * A) * pow2[k]
  <2> DEFINE n == S * A
             z == k * IMPBIT
  <2>1. n \in Nat /\ n <= 2 * IMPBIT /\ n + z < SIGNBIT /\ u - (u % S) = n + z
    <3>1. n \in Nat /\ z \in Nat
      BY <1>1, <1>4, <1>5
    <3>2. u = z + m /\ m = n + B
      BY <1>4, <1>5
    <3> HIDE DEF n, z
    <3> QED
      BY <1>1, <1>3, <1>4, <1>5, <1>7, <3>1, <3>2
  <2>2. k > 0 => n >= IMPBIT
    <3>1. SUFFICES ASSUME k > 0 PROVE n >= IMPBIT
      OBVIOUS
    <3>2. S * R < S * (A + 1)
      <4>1. S * (A + 1) = S * A + S /\ S * A \in Nat
        BY <1>1, <1>5
      <4> QED
        BY <1>1, <1>2, <1>4, <1>5, <3>1, <4>1
    <3>3. R <= A
      BY <1>1, <1>2, <1>5, <3>2, Times
    <3>4. S * R <= S * A
      BY <1>1, <1>2, <1>5, <3>3, Times
    <3> QED
      BY <1>2, <3>4
  <2> HIDE DEF n, z
  <2>3. Units(n + k * IMPBIT) = n * pow2[k]
    <3>1. n \in Nat /\ k \in Nat /\ n <= 2 * IMPBIT /\ (k > 0 => n >= IMPBIT) /\ n + k * IMPBIT < SIGNBIT
      BY <1>4, <2>1, <2>2 DEF z
    <3> QED
      BY ONLY <3>1, Assembled
  <2> QED
    BY <2>1, <2>3 DEF HeadOf, n, z, S
<1>9. pow2[half + k] = S * pow2[k] /\ pow2[k] \in Nat
  BY <1>1, <1>4, Pow2Sum, Pow2Type DEF S
<1>10. /\ HeadOf(u, half) = A * pow2[half + k] /\ Units(u) = HeadOf(u, half) + B * pow2[k]
  <2> DEFINE z == pow2[k]
  <2>1. z \in Nat /\ pow2[half + k] = S * z /\ HeadOf(u, half) = (S * A) * z /\ Units(u) = m * z
    BY <1>4, <1>8, <1>9
  <2> HIDE DEF z
  <2>2. (S * A) * z = A * (S * z) /\ (S * A + B) * z = (S * A) * z + B * z
    BY <1>1, <1>5, <2>1
  <2> QED
    BY <1>5, <2>1, <2>2 DEF z
<1>11. /\ k \in Nat /\ A \in Nat /\ B \in Nat /\ A < pow2[M + 1 - half] /\ B < pow2[half]
       /\ HeadOf(u, half) = A * pow2[half + k] /\ Units(u) = HeadOf(u, half) + B * pow2[k]
  <2>1. B \in Nat /\ B < S
    BY <1>1, <1>5
  <2> QED
    BY <1>4, <1>5, <1>6, <1>10, <2>1 DEF S, Q
<1> QED
  BY ONLY <1>11

\* There is a number of bits that the head of an integer lacks.
LEMMA IntHeadExists ==
    ASSUME NEW half, SplitsInHalf(half), NEW t \in Nat
    PROVE  \E j \in 0 .. AbsValue(t) : /\ t < pow2[M + 1 - half + j]
                                       /\ j > 0 => t >= pow2[M - half + j]
<1> DEFINE g == M + 1 - half
           T == {j \in Nat : t < pow2[M + 1 - half + j]}
<1>1. /\ half \in Nat \ {0} /\ g \in Nat \ {0} /\ M \in Nat /\ half + g = M + 1
  BY SplitIs, SizeAssumption
<1>2. t \in T
  <2> DEFINE z == g + t
  <2>1. z \in Nat /\ z > t
    BY <1>1
  <2> HIDE DEF z
  <2>2. pow2[z] \in Nat /\ pow2[z] > z
    BY ONLY <2>1, Pow2Type
  <2> QED
    BY <2>1, <2>2 DEF z
<1>3. T \subseteq Nat
  OBVIOUS
<1> HIDE DEF T
<1>4. PICK j \in T : j <= t /\ \A o \in 0 .. j - 1 : o \notin T
  BY <1>2, <1>3, Least
<1>5. j \in 0 .. AbsValue(t)
  BY <1>3, <1>4 DEF AbsValue
<1>6. ASSUME j > 0 PROVE t >= pow2[M - half + j]
  <2> DEFINE z == g + (j - 1)
  <2>1. j - 1 \in 0 .. j - 1 /\ j - 1 \in Nat /\ j - 1 \notin T
    BY <1>3, <1>4, <1>6
  <2>2. ~(t < pow2[M + 1 - half + (j - 1)])
    BY <2>1 DEF T
  <2>3. M + 1 - half + (j - 1) = M - half + j /\ M + 1 - half + (j - 1) \in Nat
    <3>1. j \in Nat /\ j - 1 \in Nat /\ half \in Nat /\ M \in Nat /\ M + 1 - half \in Nat
      BY <1>1, <1>3, <1>4, <2>1
    <3> QED
      BY ONLY <3>1
  <2>4. pow2[M + 1 - half + (j - 1)] \in Nat
    BY ONLY <2>3, Pow2Type
  <2> QED
    BY <2>2, <2>3, <2>4
<1> QED
  BY <1>4, <1>5, <1>6 DEF T

\* The head of a quotient, and a tail that has the fewer bits the shorter the quotient is.
LEMMA IntHeadIs ==
    ASSUME NEW half, SplitsInHalf(half), NEW t \in Nat, t <= 2 * IMPBIT
    PROVE  \E k \in Nat, C \in Nat, D \in Nat :
              /\ C < pow2[M + 1 - half] /\ D < pow2[k]
              /\ IntHeadOf(t, half) = C * pow2[k] /\ t = IntHeadOf(t, half) + D
              /\ k <= half \/ (D = 0 /\ k = half + 1)
              /\ t <= IMPBIT => D = 0 \/ k < half
<1> DEFINE g == M + 1 - half
           S == pow2[half]
           Q == pow2[g]
           P(j) == t < pow2[M + 1 - half + j] /\ (j > 0 => t >= pow2[M - half + j])
           k == CHOOSE j \in 0 .. AbsValue(t) : P(j)
           K == pow2[k]
           C == t \div K
           D == t % K
<1>1. /\ half \in Nat \ {0} /\ g \in Nat \ {0} /\ M \in Nat /\ half + g = M + 1
      /\ S \in Nat \ {0} /\ Q \in Nat /\ S * Q = 2 * IMPBIT /\ IMPBIT \in Nat \ {0}
  BY SplitIs, Widths, SizeAssumption
<1>2. \E j \in 0 .. AbsValue(t) : P(j)
  BY IntHeadExists
<1>3. k \in 0 .. AbsValue(t) /\ P(k)
  <2> HIDE DEF P
  <2> QED
    BY <1>2
<1>4. k \in Nat /\ t < pow2[g + k] /\ (k > 0 => t >= pow2[M - half + k])
  <2>1. AbsValue(t) \in Nat
    BY DEF AbsValue
  <2>2. P(k)
    BY <1>3
  <2> HIDE DEF k
  <2> QED
    BY <1>3, <2>1, <2>2
<1>5. IntHeadOf(t, half) = t - D
  BY DEF IntHeadOf
<1> HIDE DEF k, g
<1>6. K \in Nat \ {0}
  BY <1>4, Pow2Type
<1>7. C \in Nat /\ D \in 0 .. K - 1 /\ t = K * C + D
  <2>1. t \in Int /\ t >= 0
    OBVIOUS
  <2> QED
    BY ONLY <1>6, <2>1, Division
<1> HIDE DEF K, C, D, S, Q
<1>8. C < Q
  <2>1. pow2[g + k] = Q * K
    BY ONLY <1>1, <1>4, Pow2Sum DEF Q, K
  <2>2. K * C < K * Q
    <3>1. Q * K = K * Q /\ K * C \in Nat /\ K * Q \in Nat
      BY <1>1, <1>6, <1>7
    <3> QED
      BY <1>4, <1>7, <2>1, <3>1
  <2> QED
    BY <1>1, <1>6, <1>7, <2>2, Times
<1>9. IntHeadOf(t, half) = C * K /\ t = IntHeadOf(t, half) + D
  <2>1. K * C = C * K /\ K * C \in Nat
    BY <1>6, <1>7
  <2> QED
    BY <1>5, <1>7, <2>1
<1>10. pow2[M + 1] = 2 * IMPBIT /\ pow2[M] = IMPBIT
  BY <1>1, Pow2Next DEF IMPBIT
<1>11. k <= half + 1
  <2>1. SUFFICES ASSUME k > half + 1 PROVE FALSE
    BY <1>1, <1>4
  <2> DEFINE z == M - half + k
  <2>2. z \in Nat /\ M + 1 \in Nat /\ M + 1 < z /\ t >= pow2[z]
    BY <1>1, <1>4, <2>1
  <2> HIDE DEF z
  <2>3. 2 * pow2[M + 1] <= pow2[z]
    BY ONLY <2>2, Pow2Grows
  <2>4. pow2[z] \in Nat
    BY ONLY <2>2, Pow2Type
  <2> QED
    BY <1>1, <1>10, <2>2, <2>3, <2>4
<1>12. k = half + 1 => D = 0 /\ t = 2 * IMPBIT
  <2>1. SUFFICES ASSUME k = half + 1 PROVE D = 0 /\ t = 2 * IMPBIT
    OBVIOUS
  <2>2. M - half + k = M + 1 /\ k > 0
    BY <1>1, <2>1
  <2>3. t = 2 * IMPBIT
    BY <1>1, <1>4, <1>10, <2>2
  <2>4. K = 2 * S
    BY <1>1, <2>1, Pow2Next DEF K, S
  <2> DEFINE o == pow2[g - 1]
  <2>5. o \in Nat /\ Q = 2 * o
    <3>1. g - 1 \in Nat /\ (g - 1) + 1 = g
      BY <1>1
    <3>2. pow2[(g - 1) + 1] = 2 * pow2[g - 1] /\ pow2[g - 1] \in Nat
      BY ONLY <3>1, Pow2Next, Pow2Type
    <3> QED
      BY <3>1, <3>2 DEF Q
  <2> HIDE DEF o
  <2>6. t = K * o + 0
    <3>1. S * (2 * o) = (2 * S) * o /\ (2 * S) * o \in Nat
      BY <1>1, <2>5
    <3> QED
      BY <1>1, <2>3, <2>4, <2>5, <3>1
  <2>7. t \in Int /\ K \in Nat \ {0} /\ o \in Int /\ 0 \in 0 .. K - 1 /\ t = K * o + 0
    BY <1>6, <2>5, <2>6
  <2>8. t % K = 0
    BY ONLY <2>7, DivisionUnique
  <2> QED
    BY <2>3, <2>8 DEF D
<1>13. ASSUME t <= IMPBIT PROVE D = 0 \/ k < half
  <2>1. k # half + 1
    BY <1>1, <1>12, <1>13
  <2>2. SUFFICES ASSUME k = half PROVE D = 0
    BY <1>1, <1>4, <1>11, <2>1
  <2>3. M - half + k = M /\ k > 0
    BY <1>1, <2>2
  <2>4. t = IMPBIT /\ K = S
    BY <1>1, <1>4, <1>10, <1>13, <2>2, <2>3 DEF K, S
  <2> DEFINE o == pow2[M - half]
  <2>5. o \in Nat /\ IMPBIT = S * o
    <3> DEFINE z == M - half
    <3>1. z \in Nat /\ half + z = M /\ half \in Nat
      BY <1>1
    <3> HIDE DEF z
    <3>2. pow2[half + z] = pow2[half] * pow2[z]
      BY ONLY <3>1, Pow2Sum
    <3>3. pow2[z] \in Nat
      BY ONLY <3>1, Pow2Type
    <3> QED
      BY <3>1, <3>2, <3>3 DEF z, IMPBIT, S
  <2> HIDE DEF o
  <2>7. t \in Int /\ K \in Nat \ {0} /\ o \in Int /\ 0 \in 0 .. K - 1 /\ t = K * o + 0
    <3>1. K * o \in Nat
      BY <1>6, <2>5
    <3> QED
      BY <1>6, <2>4, <2>5, <3>1
  <2>8. t % K = 0
    BY ONLY <2>7, DivisionUnique
  <2> QED
    BY <2>8 DEF D
<1>14. k <= half \/ (D = 0 /\ k = half + 1)
  BY <1>1, <1>4, <1>11, <1>12
<1>15. /\ k \in Nat /\ C \in Nat /\ D \in Nat /\ C < pow2[M + 1 - half] /\ D < pow2[k]
       /\ IntHeadOf(t, half) = C * pow2[k] /\ t = IntHeadOf(t, half) + D
       /\ k <= half \/ (D = 0 /\ k = half + 1)
       /\ t <= IMPBIT => D = 0 \/ k < half
  <2>1. D \in Nat /\ D < K
    BY <1>6, <1>7
  <2> QED
    BY <1>4, <1>7, <1>8, <1>9, <1>13, <1>14, <2>1 DEF Q, K, g
<1> QED
  BY ONLY <1>15

-----------------------------------------------------------------------------
(* What a rounding, a quotient and Dekker's product leave where the product *)
(* is contracted, so that its parts need not fit.  No number overflows.    *)

\* The largest number and the one below it.
Largest     == (2 * IMPBIT - 1) * pow2[2 * EXPBIAS - 1]
NextLargest == (2 * IMPBIT - 2) * pow2[2 * EXPBIAS - 1]

\* They are one spacing apart.
LEMMA LargestIs ==
    LET u == pow2[2 * EXPBIAS - 1]
        k == 2 * IMPBIT
    IN  /\ u \in Nat \ {0} /\ k \in Nat /\ k >= 8 /\ (M > 2 => k >= 16)
        /\ k * u \in Nat /\ 8 * u <= k * u /\ k * u = 2 * (IMPBIT * u) /\ IMPBIT * u \in Nat
        /\ Largest = k * u - u /\ NextLargest = k * u - 2 * u
        /\ Largest \in Nat /\ NextLargest \in Nat
<1> DEFINE u == pow2[2 * EXPBIAS - 1]
           k == 2 * IMPBIT
<1>1. u \in Nat \ {0}
  <2>1. 2 * EXPBIAS - 1 \in Nat
    BY Widths
  <2> QED
    BY ONLY <2>1, Pow2Type
<1>2. k \in Nat /\ k >= 8 /\ (M > 2 => k >= 16) /\ IMPBIT \in Nat /\ k = 2 * IMPBIT
  <2>1. M \in Nat /\ M >= 2 /\ IMPBIT = pow2[M]
    BY SizeAssumption DEF IMPBIT
  <2>2. pow2[2] = 4 /\ pow2[3] = 8
    <3>1. pow2[0] = 1 /\ pow2[0 + 1] = 2 * pow2[0] /\ pow2[1 + 1] = 2 * pow2[1] /\ pow2[2 + 1] = 2 * pow2[2]
      BY Pow2Next
    <3> QED
      BY <3>1
  <2>3. pow2[2] <= pow2[M] /\ (M > 2 => pow2[3] <= pow2[M]) /\ pow2[M] \in Nat
    BY <2>1, Pow2Grows, Pow2Type
  <2> QED
    BY <2>1, <2>2, <2>3
<1>3. Largest = (k - 1) * u /\ NextLargest = (k - 2) * u
  BY DEF Largest, NextLargest
<1> HIDE DEF u, k
<1>4. (k - 1) * u = k * u - u /\ (k - 2) * u = k * u - 2 * u /\ k * u \in Nat
      /\ IMPBIT * u \in Nat
  BY <1>1, <1>2
<1>5. k * u = 2 * (IMPBIT * u)
  BY <1>1, <1>2
<1>6. u * 8 <= u * k /\ u * k = k * u
  BY <1>1, <1>2, Times
<1> DEFINE v == k * u
<1>7. v \in Nat /\ 8 * u <= v /\ Largest = v - u /\ NextLargest = v - 2 * u
  BY <1>1, <1>3, <1>4, <1>6
<1> HIDE DEF v
<1>8. Largest \in Nat /\ NextLargest \in Nat
  BY <1>1, <1>7
<1>9. /\ u \in Nat \ {0} /\ k \in Nat /\ k >= 8 /\ (M > 2 => k >= 16)
      /\ k * u \in Nat /\ 8 * u <= k * u /\ k * u = 2 * (IMPBIT * u) /\ IMPBIT * u \in Nat
      /\ Largest = k * u - u /\ NextLargest = k * u - 2 * u
      /\ Largest \in Nat /\ NextLargest \in Nat
  BY <1>1, <1>2, <1>4, <1>5, <1>7, <1>8 DEF v
<1> QED
  BY <1>9 DEF u, k

\* A rounding moves a number by at most one part of it in 2^(M + 1).
LEMMA NearestClose ==
    ASSUME NEW n \in Int, -Largest <= n, n <= Largest
    PROVE  /\ Nearest(n) \in Int /\ Nearest(n) - n \in Int
           /\ (2 * IMPBIT) * AbsValue(Nearest(n) - n) <= AbsValue(n)
           /\ (n >= 0 => Nearest(n) >= 0) /\ (n <= 0 => Nearest(n) <= 0)
<1>1. ASSUME NEW m \in Nat, m <= Largest
      PROVE  /\ Nearest(m) \in Nat /\ (2 * IMPBIT) * AbsValue(Nearest(m) - m) <= m
  <2>1. Rounded(m, 1) # EXPBITS
    BY <1>1, BelowOverflow DEF Largest
  <2>2. PICK k \in Nat, q \in Nat, c \in {0, 1} : Spaced(m, k, q, c)
    BY <1>1, <2>1, NearestSpaced
  <2> DEFINE z == Nearest(m)
             u == pow2[k]
             e == AbsValue(z - m)
  <2>3. z \in Nat
    BY <1>1, <2>1, NearestTwice
  <2>4. /\ u \in Nat /\ (k > 0 => IMPBIT * u <= m) /\ (k = 0 => u = 1)
        /\ -u <= 2 * (m - z) /\ 2 * (m - z) <= u
    BY <2>2, Pow2Type, Pow2Next DEF Spaced
  <2> HIDE DEF z, u
  <2>5. e \in Nat /\ 2 * e <= u
    BY <1>1, <2>3, <2>4 DEF AbsValue
  <2> HIDE DEF e
  <2>6. (2 * IMPBIT) * e <= m
    <3>1. IMPBIT \in Nat
      BY Widths
    <3>2. CASE k = 0
      <4>1. e = 0
        BY <2>4, <2>5, <3>2
      <4> QED
        BY <1>1, <3>1, <4>1
    <3>3. CASE k > 0
      <4>1. IMPBIT * (2 * e) <= IMPBIT * u /\ IMPBIT * (2 * e) = (2 * IMPBIT) * e
            /\ IMPBIT * u \in Nat
        BY <2>4, <2>5, <3>1, Times
      <4>2. (2 * IMPBIT) * e \in Nat
        BY <2>5, <3>1
      <4> QED
        BY <1>1, <2>4, <3>3, <4>1, <4>2
    <3> QED
      BY <3>2, <3>3
  <2> QED
    BY <2>3, <2>6 DEF z, e
<1>2. CASE n >= 0
  <2>1. n \in Nat /\ AbsValue(n) = n
    BY <1>2 DEF AbsValue
  <2>2. Nearest(n) \in Nat /\ (2 * IMPBIT) * AbsValue(Nearest(n) - n) <= n
    BY <1>1, <2>1
  <2>3. n <= 0 => Nearest(n) = 0
    BY <1>2, NearestOdd
  <2> QED
    BY <2>1, <2>2, <2>3
<1>3. CASE n < 0
  <2>1. -n \in Nat /\ -n <= Largest /\ AbsValue(n) = -n
    BY <1>3, LargestIs DEF AbsValue
  <2> DEFINE z == Nearest(-n)
  <2>2. z \in Nat /\ (2 * IMPBIT) * AbsValue(z - (-n)) <= -n
    BY <1>1, <2>1
  <2>3. Nearest(n) = -z
    <3>1. Nearest(-(-n)) = -Nearest(-n) /\ -(-n) = n
      BY <2>1, NearestOdd
    <3> QED
      BY <3>1
  <2> HIDE DEF z
  <2>4. AbsValue(-z - n) = AbsValue(z - (-n))
    BY <2>1, <2>2 DEF AbsValue
  <2> QED
    BY <1>3, <2>1, <2>2, <2>3, <2>4
<1> QED
  BY <1>2, <1>3

\* With three bits it moves by a sixteenth at most.
LEMMA NearestWithin ==
    ASSUME M > 2, NEW n \in Int, -Largest <= n, n <= Largest
    PROVE  /\ Nearest(n) \in Int /\ 16 * AbsValue(Nearest(n) - n) <= AbsValue(n)
           /\ (n >= 0 => Nearest(n) >= 0) /\ (n <= 0 => Nearest(n) <= 0)
<1> DEFINE e == AbsValue(Nearest(n) - n)
           k == 2 * IMPBIT
<1>1. /\ Nearest(n) \in Int /\ Nearest(n) - n \in Int /\ k * e <= AbsValue(n)
      /\ (n >= 0 => Nearest(n) >= 0) /\ (n <= 0 => Nearest(n) <= 0)
  BY NearestClose
<1>2. e \in Nat /\ AbsValue(n) \in Nat
  BY <1>1 DEF AbsValue
<1>3. k \in Nat /\ k >= 16
  BY LargestIs
<1> HIDE DEF e, k
<1>4. e * 16 <= e * k /\ e * k = k * e /\ e * k \in Nat
  BY <1>2, <1>3, Times
<1>5. 16 * e <= AbsValue(n)
  BY <1>1, <1>2, <1>4
<1> QED
  BY <1>1, <1>5 DEF e

\* A rounding keeps what is not above one of them there.
LEMMA NearestBelow ==
    ASSUME NEW y \in {Largest, NextLargest}, NEW n \in Int, -y <= n, n <= y
    PROVE  -y <= Nearest(n) /\ Nearest(n) <= y /\ Nearest(Nearest(n)) = Nearest(n)
<1> DEFINE h == 2 * EXPBIAS - 1
<1>0. PICK b \in Nat : y = b * pow2[h]
  <2>1. 2 * IMPBIT - 2 \in Nat /\ 2 * IMPBIT - 1 \in Nat
    BY LargestIs
  <2> QED
    BY <2>1 DEF Largest, NextLargest
<1>2. y \in Nat /\ y <= Largest /\ h \in Nat
  BY LargestIs, Widths
<1>1. ASSUME NEW m \in Nat, m <= y
      PROVE  Nearest(m) \in Nat /\ Nearest(m) <= y /\ Nearest(Nearest(m)) = Nearest(m)
  <2>1. Rounded(m, 1) # EXPBITS
    <3>1. m <= Largest
      BY <1>1, <1>2, LargestIs
    <3> QED
      BY <1>1, <3>1, BelowOverflow DEF Largest
  <2>2. PICK k \in Nat, q \in Nat, c \in {0, 1} : Spaced(m, k, q, c)
    BY <1>1, <2>1, NearestSpaced
  <2> DEFINE z == Nearest(m)
             u == pow2[k]
             g == b * pow2[h - k]
  <2>3. z \in Nat /\ Nearest(z) = z
    BY <1>1, <2>1, NearestTwice
  <2>4. u \in Nat \ {0} /\ k <= h /\ q * u <= m /\ z = (q + c) * u /\ (q * u = m => c = 0)
    BY <2>2, Pow2Type DEF Spaced
  <2>5. g \in Nat /\ y = g * u
    <3>1. pow2[h] = u * pow2[h - k] /\ pow2[h - k] \in Nat
      BY <1>2, <2>4, Pow2Grows
    <3> DEFINE v == pow2[h - k]
    <3>2. y = b * (u * v) /\ v \in Nat
      BY <1>0, <3>1
    <3> HIDE DEF v, u
    <3>3. b * (u * v) = (b * v) * u /\ b * v \in Nat
      BY <2>4, <3>2
    <3> QED
      BY <3>2, <3>3 DEF v
  <2> HIDE DEF z, u, g
  <2>6. q <= g
    <3>1. u * q <= u * g
      <4>1. u * q = q * u /\ u * g = g * u /\ q * u \in Nat
        BY <2>4, <2>5
      <4> QED
        BY <1>1, <2>4, <2>5, <4>1
    <3> QED
      BY <2>4, <2>5, <3>1, Times
  <2>7. q + c <= g
    <3>1. CASE q = g
      <4>1. q * u = m
        <5>1. q * u \in Nat
          BY <2>4
        <5> QED
          BY <1>1, <2>4, <2>5, <3>1, <5>1
      <4> QED
        BY <2>4, <2>6, <4>1
    <3> QED
      BY <2>5, <2>6, <3>1
  <2>8. (q + c) * u <= g * u
    <3>1. u <= u /\ q + c \in Nat
      BY <2>4
    <3> QED
      BY <2>4, <2>5, <2>7, <3>1, TimesBoth
  <2> QED
    BY <2>3, <2>4, <2>5, <2>8 DEF z
<1>3. CASE n >= 0
  BY <1>1, <1>2, <1>3
<1>4. CASE n < 0
  <2> DEFINE z == Nearest(-n)
  <2>1. -n \in Nat /\ -n <= y /\ -(-n) = n
    BY <1>2, <1>4
  <2>2. z \in Nat /\ z <= y /\ Nearest(z) = z
    BY <1>1, <2>1
  <2>3. Nearest(n) = -z
    <3>1. Nearest(-(-n)) = -Nearest(-n)
      BY <2>1, NearestOdd
    <3> QED
      BY <2>1, <3>1
  <2> HIDE DEF z
  <2>4. Nearest(-z) = -z
    BY <2>2, NearestOdd
  <2> QED
    BY <1>2, <2>2, <2>3, <2>4
<1> QED
  BY <1>3, <1>4

\* A rounded number that is not above the largest one is exact.
LEMMA NearestStays ==
    ASSUME NEW n \in Int, AbsValue(Nearest(n)) <= Largest
    PROVE  Nearest(Nearest(n)) = Nearest(n)
<1> DEFINE m == AbsValue(n)
<1>1. m \in Nat /\ Nearest(m) \in Int /\ AbsValue(Nearest(n)) = AbsValue(Nearest(m))
      /\ Nearest(n) \in Int /\ Nearest(-n) = -Nearest(n)
  <2>1. n \in Int /\ -n \in Int /\ Nearest(n) \in Int /\ Nearest(-n) = -Nearest(n)
    BY NearestType, NearestOdd
  <2> QED
    BY <2>1 DEF AbsValue
<1>2. Rounded(m, 1) # EXPBITS
  <2>1. SUFFICES ASSUME Rounded(m, 1) = EXPBITS PROVE FALSE
    OBVIOUS
  <2> DEFINE k == ExponentField(EXPBITS)
             p == pow2[2 * EXPBIAS - 1]
  <2>2. /\ EXPBIAS \in Nat /\ IMPBIT \in Nat \ {0} /\ EXPBITS = (2 * EXPBIAS + 1) * IMPBIT
        /\ EXPBITS \in Patterns /\ ~Negative(EXPBITS) /\ EXPBIAS >= 3
    BY Widths, Format DEF Patterns, Negative
  <2>3. k \in Nat /\ Fraction(EXPBITS) \in 0 .. IMPBIT - 1
        /\ EXPBITS = k * IMPBIT + Fraction(EXPBITS)
    BY <2>2, Fields DEF Magnitude
  <2>4. k = 2 * EXPBIAS + 1
    <3> DEFINE f == Fraction(EXPBITS)
               e == 2 * EXPBIAS + 1
               X == EXPBITS
    <3>1. X = IMPBIT * e + 0 /\ X = IMPBIT * k + f /\ e \in Int /\ k \in Int /\ X \in Int
          /\ 0 \in 0 .. IMPBIT - 1 /\ f \in 0 .. IMPBIT - 1
      BY <2>2, <2>3
    <3> HIDE DEF f, e, X, k
    <3>2. X \div IMPBIT = e /\ X \div IMPBIT = k
      BY ONLY <2>2, <3>1, DivisionUnique
    <3> QED
      BY <3>2 DEF e
  <2>5. IMPBIT * pow2[k - 1] <= Units(EXPBITS) /\ Units(EXPBITS) \in Nat
    BY <2>2, <2>4, UnitsBounds
  <2>6. pow2[k - 1] = 2 * p /\ p \in Nat \ {0}
    <3>1. k - 1 = (2 * EXPBIAS - 1) + 1 /\ 2 * EXPBIAS - 1 \in Nat
      BY <2>2, <2>4
    <3> QED
      BY <3>1, Pow2Next, Pow2Type
  <2>7. Units(EXPBITS) <= Largest
    <3>1. Nearest(m) = Units(EXPBITS)
      <4>1. AbsValue(m) = m /\ ~(m < 0)
        BY <1>1 DEF AbsValue
      <4> HIDE DEF m
      <4> QED
        BY <2>1, <2>5, <4>1 DEF Nearest
    <3> QED
      BY <1>1, <2>5, <3>1 DEF AbsValue
  <2> HIDE DEF p, k
  <2>8. IMPBIT * (2 * p) = 2 * (IMPBIT * p) /\ IMPBIT * p \in Nat
    BY <2>2, <2>6
  <2> QED
    BY <2>5, <2>6, <2>7, <2>8, LargestIs DEF p
<1>3. Nearest(Nearest(m)) = Nearest(m)
  BY <1>1, <1>2, NearestTwice
<1>4. CASE n >= 0
  BY <1>3, <1>4 DEF AbsValue
<1>5. CASE n < 0
  <2> DEFINE z == Nearest(-n)
  <2>1. z \in Int /\ Nearest(z) = z /\ Nearest(n) = -z
    BY <1>1, <1>3, <1>5 DEF AbsValue
  <2> HIDE DEF z
  <2> QED
    BY <2>1, NearestOdd
<1> QED
  BY <1>4, <1>5

\* A quotient that was rounded to p bits is not much too large, nor far too small.
LEMMA QuotientRelative ==
    ASSUME NEW p \in Nat \ {0}, NEW n \in Nat, NEW d \in Nat \ {0}, NEW q, q = QuotientOf(p, n, d)
    PROVE  /\ q \in Nat /\ pow2[p] * (d * q - n) <= n
           /\ q # 0 => n <= 2 * (d * q)
<1>1. pow2[p] \in Nat \ {0} /\ pow2[0] = 1 /\ q \in Nat /\ d * pow2[p] \in Nat /\ pow2[p] >= 2
  <2>1. pow2[p] \in Nat \ {0} /\ pow2[0] = 1 /\ 2 * pow2[0] <= pow2[p]
    <3>1. p \in Nat /\ 0 \in Nat /\ 0 < p
      OBVIOUS
    <3>2. pow2[0] = 1 /\ 2 * pow2[0] <= pow2[p] /\ pow2[p] \in Nat
      BY ONLY <3>1, Pow2Next, Pow2Grows, Pow2Type
    <3> QED
      BY <3>2
  <2>2. d * pow2[p] \in Nat
    BY <2>1
  <2>3. q \in Nat
    BY QuotientType
  <2> QED
    BY <2>1, <2>2, <2>3
<1>2. CASE n < d * pow2[p]
  <2> DEFINE S == {j \in Nat : n < d * pow2[j]}
  <2>1. PICK b \in S : b <= p /\ \A j \in 0 .. b - 1 : j \notin S
    <3>1. p \in S /\ S \subseteq Nat
      BY <1>2
    <3> QED
      BY ONLY <3>1, Least
  <2>2. b \in Nat /\ b <= p /\ n < d * pow2[b] /\ (b > 0 => n >= d * pow2[b - 1])
    <3>1. ASSUME b > 0 PROVE n >= d * pow2[b - 1]
      <4>1. b - 1 \in 0 .. b - 1 /\ b - 1 \in Nat
        BY <2>1, <3>1
      <4>2. ~(n < d * pow2[b - 1]) /\ pow2[b - 1] \in Nat
        BY <2>1, <4>1, Pow2Type
      <4>3. d * pow2[b - 1] \in Nat
        BY <4>2
      <4> QED
        BY <4>2, <4>3
    <3> QED
      BY <2>1, <3>1
  <2> HIDE DEF S
  <2> DEFINE a == n \div d
             r == n % d
             v == pow2[p - b]
             k == pow2[p]
  <2>3. a \in Nat /\ r \in 0 .. d - 1 /\ n = d * a + r
    <3>1. n \in Int /\ n >= 0 /\ d \in Nat \ {0}
      OBVIOUS
    <3> QED
      BY ONLY <3>1, Division
  <2>4. q \in {a, a + 1} /\ (q = a + 1 => 2 * ((d - r) * v) <= d)
    BY <2>2, QuotientNear
  <2>5. v \in Nat \ {0} /\ k \in Nat \ {0} /\ k = pow2[b] * v
    <3>1. p - b \in Nat
      BY <2>2
    <3> QED
      BY <1>1, <2>2, <3>1, Pow2Grows, Pow2Type
  <2>6. k * (d - r) = pow2[b] * ((d - r) * v)
    <3> DEFINE e == d - r
               f == pow2[b]
    <3>1. e \in Int /\ f \in Nat /\ k = f * v
      BY <2>2, <2>3, <2>5, Pow2Type
    <3> HIDE DEF e, f, k, v
    <3>2. (f * v) * e = f * (e * v)
      BY <2>5, <3>1
    <3> QED
      BY <3>1, <3>2 DEF e, f
  <2>7. ASSUME q = a + 1 PROVE k * (d - r) <= n /\ d - r <= n
    <3> DEFINE e == (d - r) * v
    <3>1. e \in Nat /\ 2 * e <= d /\ d - r <= e /\ d - r \in Nat
      <4>1. (d - r) \in Nat
        BY <2>3
      <4> DEFINE f == d - r
      <4>2. f \in Nat
        BY <4>1
      <4> HIDE DEF f, v
      <4>3. f * 1 <= f * v /\ f * v \in Nat
        BY <2>5, <4>2, Times
      <4> QED
        BY <2>4, <2>7, <4>2, <4>3 DEF f
    <3>2. CASE b = 0
      <4>1. d * pow2[b] = d
        BY <1>1, <3>2
      <4>2. n < d
        BY <2>2, <4>1
      <4>3. a = 0 /\ r = n
        <5>1. n = d * 0 + n /\ n \in 0 .. d - 1 /\ 0 \in Int /\ n \in Int
          BY <4>2
        <5> QED
          BY ONLY <5>1, d \in Nat \ {0}, DivisionUnique
      <4>4. k * (d - r) = e
        <5>1. pow2[b] = 1
          BY <1>1, <3>2
        <5> HIDE DEF e, k
        <5>2. 1 * e = e
          BY <3>1
        <5> QED
          BY <2>6, <5>1, <5>2 DEF e
      <4>5. 2 * (d - n) <= d
        BY <3>1, <4>3
      <4> HIDE DEF e, k
      <4> QED
        BY <3>1, <4>3, <4>4, <4>5
    <3>3. CASE b > 0
      <4> DEFINE f == pow2[b - 1]
      <4>1. f \in Nat /\ pow2[b] = 2 * f /\ d * f <= n
        <5>1. b - 1 \in Nat /\ (b - 1) + 1 = b
          BY <2>2, <3>3
        <5>2. pow2[(b - 1) + 1] = 2 * pow2[b - 1] /\ pow2[b - 1] \in Nat
          BY ONLY <5>1, Pow2Next, Pow2Type
        <5> QED
          BY <2>2, <3>3, <5>1, <5>2
      <4>2. k * (d - r) = (2 * f) * e
        BY <2>6, <4>1
      <4> HIDE DEF e, f, k
      <4>3. (2 * f) * e = f * (2 * e) /\ f * (2 * e) <= f * d /\ f * d = d * f /\ d * f \in Nat
            /\ f * (2 * e) \in Nat
        BY <3>1, <4>1, Times
      <4>4. k * (d - r) <= n
        BY <4>1, <4>2, <4>3
      <4>5. d - r <= k * (d - r)
        <5> DEFINE g == d - r
        <5>1. g \in Nat
          BY <3>1
        <5> HIDE DEF g
        <5>2. g * 1 <= g * k /\ g * k = k * g
          BY <2>5, <5>1, Times DEF k
        <5> QED
          BY <5>1, <5>2 DEF g
      <4>6. k * (d - r) \in Int
        <5> DEFINE g == d - r
        <5>1. g \in Nat
          BY <3>1
        <5> HIDE DEF g
        <5>2. k * g \in Int
          BY <2>5, <5>1 DEF k
        <5> QED
          BY <5>2 DEF g
      <4> QED
        BY <3>1, <4>4, <4>5, <4>6
    <3> QED
      BY <2>2, <3>2, <3>3
  <2>8. CASE q = a
    <3> DEFINE m == d * a
    <3>1. d * q = m /\ m \in Nat /\ n = m + r /\ (a # 0 => d <= m)
      <4>1. a # 0 => d * 1 <= d * a
        BY <2>3, Times
      <4> QED
        BY <2>3, <2>8, <4>1
    <3>2. d * q - n = -r
      <4> HIDE DEF m, a, r
      <4> QED
        BY <2>3, <3>1
    <3>3. k * (-r) <= 0
      <4> HIDE DEF k, r
      <4>1. k * (-r) = -(k * r) /\ k * r \in Nat
        BY <2>3, <2>5
      <4> QED
        BY <4>1
    <3>4. k * (d * q - n) \in Int
      <4> HIDE DEF k
      <4>1. d * q - n \in Int
        BY <2>3, <3>2
      <4> QED
        BY <2>5, <4>1
    <3>5. k * (d * q - n) <= n
      <4>1. k * (d * q - n) = k * (-r)
        BY <3>2
      <4> HIDE DEF k, r
      <4> QED
        BY <3>3, <3>4, <4>1
    <3>6. q # 0 => n <= 2 * (d * q)
      <4> HIDE DEF m, a, r
      <4> QED
        BY <2>3, <2>8, <3>1
    <3> QED
      BY <1>1, <3>5, <3>6
  <2>9. CASE q = a + 1
    <3> DEFINE m == d * a
    <3>1. d * q = m + d /\ m \in Nat /\ n = m + r
      BY <2>3, <2>9
    <3>2. d * q - n = d - r
      <4> HIDE DEF m, a, r
      <4> QED
        BY <2>3, <3>1
    <3>3. n <= 2 * (d * q)
      <4> HIDE DEF m, a, r
      <4> QED
        BY <2>3, <3>1
    <3> QED
      BY <1>1, <2>7, <2>9, <3>2, <3>3
  <2> QED
    BY <2>4, <2>8, <2>9
<1>3. CASE n >= d * pow2[p]
  <2> DEFINE j == CHOOSE i \in 1 .. n : n < d * pow2[p + i] /\ n >= d * pow2[p + i - 1]
             v == pow2[j]
             s == d * v
             m == NearestInteger(n, s)
             k == pow2[p]
  <2>1. j \in 1 .. n /\ n >= d * pow2[p + j - 1] /\ q = m * v
    <3>1. \E i \in 1 .. n : n < d * pow2[p + i] /\ n >= d * pow2[p + i - 1]
      BY <1>3, QuotientAbove
    <3> QED
      BY <1>3, <3>1 DEF QuotientOf
  <2>2. v \in Nat \ {0} /\ k \in Nat \ {0} /\ s \in Nat \ {0} /\ k * s <= 2 * n /\ k >= 2
    <3>1. j \in Nat /\ p + j - 1 \in Nat /\ (p + j - 1) + 1 = p + j
      BY <2>1
    <3>2. v \in Nat \ {0} /\ pow2[p + j] = k * v /\ pow2[p + j - 1] \in Nat
          /\ pow2[(p + j - 1) + 1] = 2 * pow2[p + j - 1]
      <4> HIDE DEF j
      <4>1. pow2[p + j] = pow2[p] * pow2[j] /\ pow2[j] \in Nat \ {0}
        <5>1. p \in Nat /\ j \in Nat
          BY <3>1
        <5>2. pow2[j] \in Nat /\ pow2[j] > j
          BY ONLY <5>1, Pow2Type
        <5>3. pow2[p + j] = pow2[p] * pow2[j]
          BY ONLY <5>1, Pow2Sum
        <5> QED
          BY <5>1, <5>2, <5>3
      <4>2. pow2[p + j - 1] \in Nat /\ pow2[(p + j - 1) + 1] = 2 * pow2[p + j - 1]
        BY ONLY <3>1, Pow2Type, Pow2Next
      <4> QED
        BY <4>1, <4>2
    <3> DEFINE f == pow2[p + j - 1]
    <3>3. f \in Nat /\ k * v = 2 * f /\ d * f <= n
      BY <2>1, <3>1, <3>2
    <3> HIDE DEF f, v, k, j
    <3>4. k * (d * v) = d * (k * v) /\ d * (2 * f) = 2 * (d * f) /\ d * f \in Nat /\ d * v \in Nat \ {0}
      BY <1>1, <3>2, <3>3 DEF k
    <3> QED
      BY <1>1, <3>2, <3>3, <3>4 DEF k
  <2>3. m \in Nat /\ 2 * AbsValue(s * m - n) <= s
    <3>1. m \in Nat
      BY <2>2, NearestIs
    <3> HIDE DEF s
    <3>2. (2 * s) * m <= 2 * n + s /\ 2 * n - s <= (2 * s) * m
      BY <2>2, NearestHalf
    <3> HIDE DEF m
    <3> DEFINE f == s * m
    <3>3. f \in Nat /\ (2 * s) * m = 2 * f
      BY <2>2, <3>1
    <3> HIDE DEF f
    <3>4. 2 * AbsValue(f - n) <= s
      BY <2>2, <3>2, <3>3 DEF AbsValue
    <3> QED
      BY <3>1, <3>4 DEF f
  <2>4. d * q = s * m
    <3> HIDE DEF m, v
    <3> QED
      BY <2>1, <2>2, <2>3
  <2> HIDE DEF s, m, k
  <2> DEFINE e == AbsValue(s * m - n)
             f == s * m
  <2>5. f \in Nat /\ e \in Nat /\ f - n <= e /\ n - f <= e /\ 2 * e <= s /\ e = AbsValue(f - n)
    <3>1. f \in Nat
      BY <2>2, <2>3
    <3> QED
      BY <2>3, <3>1 DEF AbsValue
  <2> HIDE DEF e, f
  <2>6. k * (2 * e) <= k * s /\ k * (2 * e) = 2 * (k * e) /\ k * e \in Nat /\ k * s \in Nat
    BY <2>2, <2>5, Times
  <2>7. k * e <= n
    BY <2>2, <2>6
  <2>8. k * (f - n) <= k * e /\ k * (f - n) \in Int
    BY <2>2, <2>5, Times
  <2>9. 2 * e <= n
    <3>1. e * 2 <= e * k /\ e * k = k * e
      BY <2>2, <2>5, Times
    <3> QED
      BY <2>5, <2>6, <2>7, <3>1
  <2>10. n <= 2 * f
    BY <2>5, <2>9
  <2>11. d * q = f
    BY <2>4 DEF f
  <2>12. k * (d * q - n) <= n
    BY <2>6, <2>7, <2>8, <2>11
  <2> QED
    BY <1>1, <2>10, <2>11, <2>12 DEF k
<1> QED
  BY <1>1, <1>2, <1>3

\* The error of a product that has four parts, each step rounded once.
ErrorOf(a, b, c, d) == Nearest(d + Nearest(c + Nearest(b + Nearest(a - (a + b + c + d)))))

\* What is left of a, where c corrects the product n.
LeftOf(a, n, c) == LET v == Nearest(a - n)
                   IN  Nearest(v + Nearest(Nearest(Nearest(a - v) - n) - c))

\* The opposites have the opposite results.
LEMMA StepsOdd ==
    ASSUME NEW a \in Int, NEW b \in Int, NEW c \in Int, NEW d \in Int
    PROVE  /\ ErrorOf(a, b, c, d) \in Int /\ ErrorOf(-a, -b, -c, -d) = -ErrorOf(a, b, c, d)
           /\ LeftOf(a, b, c) \in Int /\ LeftOf(-a, -b, -c) = -LeftOf(a, b, c)
<1>1. \A i \in Int : Nearest(i) \in Int /\ Nearest(-i) = -Nearest(i)
  BY NearestType, NearestOdd
<1>2. \A i, j \in Int : /\ i + j \in Int /\ i - j \in Int /\ -i \in Int
                        /\ (-i) + (-j) = -(i + j) /\ (-i) - (-j) = -(i - j)
  OBVIOUS
<1>3. ErrorOf(a, b, c, d) \in Int /\ ErrorOf(-a, -b, -c, -d) = -ErrorOf(a, b, c, d)
  <2> DEFINE s == a + b + c + d
             z1 == Nearest(a - s)
             z2 == Nearest(b + z1)
             z3 == Nearest(c + z2)
  <2>1. s \in Int /\ (-a) + (-b) + (-c) + (-d) = -s
    OBVIOUS
  <2>2. ErrorOf(a, b, c, d) = Nearest(d + z3)
    BY DEF ErrorOf
  <2>3. ErrorOf(-a, -b, -c, -d) = Nearest((-d) + Nearest((-c) + Nearest((-b) + Nearest((-a) - (-s)))))
    BY <2>1 DEF ErrorOf
  <2> HIDE DEF s
  <2>4. z1 \in Int /\ Nearest((-a) - (-s)) = -z1
    BY <1>1, <1>2, <2>1
  <2> HIDE DEF z1
  <2>5. z2 \in Int /\ Nearest((-b) + (-z1)) = -z2
    BY <1>1, <1>2, <2>4
  <2> HIDE DEF z2
  <2>6. z3 \in Int /\ Nearest((-c) + (-z2)) = -z3
    BY <1>1, <1>2, <2>5
  <2> HIDE DEF z3
  <2>7. Nearest(d + z3) \in Int /\ Nearest((-d) + (-z3)) = -Nearest(d + z3)
    BY <1>1, <1>2, <2>6
  <2> QED
    BY <2>2, <2>3, <2>4, <2>5, <2>6, <2>7
<1>4. LeftOf(a, b, c) \in Int /\ LeftOf(-a, -b, -c) = -LeftOf(a, b, c)
  <2> DEFINE v  == Nearest(a - b)
             z1 == Nearest(a - v)
             z2 == Nearest(z1 - b)
             z3 == Nearest(z2 - c)
  <2>1. v \in Int /\ Nearest((-a) - (-b)) = -v
    BY <1>1, <1>2
  <2>2. LeftOf(a, b, c) = Nearest(v + z3)
    BY DEF LeftOf
  <2>3. LeftOf(-a, -b, -c)
           = Nearest((-v) + Nearest(Nearest(Nearest((-a) - (-v)) - (-b)) - (-c)))
    BY <2>1 DEF LeftOf
  <2> HIDE DEF v
  <2>4. z1 \in Int /\ Nearest((-a) - (-v)) = -z1
    BY <1>1, <1>2, <2>1
  <2> HIDE DEF z1
  <2>5. z2 \in Int /\ Nearest((-z1) - (-b)) = -z2
    BY <1>1, <1>2, <2>4
  <2> HIDE DEF z2
  <2>6. z3 \in Int /\ Nearest((-z2) - (-c)) = -z3
    BY <1>1, <1>2, <2>5
  <2> HIDE DEF z3
  <2>7. Nearest(v + z3) \in Int /\ Nearest((-v) + (-z3)) = -Nearest(v + z3)
    BY <1>1, <1>2, <2>1, <2>6
  <2> QED
    BY <2>2, <2>3, <2>4, <2>5, <2>6, <2>7
<1> QED
  BY <1>3, <1>4

\* The error found is at most a third of the product.
LEMMA ErrorBound ==
    ASSUME M > 2, NEW a \in Nat, NEW b \in Nat, NEW c \in Nat, NEW d \in Nat,
           NEW s, s = a + b + c + d, s <= Largest
    PROVE  ErrorOf(a, b, c, d) \in Int /\ 3 * AbsValue(ErrorOf(a, b, c, d)) <= s
<1> DEFINE z1 == a - s        e1 == Nearest(z1)    f1 == e1 - z1
           z2 == b + e1       e2 == Nearest(z2)    f2 == e2 - z2
           z3 == c + e2       e3 == Nearest(z3)    f3 == e3 - z3
           z4 == d + e3       e4 == Nearest(z4)
<1>1. s \in Nat /\ Largest \in Nat
  BY LargestIs
<1>2. \A n \in Int : -Largest <= n /\ n <= Largest =>
         /\ Nearest(n) \in Int /\ 16 * AbsValue(Nearest(n) - n) <= AbsValue(n)
         /\ -Largest <= Nearest(n) /\ Nearest(n) <= Largest
  BY NearestWithin, NearestBelow
<1>3. ErrorOf(a, b, c, d) = e4
  BY DEF ErrorOf
<1> DEFINE Within(i, n) == -n <= i /\ i <= n
<1>4. e1 \in Int /\ z1 \in Int /\ Within(e1, Largest) /\ Within(16 * f1, s)
  <2>1. z1 \in Int /\ Within(z1, Largest) /\ AbsValue(z1) <= s
    BY <1>1 DEF AbsValue
  <2> HIDE DEF z1
  <2>2. e1 \in Int /\ Within(e1, Largest) /\ 16 * AbsValue(f1) <= AbsValue(z1)
    BY <1>2, <2>1
  <2> HIDE DEF e1
  <2> QED
    BY <1>1, <2>1, <2>2 DEF AbsValue
<1>5. z2 = f1 - (c + d) /\ f1 \in Int
  BY <1>4
<1> HIDE DEF e1, z1
<1>6. e2 \in Int /\ z2 \in Int /\ Within(e2, Largest) /\ Within(15 * f2, s)
  <2>1. z2 \in Int /\ Within(z2, Largest) /\ 16 * AbsValue(z2) <= 17 * s
    <3> HIDE DEF f1
    <3>1. z2 \in Int /\ 16 * AbsValue(z2) <= 17 * s
      BY <1>1, <1>4, <1>5 DEF AbsValue
    <3>2. z2 <= Largest
      <4> HIDE DEF z2
      <4> QED
        BY <1>1, <1>4, <1>5
    <3>3. -Largest <= z2
      BY <1>1, <1>4
    <3> QED
      BY <3>1, <3>2, <3>3
  <2> HIDE DEF z2
  <2>2. e2 \in Int /\ Within(e2, Largest) /\ 16 * AbsValue(f2) <= AbsValue(z2)
    BY <1>2, <2>1
  <2> HIDE DEF e2
  <2> QED
    BY <1>1, <2>1, <2>2 DEF AbsValue
<1>7. z3 = f1 + f2 - d /\ f2 \in Int
  BY <1>4, <1>5, <1>6
<1> HIDE DEF e2, z2
<1>8. e3 \in Int /\ z3 \in Int /\ Within(e3, Largest) /\ Within(14 * f3, s)
  <2>1. z3 \in Int /\ Within(z3, Largest) /\ 14 * AbsValue(z3) <= 16 * s
    <3> HIDE DEF f1, f2
    <3>1. z3 \in Int /\ -Largest <= z3
      BY <1>1, <1>6
    <3> HIDE DEF z3
    <3>2. 240 * z3 <= 31 * s /\ -271 * s <= 240 * z3
      BY <1>1, <1>4, <1>5, <1>6, <1>7, <3>1
    <3> QED
      BY <1>1, <3>1, <3>2 DEF AbsValue
  <2> HIDE DEF z3
  <2>2. e3 \in Int /\ Within(e3, Largest) /\ 16 * AbsValue(f3) <= AbsValue(z3)
    BY <1>2, <2>1
  <2> HIDE DEF e3
  <2> QED
    BY <1>1, <2>1, <2>2 DEF AbsValue
<1>9. z4 = f1 + f2 + f3 /\ f3 \in Int
  BY <1>5, <1>6, <1>7, <1>8
<1> HIDE DEF e3, z3
<1>10. e4 \in Int /\ 3 * AbsValue(e4) <= s
  <2>1. z4 \in Int /\ Within(4 * z4, s)
    <3> HIDE DEF f1, f2, f3, z4
    <3>1. 1680 * z4 <= 337 * s /\ -337 * s <= 1680 * z4 /\ z4 \in Int
      BY <1>1, <1>4, <1>5, <1>6, <1>7, <1>8, <1>9
    <3> QED
      BY <1>1, <3>1
  <2>2. Within(z4, Largest)
    <3> HIDE DEF z4
    <3> QED
      BY <1>1, <2>1
  <2> HIDE DEF z4
  <2>3. e4 \in Int /\ 16 * AbsValue(e4 - z4) <= AbsValue(z4)
    BY <1>2, <2>1, <2>2
  <2> HIDE DEF e4
  <2> QED
    BY <1>1, <2>1, <2>3 DEF AbsValue
<1> QED
  BY <1>3, <1>10

\* Neither what a rounded product stands for nor what it leaves is larger than it should be.
LEMMA LeftBound ==
    ASSUME M > 2, NEW a \in Nat, a <= NextLargest, NEW n \in Nat, a <= 2 * n,
           (2 * IMPBIT) * (n - a) <= a, NEW c \in Int, 3 * AbsValue(c) <= n
    PROVE  /\ n <= Largest /\ a - Nearest(a - n) \in 0 .. Largest
           /\ AbsValue(LeftOf(a, n, c)) <= a
<1> DEFINE m == a - n            v == Nearest(m)     f1 == v - m
           z1 == a - v           r == Nearest(z1)    f2 == r - z1
           z2 == r - n           s == Nearest(z2)
           z3 == s - c           q == Nearest(z3)
           z4 == v + q           l == Nearest(z4)
           u == pow2[2 * EXPBIAS - 1]
           k == 2 * IMPBIT
           Within(i, b) == -b <= i /\ i <= b
<1>1. /\ u \in Nat \ {0} /\ k \in Nat /\ k >= 16 /\ k * u \in Nat
      /\ Largest = k * u - u /\ NextLargest = k * u - 2 * u /\ Largest \in Nat /\ NextLargest \in Nat
      /\ k * (n - a) <= a
  BY LargestIs
<1> HIDE DEF u, k
<1>2. n - a < u
  <2>1. SUFFICES ASSUME n - a >= u PROVE FALSE
    BY <1>1
  <2> DEFINE b == n - a
  <2>2. b \in Nat /\ u <= b /\ k * b <= a
    BY <1>1, <2>1
  <2> HIDE DEF b
  <2>3. k * u <= k * b /\ k * b \in Nat
    BY <1>1, <2>2, Times
  <2> QED
    BY <1>1, <2>2, <2>3
<1>3. n <= Largest /\ m \in Int /\ Within(m, a) /\ m <= n /\ 16 * (-m) <= a /\ Within(m, NextLargest)
      /\ 2 * m <= a
  <2>1. n <= Largest
    BY <1>1, <1>2
  <2>2. 16 * (-m) <= a
    <3>1. CASE m >= 0
      BY <3>1
    <3>2. CASE m < 0
      <4> DEFINE b == -m
      <4>1. b \in Nat /\ k * b <= a
        BY <1>1, <3>2
      <4> HIDE DEF b
      <4>2. b * 16 <= b * k /\ b * k = k * b /\ k * b \in Nat
        BY <1>1, <4>1, Times
      <4>3. 16 * b <= a
        BY <4>1, <4>2
      <4> QED
        BY <4>3 DEF b
    <3> QED
      BY <3>1, <3>2
  <2> QED
    BY <1>1, <2>1, <2>2
<1>4. /\ v \in Int /\ Within(16 * f1, AbsValue(m)) /\ k * AbsValue(f1) <= AbsValue(m)
      /\ (m >= 0 => v >= 0) /\ (m <= 0 => v <= 0)
  <2> HIDE DEF m
  <2>1. Within(m, Largest)
    BY <1>1, <1>3
  <2>2. /\ v \in Int /\ 16 * AbsValue(f1) <= AbsValue(m) /\ k * AbsValue(f1) <= AbsValue(m)
        /\ (m >= 0 => v >= 0) /\ (m <= 0 => v <= 0)
    BY <1>3, <2>1, NearestWithin, NearestClose DEF k
  <2> HIDE DEF v
  <2> QED
    BY <1>3, <2>2 DEF AbsValue
<1>5. z1 \in 0 .. Largest /\ z1 = n - f1 /\ f1 \in Int
  <2> HIDE DEF v
  <2>1. CASE m >= 0
    <3>1. v <= a /\ v >= 0
      <4>1. 16 * (v - m) <= m /\ v >= 0
        BY <1>3, <1>4, <2>1 DEF AbsValue
      <4> HIDE DEF m
      <4> QED
        BY <1>3, <1>4, <4>1
    <3> QED
      BY <1>1, <1>4, <3>1
  <2>2. CASE m < 0
    <3> DEFINE b == -m
               e == -f1
    <3>1. b \in Nat /\ b < u /\ k * b <= a /\ e \in Int /\ k * e <= b /\ v = -(b + e) /\ v <= 0
      <4>1. k * (-f1) <= k * AbsValue(f1) /\ k * (-f1) \in Int /\ k * AbsValue(f1) \in Int
        <5> DEFINE g == AbsValue(f1)
        <5>1. -f1 \in Int /\ g \in Int /\ -f1 <= g
          BY <1>3, <1>4 DEF AbsValue
        <5> HIDE DEF g, f1
        <5> QED
          BY <1>1, <5>1, Times DEF g
      <4> QED
        BY <1>1, <1>2, <1>3, <1>4, <2>2, <4>1 DEF AbsValue
    <3> HIDE DEF b, e
    <3>2. b + e <= u
      <4>1. SUFFICES ASSUME b + e >= u + 1 PROVE FALSE
        BY <1>1, <3>1
      <4>2. k * (u + 1) <= k * (b + e)
        <5>1. u + 1 \in Int /\ b + e \in Int
          BY <1>1, <3>1
        <5> QED
          BY <1>1, <4>1, <5>1, Times
      <4>3. k * (u + 1) = k * u + k /\ k * (b + e) = k * b + k * e /\ k * b \in Int /\ k * e \in Int
        BY <1>1, <3>1
      <4> QED
        BY <1>1, <3>1, <4>2, <4>3
    <3> QED
      BY <1>1, <1>4, <3>1, <3>2
  <2> QED
    BY <1>3, <1>4, <2>1, <2>2
<1>6. r \in Int /\ Within(16 * f1, n) /\ Within(15 * f2, n)
  <2>1. Within(16 * f1, n)
    <3> HIDE DEF f1
    <3> QED
      BY <1>3, <1>4, <1>5 DEF AbsValue
  <2> HIDE DEF f1, z1
  <2>2. r \in Int /\ 16 * AbsValue(f2) <= z1
    <3>1. -Largest <= z1 /\ z1 <= Largest /\ z1 \in Int /\ AbsValue(z1) = z1
      BY <1>1, <1>5 DEF AbsValue
    <3> QED
      BY <3>1, NearestWithin
  <2> HIDE DEF r
  <2> QED
    BY <1>5, <2>1, <2>2 DEF AbsValue
<1>7. z2 = f2 - f1 /\ f2 \in Int
  BY <1>4, <1>5, <1>6
<1> HIDE DEF v, r, z1
<1>8. s \in Int /\ Within(6 * s, n)
  <2>1. z2 \in Int /\ Within(7 * z2, n)
    <3> HIDE DEF f1, f2, z2
    <3>1. z2 \in Int /\ 240 * z2 <= 31 * n /\ -31 * n <= 240 * z2
      BY <1>5, <1>6, <1>7
    <3> QED
      BY <3>1
  <2> HIDE DEF z2
  <2>2. s \in Int /\ 16 * AbsValue(s - z2) <= AbsValue(z2)
    BY <1>1, <1>3, <2>1, NearestWithin
  <2> HIDE DEF s
  <2> QED
    BY <2>1, <2>2 DEF AbsValue
<1> HIDE DEF s
<1>9. q \in Int /\ Within(32 * q, 17 * n)
  <2>1. z3 \in Int /\ Within(2 * z3, n)
    BY <1>8 DEF AbsValue
  <2> HIDE DEF z3
  <2>2. q \in Int /\ 16 * AbsValue(q - z3) <= AbsValue(z3)
    BY <1>1, <1>3, <2>1, NearestWithin
  <2> HIDE DEF q
  <2> QED
    BY <2>1, <2>2 DEF AbsValue
<1> HIDE DEF q
<1>10. l \in Int /\ AbsValue(l) <= a
  <2>1. z4 \in Int /\ Within(17 * z4, 16 * a)
    <3>1. Within(16 * v, 17 * AbsValue(m)) /\ v \in Int
      BY <1>3, <1>4 DEF AbsValue
    <3>2. CASE m >= 0
      <4>1. Within(16 * v, 17 * m) /\ n = a - m
        BY <3>1, <3>2 DEF AbsValue
      <4> HIDE DEF m
      <4>2. Within(32 * z4, 17 * a + 17 * m)
        BY <1>3, <1>9, <3>1, <4>1
      <4> HIDE DEF z4
      <4> QED
        BY <1>3, <1>9, <3>1, <3>2, <4>1, <4>2 DEF z4
    <3>3. CASE m < 0
      <4> DEFINE b == -m
      <4>1. Within(16 * v, 17 * b) /\ n = a + b /\ 16 * b <= a /\ b \in Nat
        BY <1>3, <3>1, <3>3 DEF AbsValue
      <4> HIDE DEF m, b
      <4>2. Within(32 * z4, 17 * a + 51 * b)
        BY <1>3, <1>9, <3>1, <4>1
      <4> QED
        BY <1>9, <3>1, <4>1, <4>2
    <3> QED
      BY <1>3, <3>2, <3>3
  <2> HIDE DEF z4
  <2>2. Within(z4, Largest)
    BY <1>1, <2>1
  <2>3. l \in Int /\ 16 * AbsValue(l - z4) <= AbsValue(z4)
    BY <2>1, <2>2, NearestWithin
  <2> HIDE DEF l
  <2> QED
    BY <2>1, <2>3 DEF AbsValue
<1>11. LeftOf(a, n, c) = l
  BY DEF LeftOf, l, z4, q, z3, s, z2, r, z1, v, m
<1> HIDE DEF l
<1> QED
  BY <1>3, <1>5, <1>10, <1>11 DEF z1, v, m

\* The head of an integer lies between zero and the integer.
LEMMA IntHeadBetween ==
    ASSUME NEW half, SplitsInHalf(half), NEW t \in Int
    PROVE  /\ IntHeadOf(t, half) \in Int
           /\ t >= 0 => 0 <= IntHeadOf(t, half) /\ IntHeadOf(t, half) <= t
           /\ t < 0 => IntHeadOf(t, half) = t
<1> DEFINE P(j) == t < pow2[M + 1 - half + j] /\ (j > 0 => t >= pow2[M - half + j])
           k == CHOOSE j \in 0 .. AbsValue(t) : P(j)
           n == pow2[k]
<1>1. IntHeadOf(t, half) = t - (t % n)
  BY DEF IntHeadOf
<1>2. CASE t >= 0
  <2>1. k \in 0 .. AbsValue(t)
    <3>1. \E j \in 0 .. AbsValue(t) : P(j)
      <4>1. t \in Nat
        BY <1>2
      <4> QED
        BY <4>1, IntHeadExists
    <3> HIDE DEF P
    <3> QED
      BY <3>1
  <2>2. k \in Nat
    <3> HIDE DEF k
    <3> QED
      BY <1>2, <2>1 DEF AbsValue
  <2> HIDE DEF k
  <2>3. n \in Nat \ {0}
    BY <2>2, Pow2Type
  <2> HIDE DEF n
  <2>4. t \in Int /\ t >= 0 /\ n \in Nat \ {0}
    BY <1>2, <2>3
  <2>5. t % n \in 0 .. n - 1 /\ t = n * (t \div n) + (t % n) /\ t \div n \in Nat
    BY ONLY <2>4, Division
  <2> DEFINE q == t \div n
             r == t % n
  <2>6. q \in Nat /\ r \in 0 .. n - 1 /\ t = n * q + r
    BY <2>5
  <2>7. IntHeadOf(t, half) = t - r
    BY <1>1
  <2> HIDE DEF q, r
  <2>8. n * q \in Nat
    BY <2>3, <2>6
  <2> QED
    BY <1>2, <2>6, <2>7, <2>8
<1>3. CASE t < 0
  <2>1. \A i \in Nat : pow2[M + 1 - half + i] \in Nat /\ pow2[M - half + i] \in Nat
    <3> TAKE i \in Nat
    <3>1. M + 1 - half + i \in Nat /\ M - half + i \in Nat
      <4>1. half \in Nat \ {0} /\ M + 1 - half \in Nat \ {0} /\ M \in Nat
        BY SplitIs, SizeAssumption
      <4> QED
        BY <4>1
    <3> QED
      BY ONLY <3>1, Pow2Type
  <2>2. \A j \in 0 .. AbsValue(t) : P(j) <=> j = 0
    <3> TAKE j \in 0 .. AbsValue(t)
    <3>1. j \in Nat /\ pow2[M + 1 - half + j] \in Nat /\ pow2[M - half + j] \in Nat
      BY <1>3, <2>1 DEF AbsValue
    <3> QED
      BY <1>3, <3>1
  <2>3. 0 \in 0 .. AbsValue(t)
    BY <1>3 DEF AbsValue
  <2> HIDE DEF P
  <2>4. k = 0
    BY <2>2, <2>3
  <2>5. n = 1
    BY <2>4, Pow2Next
  <2>6. t % 1 = 0
    <3>1. t = 1 * t + 0 /\ 0 \in 0 .. 1 - 1 /\ 1 \in Nat \ {0}
      OBVIOUS
    <3> QED
      BY ONLY <3>1, t \in Int, DivisionUnique
  <2> QED
    BY <1>1, <1>3, <2>5, <2>6
<1> QED
  BY <1>2, <1>3

\* The largest number is the only one above the next.
LEMMA AlignedIsNumber ==
    ASSUME NEW d \in Nat, NEW a \in Int, Aligned(a, d)
    PROVE  d <= NextLargest \/ d = Largest
<1> DEFINE h == 2 * EXPBIAS - 1
           k == 2 * IMPBIT
           u == pow2[h]
<1>1. PICK i \in 0 .. h, f \in 0 .. k - 1 : d = f * pow2[i]
  BY DEF Aligned
<1> DEFINE v == pow2[i]
<1>2. /\ u \in Nat \ {0} /\ k \in Nat /\ k * u \in Nat /\ 8 * u <= k * u
      /\ Largest = k * u - u /\ NextLargest = k * u - 2 * u
  BY LargestIs
<1>3. i \in Nat /\ h \in Nat /\ i <= h
  BY Widths
<1>4. v \in Nat /\ (i < h => 2 * v <= u) /\ (i = h => v = u)
  BY <1>3, Pow2Grows, Pow2Type
<1>5. f \in Nat /\ f <= k - 1 /\ d = f * v
  BY <1>1, <1>2
<1> HIDE DEF u, v, k, h
<1>6. CASE i < h
  <2>1. f * (2 * v) <= k * u /\ f * (2 * v) = 2 * (f * v)
    <3>1. f * (2 * v) <= k * u
      BY <1>2, <1>4, <1>5, <1>6, TimesBoth
    <3> QED
      BY <1>4, <1>5, <3>1
  <2> QED
    BY <1>2, <1>5, <2>1
<1>7. CASE i = h
  <2>1. CASE f = k - 1
    <3>1. (k - 1) * u = k * u - u
      BY <1>2
    <3> QED
      BY <1>2, <1>4, <1>5, <1>7, <2>1, <3>1
  <2>2. CASE f <= k - 2
    <3>1. k - 2 \in Nat /\ u <= u
      BY <1>2, <1>5, <2>2
    <3>2. f * u <= (k - 2) * u
      BY <1>2, <1>5, <2>2, <3>1, TimesBoth
    <3>3. (k - 2) * u = k * u - 2 * u
      BY <1>2
    <3> QED
      BY <1>2, <1>4, <1>5, <1>7, <3>2, <3>3
  <2> QED
    BY <1>2, <1>5, <2>1, <2>2
<1> QED
  BY <1>3, <1>6, <1>7

\* No smaller number contains it.
LEMMA LargestQuotient ==
    ASSUME NEW a \in Nat, a <= NextLargest
    PROVE  TruncatedQuotient(M + 1, a, Largest) = 0
<1> DEFINE u == pow2[2 * EXPBIAS - 1]
           k == 2 * IMPBIT
           d == Largest
           q == QuotientOf(M + 1, a, d)
<1>1. /\ u \in Nat \ {0} /\ k \in Nat /\ k >= 8 /\ k * u \in Nat /\ 8 * u <= k * u
      /\ d = k * u - u /\ NextLargest = k * u - 2 * u /\ d \in Nat
  BY LargestIs
<1>2. M + 1 \in Nat /\ pow2[M + 1] = k /\ pow2[0] = 1
  <2>1. M \in Nat
    BY SizeAssumption
  <2> QED
    BY <2>1, Pow2Next DEF IMPBIT
<1>3. TruncatedQuotient(M + 1, a, d) = q
  BY DEF TruncatedQuotient
<1> HIDE DEF u, k, d
<1>4. a < d /\ d \in Nat \ {0} /\ d - a >= u
  BY <1>1
<1>5. a \div d = 0 /\ a % d = a
  <2>1. a \in Int /\ a = d * 0 + a /\ a \in 0 .. d - 1 /\ 0 \in Int
    BY <1>4
  <2> QED
    BY ONLY <1>4, <2>1, DivisionUnique
<1>6. q \in {0, 1} /\ (q = 1 => 2 * ((d - a) * k) <= d)
  <2>1. a < d * pow2[0] /\ 0 \in Nat /\ 0 <= M + 1 /\ (M + 1) - 0 = M + 1
    BY <1>2, <1>4
  <2>2. /\ q \in {a \div d, a \div d + 1}
        /\ q = a \div d + 1 => 2 * ((d - (a % d)) * pow2[(M + 1) - 0]) <= d
    BY <1>2, <1>4, <2>1, QuotientNear
  <2> QED
    BY <1>2, <1>5, <2>1, <2>2
<1>7. q # 1
  <2>1. SUFFICES ASSUME q = 1 PROVE FALSE
    OBVIOUS
  <2> DEFINE b == d - a
  <2>2. b \in Nat /\ u <= b /\ 2 * (b * k) <= d
    BY <1>4, <1>6, <2>1
  <2> HIDE DEF b
  <2>3. k * u <= k * b /\ k * b = b * k /\ k * b \in Nat
    BY <1>1, <2>2, Times
  <2> QED
    BY <1>1, <2>2, <2>3
<1> QED
  BY <1>3, <1>6, <1>7 DEF d

\* A round of a contracted build, where h and l are the parts of the multiple and g and j
\* those of the quotient.
ContractedLeft(a, h, l, g, j) ==
    LeftOf(a, (h + l) * (g + j), ErrorOf(h * g, h * j, l * g, l * j))

\* With a quotient that is not negative.
LEMMA RoundOfNatural ==
    ASSUME M > 2, NEW a \in Nat, a <= NextLargest, Nearest(a) = a,
           NEW h \in Nat, NEW l \in Nat, h + l > 0, NEW g \in Nat, NEW j \in Nat,
           g + j = QuotientOf(M + 1, a, h + l), NEW n \in Nat, n = (h + l) * (g + j)
    PROVE  /\ AbsValue(a - Nearest(a - n)) <= Largest
           /\ AbsValue(ContractedLeft(a, h, l, g, j)) <= a
           /\ g + j = 0 => ContractedLeft(a, h, l, g, j) = a
<1> DEFINE e == ErrorOf(h * g, h * j, l * g, l * j)
           k == 2 * IMPBIT
           d == h + l
           t == g + j
<1>1. /\ t \in Nat /\ k * (d * t - a) <= a /\ (t # 0 => a <= 2 * (d * t)) /\ d \in Nat \ {0}
      /\ k \in Nat /\ k >= 16 /\ Largest \in Nat /\ NextLargest \in Nat /\ NextLargest <= Largest
  <2>1. M + 1 \in Nat \ {0} /\ pow2[M + 1] = k
    <3>1. M \in Nat
      BY SizeAssumption
    <3> QED
      BY <3>1, Pow2Next DEF IMPBIT
  <2>2. t \in Nat /\ k * (d * t - a) <= a /\ (t # 0 => a <= 2 * (d * t))
    <3>1. d \in Nat \ {0} /\ t = QuotientOf(M + 1, a, d)
      OBVIOUS
    <3> HIDE DEF d, t
    <3> QED
      BY <2>1, <3>1, QuotientRelative
  <2> QED
    BY <2>2, LargestIs
<1>2. n \in Nat /\ k * (n - a) <= a /\ (t # 0 => a <= 2 * n)
  <2>1. d * t \in Nat
    BY <1>1
  <2>2. n = d * t
    OBVIOUS
  <2> HIDE DEF k, d, t
  <2> QED
    BY ONLY <1>1, <2>1, <2>2, Zenon
<1>0. ContractedLeft(a, h, l, g, j) = LeftOf(a, n, e)
  BY DEF ContractedLeft
<1>3. CASE t = 0
  <2>1. n = 0 /\ g = 0 /\ j = 0
    BY <1>1, <1>3
  <2>2. h * g = 0 /\ h * j = 0 /\ l * g = 0 /\ l * j = 0
    BY <2>1
  <2>3. Nearest(0) = 0 /\ a - 0 = a /\ a - a = 0 /\ 0 - 0 = 0 /\ a + 0 = a /\ 0 + 0 = 0
        /\ 0 - (0 + 0 + 0 + 0) = 0
    BY NearestOdd
  <2>4. e = 0
    BY <2>2, <2>3 DEF ErrorOf
  <2> HIDE DEF e
  <2>5. LeftOf(a, n, e) = a /\ a - Nearest(a - n) = 0
    BY <2>1, <2>3, <2>4 DEF LeftOf
  <2> QED
    BY <1>0, <1>1, <2>5 DEF AbsValue, e
<1>4. CASE t # 0
  <2> DEFINE p1 == h * g
             p2 == h * j
             p3 == l * g
             p4 == l * j
  <2>1. p1 \in Nat /\ p2 \in Nat /\ p3 \in Nat /\ p4 \in Nat /\ n = p1 + p2 + p3 + p4
    <3>1. (h + l) * (g + j) = h * g + h * j + l * g + l * j
      <4>1. (h + l) * (g + j) = (h + l) * g + (h + l) * j
        OBVIOUS
      <4> QED
        BY <4>1
    <3> QED
      BY <3>1
  <2>2. n <= Largest
    <3>1. 3 * AbsValue(0) <= n /\ 0 \in Int
      BY <1>2 DEF AbsValue
    <3> HIDE DEF k
    <3> QED
      BY <1>2, <1>4, <3>1, LeftBound DEF k
  <2> HIDE DEF p1, p2, p3, p4
  <2>3. ErrorOf(p1, p2, p3, p4) \in Int /\ 3 * AbsValue(ErrorOf(p1, p2, p3, p4)) <= n
    BY <2>1, <2>2, ErrorBound
  <2>4. e = ErrorOf(p1, p2, p3, p4)
    BY DEF p1, p2, p3, p4
  <2> HIDE DEF e
  <2>5. a - Nearest(a - n) \in 0 .. Largest /\ AbsValue(LeftOf(a, n, e)) <= a
    BY <1>2, <1>4, <2>3, <2>4, LeftBound
  <2>6. AbsValue(a - Nearest(a - n)) <= Largest
    BY <1>1, <2>5 DEF AbsValue
  <2> QED
    BY <1>0, <1>4, <2>5, <2>6 DEF e
<1> QED
  BY <1>3, <1>4

\* The round takes n away from a: d is split into h and l, the quotient t into g and j.
SplitRound(a, d, t, h, l, g, j, n) ==
    /\ a \in Int /\ -NextLargest <= a /\ a <= NextLargest /\ Nearest(a) = a
    /\ d \in Nat \ {0} /\ h \in Nat /\ l \in Nat /\ d = h + l
    /\ t = TruncatedQuotient(M + 1, a, d) /\ g \in Int /\ j \in Int /\ t = g + j
    /\ t >= 0 => g >= 0 /\ j >= 0
    /\ t < 0 => g <= 0 /\ j <= 0
    /\ n = d * t

\* A round that takes a rounded quotient away leaves no more than there was.
LEMMA RoundLeavesLess ==
    ASSUME M > 2, NEW a, NEW d, NEW t, NEW h, NEW l, NEW g, NEW j, NEW n,
           SplitRound(a, d, t, h, l, g, j, n)
    PROVE  LET left == ContractedLeft(a, h, l, g, j)
           IN  /\ AbsValue(a - Nearest(a - n)) <= Largest
               /\ left \in Int /\ AbsValue(left) <= AbsValue(a) /\ (t = 0 => left = a)
<1> USE DEF SplitRound
<1> DEFINE left == ContractedLeft(a, h, l, g, j)
<1>1. /\ h * g \in Int /\ h * j \in Int /\ l * g \in Int /\ l * j \in Int /\ n \in Int /\ t \in Int
  <2>1. M + 1 \in Nat
    BY SizeAssumption
  <2>2. t \in Int
    BY <2>1, TruncatedType
  <2> QED
    BY <2>2
<1>2. ErrorOf(h * g, h * j, l * g, l * j) \in Int
  BY <1>1, StepsOdd
<1>3. left \in Int /\ left = LeftOf(a, n, ErrorOf(h * g, h * j, l * g, l * j))
  <2> DEFINE e == ErrorOf(h * g, h * j, l * g, l * j)
  <2>1. left = LeftOf(a, n, e)
    BY DEF ContractedLeft
  <2> HIDE DEF e, left
  <2>2. e \in Int
    BY <1>2 DEF e
  <2>3. LeftOf(a, n, e) \in Int
    BY <1>1, <2>2, StepsOdd
  <2> QED
    BY <2>1, <2>3 DEF e
<1>4. CASE a >= 0
  <2>1. a \in Nat /\ t = QuotientOf(M + 1, a, d) /\ AbsValue(a) = a
    BY <1>4 DEF TruncatedQuotient, AbsValue
  <2>2. t >= 0
    <3>1. M + 1 \in Nat
      BY SizeAssumption
    <3>2. QuotientOf(M + 1, a, d) \in Nat
      BY <2>1, <3>1, QuotientType
    <3> QED
      BY <2>1, <3>2
  <2>3. g \in Nat /\ j \in Nat
    BY <2>2
  <2>4. /\ M > 2 /\ a \in Nat /\ a <= NextLargest /\ Nearest(a) = a /\ d \in Nat \ {0}
        /\ g + j = QuotientOf(M + 1, a, h + l) /\ h \in Nat /\ l \in Nat /\ h + l > 0
        /\ g \in Nat /\ j \in Nat /\ t = g + j /\ n = (h + l) * (g + j) /\ n \in Nat
    BY <1>1, <2>1, <2>2, <2>3
  <2>5. AbsValue(a - Nearest(a - n)) <= Largest /\ AbsValue(left) <= a /\ (t = 0 => left = a)
    <3> DEFINE b == a
               m == n
               o == g
               q == j
    <3>1. /\ M > 2 /\ b \in Nat /\ b <= NextLargest /\ Nearest(b) = b
          /\ o + q = QuotientOf(M + 1, b, h + l) /\ h \in Nat /\ l \in Nat /\ h + l > 0
          /\ o \in Nat /\ q \in Nat /\ m = (h + l) * (o + q) /\ m \in Nat
      BY <2>4
    <3>2. b = a /\ m = n /\ o = g /\ q = j
      OBVIOUS
    <3> HIDE DEF b, m, left, o, q
    <3>3. /\ AbsValue(b - Nearest(b - m)) <= Largest
          /\ AbsValue(ContractedLeft(b, h, l, o, q)) <= b
          /\ o + q = 0 => ContractedLeft(b, h, l, o, q) = b
      BY ONLY <3>1, RoundOfNatural
    <3> QED
      BY <2>4, <3>2, <3>3 DEF left
  <2> HIDE DEF left
  <2> QED
    BY <1>3, <2>1, <2>5 DEF left
<1>5. CASE a < 0
  <2> DEFINE b == -a
             s == -t
             o == -g
             q == -j
             m == -n
             f == ContractedLeft(b, h, l, o, q)
             e == ErrorOf(h * g, h * j, l * g, l * j)
  <2>1. b \in Nat /\ b <= NextLargest /\ AbsValue(a) = b /\ Nearest(b) = b
    BY <1>5, NearestOdd, LargestIs DEF AbsValue
  <2>2. s = QuotientOf(M + 1, b, d) /\ s \in Nat
    <3>1. M + 1 \in Nat
      BY SizeAssumption
    <3>2. QuotientOf(M + 1, b, d) \in Nat
      BY <2>1, <3>1, QuotientType
    <3> QED
      BY <1>5, <3>2 DEF TruncatedQuotient
  <2>3. o \in Nat /\ q \in Nat /\ s = o + q
    <3> HIDE DEF b
    <3>1. t <= 0
      BY <1>1, <2>2
    <3>2. CASE t < 0
      BY <3>2
    <3>3. CASE t = 0
      BY <3>3
    <3> QED
      BY <1>1, <3>1, <3>2, <3>3
  <2>4. m = d * s
    BY <1>1
  <2> HIDE DEF b, s, o, q, m
  <2>5. /\ AbsValue(b - Nearest(b - m)) <= Largest /\ AbsValue(f) <= b /\ (s = 0 => f = b)
    <3>1. /\ M > 2 /\ b \in Nat /\ b <= NextLargest /\ Nearest(b) = b /\ d \in Nat \ {0}
          /\ o + q = QuotientOf(M + 1, b, h + l) /\ h \in Nat /\ l \in Nat /\ h + l > 0
          /\ o \in Nat /\ q \in Nat /\ s = o + q /\ m = (h + l) * (o + q) /\ m \in Nat
      BY <2>1, <2>2, <2>3, <2>4
    <3> QED
      BY ONLY <3>1, RoundOfNatural
  <2>6. h * o = -(h * g) /\ h * q = -(h * j) /\ l * o = -(l * g) /\ l * q = -(l * j)
    BY DEF o, q
  <2>7. ErrorOf(h * o, h * q, l * o, l * q) = -e
    BY <1>1, <2>6, StepsOdd
  <2>8. f = -left
    <3>0. f = LeftOf(b, m, ErrorOf(h * o, h * q, l * o, l * q))
      BY <2>3, <2>4 DEF ContractedLeft
    <3> HIDE DEF f, left
    <3>1. b = -a /\ m = -n
      BY DEF b, m
    <3> HIDE DEF e
    <3>2. e \in Int
      BY <1>2 DEF e
    <3>3. LeftOf(-a, -n, -e) = -LeftOf(a, n, e)
      BY <1>1, <3>2, StepsOdd
    <3> QED
      BY <1>3, <2>7, <3>0, <3>1, <3>3 DEF e
  <2>9. b - Nearest(b - m) = -(a - Nearest(a - n))
    <3>1. b - m = -(a - n) /\ a - n \in Int
      BY <1>1 DEF b, m
    <3>2. Nearest(-(a - n)) = -Nearest(a - n) /\ Nearest(a - n) \in Int
      BY <3>1, NearestOdd, NearestType
    <3> QED
      BY <3>1, <3>2 DEF b
  <2>10. a - Nearest(a - n) \in Int
    BY <1>1, NearestType
  <2>11. AbsValue(a - Nearest(a - n)) = AbsValue(b - Nearest(b - m))
    <3> DEFINE i == a - Nearest(a - n)
    <3>1. i \in Int /\ b - Nearest(b - m) = -i
      BY <2>9, <2>10
    <3> HIDE DEF i
    <3>2. AbsValue(-i) = AbsValue(i)
      BY <3>1 DEF AbsValue
    <3> QED
      BY <3>1, <3>2 DEF i
  <2> HIDE DEF left, f
  <2>12. AbsValue(left) = AbsValue(f)
    BY <1>3, <2>8 DEF AbsValue
  <2>13. t = 0 => left = a
    BY <1>1, <1>3, <2>5, <2>8 DEF s, b
  <2> QED
    BY <1>3, <2>1, <2>5, <2>11, <2>12, <2>13 DEF left
<1> QED
  BY <1>4, <1>5

\* A divisor that rests are aligned with is a number.
LEMMA PatternOfDivisor ==
    ASSUME NEW a \in Int, NEW d \in Nat \ {0}, Aligned(a, d)
    PROVE  LET p == RoundedIn("nearest", d, 1)
           IN  p \in Patterns /\ ~Negative(p) /\ Finite(p) /\ Units(p) = d /\ Aligned(d, d)
<1>1. Aligned(d, d)
  <2>1. PICK i \in 0 .. 2 * EXPBIAS - 1, f \in 0 .. 2 * IMPBIT - 1 : d = f * pow2[i]
    BY DEF Aligned
  <2>2. f \in Int
    BY Widths
  <2> QED
    BY <2>1, <2>2 DEF Aligned
<1>2. AbsValue(d) <= d /\ d \in Int /\ d \in Nat
  BY DEF AbsValue
<1>3. RoundedIn("nearest", d, 1) \in Patterns /\ Finite(RoundedIn("nearest", d, 1))
      /\ Value(RoundedIn("nearest", d, 1)) = d
  BY ONLY <1>1, <1>2, AlignedExact
<1> DEFINE p == RoundedIn("nearest", d, 1)
<1>4. p \in Patterns /\ Finite(p) /\ Value(p) = d
  BY <1>3
<1> HIDE DEF p
<1>5. Value(p) = (IF Negative(p) THEN -Units(p) ELSE Units(p)) /\ Units(p) \in Nat
  BY <1>4, ValueIs
<1>6. ~Negative(p) /\ Units(p) = d
  BY <1>4, <1>5
<1> QED
  BY <1>1, <1>4, <1>6 DEF p

\* The multiple of a quotient that was rounded up does not overflow if the dividend is
\* not the largest number.
LEMMA MultipleFits ==
    ASSUME NEW a \in Nat, a <= (2 * IMPBIT - 2) * pow2[2 * EXPBIAS - 1],
           NEW d \in Nat \ {0}, NEW c \in 1 .. M + 1, a < d * pow2[c], Aligned(a, d), Short(M + 1, a),
           NEW t, t = QuotientOf(M + 1, a, d)
    PROVE  t \in Nat /\ Rounded(d * t, 1) # EXPBITS
<1> DEFINE H == pow2[2 * EXPBIAS - 1]
           T == {j \in Nat : j >= 1 /\ a < d * pow2[j]}
<1>1. H \in Nat \ {0} /\ IMPBIT \in Nat \ {0} /\ M \in Nat
  <2>1. 2 * EXPBIAS - 1 \in Nat /\ IMPBIT \in Nat \ {0}
    BY Widths
  <2>2. H \in Nat \ {0}
    BY ONLY <2>1, Pow2Type
  <2> QED
    BY <2>1, <2>2, SizeAssumption
<1>2. PICK b \in Nat : b >= 1 /\ b <= M + 1 /\ a < d * pow2[b] /\ (b > 1 => a >= d * pow2[b - 1])
  <2>1. c \in T /\ T \subseteq Nat /\ c <= M + 1 /\ c \in Nat
    BY <1>1
  <2> HIDE DEF T
  <2>2. PICK b \in T : b <= c /\ \A j \in 0 .. b - 1 : j \notin T
    BY <2>1, Least
  <2>3. b \in Nat /\ b >= 1 /\ a < d * pow2[b] /\ b <= M + 1
    BY <1>1, <2>1, <2>2 DEF T
  <2>4. b > 1 => a >= d * pow2[b - 1]
    <3>1. SUFFICES ASSUME b > 1 PROVE a >= d * pow2[b - 1]
      OBVIOUS
    <3>2. b - 1 \in 0 .. b - 1 /\ b - 1 \in Nat /\ b - 1 >= 1
      BY <2>3, <3>1
    <3>3. ~(a < d * pow2[b - 1])
      BY <2>2, <3>2 DEF T
    <3>4. pow2[b - 1] \in Nat
      BY ONLY <3>2, Pow2Type
    <3>5. d * pow2[b - 1] \in Nat
      BY <3>4
    <3> QED
      BY <3>3, <3>5
  <2> QED
    BY <2>3, <2>4
<1>3. b \in 1 .. M + 1
  BY <1>1, <1>2
<1>4. /\ t \in Nat /\ t \in {a \div d, a \div d + 1}
      /\ a - t * d < 0 => 2 * ((t * d - a) * pow2[M + 1 - b]) < d
  BY <1>2, <1>3, RestOfQuotient
<1> DEFINE n == d * t
           B == (2 * IMPBIT - 1) * H
           v == n - a
<1>5. n \in Nat /\ t * d = n /\ B \in Nat /\ a + H <= B /\ a < (2 * IMPBIT) * H
  <2> HIDE DEF H
  <2>1. n \in Nat /\ t * d = n
    BY <1>4
  <2>2. (2 * IMPBIT - 1) * H = 2 * (IMPBIT * H) - H /\ (2 * IMPBIT - 2) * H = 2 * (IMPBIT * H) - 2 * H
        /\ (2 * IMPBIT) * H = 2 * (IMPBIT * H) /\ IMPBIT * H \in Nat /\ H <= IMPBIT * H
    <3>1. H * 1 <= H * IMPBIT /\ H * IMPBIT = IMPBIT * H
      BY <1>1, Times
    <3> QED
      BY <1>1, <3>1
  <2>3. a <= 2 * (IMPBIT * H) - 2 * H
    BY <2>2 DEF H
  <2> HIDE DEF n
  <2> QED
    BY <1>1, <2>1, <2>2, <2>3
<1>6. ASSUME n <= B PROVE Rounded(n, 1) # EXPBITS
  <2> HIDE DEF n
  <2> QED
    BY <1>5, <1>6, BelowOverflow DEF B, H
<1>7. CASE n <= a
  <2> HIDE DEF n, B, H
  <2>1. n <= B
    BY <1>1, <1>5, <1>7
  <2> QED
    BY <1>4, <1>6, <2>1 DEF n
<1>8. CASE n > a /\ a < d
  <2>1. t = 1
    <3>1. a = d * 0 + a /\ a \in 0 .. d - 1 /\ a \in Int /\ 0 \in Int
      BY <1>8
    <3>2. a \div d = 0
      BY ONLY <3>1, d \in Nat \ {0}, DivisionUnique
    <3>3. t # 0
      <4>1. SUFFICES ASSUME t = 0 PROVE FALSE
        OBVIOUS
      <4>2. n = 0
        BY <4>1
      <4> QED
        BY <1>8, <4>2
    <3> QED
      BY <1>4, <3>2, <3>3
  <2>2. n = d
    BY <2>1
  <2> DEFINE u == RoundedIn("nearest", d, 1)
  <2>3. u \in Patterns /\ Finite(u) /\ Units(u) = d
    BY PatternOfDivisor
  <2> HIDE DEF u
  <2>4. Magnitude(u) \in Nat /\ Magnitude(u) < EXPBITS /\ EXPBITS \in Nat /\ 1 * d = d /\ Magnitude(u) <= EXPBITS
    BY <2>3, Fields, Format DEF Finite
  <2>5. Rounded(1 * Units(u), 1) = Magnitude(u)
    BY <2>3, <2>4, RoundedExact
  <2> QED
    BY <1>4, <2>2, <2>3, <2>4, <2>5
<1>9. CASE n > a /\ ~(a < d)
  <2> DEFINE p == pow2[b - 1]
             o == pow2[M + 1 - b]
  <2>1. b - 1 \in Nat /\ M + 1 - b \in Nat /\ (M + 1 - b) + (b - 1) = M
    BY <1>1, <1>2
  <2>2. p \in Nat \ {0} /\ o \in Nat /\ o * p = IMPBIT
    <3> DEFINE f == b - 1
               g == M + 1 - b
    <3>1. f \in Nat /\ g \in Nat /\ g + f = M
      BY <2>1
    <3> HIDE DEF f, g
    <3>2. pow2[g + f] = pow2[g] * pow2[f]
      BY ONLY <3>1, Pow2Sum
    <3>3. pow2[g] \in Nat /\ pow2[f] \in Nat \ {0}
      BY ONLY <3>1, Pow2Type
    <3> QED
      BY <3>1, <3>2, <3>3 DEF IMPBIT, f, g
  <2>3. d * p <= a
    <3>1. CASE b > 1
      BY <1>2, <3>1, <2>2
    <3>2. CASE b = 1
      <4>1. p = 1
        BY <3>2, Pow2Next
      <4>2. d * 1 = d
        OBVIOUS
      <4> QED
        BY <1>9, <4>1, <4>2
    <3> QED
      BY <1>2, <3>1, <3>2
  <2>4. v \in Nat /\ 2 * (v * o) < d
    <3> HIDE DEF n, o
    <3>1. a - t * d < 0 /\ t * d - a = v
      BY <1>5, <1>9
    <3> QED
      BY <1>4, <1>5, <1>9, <3>1 DEF o
  <2> HIDE DEF p, o, v, H
  <2>5. v * (2 * IMPBIT) < a
    <3>1. p * (2 * (v * o)) < p * d /\ p * d = d * p /\ d * p \in Nat
      BY <2>2, <2>4, v * o \in Nat, Times
    <3>2. p * (2 * (v * o)) = v * (2 * (o * p)) /\ v * (2 * (o * p)) \in Nat
      BY <2>2, <2>4
    <3> QED
      BY <2>2, <2>3, <3>1, <3>2
  <2>6. v < H
    <3>1. (2 * IMPBIT) * v < (2 * IMPBIT) * H
      <4>1. v * (2 * IMPBIT) = (2 * IMPBIT) * v /\ v * (2 * IMPBIT) \in Nat /\ (2 * IMPBIT) * H \in Nat
        BY <1>1, <2>4
      <4> QED
        BY <1>5, <2>5, <4>1
    <3> QED
      BY <1>1, <2>4, <3>1, Times
  <2> HIDE DEF n, B
  <2>7. n <= B
    <3>1. n = a + v
      BY <1>5 DEF v
    <3> QED
      BY <1>1, <1>5, <2>4, <2>6, <3>1
  <2> QED
    BY <1>4, <1>6, <2>7 DEF n
<1> QED
  BY <1>5, <1>7, <1>8, <1>9
=============================================================================
