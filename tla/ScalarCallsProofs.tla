-------------------------- MODULE ScalarCallsProofs --------------------------
(***************************************************************************)
(* The integers that the functions of Rounding return, and the special     *)
(* cases of the elementary functions, of the powers and of the lanes of    *)
(* vector functions, for every format and every choice of the thresholds   *)
(* in their order; and what follows for every pair of calls.               *)
(*                                                                         *)
(* The functions that round come first.  A finite number is n units, one   *)
(* is a power of two of them, and so n has a quotient a by one and a rest  *)
(* r, from which each direction makes its integer.                         *)
(*                                                                         *)
(* The divisions with remainder come last: what the rounds leave is on the *)
(* grid of the divisor and short, so that it is a number, and the products *)
(* subtracted from it are computed exactly.                                *)
(***************************************************************************)
EXTENDS ScalarCalls, SmallFloatProofs

-----------------------------------------------------------------------------
(* Powers of two, one and one half.                                        *)

\* One, one half, and the powers of two beyond which there are no fractions.
LEMMA OneIs ==
    LET j == M + EXPBIAS - 1
    IN  /\ j \in Nat /\ j <= 2 * EXPBIAS - 2 /\ j > 0
        /\ one = pow2[j] /\ one \in Nat \ {0}
        /\ POS_ONE \in Patterns /\ Finite(POS_ONE) /\ ~Negative(POS_ONE)
        /\ Magnitude(POS_ONE) = POS_ONE /\ Units(POS_ONE) = one
        /\ HALF \in Patterns /\ Finite(HALF) /\ ~Negative(HALF) /\ Magnitude(HALF) = HALF
        /\ 2 * Units(HALF) = one /\ Units(HALF) \in Nat \ {0}
        /\ TWOPOW_M \in Patterns /\ Finite(TWOPOW_M) /\ ~Negative(TWOPOW_M)
        /\ Magnitude(TWOPOW_M) = TWOPOW_M /\ Units(TWOPOW_M) = IMPBIT * one
        /\ TWOPOW_M1 \in Patterns /\ Finite(TWOPOW_M1) /\ ~Negative(TWOPOW_M1)
        /\ Magnitude(TWOPOW_M1) = TWOPOW_M1 /\ Units(TWOPOW_M1) = (2 * IMPBIT) * one
<1>1. /\ M \in Nat /\ M >= 2 /\ EXPBIAS \in Nat /\ EXPBIAS >= 3 /\ M < EXPBIAS
      /\ IMPBIT \in Nat \ {0}
  BY Widths, SizeAssumption, RangeAssumption
<1>2. /\ EXPBIAS \in 1 .. 2 * EXPBIAS /\ EXPBIAS - 1 \in 1 .. 2 * EXPBIAS
      /\ EXPBIAS + M \in 1 .. 2 * EXPBIAS /\ EXPBIAS + M + 1 \in 1 .. 2 * EXPBIAS
      /\ EXPBIAS - 1 \in Nat /\ EXPBIAS - 2 \in Nat /\ EXPBIAS + M - 1 \in Nat
      /\ EXPBIAS - 1 = (EXPBIAS - 2) + 1 /\ (EXPBIAS - 1) - 1 = EXPBIAS - 2
      /\ (EXPBIAS + M + 1) - 1 = (EXPBIAS + M - 1) + 1 /\ EXPBIAS + M - 1 = M + EXPBIAS - 1
      /\ M + (EXPBIAS - 1) = M + EXPBIAS - 1
  BY <1>1
<1>3. one = IMPBIT * pow2[EXPBIAS - 1] /\ UnitsOfOne = Units(POS_ONE)
  BY <1>2, PowerIs DEF one, UnitsOfOne, POS_ONE
<1>4. one = pow2[M + EXPBIAS - 1] /\ pow2[M + EXPBIAS - 1] \in Nat \ {0}
  <2>1. pow2[M + (EXPBIAS - 1)] = pow2[M] * pow2[EXPBIAS - 1]
    BY <1>1, <1>2, Pow2Sum
  <2>2. pow2[M + EXPBIAS - 1] \in Nat /\ pow2[M + EXPBIAS - 1] > M + EXPBIAS - 1
    BY <1>2, Pow2Type
  <2> QED
    BY <1>1, <1>2, <1>3, <2>1, <2>2 DEF IMPBIT
<1>5. 2 * Units(HALF) = one /\ Units(HALF) \in Nat \ {0}
  <2>1. pow2[EXPBIAS - 1] = 2 * pow2[EXPBIAS - 2] /\ pow2[EXPBIAS - 2] \in Nat
        /\ pow2[EXPBIAS - 2] > EXPBIAS - 2
    BY <1>2, Pow2Next, Pow2Type
  <2>2. Units(HALF) = IMPBIT * pow2[EXPBIAS - 2]
    BY <1>2, PowerIs DEF HALF
  <2> DEFINE p == pow2[EXPBIAS - 2]
  <2>3. p \in Nat \ {0} /\ Units(HALF) = IMPBIT * p /\ one = IMPBIT * (2 * p)
    BY <1>2, <1>3, <2>1, <2>2
  <2> HIDE DEF p
  <2> QED
    BY <1>1, <2>3
<1>6. Units(TWOPOW_M1) = (2 * IMPBIT) * one
  <2>1. pow2[(EXPBIAS + M - 1) + 1] = 2 * pow2[EXPBIAS + M - 1]
    BY <1>2, Pow2Next
  <2>2. Units(TWOPOW_M1) = IMPBIT * pow2[(EXPBIAS + M - 1) + 1]
    BY <1>2, PowerIs DEF TWOPOW_M1
  <2>3. IMPBIT * (2 * one) = (2 * IMPBIT) * one
    BY <1>1, <1>4
  <2> QED
    BY <1>2, <1>4, <2>1, <2>2, <2>3
<1>7. Units(TWOPOW_M) = IMPBIT * one
  BY <1>2, <1>4, PowerIs DEF TWOPOW_M
<1>8. M + EXPBIAS - 1 <= 2 * EXPBIAS - 2 /\ M + EXPBIAS - 1 > 0
  BY <1>1
<1> QED
  BY <1>2, <1>3, <1>4, <1>5, <1>6, <1>7, <1>8, PowerIs
     DEF POS_ONE, HALF, TWOPOW_M, TWOPOW_M1, one

-----------------------------------------------------------------------------
(* Numbers with a fraction: those from one to 2^(M + 1).                   *)

\* A number below 2^(M + 1) and not below one has M - intexp bits of a fraction: its
\* significand s is counted in units of p, of which one has g.
FractionParts(u, p, g, h, s) ==
    /\ p \in Nat \ {0} /\ g \in Nat \ {0} /\ h \in Nat \ {0} /\ s \in Nat
    /\ g = pow2[M - intexp(u)] /\ p = pow2[ExponentField(u) - 1]
    /\ IMPBIT = g * h /\ one = g * p
    /\ IMPBIT <= s /\ s < 2 * IMPBIT /\ ExponentField(u) - 1 \in Nat
    /\ Units(u) = s * p /\ u = SignOf(u) + s + (ExponentField(u) - 1) * IMPBIT
    /\ ExponentField(u) <= EXPBIAS + M

\* Every such number has these parts.
LEMMA FractionPartsExist ==
    ASSUME NEW u \in Patterns, intexp(u) >= 0, intexp(u) <= M
    PROVE  \E p, g, h, s : FractionParts(u, p, g, h, s)
<1> DEFINE e == ExponentField(u)
           i == intexp(u)
           p == pow2[e - 1]
           g == pow2[M - i]
           h == pow2[i]
           s == IMPBIT + Fraction(u)
<1>1. /\ e \in Nat /\ i = e - EXPBIAS /\ EXPBIAS \in Nat /\ EXPBIAS >= 3 /\ M \in Nat
      /\ IMPBIT \in Nat \ {0} /\ Fraction(u) \in 0 .. IMPBIT - 1
      /\ u = SignOf(u) + Magnitude(u) /\ Magnitude(u) = e * IMPBIT + Fraction(u)
      /\ SignOf(u) \in Nat
  BY Fields, Widths, Format, SizeAssumption DEF intexp
<1>2. /\ Units(u) = s * p /\ p \in Nat \ {0} /\ e - 1 \in Nat
  <2>1. e > 0
    BY <1>1
  <2> QED
    BY <2>1, UnitsBounds
<1> HIDE DEF e
<1>3. i \in Nat /\ M - i \in Nat /\ i + (M - i) = M /\ e - 1 = (M + EXPBIAS - 1) - (M - i)
      /\ M + EXPBIAS - 1 \in Nat /\ M - i <= M + EXPBIAS - 1
  BY <1>1
<1> HIDE DEF i
<1>4. /\ g \in Nat \ {0} /\ h \in Nat \ {0} /\ IMPBIT = g * h
  <2>1. g \in Nat /\ g > M - i /\ h \in Nat /\ h > i
    BY <1>3, Pow2Type
  <2>2. pow2[i + (M - i)] = pow2[i] * pow2[M - i]
    BY ONLY <1>3, Pow2Sum
  <2>3. h * g = g * h
    BY <2>1
  <2> QED
    BY <1>3, <2>1, <2>2, <2>3 DEF IMPBIT
<1>5. one = g * p
  <2>1. pow2[M + EXPBIAS - 1] = pow2[M - i] * pow2[(M + EXPBIAS - 1) - (M - i)]
    BY ONLY <1>3, Pow2Grows
  <2> QED
    BY <1>3, <2>1, OneIs
<1>6. s \in Nat /\ IMPBIT <= s /\ s < 2 * IMPBIT /\ e * IMPBIT = IMPBIT + (e - 1) * IMPBIT
  BY <1>1
<1>7. u = SignOf(u) + s + (e - 1) * IMPBIT
  <2>1. (e - 1) * IMPBIT \in Nat
    BY <1>1, <1>2
  <2> QED
    BY <1>1, <1>6, <2>1
<1>8. e <= EXPBIAS + M
  BY <1>1, <1>3
<1>9. FractionParts(u, p, g, h, s)
  BY <1>2, <1>4, <1>5, <1>6, <1>7, <1>8 DEF FractionParts, e, i
<1> QED
  BY <1>9

\* The quotient and the rest of what stands in units of one.
LEMMA FractionDivides ==
    ASSUME NEW u \in Patterns, NEW p, NEW g, NEW h, NEW s, FractionParts(u, p, g, h, s)
    PROVE  /\ s \div g \in Nat /\ s % g \in 0 .. g - 1 /\ s = g * (s \div g) + (s % g)
           /\ Units(u) \div one = s \div g /\ Units(u) % one = (s % g) * p
           /\ (Units(u) % one = 0 <=> s % g = 0)
           /\ 2 * (Units(u) % one) >= one <=> 2 * (s % g) >= g
<1> DEFINE a == s \div g
           r == s % g
           U == Units(u)
           o == one
<1>1. /\ p \in Nat \ {0} /\ g \in Nat \ {0} /\ s \in Nat /\ o = g * p /\ U = s * p
  BY DEF FractionParts
<1>2. a \in Nat /\ r \in 0 .. g - 1 /\ s = g * a + r
  <2>1. s \in Int /\ s >= 0 /\ g \in Nat \ {0}
    BY <1>1
  <2> QED
    BY ONLY <2>1, Division
<1> HIDE DEF a, r, o, U
<1>3. U = o * a + r * p /\ r * p \in Nat /\ r * p < g * p /\ U \in Nat /\ o \in Nat \ {0}
  <2>1. (g * a + r) * p = (g * p) * a + r * p
    BY <1>1, <1>2
  <2>2. r * p \in Nat /\ r * p < g * p /\ s * p \in Nat /\ g * p \in Nat \ {0}
    BY <1>1, <1>2
  <2> QED
    BY <1>1, <1>2, <2>1, <2>2
<1>4. U \div o = a /\ U % o = r * p
  <2>1. r * p \in 0 .. o - 1 /\ U \in Int /\ a \in Int /\ o \in Nat \ {0}
    BY <1>1, <1>2, <1>3
  <2> DEFINE t == r * p
  <2>2. t \in 0 .. o - 1 /\ U = o * a + t
    BY <1>3, <2>1
  <2> HIDE DEF t
  <2>3. U \div o = a /\ U % o = t
    BY ONLY <2>1, <2>2, DivisionUnique
  <2> QED
    BY <2>3 DEF t
<1>5. (r * p = 0 <=> r = 0)
  BY <1>1, <1>2
<1>6. 2 * (r * p) >= g * p <=> 2 * r >= g
  <2>1. 2 * (r * p) = p * (2 * r) /\ g * p = p * g /\ 2 * r \in Int /\ g \in Int
    BY <1>1, <1>2
  <2>2. p * g <= p * (2 * r) <=> g <= 2 * r
    BY <1>1, <2>1, Times
  <2> DEFINE A == p * g
             B == p * (2 * r)
  <2>3. A \in Int /\ B \in Int /\ 2 * (r * p) = B /\ g * p = A /\ (A <= B <=> g <= 2 * r)
    BY <1>1, <1>2, <2>1, <2>2
  <2> HIDE DEF A, B
  <2> QED
    BY <1>1, <1>2, <2>1, <2>3
<1> QED
  BY <1>1, <1>2, <1>4, <1>5, <1>6 DEF a, r, U, o

\* Clearing the bits of the fraction after half of one, or nothing, was added to them.
LEMMA ClearedParts ==
    ASSUME NEW u \in Patterns, NEW p, NEW g, NEW h, NEW s, FractionParts(u, p, g, h, s),
           NEW t \in Nat, t <= g
    PROVE  LET m == g * ((s + t) \div g)
               c == Cleared(u + t, M - intexp(u))
           IN  /\ m \in Nat /\ IMPBIT <= m /\ m <= 2 * IMPBIT
               /\ c = SignOf(u) + (m + (ExponentField(u) - 1) * IMPBIT)
<1> DEFINE z == (IF Negative(u) THEN 2 * EXPBIAS + 2 ELSE 0) + (ExponentField(u) - 1)
           q == (s + t) \div g
           r == (s + t) % g
<1>1. /\ p \in Nat \ {0} /\ g \in Nat \ {0} /\ h \in Nat \ {0} /\ s \in Nat
      /\ g = pow2[M - intexp(u)] /\ IMPBIT = g * h
      /\ IMPBIT <= s /\ s < 2 * IMPBIT /\ ExponentField(u) - 1 \in Nat
      /\ u = SignOf(u) + s + (ExponentField(u) - 1) * IMPBIT
  BY DEF FractionParts
<1>2. q \in Nat /\ r \in 0 .. g - 1 /\ s + t = g * q + r
  <2>1. s + t \in Int /\ s + t >= 0
    BY <1>1
  <2> QED
    BY <1>1, <2>1, Division
<1> HIDE DEF q, r
<1>3. z \in Nat /\ u + t = z * IMPBIT + (s + t) /\ u \in Int
  <2>1. EXPBIAS \in Nat /\ SIGNBIT = (2 * EXPBIAS + 2) * IMPBIT /\ IMPBIT \in Nat
    BY Widths
  <2>2. SignOf(u) = IF Negative(u) THEN SIGNBIT ELSE 0
    BY DEF SignOf
  <2>3. u \in Int
    BY Format DEF Patterns
  <2> DEFINE k == ExponentField(u) - 1
  <2>4. k \in Nat /\ u = SignOf(u) + s + k * IMPBIT /\ z = (IF Negative(u) THEN 2 * EXPBIAS + 2 ELSE 0) + k
    BY <1>1
  <2> HIDE DEF k, z
  <2>5. CASE Negative(u)
    <3>1. z = (2 * EXPBIAS + 2) + k /\ z \in Nat
      BY <2>1, <2>4, <2>5
    <3>2. z * IMPBIT = (2 * EXPBIAS + 2) * IMPBIT + k * IMPBIT
          /\ k * IMPBIT \in Nat
      BY ONLY <2>1, <2>4, <3>1
    <3>3. u = (2 * EXPBIAS + 2) * IMPBIT + s + k * IMPBIT
      BY <2>1, <2>2, <2>4, <2>5
    <3>4. s \in Nat /\ t \in Nat /\ (2 * EXPBIAS + 2) * IMPBIT \in Nat
      BY <1>1, <2>1
    <3> QED
      BY ONLY <2>3, <3>1, <3>2, <3>3, <3>4
  <2>6. CASE ~Negative(u)
    BY <1>1, <2>1, <2>2, <2>3, <2>4, <2>6
  <2> QED
    BY <2>5, <2>6
<1> HIDE DEF z
<1>4. u + t = g * (z * h + q) + r
  <2>1. z * (g * h) = g * (z * h) /\ g * (z * h + q) = g * (z * h) + g * q
    BY <1>1, <1>2, <1>3
  <2>2. g * (z * h) \in Int /\ g * q \in Int /\ z * (g * h) \in Int
    BY <1>1, <1>2, <1>3
  <2> QED
    BY <1>1, <1>2, <1>3, <2>1, <2>2
<1>5. (u + t) % g = r
  <2>1. u + t \in Int /\ z * h + q \in Int /\ r \in 0 .. g - 1
    BY <1>1, <1>2, <1>3
  <2> DEFINE k == z * h + q
             v == u + t
  <2>2. v \in Int /\ k \in Int /\ v = g * k + r
    BY <1>4, <2>1
  <2> HIDE DEF k, v
  <2>3. v % g = r
    BY <1>1, <2>1, <2>2, DivisionUnique
  <2> QED
    BY <2>3 DEF v
<1>6. Cleared(u + t, M - intexp(u)) = SignOf(u) + (g * q + (ExponentField(u) - 1) * IMPBIT)
  <2>1. Cleared(u + t, M - intexp(u)) = (u + t) - r
    BY <1>1, <1>5 DEF Cleared
  <2>2. SignOf(u) \in Int /\ g * q \in Int /\ (ExponentField(u) - 1) * IMPBIT \in Int
    BY <1>1, <1>2, Fields, Widths, Format
  <2> QED
    BY <1>1, <1>2, <2>1, <2>2
<1>7. h <= q /\ q <= 2 * h
  <2>1. g * h <= g * q + r /\ g * q < g * (2 * h) + g
    <3>1. g * (2 * h) = 2 * (g * h)
      BY <1>1
    <3> QED
      BY <1>1, <1>2, <3>1
  <2>2. g * h < g * (q + 1) /\ g * q < g * (2 * h + 1)
    BY <1>1, <1>2, <2>1
  <2>3. h \in Int /\ q + 1 \in Int /\ q \in Int /\ 2 * h + 1 \in Int /\ g \in Nat
    BY <1>1, <1>2
  <2>4. h < q + 1 /\ q < 2 * h + 1
    BY ONLY <2>2, <2>3, Times
  <2> QED
    BY <1>1, <1>2, <2>4
<1>8. g * q \in Nat /\ g * h <= g * q /\ g * q <= g * (2 * h) /\ g * (2 * h) = 2 * IMPBIT
  BY <1>1, <1>2, <1>7
<1> QED
  BY <1>1, <1>6, <1>8 DEF q

\* What is left is an integer with the sign of the number.
LEMMA ClearedIs ==
    ASSUME NEW u \in Patterns, intexp(u) >= 0, intexp(u) <= M
    PROVE  LET a == Units(u) \div one
               r == Units(u) % one
               c == Cleared(u + pow2[M - 1 - intexp(u)], M - intexp(u))
           IN  /\ a \in Nat \ {0} /\ a < 2 * IMPBIT
               /\ Integral(u) \in Patterns /\ Finite(Integral(u))
               /\ SignOf(Integral(u)) = SignOf(u) /\ Units(Integral(u)) = a * one
               /\ Integral(u) = u <=> r = 0
               /\ intexp(u) < M =>
                     /\ c \in Patterns /\ Finite(c) /\ SignOf(c) = SignOf(u)
                     /\ Units(c) = (IF 2 * r >= one THEN a + 1 ELSE a) * one
<1> DEFINE a == Units(u) \div one
           rest == Units(u) % one
<1>1. PICK p, g, h, s : FractionParts(u, p, g, h, s)
  BY FractionPartsExist
<1>2. /\ p \in Nat \ {0} /\ g \in Nat \ {0} /\ h \in Nat \ {0} /\ s \in Nat
      /\ g = pow2[M - intexp(u)] /\ p = pow2[ExponentField(u) - 1]
      /\ IMPBIT = g * h /\ one = g * p
      /\ IMPBIT <= s /\ s < 2 * IMPBIT /\ ExponentField(u) - 1 \in Nat
      /\ ExponentField(u) <= EXPBIAS + M
      /\ u = SignOf(u) + s + (ExponentField(u) - 1) * IMPBIT
  BY <1>1 DEF FractionParts
<1> DEFINE q == s \div g
           r == s % g
<1>3. /\ q \in Nat /\ r \in 0 .. g - 1 /\ s = g * q + r
      /\ a = q /\ rest = r * p /\ (rest = 0 <=> r = 0)
      /\ (2 * rest >= one <=> 2 * r >= g)
  BY <1>1, FractionDivides
<1> HIDE DEF a, q, r, rest
\* A cleared significand makes a finite number of its value.
<1>4. ASSUME NEW m, NEW n \in Nat, m = g * n, IMPBIT <= m, m <= 2 * IMPBIT
      PROVE  LET c == SignOf(u) + (m + (ExponentField(u) - 1) * IMPBIT)
             IN  c \in Patterns /\ Finite(c) /\ SignOf(c) = SignOf(u) /\ Units(c) = n * one
  <2> DEFINE k == ExponentField(u) - 1
             d == m + k * IMPBIT
             c == SignOf(u) + d
  <2>1. /\ EXPBIAS \in Nat /\ EXPBITS = (2 * EXPBIAS + 1) * IMPBIT
        /\ SIGNBIT = (2 * EXPBIAS + 2) * IMPBIT /\ M < EXPBIAS /\ IMPBIT \in Nat \ {0}
        /\ M \in Nat
    BY Widths, RangeAssumption, SizeAssumption
  <2>2. k \in Nat /\ k <= 2 * EXPBIAS - 2 /\ m \in Nat /\ p = pow2[k]
    <3>1. k \in Nat /\ p = pow2[k]
      BY <1>2
    <3>2. k <= EXPBIAS + M - 1
      <4>1. ExponentField(u) <= EXPBIAS + M /\ ExponentField(u) \in Int
        BY <1>2, Fields, Widths
      <4> QED
        BY ONLY <2>1, <4>1
    <3>3. g * n \in Nat /\ m = g * n
      BY <1>2, <1>4
    <3> HIDE DEF k
    <3>4. k <= 2 * EXPBIAS - 2
      BY ONLY <2>1, <3>1, <3>2
    <3> QED
      BY ONLY <3>1, <3>3, <3>4
  <2> HIDE DEF k
  <2>3. k * IMPBIT <= (2 * EXPBIAS - 2) * IMPBIT /\ k * IMPBIT \in Nat
    BY <2>1, <2>2
  <2>4. d \in Nat /\ d < EXPBITS /\ EXPBITS < SIGNBIT /\ SIGNBIT \in Nat /\ EXPBITS \in Nat
    BY <1>4, <2>1, <2>2, <2>3
  <2>5. d \in Patterns /\ ~Negative(d) /\ Units(d) = m * pow2[k]
    <3>1. m \in Nat /\ k \in Nat /\ m <= 2 * IMPBIT /\ (k > 0 => m >= IMPBIT)
          /\ m + k * IMPBIT < SIGNBIT
      BY <1>4, <2>2, <2>4, <2>1
    <3> QED
      BY ONLY <3>1, Assembled
  <2> HIDE DEF d
  <2>6. SignOf(u) \in {0, SIGNBIT}
    BY Fields
  <2>7. c \in Patterns /\ Finite(c) /\ SignOf(c) = SignOf(u) /\ Magnitude(c) = d
    BY <2>4, <2>6 DEF Patterns, Finite, Magnitude, SignOf, Negative
  <2>8. Units(c) = Units(d)
    <3>1. Units(Magnitude(c)) = Units(c)
      BY <2>7, UnitsBounds
    <3> QED
      BY <2>7, <3>1
  <2>9. m * pow2[k] = n * one
    <3>1. (g * n) * p = n * (g * p)
      BY <1>2
    <3> QED
      BY <1>2, <1>4, <2>2, <3>1
  <2> QED
    BY <2>5, <2>7, <2>8, <2>9 DEF k, d
<1>5. /\ Integral(u) \in Patterns /\ Finite(Integral(u))
      /\ SignOf(Integral(u)) = SignOf(u) /\ Units(Integral(u)) = a * one
      /\ a < 2 * IMPBIT /\ a > 0
  <2>1. u + 0 = u /\ s + 0 = s
    BY <1>2, Format DEF Patterns
  <2>2. /\ IMPBIT <= g * q /\ g * q <= 2 * IMPBIT
        /\ Integral(u) = SignOf(u) + (g * q + (ExponentField(u) - 1) * IMPBIT)
    <3>1. 0 \in Nat /\ 0 <= g
      BY <1>2
    <3>2. LET m == g * ((s + 0) \div g)
              c == Cleared(u + 0, M - intexp(u))
          IN  /\ m \in Nat /\ IMPBIT <= m /\ m <= 2 * IMPBIT
              /\ c = SignOf(u) + (m + (ExponentField(u) - 1) * IMPBIT)
      BY ONLY <1>1, <3>1, ClearedParts, u \in Patterns
    <3> QED
      BY <2>1, <3>2 DEF Integral, q
  <2>3. q < 2 * IMPBIT /\ q > 0
    <3>1. g * q <= s /\ q <= g * q
      BY <1>2, <1>3
    <3>2. q # 0
      BY <1>2, <2>2
    <3> QED
      BY <1>2, <1>3, <3>1, <3>2
  <2> QED
    BY <1>3, <1>4, <2>2, <2>3
<1>6. Integral(u) = u <=> rest = 0
  <2>1. Integral(u) = u - (u % g) /\ u \in Int
    BY <1>2, Format DEF Integral, Cleared, Patterns
  <2>2. Integral(u) = SignOf(u) + (g * q + (ExponentField(u) - 1) * IMPBIT)
    <3>1. 0 \in Nat /\ 0 <= g
      BY <1>2
    <3>2. LET m == g * ((s + 0) \div g)
              c == Cleared(u + 0, M - intexp(u))
          IN  c = SignOf(u) + (m + (ExponentField(u) - 1) * IMPBIT)
      BY ONLY <1>1, <3>1, ClearedParts, u \in Patterns
    <3>3. u + 0 = u /\ s + 0 = s
      BY <1>2, <2>1
    <3> QED
      BY <3>2, <3>3 DEF Integral, q
  <2>3. SignOf(u) \in Int /\ g * q \in Int /\ (ExponentField(u) - 1) * IMPBIT \in Int
    BY <1>2, <1>3, Fields, Widths, Format
  <2> QED
    BY <1>2, <1>3, <2>2, <2>3
<1>7. ASSUME intexp(u) < M
      PROVE  LET c == Cleared(u + pow2[M - 1 - intexp(u)], M - intexp(u))
             IN  /\ c \in Patterns /\ Finite(c) /\ SignOf(c) = SignOf(u)
                 /\ Units(c) = (IF 2 * rest >= one THEN a + 1 ELSE a) * one
  <2> DEFINE t == pow2[M - 1 - intexp(u)]
             n == (s + t) \div g
  <2>1. intexp(u) \in Int /\ M \in Nat
    BY Fields, Widths, SizeAssumption DEF intexp
  <2>2. M - 1 - intexp(u) \in Nat /\ (M - 1 - intexp(u)) + 1 = M - intexp(u)
    BY <1>7, <2>1
  <2>3. t \in Nat /\ g = 2 * t /\ t <= g
    <3>1. pow2[(M - 1 - intexp(u)) + 1] = 2 * t /\ t \in Nat
      BY <2>2, Pow2Next, Pow2Type
    <3> QED
      BY <1>2, <2>2, <3>1
  <2>4. LET m == g * ((s + t) \div g)
            c == Cleared(u + t, M - intexp(u))
        IN  /\ m \in Nat /\ IMPBIT <= m /\ m <= 2 * IMPBIT
            /\ c = SignOf(u) + (m + (ExponentField(u) - 1) * IMPBIT)
    <3> HIDE DEF t
    <3> QED
      BY ONLY <1>1, <2>3, ClearedParts, u \in Patterns
  <2> HIDE DEF t
  <2>5. n = (IF 2 * r >= g THEN q + 1 ELSE q) /\ n \in Nat
    <3>1. /\ 2 * r >= g => s + t = g * (q + 1) + (r - t) /\ r - t \in 0 .. g - 1
          /\ ~(2 * r >= g) => s + t = g * q + (r + t) /\ r + t \in 0 .. g - 1
      <4>1. g * (q + 1) = g * q + g /\ g * q \in Int
        BY <1>2, <1>3
      <4> QED
        BY <1>2, <1>3, <2>3, <4>1
    <3>2. s + t \in Int /\ q \in Int /\ q + 1 \in Int /\ g \in Nat \ {0}
      BY <1>2, <1>3, <2>3
    <3>3. /\ 2 * r >= g => (s + t) \div g = q + 1
          /\ ~(2 * r >= g) => (s + t) \div g = q
      <4> HIDE DEF n
      <4>1. \A k \in Int, v \in 0 .. g - 1, w0 \in Int : w0 = g * k + v => w0 \div g = k
        BY <3>2, DivisionUnique
      <4> QED
        BY ONLY <3>1, <3>2, <4>1
    <3> QED
      BY <1>3, <3>3
  <2> HIDE DEF n
  <2>6. LET c == Cleared(u + t, M - intexp(u))
        IN  c \in Patterns /\ Finite(c) /\ SignOf(c) = SignOf(u) /\ Units(c) = n * one
    BY <1>4, <2>4, <2>5 DEF n
  <2>7. n = IF 2 * rest >= one THEN a + 1 ELSE a
    BY <1>3, <2>5
  <2> QED
    BY <2>6, <2>7 DEF t
<1> QED
  BY <1>3, <1>5, <1>6, <1>7 DEF a, rest

-----------------------------------------------------------------------------
(* The order of numbers and the integers of the directions.                *)

\* What the exponent of a number says of its value.
LEMMA ExponentTells ==
    ASSUME NEW u \in Patterns
    PROVE  /\ intexp(u) \in Int
           /\ intexp(u) >= 0 <=> Magnitude(u) >= POS_ONE
           /\ intexp(u) >= 0 <=> Units(u) >= one
           /\ intexp(u) >= -1 <=> 2 * Units(u) >= one
           /\ intexp(u) >= M <=> Magnitude(u) >= TWOPOW_M
           /\ intexp(u) >= M <=> Units(u) >= IMPBIT * one
           /\ intexp(u) > M <=> Magnitude(u) >= TWOPOW_M1
           /\ intexp(u) > M <=> Units(u) >= (2 * IMPBIT) * one
           /\ Magnitude(u) <= TWOPOW_M <=> Units(u) <= IMPBIT * one
<1> DEFINE e == ExponentField(u)
           f == Fraction(u)
<1>1. /\ e \in Nat /\ f \in 0 .. IMPBIT - 1 /\ IMPBIT \in Nat \ {0} /\ EXPBIAS \in Nat
      /\ Magnitude(u) = e * IMPBIT + f /\ intexp(u) = e - EXPBIAS /\ M \in Nat
      /\ EXPBIAS > 1
  BY Fields, Widths, SizeAssumption DEF intexp
<1> HIDE DEF e, f
<1>2. ASSUME NEW k \in Nat PROVE e >= k <=> Magnitude(u) >= k * IMPBIT
  <2>1. e >= k => k * IMPBIT <= e * IMPBIT
    BY <1>1, <1>2
  <2>2. e + 1 <= k => (e + 1) * IMPBIT <= k * IMPBIT
    BY <1>1, <1>2
  <2>3. (e + 1) * IMPBIT = e * IMPBIT + IMPBIT /\ e * IMPBIT \in Nat /\ k * IMPBIT \in Nat
    BY <1>1, <1>2
  <2> QED
    BY <1>1, <1>2, <2>1, <2>2, <2>3
<1>3. /\ e >= EXPBIAS <=> Magnitude(u) >= POS_ONE
      /\ e >= EXPBIAS - 1 <=> Magnitude(u) >= HALF
      /\ e >= EXPBIAS + M <=> Magnitude(u) >= TWOPOW_M
      /\ e >= EXPBIAS + M + 1 <=> Magnitude(u) >= TWOPOW_M1
  <2>1. EXPBIAS - 1 \in Nat /\ EXPBIAS + M \in Nat /\ EXPBIAS + M + 1 \in Nat
    BY <1>1
  <2> QED
    BY <1>1, <1>2, <2>1 DEF POS_ONE, HALF, TWOPOW_M, TWOPOW_M1
<1>4. /\ Units(u) < one <=> Magnitude(u) < POS_ONE
      /\ Units(u) < Units(HALF) <=> Magnitude(u) < HALF
      /\ Units(u) < IMPBIT * one <=> Magnitude(u) < TWOPOW_M
      /\ Units(u) = IMPBIT * one <=> Magnitude(u) = TWOPOW_M
      /\ Units(u) < (2 * IMPBIT) * one <=> Magnitude(u) < TWOPOW_M1
  BY OneIs, UnitsOrder
<1>5. /\ Units(u) \in Nat /\ one \in Nat /\ Units(HALF) \in Nat /\ one = 2 * Units(HALF)
      /\ Magnitude(u) \in Nat /\ POS_ONE \in Int /\ HALF \in Int
      /\ TWOPOW_M \in Int /\ TWOPOW_M1 \in Int
  BY OneIs, UnitsBounds, Fields, Format DEF Patterns
<1>6. IMPBIT * one \in Nat /\ (2 * IMPBIT) * one \in Nat
  BY <1>1, <1>5
<1>7. 2 * Units(u) >= one <=> Units(u) >= Units(HALF)
  BY <1>5
<1> QED
  BY <1>1, <1>3, <1>4, <1>5, <1>6, <1>7

\* Large numbers are integers.
LEMMA LargeIsIntegral ==
    ASSUME NEW u \in Patterns, intexp(u) >= M
    PROVE  Units(u) % one = 0
<1> DEFINE e == ExponentField(u)
           j == M + EXPBIAS - 1
           b == (IMPBIT + Fraction(u)) * pow2[e - 1 - j]
<1>1. /\ e \in Nat /\ intexp(u) = e - EXPBIAS /\ M \in Nat /\ EXPBIAS \in Nat /\ EXPBIAS > 1
      /\ Fraction(u) \in Nat /\ IMPBIT \in Nat
  BY Fields, Widths, SizeAssumption DEF intexp
<1>2. e > 0 /\ e - 1 \in Nat /\ j \in Nat /\ j <= e - 1
  BY <1>1
<1>3. Units(u) = (IMPBIT + Fraction(u)) * pow2[e - 1]
  BY <1>2, UnitsBounds
<1> HIDE DEF e, j
<1>4. pow2[e - 1] = pow2[j] * pow2[e - 1 - j] /\ pow2[e - 1 - j] \in Nat
  BY <1>2, Pow2Grows
<1>5. one = pow2[j] /\ one \in Nat \ {0}
  BY OneIs DEF j
<1>6. Units(u) = one * b + 0 /\ b \in Nat
  <2> DEFINE s == IMPBIT + Fraction(u)
             g == pow2[e - 1 - j]
  <2>1. s \in Nat /\ g \in Nat
    BY <1>1, <1>4
  <2> HIDE DEF s, g
  <2>2. s * (one * g) = one * (s * g) + 0 /\ s * g \in Nat
    BY <1>5, <2>1
  <2> QED
    BY <1>3, <1>4, <1>5, <2>2 DEF s, g
<1> HIDE DEF b
<1>7. 0 \in 0 .. one - 1 /\ Units(u) \in Int /\ b \in Int
  BY <1>5, <1>6, UnitsBounds
<1> QED
  BY ONLY <1>5, <1>6, <1>7, DivisionUnique

\* Is the integer that a direction gives the next one away from zero?
Outward(d, neg, a, r) ==
    CASE d = "nearest" -> 2 * r > one \/ (2 * r = one /\ a % 2 = 1)
      [] d = "away" -> 2 * r >= one
      [] d = "upward" -> ~neg /\ r > 0
      [] d = "downward" -> neg /\ r > 0
      [] d = "towardzero" -> FALSE

\* The integer for a number of units is its quotient by one or the next one.
LEMMA IntegerIs ==
    ASSUME NEW d \in Modes \cup {"away"}, NEW n \in Nat, NEW neg \in BOOLEAN
    PROVE  LET a == n \div one
               r == n % one
               i == IF Outward(d, neg, a, r) THEN a + 1 ELSE a
           IN  /\ neg  => IntegerIn(d, -n) = -i
               /\ ~neg \/ n = 0 => IntegerIn(d, n) = IF Outward(d, FALSE, a, r) THEN a + 1 ELSE a
<1> DEFINE a == n \div one
           r == n % one
           o == one
<1>1. o \in Nat \ {0} /\ \E b \in Nat : o = 2 * b
  BY OneIs
<1>2. a \in Nat /\ r \in 0 .. o - 1 /\ n = o * a + r
  <2>1. n \in Int /\ n >= 0 /\ o \in Nat \ {0}
    BY <1>1
  <2> QED
    BY ONLY <2>1, Division
<1> HIDE DEF a, r, o
<1>3. n \div o = a /\ (-n) \div o = IF r = 0 THEN -a ELSE -a - 1
  <2>1. /\ r = 0 => -n = o * (-a) + 0
        /\ r > 0 => -n = o * (-a - 1) + (o - r) /\ o - r \in 0 .. o - 1
    <3>1. o * (-a) = -(o * a) /\ o * (-a - 1) = -(o * a) - o /\ o * a \in Nat
      BY <1>1, <1>2
    <3> QED
      BY <1>1, <1>2, <3>1
  <2>2. \A k \in Int, v \in 0 .. o - 1, z \in Int : z = o * k + v => z \div o = k
    BY <1>1, DivisionUnique
  <2>3. -n \in Int /\ n \in Int /\ a \in Int /\ -a \in Int /\ -a - 1 \in Int /\ 0 \in 0 .. o - 1
    BY <1>1, <1>2
  <2> QED
    BY ONLY <1>2, <2>1, <2>2, <2>3
<1>4. FloorOf(n) = a /\ CeilingOf(-n) = -a /\ CeilingOf(n) = (IF r = 0 THEN a ELSE a + 1)
      /\ FloorOf(-n) = IF r = 0 THEN -a ELSE -a - 1
  <2>1. -(-n) = n
    OBVIOUS
  <2> QED
    BY <1>2, <1>3, <2>1 DEF FloorOf, CeilingOf, o
<1>5. FloorOf(n + o \div 2) = IF 2 * r >= o THEN a + 1 ELSE a
  <2>1. PICK b \in Nat : o = 2 * b
    BY <1>1
  <2>2. o \div 2 = b
    BY <2>1
  <2>3. /\ 2 * r >= o => n + b = o * (a + 1) + (r - b) /\ r - b \in 0 .. o - 1
        /\ ~(2 * r >= o) => n + b = o * a + (r + b) /\ r + b \in 0 .. o - 1
    <3>1. o * (a + 1) = o * a + o /\ o * a \in Nat
      BY <1>1, <1>2
    <3> QED
      BY <1>1, <1>2, <2>1, <3>1
  <2>4. \A k \in Int, v \in 0 .. o - 1, z \in Int : z = o * k + v => z \div o = k
    BY <1>1, DivisionUnique
  <2>5. n + b \in Int /\ a \in Int /\ a + 1 \in Int
    BY <1>2, <2>1
  <2>6. (n + b) \div o = IF 2 * r >= o THEN a + 1 ELSE a
    BY ONLY <2>3, <2>4, <2>5
  <2> QED
    BY <2>2, <2>6 DEF FloorOf, o
<1>6. n - a * o = r /\ -n - (-a) * o = -r /\ -n - (-a - 1) * o = o - r
  <2>1. o * a = a * o /\ (-a) * o = -(o * a) /\ (-a - 1) * o = -(o * a) - o /\ o * a \in Nat
    BY <1>1, <1>2
  <2> QED
    BY <1>1, <1>2, <2>1
<1>7. (-a) % 2 = a % 2 /\ (-a - 1) % 2 = 1 - (a % 2) /\ a % 2 \in {0, 1}
  BY <1>2
<1>8. ASSUME d # "nearest"
      PROVE  LET i == IF Outward(d, neg, a, r) THEN a + 1 ELSE a
             IN  /\ neg  => IntegerIn(d, -n) = -i
                 /\ ~neg \/ n = 0 =>
                        IntegerIn(d, n) = IF Outward(d, FALSE, a, r) THEN a + 1 ELSE a
  <2>1. -n < 0 <=> n # 0
    OBVIOUS
  <2>2. n = 0 => a = 0 /\ r = 0
    <3>1. o * a \in Nat /\ (o * a = 0 => a = 0)
      BY <1>1, <1>2
    <3> QED
      BY <1>2, <3>1
  <2>3. -(-n) = n /\ ~(n < 0) /\ o > 0 /\ n + o \div 2 \in Int
    BY <1>1
  <2>4. one \div 2 = o \div 2
    BY DEF o
  <2>5. CASE d = "away"
    <3>1. n = 0 => FloorOf(-n + o \div 2) = 0
      <4>1. ~(2 * r >= o) \/ n # 0
        BY <1>1, <1>2, <2>2
      <4>2. n = 0 => FloorOf(-n + o \div 2) = FloorOf(n + o \div 2)
        <5>1. n = 0 => -n + o \div 2 = n + o \div 2
          BY <1>1
        <5> QED
          BY <5>1
      <4> QED
        BY <1>5, <2>2, <4>1, <4>2
    <3>2. IntegerIn(d, -n) = IF -n < 0 THEN -FloorOf(-(-n) + o \div 2) ELSE FloorOf(-n + o \div 2)
      BY <2>4, <2>5 DEF IntegerIn
    <3>3. IntegerIn(d, n) = FloorOf(n + o \div 2)
      BY <2>3, <2>4, <2>5 DEF IntegerIn
    <3>4. Outward(d, neg, a, r) <=> 2 * r >= o
      BY <2>5 DEF Outward, o
    <3>5. Outward(d, FALSE, a, r) <=> 2 * r >= o
      BY <2>5 DEF Outward, o
    <3>6. IntegerIn(d, -n) = -(IF 2 * r >= o THEN a + 1 ELSE a)
      BY <1>2, <1>5, <2>1, <2>2, <2>3, <3>1, <3>2
    <3> QED
      BY <1>5, <3>3, <3>4, <3>5, <3>6
  <2>6. CASE d = "upward"
    BY <1>2, <1>4, <2>2, <2>6 DEF IntegerIn, Outward
  <2>7. CASE d = "downward"
    BY <1>2, <1>4, <2>2, <2>7 DEF IntegerIn, Outward
  <2>8. CASE d = "towardzero"
    BY <1>2, <1>4, <2>1, <2>2, <2>3, <2>8 DEF IntegerIn, Outward
  <2> QED
    BY <1>8, <2>5, <2>6, <2>7, <2>8 DEF Modes
<1>9. ASSUME d = "nearest"
      PROVE  LET i == IF Outward(d, neg, a, r) THEN a + 1 ELSE a
             IN  /\ neg  => IntegerIn(d, -n) = -i
                 /\ ~neg \/ n = 0 =>
                        IntegerIn(d, n) = IF Outward(d, FALSE, a, r) THEN a + 1 ELSE a
  <2> DEFINE up == 2 * r > o \/ (2 * r = o /\ a % 2 = 1)
  <2>1. \A g : Outward(d, g, a, r) <=> up
    BY <1>9 DEF Outward, o
  <2>2. IntegerIn(d, n) = IF 2 * (n - a * o) < o \/ (2 * (n - a * o) = o /\ a % 2 = 0)
                          THEN a ELSE a + 1
    BY <1>4, <1>9 DEF IntegerIn, Ties, o
  <2>3. IntegerIn(d, n) = IF up THEN a + 1 ELSE a
    BY <1>1, <1>2, <1>6, <1>7, <2>2
  <2>4. r = 0 => IntegerIn(d, -n) = -(IF up THEN a + 1 ELSE a)
    <3>1. ASSUME r = 0
          PROVE IntegerIn(d, -n) = IF 2 * (-n - (-a) * o) < o
                                      \/ (2 * (-n - (-a) * o) = o /\ (-a) % 2 = 0)
                                   THEN -a ELSE -a + 1
      BY <1>4, <1>9, <3>1 DEF IntegerIn, Ties, o
    <3> QED
      BY <1>1, <1>2, <1>6, <1>7, <3>1
  <2>5. r # 0 => IntegerIn(d, -n) = -(IF up THEN a + 1 ELSE a)
    <3>1. ASSUME r # 0
          PROVE IntegerIn(d, -n) = IF 2 * (-n - (-a - 1) * o) < o
                                      \/ (2 * (-n - (-a - 1) * o) = o /\ (-a - 1) % 2 = 0)
                                   THEN -a - 1 ELSE (-a - 1) + 1
      BY <1>4, <1>9, <3>1 DEF IntegerIn, Ties, o
    <3> QED
      BY <1>1, <1>2, <1>6, <1>7, <3>1
  <2> QED
    BY <2>1, <2>3, <2>4, <2>5
<1> QED
  BY <1>8, <1>9 DEF a, r

-----------------------------------------------------------------------------
(* Integers are exact, and the functions that clear the fraction.          *)

\* The number of ones that a direction leaves of n units.
Ones(d, neg, n) == IF Outward(d, neg, n \div one, n % one) THEN n \div one + 1 ELSE n \div one

\* The number v is the integer that a direction gives for u, but for its sign.
Integer(d, u, v) == v \in Patterns /\ Finite(v) /\ Units(v) = Ones(d, Negative(u), Units(u)) * one

\* A quotient by one and its rest.
LEMMA OnesAndRest ==
    ASSUME NEW n \in Nat
    PROVE  /\ n \div one \in Nat /\ n % one \in 0 .. one - 1
           /\ n = (n \div one) * one + (n % one)
           /\ n < one => n \div one = 0 /\ n % one = n
<1> DEFINE o == one
<1>1. o \in Nat \ {0} /\ n \in Int /\ n >= 0
  BY OneIs
<1> HIDE DEF o
<1>2. n = o * (n \div o) + (n % o) /\ n \div o \in Nat /\ n % o \in 0 .. o - 1
  BY ONLY <1>1, Division
<1>3. n < o => n \div o = 0 /\ n % o = n
  BY <1>1
<1>4. o * (n \div o) = (n \div o) * o
  BY <1>1, <1>2
<1> QED
  BY <1>2, <1>3, <1>4 DEF o

\* Integers up to 2^(M + 1) are exact.
LEMMA IntegersExact ==
    ASSUME NEW m, NEW k \in Int, -(2 * IMPBIT) <= k, k <= 2 * IMPBIT
    PROVE  LET v == RoundedIn(m, k * one, 1)
           IN  /\ v \in Patterns /\ Finite(v) /\ Value(v) = k * one /\ k * one \in Int
               /\ Units(v) = AbsValue(k) * one /\ (Negative(v) <=> k < 0)
<1> DEFINE j == M + EXPBIAS - 1
           i == AbsValue(k)
           n == k * one
           v == RoundedIn(m, n, 1)
<1>1. j \in Nat /\ j <= 2 * EXPBIAS - 2 /\ one = pow2[j] /\ one \in Nat \ {0}
  BY OneIs
<1>2. i \in Nat /\ i <= 2 * IMPBIT /\ n \in Int /\ AbsValue(n) = i * one /\ (n < 0 <=> k < 0)
  <2>1. i \in Nat /\ i <= 2 * IMPBIT /\ IMPBIT \in Nat
    BY Widths DEF AbsValue
  <2>2. n \in Int /\ (n < 0 <=> k < 0) /\ (k < 0 => -n = (-k) * one)
    BY <1>1
  <2> QED
    BY <2>1, <2>2 DEF AbsValue
<1> HIDE DEF i, j, n
<1>3. v \in Patterns /\ Finite(v) /\ Value(v) = n /\ Units(v) = AbsValue(n)
  <2>1. AbsValue(n) = i * pow2[j]
    BY <1>1, <1>2
  <2> QED
    BY ONLY <1>1, <1>2, <2>1, MultipleExact
<1>4. Negative(v) <=> n < 0
  <2>1. 1 \in Nat \ {0}
    OBVIOUS
  <2> QED
    BY ONLY <1>2, <2>1, RoundedInType
<1> QED
  BY <1>2, <1>3, <1>4 DEF i, n

\* The same for a sum of two numbers.
LEMMA SumOfIntegers ==
    ASSUME NEW m, NEW u \in Patterns, NEW v \in Patterns, NEW k \in Int,
           -(2 * IMPBIT) <= k, k <= 2 * IMPBIT, Value(u) + Value(v) = k * one
    PROVE  LET s == Sum(m, u, v)
           IN  /\ s \in Patterns /\ Finite(s) /\ Value(s) = k * one
               /\ Units(s) = AbsValue(k) * one /\ (k # 0 => (Negative(s) <=> k < 0))
               /\ SumExact(m, u, v)
               /\ k = 0 => s = IF SignOf(u) = SignOf(v) THEN SignOf(u)
                               ELSE IF m = "downward" THEN NEG_ZERO ELSE 0
<1>1. one \in Nat \ {0}
  BY OneIs
<1>2. k * one = 0 <=> k = 0
  BY <1>1
<1>3. CASE k # 0
  <2>1. Sum(m, u, v) = RoundedIn(m, k * one, 1)
    BY <1>2, <1>3 DEF Sum
  <2> QED
    BY <1>3, <2>1, IntegersExact DEF SumExact
<1>4. CASE k = 0
  <2>1. Sum(m, u, v) = IF SignOf(u) = SignOf(v) THEN SignOf(u)
                       ELSE IF m = "downward" THEN NEG_ZERO ELSE 0
    BY <1>2, <1>4 DEF Sum
  <2>2. /\ SignOf(u) \in {0, SIGNBIT} /\ SIGNBIT \in Nat /\ NEG_ZERO = SIGNBIT
        /\ EXPBITS \in Nat /\ EXPBITS > 0 /\ SIGNBIT > 0
    BY Fields, Format DEF NEG_ZERO
  <2>3. Sum(m, u, v) \in {0, SIGNBIT}
    BY <2>1, <2>2
  <2>4. \A s \in {0, SIGNBIT} : s \in Patterns /\ Finite(s) /\ IsZero(s)
    BY <2>2 DEF Patterns, Finite, IsZero, Magnitude, Negative
  <2>5. \A s \in {0, SIGNBIT} : Value(s) = 0 /\ Units(s) = 0
    BY <2>4, ValueIs
  <2>6. AbsValue(k) * one = 0
    BY <1>1, <1>4 DEF AbsValue
  <2> QED
    BY <1>2, <1>4, <2>1, <2>3, <2>4, <2>5, <2>6 DEF SumExact
<1> QED
  BY <1>3, <1>4

\* A zero and a one with a sign.
LEMMA SignedIntegers ==
    ASSUME NEW u \in Patterns
    PROVE  /\ SignOf(u) \in Patterns /\ Finite(SignOf(u)) /\ SignOf(SignOf(u)) = SignOf(u)
           /\ Units(SignOf(u)) = 0 /\ Magnitude(SignOf(u)) = 0
           /\ LET v == SignOf(u) + POS_ONE
              IN  v \in Patterns /\ Finite(v) /\ SignOf(v) = SignOf(u) /\ Units(v) = one
<1>1. /\ SignOf(u) \in {0, SIGNBIT} /\ SIGNBIT \in Nat /\ EXPBITS \in Nat /\ EXPBITS < SIGNBIT
      /\ POS_ONE \in Nat /\ POS_ONE < EXPBITS /\ EXPBITS > 0
  BY Fields, Format, OneIs DEF Patterns, Finite
<1>2. /\ SignOf(u) \in Patterns /\ Finite(SignOf(u)) /\ SignOf(SignOf(u)) = SignOf(u)
      /\ IsZero(SignOf(u)) /\ Magnitude(SignOf(u)) = 0
  BY <1>1 DEF Patterns, Finite, SignOf, Negative, IsZero, Magnitude
<1>3. Units(SignOf(u)) = 0
  BY <1>2, ValueIs
<1> DEFINE v == SignOf(u) + POS_ONE
<1>4. /\ v \in Patterns /\ Finite(v) /\ SignOf(v) = SignOf(u) /\ Magnitude(v) = POS_ONE
  BY <1>1 DEF Patterns, Finite, SignOf, Negative, Magnitude
<1>5. Units(v) = one
  BY <1>4, UnitsOrder, OneIs
<1> QED
  BY <1>2, <1>3, <1>4, <1>5

\* Numbers without a fraction are the integer that every direction gives.
LEMMA IntegralIsInteger ==
    ASSUME NEW u \in Patterns, Finite(u), Units(u) % one = 0, NEW d \in Modes \cup {"away"}
    PROVE  Integer(d, u, u) /\ Units(u) = (Units(u) \div one) * one
<1>1. Units(u) \in Nat /\ one \in Nat \ {0}
  BY UnitsBounds, OneIs
<1>2. Units(u) = (Units(u) \div one) * one
  <2>1. (Units(u) \div one) * one \in Nat
    BY <1>1, OnesAndRest
  <2> QED
    BY <1>1, <2>1, OnesAndRest
<1>3. ~Outward(d, Negative(u), Units(u) \div one, Units(u) % one)
  <2> DEFINE a == Units(u) \div one
             r == Units(u) % one
  <2>1. r = 0
    OBVIOUS
  <2> HIDE DEF a, r
  <2>2. ~(2 * r > one) /\ 2 * r # one /\ ~(2 * r >= one) /\ ~(r > 0)
    BY <1>1, <2>1
  <2>3. ~Outward(d, Negative(u), a, r)
    BY <2>2 DEF Outward, Modes
  <2> QED
    BY <2>3 DEF a, r
<1> QED
  BY <1>2, <1>3 DEF Integer, Ones

\* A finite number is not changed by passing it on.
LEMMA QuietIs == ASSUME NEW u, Finite(u), u \in Patterns PROVE Quiet(u) = Answer(u, {})
BY Format DEF Quiet, IsSignalling, IsNaN, Finite, Patterns, Magnitude

\* ceil rounds upward, in every direction of the caller.
LEMMA CeilIs ==
    ASSUME NEW u \in Patterns, Finite(u), NEW m
    PROVE  LET b == ceil(u, m)
           IN  Integer("upward", u, b.ret) /\ SignOf(b.ret) = SignOf(u) /\ b.flags = {}
<1> DEFINE a == Units(u) \div one
           r == Units(u) % one
           ur == Integral(u)
<1>1. /\ a \in Nat /\ r \in 0 .. one - 1 /\ Units(u) \in Nat /\ one \in Nat \ {0}
      /\ Units(u) < one => a = 0 /\ r = Units(u)
  BY OnesAndRest, UnitsBounds, OneIs
<1>2. Ones("upward", Negative(u), Units(u)) = IF ~Negative(u) /\ r > 0 THEN a + 1 ELSE a
  BY DEF Ones, Outward
<1>3. CASE Magnitude(u) >= TWOPOW_M1
  <2>1. r = 0
    BY <1>3, ExponentTells, LargeIsIntegral, SizeAssumption
  <2>2. ceil(u, m) = Answer(u, {})
    <3>1. ~(Magnitude(u) < POS_ONE)
      BY <1>3, ExponentTells, Fields, OneIs, SizeAssumption DEF Patterns
    <3> QED
      BY <1>3, <3>1, QuietIs DEF ceil
  <2> QED
    BY <2>1, <2>2, IntegralIsInteger DEF Answer, Modes
<1>4. CASE Magnitude(u) < TWOPOW_M1 /\ Magnitude(u) < POS_ONE
  <2>1. a = 0 /\ r = Units(u)
    BY <1>1, <1>4, ExponentTells, Fields, OneIs DEF Patterns
  <2>2. r = 0 <=> IsZero(u)
    BY <2>1, ValueIs
  <2>3. ceil(u, m).flags = {}
        /\ ceil(u, m).ret = IF IsZero(u) THEN u ELSE IF Negative(u) THEN NEG_ZERO ELSE POS_ONE
    BY <1>4, Fields, OneIs DEF ceil, Answer, Patterns
  <2>4. CASE IsZero(u)
    BY <2>2, <2>3, <2>4, IntegralIsInteger DEF Modes
  <2>5. CASE ~IsZero(u) /\ Negative(u)
    <3>1. ceil(u, m).ret = SignOf(u)
      BY <2>3, <2>5 DEF NEG_ZERO, SignOf
    <3>2. 0 = 0 * one
      BY <1>1
    <3> QED
      BY <1>2, <2>1, <2>3, <2>5, <3>1, <3>2, SignedIntegers DEF Integer
  <2>6. CASE ~IsZero(u) /\ ~Negative(u)
    <3>1. SignOf(u) = 0 /\ SignOf(u) + POS_ONE = POS_ONE
      BY <2>6, OneIs DEF SignOf, Patterns
    <3>2. one = (a + 1) * one /\ r > 0
      BY <1>1, <2>1, <2>2, <2>6
    <3> QED
      BY <1>2, <2>3, <2>6, <3>1, <3>2, SignedIntegers DEF Integer
  <2> QED
    BY <2>4, <2>5, <2>6
<1>5. CASE Magnitude(u) < TWOPOW_M1 /\ Magnitude(u) >= POS_ONE
  <2>1. intexp(u) >= 0 /\ intexp(u) <= M
    BY <1>5, ExponentTells, Fields, OneIs, SizeAssumption DEF Patterns
  <2>2. /\ a < 2 * IMPBIT /\ ur \in Patterns /\ Finite(ur) /\ SignOf(ur) = SignOf(u)
        /\ Units(ur) = a * one /\ (ur = u <=> r = 0) /\ IMPBIT \in Nat
    BY <2>1, ClearedIs, Widths
  <2>3. ceil(u, m) = Answer(IF Negative(u) \/ ur = u THEN ur ELSE Sum(m, ur, POS_ONE), {})
    BY <1>5, Fields, OneIs DEF ceil, Patterns
  <2> HIDE DEF a, r, ur
  <2>4. CASE Negative(u) \/ ur = u
    BY <1>1, <1>2, <2>2, <2>3, <2>4 DEF Integer, Answer
  <2>5. CASE ~Negative(u) /\ ur # u
    <3>1. ~Negative(ur)
      BY <2>2, <2>5, Format DEF SignOf
    <3>2. Value(ur) + Value(POS_ONE) = (a + 1) * one
      <4>1. Value(ur) = a * one /\ Value(POS_ONE) = one
        BY <2>2, <3>1, ValueIs, OneIs
      <4> QED
        BY <1>1, <4>1
    <3>3. a + 1 \in Int /\ -(2 * IMPBIT) <= a + 1 /\ a + 1 <= 2 * IMPBIT /\ ~(a + 1 < 0)
          /\ AbsValue(a + 1) = a + 1 /\ a + 1 # 0
      BY <1>1, <2>2 DEF AbsValue
    <3>4. LET s == Sum(m, ur, POS_ONE)
          IN  s \in Patterns /\ Finite(s) /\ Units(s) = (a + 1) * one /\ ~Negative(s)
      BY <2>2, <3>2, <3>3, SumOfIntegers, OneIs
    <3> QED
      BY <1>1, <1>2, <2>2, <2>3, <2>5, <3>4 DEF Integer, Answer, SignOf
  <2> QED
    BY <2>4, <2>5
<1> QED
  BY <1>3, <1>4, <1>5, Fields, OneIs DEF Patterns

\* floor rounds downward, in every direction of the caller.
LEMMA FloorIs ==
    ASSUME NEW u \in Patterns, Finite(u), NEW m
    PROVE  LET b == floor(u, m)
           IN  Integer("downward", u, b.ret) /\ SignOf(b.ret) = SignOf(u) /\ b.flags = {}
<1> DEFINE a == Units(u) \div one
           r == Units(u) % one
           ur == Integral(u)
<1>1. /\ a \in Nat /\ r \in 0 .. one - 1 /\ Units(u) \in Nat /\ one \in Nat \ {0}
      /\ Units(u) < one => a = 0 /\ r = Units(u)
  BY OnesAndRest, UnitsBounds, OneIs
<1>2. Ones("downward", Negative(u), Units(u)) = IF Negative(u) /\ r > 0 THEN a + 1 ELSE a
  BY DEF Ones, Outward
<1>3. CASE Magnitude(u) >= TWOPOW_M1
  <2>1. r = 0
    BY <1>3, ExponentTells, LargeIsIntegral, SizeAssumption
  <2>2. floor(u, m) = Answer(u, {})
    <3>1. ~(Magnitude(u) < POS_ONE)
      BY <1>3, ExponentTells, Fields, OneIs, SizeAssumption DEF Patterns
    <3> QED
      BY <1>3, <3>1, QuietIs DEF floor
  <2> QED
    BY <2>1, <2>2, IntegralIsInteger DEF Answer, Modes
<1>4. CASE Magnitude(u) < TWOPOW_M1 /\ Magnitude(u) < POS_ONE
  <2>1. a = 0 /\ r = Units(u)
    BY <1>1, <1>4, ExponentTells, Fields, OneIs DEF Patterns
  <2>2. r = 0 <=> IsZero(u)
    BY <2>1, ValueIs
  <2>3. floor(u, m).flags = {}
        /\ floor(u, m).ret = IF IsZero(u) THEN u ELSE IF Negative(u) THEN Negated(POS_ONE) ELSE 0
    BY <1>4, Fields, OneIs DEF floor, Answer, Patterns
  <2>4. CASE IsZero(u)
    BY <2>2, <2>3, <2>4, IntegralIsInteger DEF Modes
  <2>5. CASE ~IsZero(u) /\ ~Negative(u)
    <3>1. floor(u, m).ret = SignOf(u)
      BY <2>3, <2>5 DEF SignOf
    <3>2. 0 = 0 * one
      BY <1>1
    <3> QED
      BY <1>2, <2>1, <2>3, <2>5, <3>1, <3>2, SignedIntegers DEF Integer
  <2>6. CASE ~IsZero(u) /\ Negative(u)
    <3>1. SignOf(u) + POS_ONE = Negated(POS_ONE)
      BY <2>6, OneIs, Format DEF SignOf, Patterns, Negated
    <3>2. one = (a + 1) * one /\ r > 0
      BY <1>1, <2>1, <2>2, <2>6
    <3> QED
      BY <1>2, <2>3, <2>6, <3>1, <3>2, SignedIntegers DEF Integer
  <2> QED
    BY <2>4, <2>5, <2>6
<1>5. CASE Magnitude(u) < TWOPOW_M1 /\ Magnitude(u) >= POS_ONE
  <2>1. intexp(u) >= 0 /\ intexp(u) <= M
    BY <1>5, ExponentTells, Fields, OneIs, SizeAssumption DEF Patterns
  <2>2. /\ a < 2 * IMPBIT /\ ur \in Patterns /\ Finite(ur) /\ SignOf(ur) = SignOf(u)
        /\ Units(ur) = a * one /\ (ur = u <=> r = 0) /\ IMPBIT \in Nat
    BY <2>1, ClearedIs, Widths
  <2>3. floor(u, m) = Answer(IF Negative(u) /\ ur # u THEN Difference(m, ur, POS_ONE) ELSE ur, {})
    BY <1>5, Fields, OneIs DEF floor, Patterns
  <2> HIDE DEF a, r, ur
  <2>4. CASE ~(Negative(u) /\ ur # u)
    BY <1>1, <1>2, <2>2, <2>3, <2>4 DEF Integer, Answer
  <2>5. CASE Negative(u) /\ ur # u
    <3>1. Negative(ur)
      BY <2>2, <2>5, Format DEF SignOf
    <3>2. Value(ur) + Value(Negated(POS_ONE)) = (-(a + 1)) * one /\ Negated(POS_ONE) \in Patterns
      <4>1. Value(ur) = -(a * one) /\ Value(Negated(POS_ONE)) = -one
            /\ Negated(POS_ONE) \in Patterns
        BY <2>2, <3>1, ValueIs, OneIs, NegatedIs
      <4>2. (-(a + 1)) * one = -(a * one) - one /\ a * one \in Nat
        BY <1>1
      <4> QED
        BY <1>1, <4>1, <4>2
    <3>3. -(a + 1) \in Int /\ -(2 * IMPBIT) <= -(a + 1) /\ -(a + 1) <= 2 * IMPBIT
          /\ -(a + 1) < 0 /\ AbsValue(-(a + 1)) = a + 1 /\ -(a + 1) # 0
      BY <1>1, <2>2 DEF AbsValue
    <3>4. LET s == Sum(m, ur, Negated(POS_ONE))
          IN  s \in Patterns /\ Finite(s) /\ Units(s) = (a + 1) * one /\ Negative(s)
      BY <2>2, <3>2, <3>3, SumOfIntegers
    <3>5. floor(u, m).ret = Sum(m, ur, Negated(POS_ONE)) /\ floor(u, m).flags = {}
      BY <2>3, <2>5 DEF Answer, Difference
    <3>6. r > 0
      BY <1>1, <2>2, <2>5
    <3> QED
      BY <1>2, <2>5, <3>4, <3>5, <3>6 DEF Integer, SignOf
  <2> QED
    BY <2>4, <2>5
<1> QED
  BY <1>3, <1>4, <1>5, Fields, OneIs DEF Patterns

\* trunc rounds towards zero.
LEMMA TruncIs ==
    ASSUME NEW u \in Patterns, Finite(u), NEW m
    PROVE  LET b == trunc(u, m)
           IN  Integer("towardzero", u, b.ret) /\ SignOf(b.ret) = SignOf(u) /\ b.flags = {}
<1> DEFINE a == Units(u) \div one
           r == Units(u) % one
           ur == Integral(u)
<1>1. /\ a \in Nat /\ r \in 0 .. one - 1 /\ Units(u) \in Nat /\ one \in Nat \ {0}
      /\ Units(u) < one => a = 0 /\ r = Units(u)
      /\ intexp(u) \in Int /\ M \in Nat
  BY OnesAndRest, UnitsBounds, OneIs, ExponentTells, SizeAssumption
<1>2. Ones("towardzero", Negative(u), Units(u)) = a
  BY DEF Ones, Outward
<1>3. ~IsNaN(u)
  BY Format, Fields DEF IsNaN, Finite
<1>4. CASE intexp(u) >= M
  <2>1. r = 0
    BY <1>4, LargeIsIntegral
  <2>2. trunc(u, m) = Answer(u, {})
    BY <1>1, <1>3, <1>4 DEF trunc
  <2> QED
    BY <2>1, <2>2, IntegralIsInteger DEF Answer, Modes
<1>5. CASE intexp(u) < 0
  <2>1. a = 0
    BY <1>1, <1>5, ExponentTells
  <2>2. trunc(u, m) = Answer(SignOf(u), {})
    BY <1>1, <1>3, <1>5 DEF trunc
  <2>3. 0 = a * one
    BY <1>1, <2>1
  <2> QED
    BY <1>2, <2>2, <2>3, SignedIntegers DEF Integer, Answer
<1>6. CASE intexp(u) >= 0 /\ intexp(u) < M
  <2>1. ur \in Patterns /\ Finite(ur) /\ SignOf(ur) = SignOf(u) /\ Units(ur) = a * one
    BY <1>1, <1>6, ClearedIs
  <2>2. trunc(u, m) = Answer(ur, {})
    BY <1>1, <1>3, <1>6 DEF trunc
  <2> QED
    BY <1>2, <2>1, <2>2 DEF Integer, Answer
<1> QED
  BY <1>1, <1>4, <1>5, <1>6

\* round rounds to the nearest integer, and halves away from zero.
LEMMA RoundIs ==
    ASSUME NEW u \in Patterns, Finite(u), NEW m
    PROVE  LET b == round(u, m)
           IN  Integer("away", u, b.ret) /\ SignOf(b.ret) = SignOf(u) /\ b.flags = {}
<1> DEFINE a == Units(u) \div one
           r == Units(u) % one
           ur == Integral(u)
           c == Cleared(u + pow2[M - 1 - intexp(u)], M - intexp(u))
<1>1. /\ a \in Nat /\ r \in 0 .. one - 1 /\ Units(u) \in Nat /\ one \in Nat \ {0}
      /\ Units(u) < one => a = 0 /\ r = Units(u)
      /\ intexp(u) \in Int /\ M \in Nat /\ M > 0
  <2>1. Units(u) \in Nat /\ one \in Nat \ {0} /\ intexp(u) \in Int /\ M \in Nat /\ M > 0
    BY UnitsBounds, OneIs, ExponentTells, SizeAssumption
  <2> QED
    BY <2>1, OnesAndRest
<1>2. Ones("away", Negative(u), Units(u)) = IF 2 * r >= one THEN a + 1 ELSE a
  BY DEF Ones, Outward
<1>4. CASE intexp(u) >= M
  <2>1. r = 0
    BY <1>4, LargeIsIntegral
  <2>2. round(u, m) = Answer(u, {})
    BY <1>1, <1>4, QuietIs DEF round
  <2> QED
    BY <2>1, <2>2, IntegralIsInteger DEF Answer, Modes
<1>5. CASE intexp(u) < 0
  <2>1. a = 0 /\ r = Units(u)
    BY <1>1, <1>5, ExponentTells
  <2>2. round(u, m) = Answer(SignOf(u) + (IF intexp(u) = -1 THEN POS_ONE ELSE 0), {})
    BY <1>1, <1>5 DEF round
  <2>3. 0 = 0 * one /\ one = (0 + 1) * one
    BY <1>1
  <2>4. 2 * r >= one <=> intexp(u) = -1
    BY <1>1, <1>5, <2>1, ExponentTells
  <2>5. SignOf(u) + 0 = SignOf(u)
    BY SignedIntegers DEF Patterns
  <2> HIDE DEF a, r
  <2>6. CASE intexp(u) = -1
    BY <1>2, <2>1, <2>2, <2>3, <2>4, <2>6, SignedIntegers DEF Integer, Answer
  <2>7. CASE intexp(u) # -1
    BY <1>2, <2>1, <2>2, <2>3, <2>4, <2>5, <2>7, SignedIntegers DEF Integer, Answer
  <2> QED
    BY <2>6, <2>7
<1>6. CASE intexp(u) >= 0 /\ intexp(u) < M
  <2>1. /\ ur \in Patterns /\ Finite(ur) /\ SignOf(ur) = SignOf(u) /\ Units(ur) = a * one
        /\ (ur = u <=> r = 0)
        /\ c \in Patterns /\ Finite(c) /\ SignOf(c) = SignOf(u)
        /\ Units(c) = (IF 2 * r >= one THEN a + 1 ELSE a) * one
    BY <1>1, <1>6, ClearedIs
  <2>2. round(u, m) = Answer(IF ur = u THEN u ELSE c, {})
    BY <1>1, <1>6 DEF round
  <2> HIDE DEF a, r, ur, c
  <2>3. CASE ur = u
    BY <1>1, <1>2, <2>1, <2>2, <2>3 DEF Integer, Answer
  <2>4. CASE ur # u
    BY <1>2, <2>1, <2>2, <2>4 DEF Integer, Answer
  <2> QED
    BY <2>3, <2>4
<1> QED
  BY <1>1, <1>4, <1>5, <1>6

-----------------------------------------------------------------------------
(* Functions that shift: adding and taking away 2^M.                       *)

\* Adding 2^M with the sign of a number leaves it no fraction.
LEMMA ShiftUp ==
    ASSUME NEW u \in Patterns, Magnitude(u) <= TWOPOW_M, NEW m \in Modes
    PROVE  LET k == Ones(m, Negative(u), Units(u))
               s == Sum(m, u, Shifter(u))
           IN  /\ k \in Nat /\ k <= IMPBIT /\ k <= Units(u) \div one + 1
               /\ s \in Patterns /\ Finite(s) /\ Units(s) = (IMPBIT + k) * one
               /\ SignOf(s) = SignOf(u)
               /\ SumExact(m, u, Shifter(u)) <=> Units(u) % one = 0
<1> DEFINE n == Units(u)
           a == n \div one
           r == n % one
           o == one
           k == Ones(m, Negative(u), Units(u))
           s == Sum(m, u, Shifter(u))
           j == M + EXPBIAS - 1
           v == Value(u) + Value(Shifter(u))
           N == n + IMPBIT * o
<1>1. /\ a \in Nat /\ r \in 0 .. o - 1 /\ n \in Nat /\ o \in Nat \ {0} /\ n = a * o + r
      /\ IMPBIT \in Nat \ {0} /\ n <= IMPBIT * o
      /\ j \in Nat /\ o = pow2[j]
  <2>1. n \in Nat /\ o \in Nat \ {0} /\ IMPBIT \in Nat \ {0} /\ j \in Nat /\ o = pow2[j]
    BY UnitsBounds, OneIs, Widths
  <2> QED
    BY <2>1, OnesAndRest, ExponentTells
<1>2. /\ Shifter(u) \in Patterns /\ (Negative(Shifter(u)) <=> Negative(u))
      /\ Units(Shifter(u)) = IMPBIT * o
  BY GivenSign, OneIs DEF Shifter
<1>3. v = (IF Negative(u) THEN -n ELSE n) + (IF Negative(u) THEN -(IMPBIT * o) ELSE IMPBIT * o)
  BY <1>2, ValueIs
<1>4. k = IF Outward(m, Negative(u), a, r) THEN a + 1 ELSE a
  BY DEF Ones
<1> HIDE DEF n, a, r, o, k, j, v
<1>5. a <= IMPBIT /\ (a = IMPBIT => r = 0)
  <2>1. a * o + r <= IMPBIT * o /\ a * o \in Nat
    BY <1>1
  <2>2. a >= IMPBIT + 1 => a * o >= (IMPBIT + 1) * o
    BY <1>1
  <2>3. (IMPBIT + 1) * o = IMPBIT * o + o /\ (a = IMPBIT => a * o = IMPBIT * o)
    BY <1>1
  <2>4. IMPBIT * o \in Nat
    BY <1>1
  <2> QED
    BY <1>1, <2>1, <2>2, <2>3, <2>4
<1>6. r = 0 => k = a
  <2>1. r = 0 => ~(2 * r > o) /\ 2 * r # o /\ ~(2 * r >= o) /\ ~(r > 0)
    BY <1>1
  <2>2. r = 0 => ~Outward(m, Negative(u), a, r)
    BY <2>1 DEF Outward, Modes, o
  <2> QED
    BY <1>4, <2>2
<1>7. k \in Nat /\ k <= IMPBIT /\ k <= a + 1 /\ k >= a
  <2>1. k \in {a, a + 1} /\ (r = 0 => k = a)
    BY <1>4, <1>6
  <2> QED
    BY <1>1, <1>5, <2>1
<1>8. N = (a + IMPBIT) * o + r /\ N \in Nat /\ N > 0
  <2>1. (a + IMPBIT) * o = a * o + IMPBIT * o /\ a * o \in Nat /\ IMPBIT * o \in Nat
        /\ IMPBIT * o > 0
    BY <1>1
  <2> QED
    BY <1>1, <2>1
<1>9. v = (IF Negative(u) THEN -N ELSE N) /\ v \in Int
  <2>1. IMPBIT * o \in Nat
    BY <1>1
  <2> QED
    BY <1>1, <1>3, <2>1
<1>10. CASE r = 0
  <2> DEFINE z == IF Negative(u) THEN -(a + IMPBIT) ELSE a + IMPBIT
  <2>1. z \in Int /\ -(2 * IMPBIT) <= z /\ z <= 2 * IMPBIT /\ z # 0 /\ (z < 0 <=> Negative(u))
        /\ AbsValue(z) = a + IMPBIT
    BY <1>1, <1>5 DEF AbsValue
  <2>2. v = z * o
    <3>1. (-(a + IMPBIT)) * o = -((a + IMPBIT) * o) /\ (a + IMPBIT) * o \in Nat
      BY <1>1
    <3> QED
      BY <1>1, <1>9, <1>8, <1>10, <3>1
  <2> HIDE DEF z
  <2>3. /\ s \in Patterns /\ Finite(s) /\ Units(s) = (a + IMPBIT) * o
        /\ (Negative(s) <=> Negative(u)) /\ SumExact(m, u, Shifter(u))
    BY <1>2, <2>1, <2>2, SumOfIntegers DEF o, v
  <2>4. a + IMPBIT = IMPBIT + k
    BY <1>1, <1>6, <1>10
  <2> QED
    BY <1>7, <1>10, <2>3, <2>4 DEF SignOf, o, r, n, k, a
<1>11. CASE r # 0
  <2>1. v # 0 /\ AbsValue(v) = N /\ (v < 0 <=> Negative(u))
    BY <1>9, <1>8 DEF AbsValue
  <2>2. s = RoundedIn(m, v, 1)
    BY <2>1 DEF Sum, v
  <2>2a. SumExact(m, u, Shifter(u)) <=> Finite(s) /\ Value(s) = v
    BY DEF SumExact, v
  <2>3. Binade(N, 1) = j
    <3>1. 1 * IMPBIT * pow2[j] = IMPBIT * o /\ 1 * IMPBIT * pow2[j + 1] = (2 * IMPBIT) * o
      BY <1>1, Pow2Next
    <3>2. N >= IMPBIT * o /\ N < (2 * IMPBIT) * o
      <4>1. n < IMPBIT * o
        <5>1. a + 1 <= IMPBIT
          BY <1>1, <1>5, <1>11
        <5>2. (a + 1) * o <= IMPBIT * o /\ (a + 1) * o = a * o + o /\ a * o \in Nat
              /\ IMPBIT * o \in Nat
          <6>1. (a + 1) * o <= IMPBIT * o
            BY ONLY <1>1, <5>1
          <6>2. (a + 1) * o = a * o + o /\ a * o \in Nat /\ IMPBIT * o \in Nat
            BY ONLY <1>1
          <6> QED
            BY <6>1, <6>2
        <5> QED
          BY <1>1, <5>2
      <4>2. IMPBIT * o \in Nat /\ (2 * IMPBIT) * o = IMPBIT * o + IMPBIT * o
        BY <1>1
      <4> QED
        BY <1>1, <4>1, <4>2
    <3>3. N \in Nat /\ 1 \in Nat \ {0} /\ j \in Nat /\ N < 1 * IMPBIT * pow2[j + 1]
          /\ (j > 0 => N >= 1 * IMPBIT * pow2[j])
      BY <1>1, <1>8, <3>1, <3>2
    <3> HIDE DEF N
    <3> QED
      BY ONLY <3>3, BinadeUnique
  <2>4. PICK c \in {0, 1} : RoundedParts(m, v, 1, j, N \div (1 * pow2[j]), N % (1 * pow2[j]), c)
    <3>1. v \in Int /\ 1 \in Nat \ {0}
      BY <1>9
    <3> QED
      <4>1. LET k0 == Binade(AbsValue(v), 1)
                s0 == 1 * pow2[k0]
            IN  \E c \in {0, 1} :
                   RoundedParts(m, v, 1, k0, AbsValue(v) \div s0, AbsValue(v) % s0, c)
        BY ONLY <3>1, RoundedInSteps
      <4> HIDE DEF N
      <4> QED
        BY <2>1, <2>3, <4>1
  <2>5. 1 * pow2[j] = o /\ N \div o = a + IMPBIT /\ N % o = r
    <3>1. 1 * pow2[j] = o /\ N \in Int /\ a + IMPBIT \in Int /\ N = o * (a + IMPBIT) + r
      BY <1>1, <1>8
    <3> HIDE DEF N
    <3> QED
      BY <1>1, <3>1, DivisionUnique
  <2> DEFINE q == a + IMPBIT
             R == RoundedIn(m, v, 1)
  <2>6. RoundedParts(m, v, 1, j, q, r, c)
    BY <2>4, <2>5
  <2>7. c = 1 <=> Outward(m, Negative(u), a, r)
    <3>1. q % 2 = a % 2
      <4>1. IMPBIT = 2 * QNAN_MASK /\ QNAN_MASK \in Nat
        BY Widths, Format
      <4> QED
        BY <1>1, <4>1
    <3>2. /\ m = "nearest" => (c = 1 <=> 2 * r > o \/ (2 * r = o /\ q % 2 = 1))
          /\ m # "nearest" => (c = 1 <=> ((m = "upward" /\ v > 0) \/ (m = "downward" /\ v < 0))
                                         /\ r > 0)
      BY <2>5, <2>6 DEF RoundedParts
    <3>3. v > 0 <=> ~Negative(u)
      BY <1>9, <2>1
    <3> HIDE DEF q
    <3>4. m \in {"nearest", "upward", "downward", "towardzero"}
      BY DEF Modes
    <3>5. CASE m = "nearest"
      BY <3>1, <3>2, <3>5 DEF Outward, o
    <3>6. CASE m = "upward"
      BY <3>2, <3>3, <3>6 DEF Outward
    <3>7. CASE m = "downward"
      BY <2>1, <3>2, <3>7 DEF Outward
    <3>8. CASE m = "towardzero"
      BY <3>2, <3>8 DEF Outward
    <3> QED
      BY <3>4, <3>5, <3>6, <3>7, <3>8
  <2>8. q + c = IMPBIT + k
    BY <1>1, <1>4, <2>7
  <2>9. /\ R \in Patterns /\ (Negative(R) <=> Negative(u))
        /\ Magnitude(R) = (q + c) + j * IMPBIT /\ Units(R) = (q + c) * o /\ Finite(R)
    <3>1. R \in Patterns /\ (Negative(R) <=> Negative(u))
      BY <1>9, <2>1, RoundedInType
    <3>2. (q + c) + j * IMPBIT < EXPBITS
      <4>1. EXPBITS = (2 * EXPBIAS + 1) * IMPBIT /\ j + 2 < 2 * EXPBIAS + 1 /\ EXPBIAS \in Nat
        BY <1>1, Widths, OneIs DEF j
      <4>2. (j + 2) * IMPBIT < (2 * EXPBIAS + 1) * IMPBIT
        BY <1>1, <4>1
      <4>3. (j + 2) * IMPBIT = j * IMPBIT + IMPBIT + IMPBIT /\ j * IMPBIT \in Nat
        BY <1>1
      <4>4. q + c <= IMPBIT + IMPBIT /\ q + c \in Nat
        BY <1>7, <1>1, <2>8
      <4>5. EXPBITS \in Int /\ IMPBIT \in Int
        BY <1>1, Format
      <4> HIDE DEF q
      <4> QED
        BY ONLY <4>1, <4>2, <4>3, <4>4, <4>5
    <3>3. Magnitude(R) = (q + c) + j * IMPBIT
      <4>1. Magnitude(R) = IF (q + c) + j * IMPBIT < EXPBITS THEN (q + c) + j * IMPBIT
                           ELSE IF m = "nearest" \/ ((m = "upward" /\ v > 0) \/ (m = "downward" /\ v < 0))
                           THEN EXPBITS ELSE EXPBITS - 1
        BY <2>6 DEF RoundedParts
      <4> QED
        BY <3>2, <4>1
    <3>4. Units((q + c) + j * IMPBIT) = (q + c) * pow2[j]
      <4> DEFINE t == q + c
      <4>1. t \in Nat /\ j \in Nat /\ t <= 2 * IMPBIT /\ (j > 0 => t >= IMPBIT)
            /\ t + j * IMPBIT < SIGNBIT
        <5>1. EXPBITS < SIGNBIT /\ EXPBITS \in Nat /\ SIGNBIT \in Nat /\ j * IMPBIT \in Nat
          BY <1>1, Format
        <5>2. t \in Nat /\ t <= 2 * IMPBIT /\ t >= IMPBIT
          BY <1>1, <1>7, <2>8
        <5> HIDE DEF t
        <5> QED
          BY <1>1, <3>2, <5>1, <5>2 DEF t
      <4> HIDE DEF t
      <4>2. Units(t + j * IMPBIT) = t * pow2[j]
        BY ONLY <4>1, Assembled
      <4> QED
        BY <4>2 DEF t
    <3>5. Units(R) = Units(Magnitude(R))
      BY <3>1, UnitsBounds
    <3> QED
      BY <1>1, <3>1, <3>2, <3>3, <3>4, <3>5 DEF Finite
  <2>10. Value(s) # v
    <3>1. Value(R) = IF Negative(u) THEN -((q + c) * o) ELSE (q + c) * o
      BY <2>9, ValueIs
    <3>2. (q + c) * o # N
      <4>1. c = 0 => (q + c) * o = (a + IMPBIT) * o
        BY <1>1
      <4>2. c = 1 => (q + c) * o = (a + IMPBIT) * o + o
        BY <1>1
      <4>3. (a + IMPBIT) * o \in Nat
        BY <1>1
      <4> HIDE DEF q
      <4> QED
        BY <1>1, <1>8, <1>11, <4>1, <4>2, <4>3
    <3>3. (q + c) * o \in Int /\ N \in Int
      BY <1>1, <1>8
    <3> HIDE DEF q, N
    <3> QED
      BY <1>9, <2>2, <3>1, <3>2, <3>3
  <2>11. Units(s) = (IMPBIT + k) * o /\ s \in Patterns /\ Finite(s) /\ SignOf(s) = SignOf(u)
    BY <2>2, <2>8, <2>9 DEF SignOf
  <2> QED
    BY <1>7, <1>11, <2>2a, <2>10, <2>11 DEF o, r, n, k, a
<1> QED
  BY <1>10, <1>11

\* Taking 2^M away again leaves the integer that the direction gives, and only the
\* first of the two operations can be inexact.
LEMMA ShiftedIs ==
    ASSUME NEW u \in Patterns, Magnitude(u) <= TWOPOW_M, NEW m \in Modes
    PROVE  LET v == Shifted(m, u)
           IN  /\ Integer(m, u, v)
               /\ Units(v) # 0 => (Negative(v) <=> Negative(u))
               /\ Units(v) = 0 => v = IF m = "downward" THEN NEG_ZERO ELSE 0
               /\ ShiftRaises(m, u) = Raised(Units(u) % one # 0)
<1> DEFINE k == Ones(m, Negative(u), Units(u))
           s == Sum(m, u, Shifter(u))
           z == IF Negative(u) THEN -k ELSE k
           t == Negated(Shifter(u))
<1>1. /\ k \in Nat /\ k <= IMPBIT /\ s \in Patterns /\ Finite(s)
      /\ Units(s) = (IMPBIT + k) * one /\ SignOf(s) = SignOf(u)
      /\ SumExact(m, u, Shifter(u)) <=> Units(u) % one = 0
  BY ShiftUp
<1>2. one \in Nat \ {0} /\ IMPBIT \in Nat \ {0} /\ SIGNBIT > 0
  BY OneIs, Widths, Format
<1>3. /\ Shifter(u) \in Patterns /\ SignOf(Shifter(u)) = SignOf(u)
      /\ Units(Shifter(u)) = IMPBIT * one
  BY GivenSign, OneIs DEF Shifter
<1>4. /\ t \in Patterns /\ SignOf(t) # SignOf(s)
      /\ Value(t) = IF Negative(u) THEN IMPBIT * one ELSE -(IMPBIT * one)
      /\ Value(s) = IF Negative(u) THEN -((IMPBIT + k) * one) ELSE (IMPBIT + k) * one
  <2>1. (Negative(s) <=> Negative(u)) /\ (Negative(Shifter(u)) <=> Negative(u))
    BY <1>1, <1>2, <1>3 DEF SignOf
  <2>2. t \in Patterns /\ (Negative(t) <=> ~Negative(u)) /\ Value(t) = -Value(Shifter(u))
    BY <1>3, <2>1, NegatedIs, ValueIs
  <2>3. Value(Shifter(u)) = IF Negative(u) THEN -(IMPBIT * one) ELSE IMPBIT * one
    BY <1>3, <2>1, ValueIs
  <2>4. IMPBIT * one \in Nat
    BY <1>2
  <2> HIDE DEF k, s, t
  <2>5. Value(s) = IF Negative(u) THEN -((IMPBIT + k) * one) ELSE (IMPBIT + k) * one
    BY <1>1, <2>1, ValueIs
  <2>6. SignOf(t) # SignOf(s)
    BY <1>2, <2>1, <2>2 DEF SignOf
  <2> QED
    BY <2>2, <2>3, <2>4, <2>5, <2>6
<1> HIDE DEF k, s, t
<1>5. Value(s) + Value(t) = z * one
  <2>1. (IMPBIT + k) * one = IMPBIT * one + k * one /\ (-k) * one = -(k * one)
        /\ IMPBIT * one \in Nat /\ k * one \in Nat
    BY <1>1, <1>2
  <2> QED
    BY <1>4, <2>1
<1>6. z \in Int /\ -(2 * IMPBIT) <= z /\ z <= 2 * IMPBIT /\ AbsValue(z) = k
      /\ (z # 0 <=> k # 0) /\ (z # 0 => (z < 0 <=> Negative(u)))
  BY <1>1, <1>2 DEF AbsValue
<1> HIDE DEF z
<1> DEFINE v == Sum(m, s, t)
<1>7. /\ v \in Patterns /\ Finite(v) /\ Units(v) = k * one
      /\ (z # 0 => (Negative(v) <=> z < 0)) /\ SumExact(m, s, t)
      /\ z = 0 => v = IF m = "downward" THEN NEG_ZERO ELSE 0
  BY <1>1, <1>4, <1>5, <1>6, SumOfIntegers
<1>8. Shifted(m, u) = v /\ ShiftRaises(m, u) = Raised(~SumExact(m, u, Shifter(u)))
  BY <1>7 DEF Shifted, Difference, ShiftRaises, s, t
<1>9. k * one = 0 <=> k = 0
  BY <1>1, <1>2
<1>10. ShiftRaises(m, u) = Raised(Units(u) % one # 0)
  BY <1>1, <1>8 DEF s
<1> HIDE DEF v
<1> QED
  BY <1>6, <1>7, <1>8, <1>9, <1>10 DEF Integer, k

\* rint rounds in the direction of the caller and keeps the sign.
LEMMA RintIs ==
    ASSUME NEW u \in Patterns, Finite(u), NEW m \in Modes
    PROVE  LET b == rint(u, m)
           IN  /\ Integer(m, u, b.ret) /\ SignOf(b.ret) = SignOf(u)
               /\ b.flags = Raised(Units(u) % one # 0)
<1>1. CASE Magnitude(u) > TWOPOW_M
  <2>1. rint(u, m) = Answer(u, {})
    BY <1>1, QuietIs DEF rint
  <2>2. Units(u) % one = 0
    BY <1>1, ExponentTells, LargeIsIntegral, Fields, OneIs DEF Patterns
  <2> QED
    BY <2>1, <2>2, IntegralIsInteger DEF Answer, Modes, Raised
<1>2. CASE ~(Magnitude(u) > TWOPOW_M)
  <2> DEFINE v == Shifted(m, u)
             w0 == SignOf(u) + Magnitude(v)
  <2>1. Magnitude(u) <= TWOPOW_M
    BY <1>2, Fields, OneIs DEF Patterns
  <2>2. Integer(m, u, v) /\ ShiftRaises(m, u) = Raised(Units(u) % one # 0)
    BY <2>1, ShiftedIs
  <2>3. rint(u, m) = Answer(w0, ShiftRaises(m, u))
    BY <1>2 DEF rint
  <2>4. w0 \in Patterns /\ SignOf(w0) = SignOf(u) /\ Units(w0) = Units(v) /\ Finite(w0)
    <3>1. Magnitude(v) \in Patterns /\ ~Negative(Magnitude(v)) /\ v \in Patterns
          /\ Units(Magnitude(v)) = Units(v) /\ Finite(Magnitude(v))
      BY <2>2, MagnitudeIs, UnitsBounds DEF Integer, Finite
    <3> QED
      BY <3>1, GivenSign
  <2> HIDE DEF v, w0
  <2> QED
    BY <2>2, <2>3, <2>4 DEF Integer, Answer
<1> QED
  BY <1>1, <1>2

\* nearbyint does so too, but may make -0 of a small positive number.
LEMMA NearbyintIs ==
    ASSUME NEW u \in Patterns, Finite(u), NEW m \in Modes
    PROVE  LET b == nearbyint(u, m)
           IN  /\ Integer(m, u, b.ret)
               /\ SignOf(b.ret) = SignOf(u) \/ (m = "downward" /\ b.ret = NEG_ZERO)
               /\ b.flags = Raised(Units(u) % one # 0)
<1>1. CASE Magnitude(u) > TWOPOW_M
  <2>1. nearbyint(u, m) = Answer(u, {})
    BY <1>1, QuietIs DEF nearbyint
  <2>2. Units(u) % one = 0
    BY <1>1, ExponentTells, LargeIsIntegral, Fields, OneIs DEF Patterns
  <2> QED
    BY <2>1, <2>2, IntegralIsInteger DEF Answer, Modes, Raised
<1>2. CASE ~(Magnitude(u) > TWOPOW_M)
  <2> DEFINE v == Shifted(m, u)
             w0 == IF Negative(v) THEN v ELSE SignOf(u) + Magnitude(v)
  <2>1. Magnitude(u) <= TWOPOW_M
    BY <1>2, Fields, OneIs DEF Patterns
  <2>2. Integer(m, u, v) /\ ShiftRaises(m, u) = Raised(Units(u) % one # 0) /\ v \in Patterns
        /\ (Units(v) # 0 => (Negative(v) <=> Negative(u)))
        /\ (Units(v) = 0 => v = IF m = "downward" THEN NEG_ZERO ELSE 0)
    BY <2>1, ShiftedIs DEF Integer
  <2>3. nearbyint(u, m) = Answer(w0, ShiftRaises(m, u))
    <3>1. v = SignOf(v) + Magnitude(v) /\ SignOf(v) = IF Negative(v) THEN SIGNBIT ELSE 0
      BY <2>2, Fields DEF SignOf
    <3>2. Magnitude(v) \in Int /\ SignOf(u) \in Int /\ SIGNBIT \in Int
      BY <2>2, Fields, Format
    <3>3. w0 = Magnitude(v) + (IF Negative(v) THEN SIGNBIT ELSE SignOf(u))
      BY <3>1, <3>2
    <3> QED
      BY <1>2, <3>3 DEF nearbyint
  <2>4. w0 \in Patterns /\ Units(w0) = Units(v) /\ Finite(w0)
        /\ (~Negative(v) => SignOf(w0) = SignOf(u))
    <3>1. Magnitude(v) \in Patterns /\ ~Negative(Magnitude(v)) /\ v \in Patterns
          /\ Units(Magnitude(v)) = Units(v) /\ Finite(Magnitude(v)) /\ Finite(v)
      BY <2>2, MagnitudeIs, UnitsBounds DEF Integer, Finite
    <3> QED
      BY <3>1, GivenSign
  <2>5. SignOf(w0) = SignOf(u) \/ (m = "downward" /\ w0 = NEG_ZERO)
    <3>1. CASE Negative(v) /\ Units(v) # 0
      BY <2>2, <3>1 DEF SignOf
    <3>2. CASE Negative(v) /\ Units(v) = 0
      <4>1. ~Negative(0)
        BY Format DEF Negative
      <4> QED
        BY <2>2, <3>2, <4>1
    <3> QED
      BY <2>4, <3>1, <3>2
  <2> HIDE DEF v, w0
  <2> QED
    BY <2>2, <2>3, <2>4, <2>5 DEF Integer, Answer
<1> QED
  BY <1>1, <1>2

-----------------------------------------------------------------------------
(* The lanes of vrd2_round and vrs4_roundf.                                *)

\* The fraction of a number is a number.
LEMMA RestExact ==
    ASSUME NEW m, NEW u \in Patterns, intexp(u) <= M, NEW z \in Int,
           AbsValue(z) = Units(u) % one
    PROVE  /\ RoundedIn(m, z, 1) \in Patterns /\ Finite(RoundedIn(m, z, 1))
           /\ Value(RoundedIn(m, z, 1)) = z /\ Units(RoundedIn(m, z, 1)) = Units(u) % one
           /\ (Negative(RoundedIn(m, z, 1)) <=> z < 0)
<1> DEFINE R == RoundedIn(m, z, 1)
           n == Units(u)
           r == n % one
<1>1. n \in Nat /\ 1 \in Nat \ {0}
  BY UnitsBounds
<1>2. R \in Patterns /\ (Negative(R) <=> z < 0)
  BY RoundedInType
<1>3. CASE intexp(u) < 0
  <2>1. r = n
    <3>1. n < one
      BY <1>1, <1>3, ExponentTells, OneIs
    <3> QED
      BY <1>1, <3>1, OnesAndRest
  <2>2. Magnitude(u) < EXPBITS
    BY <1>3, ExponentTells, OneIs, Fields, Format DEF Patterns, Finite
  <2>3. AbsValue(z) = 1 * Units(u)
    BY <1>1, <2>1
  <2>4. R = (IF z < 0 THEN SIGNBIT ELSE 0) + Magnitude(u)
    BY ONLY <1>1, <2>2, <2>3, RoundedInExact, u \in Patterns, z \in Int
  <2>5. Magnitude(R) = Magnitude(u)
    BY <1>2, <2>4, Fields, Format DEF Magnitude
  <2>6. Units(R) = n /\ Finite(R)
    BY <1>2, <2>2, <2>5, UnitsOrder DEF Finite
  <2>7. Value(R) = z
    <3>1. Value(R) = IF z < 0 THEN -n ELSE n
      BY <1>2, <2>6, ValueIs
    <3> QED
      BY <2>1, <3>1 DEF AbsValue
  <2> QED
    BY <1>2, <2>1, <2>6, <2>7
<1>4. CASE intexp(u) >= 0
  <2>1. PICK p, g, h, s : FractionParts(u, p, g, h, s)
    BY <1>4, FractionPartsExist
  <2>2. /\ g \in Nat \ {0} /\ h \in Nat \ {0} /\ IMPBIT = g * h
        /\ p = pow2[ExponentField(u) - 1] /\ ExponentField(u) - 1 \in Nat
        /\ ExponentField(u) <= EXPBIAS + M
    BY <2>1 DEF FractionParts
  <2>3. s % g \in 0 .. g - 1 /\ r = (s % g) * p
    BY <2>1, FractionDivides
  <2> DEFINE i == s % g
             k == ExponentField(u) - 1
  <2>4. i \in Nat /\ i <= 2 * IMPBIT
    <3>1. g <= g * h /\ i < g /\ i \in Nat
      BY <2>2, <2>3
    <3> HIDE DEF i
    <3> QED
      BY <2>2, <3>1
  <2>5. k \in Nat /\ k <= 2 * EXPBIAS - 2
    <3>1. EXPBIAS \in Int /\ M \in Int /\ M < EXPBIAS
      BY Widths, SizeAssumption, RangeAssumption
    <3>2. ExponentField(u) \in Int
      BY Fields
    <3> QED
      BY <2>2, <3>1, <3>2
  <2>6. AbsValue(z) = i * pow2[k]
    BY <2>2, <2>3
  <2> HIDE DEF i, k
  <2>7. Finite(R) /\ Value(R) = z /\ Units(R) = AbsValue(z)
    BY ONLY <2>4, <2>5, <2>6, MultipleExact, z \in Int
  <2> QED
    BY <1>2, <2>7
<1> QED
  BY <1>3, <1>4, ExponentTells

\* Taking the nearest integer away from |u| is exact: what is left is one half in a tie
\* that was decided for the smaller integer, and at no other time.
LEMMA LaneRemainder ==
    ASSUME NEW u \in Patterns, intexp(u) < M, NEW even \in Patterns, ~Negative(even),
           LET a == Units(u) \div one
               r == Units(u) % one
           IN  Units(even) = (IF 2 * r > one \/ (2 * r = one /\ a % 2 = 1) THEN a + 1 ELSE a) * one
    PROVE  Difference("nearest", Magnitude(u), even) = HALF <=>
               2 * (Units(u) % one) = one /\ (Units(u) \div one) % 2 # 1
<1> DEFINE n == Units(u)
           a == n \div one
           r == n % one
           o == one
           t == Negated(even)
           d == Value(Magnitude(u)) + Value(t)
           rem == Difference("nearest", Magnitude(u), even)
           up == 2 * r > o \/ (2 * r = o /\ a % 2 = 1)
<1>1. /\ a \in Nat /\ r \in 0 .. o - 1 /\ n \in Nat /\ o \in Nat \ {0} /\ n = a * o + r
      /\ 2 * Units(HALF) = o /\ Units(HALF) \in Nat \ {0}
  <2>1. n \in Nat /\ o \in Nat \ {0} /\ 2 * Units(HALF) = o /\ Units(HALF) \in Nat \ {0}
    BY UnitsBounds, OneIs
  <2> QED
    BY <2>1, OnesAndRest
<1>2. /\ Value(Magnitude(u)) = n /\ Value(t) = -Units(even) /\ ~Negative(Magnitude(u))
      /\ Magnitude(u) \in Patterns /\ t \in Patterns /\ Negative(t)
  <2>1. Magnitude(u) \in Patterns /\ ~Negative(Magnitude(u)) /\ Units(Magnitude(u)) = n
    BY MagnitudeIs, UnitsBounds
  <2>2. t \in Patterns /\ Negative(t)
    BY NegatedIs
  <2> QED
    BY <2>1, <2>2, ValueIs
<1>3. Units(even) = (IF up THEN a + 1 ELSE a) * o
  OBVIOUS
<1>4. HALF \in Patterns /\ ~Negative(HALF) /\ Magnitude(HALF) = HALF /\ HALF > 0
  <2>1. IMPBIT > 0 /\ EXPBIAS - 1 > 0 /\ IMPBIT \in Nat /\ EXPBIAS - 1 \in Nat
    BY Widths
  <2> QED
    BY <2>1, OneIs DEF HALF
<1>5. rem = Sum("nearest", Magnitude(u), t) /\ d = n - Units(even)
  BY <1>1, <1>2, ValueIs DEF Difference
<1>6. rem = IF d # 0 THEN RoundedIn("nearest", d, 1)
            ELSE IF SignOf(Magnitude(u)) = SignOf(t) THEN SignOf(Magnitude(u)) ELSE 0
  BY <1>5 DEF Sum
<1> HIDE DEF n, a, r, o, t, d, rem, up
<1>7. d = IF up THEN r - o ELSE r
  <2>1. (a + 1) * o = a * o + o /\ a * o \in Nat
    BY <1>1
  <2> QED
    BY <1>1, <1>3, <1>5, <2>1
<1>8. ASSUME up PROVE rem = HALF <=> 2 * r = o /\ a % 2 # 1
  <2>1. d < 0 /\ d \in Int
    BY <1>1, <1>7, <1>8
  <2>2. Negative(rem)
    BY <1>6, <2>1, RoundedInType
  <2>3. ~(2 * r = o /\ a % 2 # 1)
    <3>1. r \in Int /\ o \in Int
      BY <1>1
    <3> QED
      BY <1>8, <3>1 DEF up
  <2> QED
    BY <1>4, <1>8, <2>2, <2>3 DEF up
<1>9. ASSUME ~up /\ r = 0 PROVE rem = HALF <=> 2 * r = o /\ a % 2 # 1
  <2>1. d = 0 /\ SignOf(Magnitude(u)) = 0
    BY <1>2, <1>7, <1>9 DEF SignOf
  <2>2. rem = 0
    BY <1>6, <2>1
  <2> QED
    BY <1>1, <1>4, <1>9, <2>2
<1>10. ASSUME ~up /\ r # 0 PROVE rem = HALF <=> 2 * r = o /\ a % 2 # 1
  <2>1. d = r /\ rem = RoundedIn("nearest", r, 1) /\ r \in Int /\ AbsValue(r) = r /\ ~(r < 0)
    BY <1>1, <1>6, <1>7, <1>10 DEF AbsValue
  <2>2. rem \in Patterns /\ ~Negative(rem) /\ Units(rem) = r
    <3>1. intexp(u) <= M
      BY ExponentTells, SizeAssumption
    <3>2. AbsValue(r) = Units(u) % one
      BY <2>1 DEF r, n, o
    <3> QED
      BY <2>1, <3>1, <3>2, RestExact
  <2>3. rem = HALF <=> Units(rem) = Units(HALF)
    BY <1>4, <2>2, UnitsOrder, MagnitudeIs
  <2>4. rem = HALF <=> 2 * r = o
    BY <1>1, <2>2, <2>3
  <2> QED
    BY <1>10, <2>4 DEF up
<1>11. rem = HALF <=> 2 * r = o /\ a % 2 # 1
  BY <1>8, <1>9, <1>10
<1> QED
  BY <1>11 DEF n, a, r, o, rem

\* A lane of vrd2_round rounds halves away from zero, as round does.
LEMMA LaneIs ==
    ASSUME NEW u \in Patterns, Finite(u), NEW raised
    PROVE  LET b == RoundedLane(u, raised)
           IN  /\ Integer("away", u, b.ret) /\ SignOf(b.ret) = SignOf(u)
               /\ b.flags = IF Units(u) % one = 0 THEN {} ELSE raised
<1> DEFINE n == Units(u)
           a == n \div one
           r == n % one
           o == one
           up == 2 * r > o \/ (2 * r = o /\ a % 2 = 1)
           i == IF up THEN a + 1 ELSE a
           even == RoundedIn("nearest", i * o, 1)
           rem == Difference("nearest", Magnitude(u), even)
           p == IF rem = HALF THEN POS_ONE ELSE 0
           t == Sum("nearest", even, p)
<1>1. /\ a \in Nat /\ r \in 0 .. o - 1 /\ n \in Nat /\ o \in Nat \ {0} /\ n = a * o + r
  <2>1. n \in Nat /\ o \in Nat \ {0}
    BY UnitsBounds, OneIs
  <2> QED
    BY <2>1, OnesAndRest
<1>2. ~IsNaN(u) /\ ~IsInf(u)
  BY Fields, Format DEF IsNaN, IsInf, Finite
<1>3. NearestInteger(Units(Magnitude(u)), UnitsOfOne) = i
  BY UnitsBounds DEF NearestInteger, one
<1>4. RoundedLane(u, raised) = Answer(SignOf(u) + t, IF even = Magnitude(u) THEN {} ELSE raised)
  <2> HIDE DEF i
  <2> QED
    BY <1>2, <1>3 DEF RoundedLane, one
<1>5. Ones("away", Negative(u), n) = (IF 2 * r >= o THEN a + 1 ELSE a)
  BY DEF Ones, Outward
<1>6. /\ Magnitude(u) \in Patterns /\ ~Negative(Magnitude(u)) /\ Units(Magnitude(u)) = n
      /\ Magnitude(Magnitude(u)) = Magnitude(u) /\ Magnitude(u) \in Int
  BY MagnitudeIs, UnitsBounds, Fields
\* What remains is to find the sum.
<1>7. ASSUME t \in Patterns, ~Negative(t), Finite(t), (even = Magnitude(u) <=> r = 0),
             Units(t) = (IF 2 * r >= o THEN a + 1 ELSE a) * o
      PROVE  LET b == RoundedLane(u, raised)
             IN  /\ Integer("away", u, b.ret) /\ SignOf(b.ret) = SignOf(u)
                 /\ b.flags = IF r = 0 THEN {} ELSE raised
  <2> HIDE DEF t, a, r, n, o, even
  <2>1. LET v == SignOf(u) + t
        IN  v \in Patterns /\ SignOf(v) = SignOf(u) /\ Units(v) = Units(t) /\ Finite(v)
    BY <1>7, GivenSign
  <2> QED
    BY <1>4, <1>5, <1>7, <2>1 DEF Integer, Answer, n, o
<1>8. CASE intexp(u) >= M
  <2>1. r = 0
    BY <1>8, LargeIsIntegral
  <2>2. i * o = n /\ n > 0
    <3>1. ~up
      <4> HIDE DEF r, a, o
      <4> QED
        BY <1>1, <2>1
    <3>2. n >= IMPBIT * o /\ IMPBIT > 0 /\ IMPBIT \in Nat
      BY <1>8, ExponentTells, Widths
    <3> HIDE DEF r, a, o, n, up
    <3>3. i = a
      BY <3>1
    <3>4. IMPBIT * o > 0 /\ a * o \in Nat
      BY <1>1, <3>2
    <3> HIDE DEF i
    <3> QED
      BY <1>1, <2>1, <3>2, <3>3, <3>4
  <2>3. even = Magnitude(u) /\ RoundedIn("nearest", n, 1) = Magnitude(u)
    <3>1. n \in Int /\ 1 \in Nat \ {0} /\ Magnitude(u) < EXPBITS /\ AbsValue(n) = 1 * Units(u)
          /\ ~(n < 0)
      <4>1. n \in Nat /\ Magnitude(u) < EXPBITS /\ Units(u) = n
        BY <1>1 DEF Finite
      <4> HIDE DEF n
      <4> QED
        BY ONLY <4>1 DEF AbsValue
    <3>2. RoundedIn("nearest", n, 1) = (IF n < 0 THEN SIGNBIT ELSE 0) + Magnitude(u)
      <4> HIDE DEF n
      <4> QED
        BY ONLY <3>1, RoundedInExact, u \in Patterns
    <3>3. RoundedIn("nearest", n, 1) = Magnitude(u)
      <4> HIDE DEF n
      <4> QED
        BY ONLY <1>6, <3>1, <3>2
    <3>4. even = Magnitude(u)
      <4> HIDE DEF i, n, o
      <4> QED
        BY ONLY <2>2, <3>3
    <3> QED
      BY ONLY <3>3, <3>4
  <2>4. Value(Magnitude(u)) = n
    BY <1>6, ValueIs
  <2> HIDE DEF n, a, r, o, up, i, even
  <2>5. rem = 0
    <3>1. Value(Negated(Magnitude(u))) = -n /\ Negative(Negated(Magnitude(u)))
      BY <1>6, <2>4, ValueIs, NegatedIs
    <3>2. Value(Magnitude(u)) + Value(Negated(Magnitude(u))) = 0
      BY <1>1, <2>4, <3>1
    <3> QED
      BY <1>6, <2>3, <3>1, <3>2, Format DEF Difference, Sum, SignOf
  <2>6. p = 0
    <3>1. HALF # 0
      <4>1. IMPBIT > 0 /\ EXPBIAS - 1 > 0 /\ IMPBIT \in Nat /\ EXPBIAS - 1 \in Nat
        BY Widths
      <4> QED
        BY <4>1 DEF HALF
    <3> QED
      BY <2>5, <3>1
  <2>7. t = Magnitude(u)
    <3>1. Value(0) = 0
      <4>1. 0 \in Patterns /\ IsZero(0)
        BY Format DEF Patterns, IsZero, Magnitude, Negative
      <4> QED
        BY <4>1, ValueIs
    <3> HIDE DEF p
    <3>2. t = RoundedIn("nearest", n, 1)
      <4>1. Value(even) + Value(p) = n
        BY <1>1, <2>3, <2>4, <2>6, <3>1
      <4> QED
        BY <2>2, <4>1 DEF Sum
    <3> QED
      BY <2>3, <3>2
  <2>8. Units(t) = (IF 2 * r >= o THEN a + 1 ELSE a) * o
    <3>1. ~(2 * r >= o) /\ a * o = n
      BY <1>1, <2>1
    <3> QED
      BY <1>6, <2>7, <3>1
  <2>9. Finite(t)
    BY <1>6, <2>7 DEF Finite
  <2> HIDE DEF t
  <2> QED
    BY <1>6, <1>7, <2>1, <2>3, <2>7, <2>8, <2>9 DEF r, n, o
<1>9. CASE intexp(u) < M
  <2>1. IMPBIT \in Nat \ {0}
    BY Widths
  <2>2. a < IMPBIT
    <3>1. n < IMPBIT * o
      <4>1. IMPBIT * o \in Nat
        BY <1>1, <2>1
      <4> QED
        BY <1>1, <1>9, <4>1, ExponentTells, SizeAssumption
    <3> HIDE DEF n, a, r, o
    <3>2. o * a < o * IMPBIT
      <4>1. a * o \in Nat /\ IMPBIT * o \in Nat /\ o * a = a * o /\ o * IMPBIT = IMPBIT * o
        BY <1>1, <2>1
      <4> QED
        BY <1>1, <3>1, <4>1
    <3>3. a \in Int /\ IMPBIT \in Int /\ o \in Nat
      BY <1>1, <2>1
    <3> QED
      BY ONLY <3>2, <3>3, Times
  <2> HIDE DEF n, a, r, o
  <2>3. i \in Nat /\ i <= IMPBIT /\ AbsValue(i) = i /\ i \in {a, a + 1}
    <3>1. i \in {a, a + 1}
      OBVIOUS
    <3>2. a \in Nat
      BY <1>1
    <3> HIDE DEF i
    <3> QED
      BY <2>1, <2>2, <3>1, <3>2 DEF AbsValue
  <2> HIDE DEF i
  <2>4. /\ even \in Patterns /\ Finite(even) /\ ~Negative(even) /\ Units(even) = i * o
        /\ Value(even) = i * o
    <3>1. i \in Int /\ -(2 * IMPBIT) <= i /\ i <= 2 * IMPBIT /\ ~(i < 0)
      BY <2>1, <2>3
    <3>2. LET v == RoundedIn("nearest", i * one, 1)
          IN  /\ v \in Patterns /\ Finite(v) /\ Value(v) = i * one
              /\ Units(v) = AbsValue(i) * one /\ (Negative(v) <=> i < 0)
      BY ONLY <3>1, IntegersExact
    <3> QED
      BY <2>3, <3>1, <3>2 DEF o
  <2> HIDE DEF even
  <2>5. rem = HALF <=> 2 * r = o /\ a % 2 # 1
    <3>1. Units(even) = (IF 2 * r > o \/ (2 * r = o /\ a % 2 = 1) THEN a + 1 ELSE a) * o
      BY <2>4 DEF i
    <3> QED
      BY <1>9, <2>4, <3>1, LaneRemainder DEF n, a, r, o
  <2>6. t \in Patterns /\ Finite(t) /\ ~Negative(t)
        /\ Units(t) = (IF rem = HALF THEN i + 1 ELSE i) * o
    <3> DEFINE k == IF rem = HALF THEN i + 1 ELSE i
    <3>1. 0 \in Patterns /\ Value(0) = 0 /\ SignOf(0) = 0 /\ ~Negative(0)
      <4>1. 0 \in Patterns /\ IsZero(0) /\ ~Negative(0)
        BY Format DEF Patterns, IsZero, Magnitude, Negative
      <4> QED
        BY <4>1, ValueIs DEF SignOf
    <3>2. p \in Patterns /\ Value(p) = IF rem = HALF THEN o ELSE 0
      BY <3>1, OneIs, ValueIs DEF o
    <3>3. k \in Int /\ -(2 * IMPBIT) <= k /\ k <= 2 * IMPBIT /\ k >= 0 /\ AbsValue(k) = k
      BY <2>1, <2>3 DEF AbsValue
    <3>4. Value(even) + Value(p) = k * o
      <4>1. (i + 1) * o = i * o + o /\ i * o \in Nat
        BY <1>1, <2>3
      <4> QED
        BY <1>1, <2>4, <3>2, <4>1
    <3> HIDE DEF rem
    <3>5. k = 0 => SignOf(even) = SignOf(p) /\ SignOf(even) = 0
      BY <2>3, <2>4, <3>1 DEF SignOf
    <3> HIDE DEF k, p
    <3>6. /\ t \in Patterns /\ Finite(t) /\ Units(t) = AbsValue(k) * one
          /\ (k # 0 => (Negative(t) <=> k < 0))
          /\ k = 0 => t = IF SignOf(even) = SignOf(p) THEN SignOf(even)
                          ELSE IF "nearest" = "downward" THEN NEG_ZERO ELSE 0
      <4>1. Value(even) + Value(p) = k * one
        BY <3>4 DEF o
      <4> QED
        BY ONLY <2>4, <3>2, <3>3, <4>1, SumOfIntegers
    <3> HIDE DEF t
    <3> QED
      BY <3>1, <3>3, <3>5, <3>6 DEF k, o
  <2>7. Units(t) = (IF 2 * r >= o THEN a + 1 ELSE a) * o
    <3>1. (IF rem = HALF THEN i + 1 ELSE i) = IF 2 * r >= o THEN a + 1 ELSE a
      <4> HIDE DEF rem
      <4>1. a % 2 \in {0, 1} /\ a \in Nat /\ r \in Nat /\ o \in Nat
        BY <1>1
      <4> QED
        BY <2>5, <4>1 DEF i
    <3> HIDE DEF t, rem
    <3> QED
      BY <2>6, <3>1
  <2>8. even = Magnitude(u) <=> r = 0
    <3>1. even = Magnitude(u) <=> i * o = n
      BY <1>6, <2>4, UnitsOrder, MagnitudeIs
    <3>2. (a + 1) * o = a * o + o /\ a * o \in Nat
      BY <1>1
    <3>3. r = 0 => i = a
      BY <1>1 DEF i
    <3> QED
      BY <1>1, <2>3, <3>1, <3>2, <3>3
  <2> HIDE DEF t
  <2> QED
    BY <1>7, <2>6, <2>7, <2>8 DEF r, n, o
<1> QED
  BY <1>8, <1>9, ExponentTells, SizeAssumption

-----------------------------------------------------------------------------
(* modf.                                                                   *)

\* modf splits its argument: the two parts add up, and the integer is that of trunc.
LEMMA ModfIs ==
    ASSUME NEW u \in Patterns, Finite(u), NEW m \in Modes
    PROVE  LET b == modf(u, m)
           IN  /\ b.ret \in Patterns /\ Finite(b.ret) /\ b.flags = {}
               /\ iptr(u) = trunc(u, m).ret /\ Value(b.ret) + Value(iptr(u)) = Value(u)
               /\ SignOf(b.ret) = SignOf(u) \/ (m = "downward" /\ b.ret = NEG_ZERO)
<1> DEFINE n == Units(u)
           a == n \div one
           r == n % one
           o == one
           d == Difference(m, u, iptr(u))
           z == IF Negative(u) THEN -r ELSE r
<1>1. /\ a \in Nat /\ r \in 0 .. o - 1 /\ n \in Nat /\ o \in Nat \ {0} /\ n = a * o + r
      /\ intexp(u) \in Int /\ M \in Nat /\ Magnitude(u) \in Int
      /\ POS_ONE \in Int /\ TWOPOW_M1 \in Int
  <2>1. n \in Nat /\ o \in Nat \ {0} /\ intexp(u) \in Int /\ M \in Nat
        /\ Magnitude(u) \in Int /\ POS_ONE \in Int /\ TWOPOW_M1 \in Int
    BY UnitsBounds, OneIs, ExponentTells, SizeAssumption, Fields, Format DEF Patterns
  <2> QED
    BY <2>1, OnesAndRest
<1>2. /\ intexp(u) > M <=> Magnitude(u) >= TWOPOW_M1
      /\ intexp(u) < 0 <=> Magnitude(u) < POS_ONE
      /\ ~IsNaN(u)
  <2>1. /\ intexp(u) \in Int /\ Magnitude(u) \in Int /\ POS_ONE \in Int /\ EXPBITS \in Nat
        /\ Magnitude(u) < EXPBITS
    BY <1>1, Format DEF Finite
  <2>2. /\ intexp(u) >= 0 <=> Magnitude(u) >= POS_ONE
        /\ intexp(u) > M <=> Magnitude(u) >= TWOPOW_M1
    BY ExponentTells
  <2> QED
    BY ONLY <2>1, <2>2 DEF IsNaN
<1>3. Value(u) = IF Negative(u) THEN -n ELSE n
  BY ValueIs
<1>4. SignOf(u) \in Patterns /\ Finite(SignOf(u)) /\ Value(SignOf(u)) = 0
      /\ SignOf(SignOf(u)) = SignOf(u)
  BY SignedIntegers, ValueIs DEF IsZero
<1> HIDE DEF n, a, r, o
<1>5. CASE intexp(u) > M
  <2>1. iptr(u) = u /\ trunc(u, m).ret = u /\ modf(u, m) = Answer(SignOf(u), {})
    BY <1>1, <1>2, <1>5 DEF iptr, trunc, modf, Answer
  <2> QED
    BY <1>1, <1>3, <1>4, <2>1 DEF Answer
<1>6. CASE intexp(u) < 0
  <2>1. iptr(u) = SignOf(u) /\ trunc(u, m).ret = SignOf(u) /\ modf(u, m) = Answer(u, {})
    BY <1>1, <1>2, <1>6 DEF iptr, trunc, modf, Answer
  <2> QED
    BY <1>1, <1>3, <1>4, <2>1 DEF Answer
<1>7. CASE intexp(u) >= 0 /\ intexp(u) <= M
  <2> DEFINE i == iptr(u)
             t == Negated(i)
  <2>1. /\ i = Integral(u)
        /\ modf(u, m) = Answer(Magnitude(d) + (IF Negative(d) THEN SIGNBIT ELSE SignOf(u)), {})
    BY <1>1, <1>2, <1>7 DEF iptr, modf
  <2>2. i \in Patterns /\ SignOf(i) = SignOf(u) /\ Units(i) = a * o /\ (i = u <=> r = 0)
    BY <1>7, <2>1, ClearedIs DEF a, n, o, r
  <2>3. trunc(u, m).ret = i
    <3>1. ASSUME intexp(u) = M PROVE r = 0
      <4>1. intexp(u) >= M
        BY <1>1, <3>1
      <4> QED
        BY <4>1, LargeIsIntegral DEF r, n, o
    <3> HIDE DEF i
    <3> QED
      BY <1>1, <1>2, <1>7, <2>1, <2>2, <3>1 DEF trunc, Answer
  <2>4. /\ t \in Patterns /\ SignOf(t) # SignOf(u)
        /\ Value(i) = (IF Negative(u) THEN -(a * o) ELSE a * o) /\ Value(t) = -Value(i)
    <3>1. Negative(i) <=> Negative(u)
      BY <2>2, Format DEF SignOf
    <3> HIDE DEF i
    <3> QED
      BY <2>2, <3>1, NegatedIs, ValueIs, Format DEF SignOf
  <2> HIDE DEF i, t
  <2>5. Value(u) + Value(t) = z /\ z \in Int /\ Value(u) = Value(i) + z
    <3>1. a * o \in Nat
      BY <1>1
    <3> QED
      BY <1>1, <1>3, <2>4, <3>1
  <2>6. d = IF z # 0 THEN RoundedIn(m, z, 1) ELSE IF m = "downward" THEN NEG_ZERO ELSE 0
    BY <2>4, <2>5 DEF Difference, Sum, i, t
  <2>7. d \in Patterns /\ Finite(d) /\ Value(d) = z /\ Units(d) = r
        /\ (z # 0 => (Negative(d) <=> Negative(u)))
    <3>1. CASE z # 0
      <4>1. AbsValue(z) = r /\ (z < 0 <=> Negative(u))
        BY <1>1, <3>1 DEF AbsValue
      <4>2. AbsValue(z) = Units(u) % one
        BY <4>1 DEF r, n, o
      <4> HIDE DEF z
      <4> QED
        BY <1>7, <2>5, <2>6, <3>1, <4>1, <4>2, RestExact DEF r, n, o
    <3>2. CASE z = 0
      <4>1. 0 \in Patterns /\ NEG_ZERO \in Patterns /\ IsZero(0) /\ IsZero(NEG_ZERO)
            /\ Finite(0) /\ Finite(NEG_ZERO)
        BY Format DEF Patterns, IsZero, Magnitude, Negative, NEG_ZERO, Finite
      <4>2. r = 0
        BY <1>1, <3>2
      <4>3. Value(0) = 0 /\ Value(NEG_ZERO) = 0 /\ Units(0) = 0 /\ Units(NEG_ZERO) = 0
        BY <4>1, ValueIs
      <4> QED
        BY <2>6, <3>2, <4>1, <4>2, <4>3
    <3> QED
      BY <3>1, <3>2
  <2> DEFINE v == IF Negative(d) THEN d ELSE SignOf(u) + Magnitude(d)
  <2> HIDE DEF d, z
  <2>8. modf(u, m) = Answer(v, {})
    <3>1. d = SignOf(d) + Magnitude(d) /\ SignOf(d) = IF Negative(d) THEN SIGNBIT ELSE 0
      BY <2>7, Fields DEF SignOf
    <3>2. Magnitude(d) \in Int /\ SignOf(u) \in Int /\ SIGNBIT \in Int
      BY <2>7, Fields, Format
    <3>3. v = Magnitude(d) + (IF Negative(d) THEN SIGNBIT ELSE SignOf(u))
      BY <3>1, <3>2
    <3> QED
      BY <2>1, <3>3
  <2>9. v \in Patterns /\ Finite(v) /\ Units(v) = r /\ (~Negative(d) => SignOf(v) = SignOf(u))
    <3>1. Magnitude(d) \in Patterns /\ ~Negative(Magnitude(d))
          /\ Units(Magnitude(d)) = Units(d) /\ Finite(Magnitude(d))
      BY <2>7, MagnitudeIs, UnitsBounds DEF Finite
    <3> QED
      BY <2>7, <3>1, GivenSign
  <2> HIDE DEF v
  <2>10. ASSUME Value(v) + Value(i) = Value(u),
                SignOf(v) = SignOf(u) \/ (m = "downward" /\ v = NEG_ZERO)
         PROVE  LET b == modf(u, m)
                IN  /\ b.ret \in Patterns /\ Finite(b.ret) /\ b.flags = {}
                    /\ iptr(u) = trunc(u, m).ret /\ Value(b.ret) + Value(iptr(u)) = Value(u)
                    /\ SignOf(b.ret) = SignOf(u) \/ (m = "downward" /\ b.ret = NEG_ZERO)
    <3>1. modf(u, m).ret = v /\ modf(u, m).flags = {}
      BY <2>8 DEF Answer
    <3>2. iptr(u) = trunc(u, m).ret /\ Value(v) + Value(iptr(u)) = Value(u)
      BY <2>3, <2>10 DEF i
    <3> QED
      BY ONLY <2>9, <2>10, <3>1, <3>2
  <2>11. CASE z # 0
    <3>1. SignOf(v) = SignOf(u)
      BY <2>7, <2>9, <2>11 DEF SignOf, v
    <3>2. Negative(v) <=> Negative(u)
      BY <3>1, Format DEF SignOf
    <3>3. Value(v) = z
      BY <1>1, <2>9, <3>2, ValueIs DEF z
    <3>4. Value(v) + Value(i) = Value(u)
      BY <2>2, <2>5, <3>3, ValueIs
    <3> QED
      BY <2>10, <3>1, <3>4
  <2>12. CASE z = 0
    <3>1. r = 0
      BY <1>1, <2>12 DEF z
    <3>2. Value(v) = 0
      BY <2>9, <3>1, ValueIs
    <3>3. SignOf(v) = SignOf(u) \/ (m = "downward" /\ v = NEG_ZERO)
      <4>1. ~Negative(0)
        BY Format DEF Negative
      <4>2. ~Negative(d) => SignOf(v) = SignOf(u)
        BY <2>9
      <4>3. d = 0 \/ (m = "downward" /\ d = NEG_ZERO)
        BY <2>6, <2>12
      <4> QED
        BY <4>1, <4>2, <4>3 DEF v
    <3>4. Value(v) + Value(i) = Value(u)
      BY <2>4, <2>5, <2>12, <3>2, <2>2, ValueIs
    <3> QED
      BY <2>10, <3>3, <3>4
  <2> QED
    BY <2>11, <2>12
<1> QED
  BY <1>1, <1>5, <1>6, <1>7

-----------------------------------------------------------------------------
(* lrint, lround and lroundf.                                            *)

\* What long int can hold of a number, and the integer that a direction gives for it.
Rounds(d, u) == LET k == Ones(d, Negative(u), Units(u)) IN IF Negative(u) THEN -k ELSE k

\* It is the integer of the properties.
LEMMA RoundsIs ==
    ASSUME NEW d \in Modes \cup {"away"}, NEW u \in Patterns
    PROVE  /\ IntegerIn(d, Value(u)) = Rounds(d, u) /\ Rounds(d, u) \in Int
           /\ Ones(d, Negative(u), Units(u)) \in Nat
           /\ AbsValue(Rounds(d, u)) = Ones(d, Negative(u), Units(u))
<1>1. Units(u) \in Nat /\ Value(u) = IF Negative(u) THEN -Units(u) ELSE Units(u)
  BY ValueIs
<1>2. Units(u) \div one \in Nat
  BY <1>1, OnesAndRest
<1>3. /\ IntegerIn(d, -Units(u)) = -Ones(d, TRUE, Units(u))
      /\ IntegerIn(d, Units(u)) = Ones(d, FALSE, Units(u))
  BY <1>1, IntegerIs DEF Ones
<1>4. /\ Negative(u)  => Ones(d, Negative(u), Units(u)) = Ones(d, TRUE, Units(u))
      /\ ~Negative(u) => Ones(d, Negative(u), Units(u)) = Ones(d, FALSE, Units(u))
  BY DEF Ones, Outward
<1>5. Ones(d, Negative(u), Units(u)) \in Nat
  BY <1>2 DEF Ones
<1> DEFINE n == Units(u)
           k == Ones(d, Negative(u), n)
<1>6. /\ n \in Nat /\ Value(u) = (IF Negative(u) THEN -n ELSE n) /\ k \in Nat
      /\ Rounds(d, u) = IF Negative(u) THEN -k ELSE k
      /\ Negative(u)  => IntegerIn(d, -n) = -k
      /\ ~Negative(u) => IntegerIn(d, n) = k
  BY <1>1, <1>3, <1>4, <1>5 DEF Rounds
<1> HIDE DEF n, k
<1>7. /\ IntegerIn(d, Value(u)) = Rounds(d, u) /\ Rounds(d, u) \in Int
      /\ k \in Nat /\ AbsValue(Rounds(d, u)) = k
  BY <1>6 DEF AbsValue
<1> QED
  BY <1>7 DEF n, k

\* The range of long int is larger than the integers that have a fraction.
LEMMA LongRange ==
    /\ LONGBITS - 1 \in Nat /\ pow2[LONGBITS - 1] \in Nat /\ LONG_MIN = -pow2[LONGBITS - 1]
    /\ 2 * IMPBIT < pow2[LONGBITS - 1] /\ LONGBITS - 1 > M + 1
<1>1. M \in Nat /\ LONGBITS - 1 \in Nat /\ M + 1 < LONGBITS - 1
  BY LongAssumption, SizeAssumption
<1>2. pow2[M + 1] = 2 * IMPBIT /\ pow2[M + 1] \in Nat /\ pow2[M + 1] > M + 1
  BY <1>1, Pow2Next, Pow2Type DEF IMPBIT
<1>3. 2 * pow2[M + 1] <= pow2[LONGBITS - 1] /\ pow2[LONGBITS - 1] \in Nat
  BY <1>1, Pow2Grows, Pow2Type
<1> QED
  BY <1>1, <1>2, <1>3 DEF LONG_MIN

\* The conversion of an integer in range does not change it.
LEMMA ToLongIs ==
    ASSUME NEW u \in Patterns, Finite(u), NEW k \in Int, Value(u) = k * one
    PROVE  /\ ToLong(u).ret \in Longs /\ (Fits(k) => ToLong(u).ret = k)
           /\ "inexact" \notin ToLong(u).flags
<1> DEFINE v == Value(u) \div UnitsOfOne
           l == pow2[LONGBITS - 1]
<1>1. v = k
  <2>1. one \in Nat \ {0} /\ k * one \in Int /\ k * one = one * k + 0 /\ 0 \in 0 .. one - 1
    BY OneIs
  <2> QED
    BY <2>1, DivisionUnique DEF one
<1>2. l \in Nat /\ LONG_MIN = -l /\ l > 0
  BY LongRange, Widths
<1>3. ToLong(u) = IF v \in LONG_MIN .. -LONG_MIN - 1 THEN Answer(v, {})
                  ELSE Answer(LONG_MIN, {"invalid"})
  BY DEF ToLong
<1> HIDE DEF v, l
<1> QED
  BY <1>1, <1>2, <1>3 DEF Answer, Longs, Fits

\* What lrint returns is the integer in the direction of the caller, if a long int holds it.
LEMMA LrintIs ==
    ASSUME NEW u \in Patterns, Finite(u), NEW m \in Modes
    PROVE  LET b == lrint(u, m)
           IN  /\ b.ret \in Longs /\ (Fits(Rounds(m, u)) => b.ret = Rounds(m, u))
               /\ "inexact" \in b.flags <=> Units(u) % one # 0
<1> DEFINE k == Ones(m, Negative(u), Units(u))
<1>1. k \in Nat /\ Rounds(m, u) = (IF Negative(u) THEN -k ELSE k) /\ Rounds(m, u) \in Int
  BY RoundsIs DEF Rounds
<1>2. Magnitude(u) \in Int /\ TWOPOW_M \in Int /\ one \in Nat \ {0}
  BY Fields, OneIs, Format DEF Patterns
<1> HIDE DEF k
<1>3. CASE Magnitude(u) > TWOPOW_M
  <2>1. lrint(u, m) = ToLong(u)
    BY <1>3 DEF lrint
  <2>2. Units(u) % one = 0
    <3>1. intexp(u) >= M
      BY <1>2, <1>3, ExponentTells
    <3> QED
      BY <3>1, LargeIsIntegral
  <2>3. Units(u) = k * one
    BY <2>2, IntegralIsInteger DEF Integer, k
  <2>4. Value(u) = Rounds(m, u) * one
    <3>1. Value(u) = IF Negative(u) THEN -Units(u) ELSE Units(u)
      BY ValueIs
    <3>2. (-k) * one = -(k * one)
      BY <1>1, <1>2
    <3> QED
      BY <1>1, <2>3, <3>1, <3>2
  <2> QED
    BY <1>1, <2>1, <2>2, <2>4, ToLongIs
<1>4. CASE Magnitude(u) <= TWOPOW_M
  <2> DEFINE v == Shifted(m, u)
  <2>1. /\ v \in Patterns /\ Finite(v) /\ Units(v) = k * one
        /\ Units(v) # 0 => (Negative(v) <=> Negative(u))
        /\ ShiftRaises(m, u) = Raised(Units(u) % one # 0)
    BY <1>4, ShiftedIs DEF Integer, k
  <2>2. lrint(u, m) = Answer(ToLong(v).ret, ShiftRaises(m, u))
    BY <1>2, <1>4 DEF lrint
  <2> HIDE DEF v
  <2>3. Value(v) = Rounds(m, u) * one
    <3>1. Value(v) = IF Negative(v) THEN -Units(v) ELSE Units(v)
      BY <2>1, ValueIs
    <3>2. (-k) * one = -(k * one)
      BY <1>1, <1>2
    <3>3. k * one \in Nat
      BY <1>1, <1>2
    <3> QED
      BY <1>1, <2>1, <3>1, <3>2, <3>3
  <2>4. ToLong(v).ret \in Longs /\ (Fits(Rounds(m, u)) => ToLong(v).ret = Rounds(m, u))
    BY <1>1, <2>1, <2>3, ToLongIs
  <2> QED
    BY <2>1, <2>2, <2>4 DEF Answer, Raised
<1> QED
  BY <1>2, <1>3, <1>4

\* The significand shifted by the exponent is the integer in a number.
LEMMA SignificandIs ==
    ASSUME NEW u \in Patterns, intexp(u) >= 0
    PROVE  LET shift == intexp(u) - M
           IN  (IF shift < 0 THEN Significand(u) \div pow2[-shift]
                ELSE Significand(u) * pow2[shift]) = Units(u) \div one
<1> DEFINE e == ExponentField(u)
           shift == intexp(u) - M
<1>1. /\ e \in Nat /\ intexp(u) = e - EXPBIAS /\ M \in Nat /\ EXPBIAS \in Nat /\ EXPBIAS > 1
      /\ Fraction(u) \in Nat /\ IMPBIT \in Nat /\ shift \in Int
      /\ u = SignOf(u) + Magnitude(u) /\ Magnitude(u) = e * IMPBIT + Fraction(u)
      /\ SignOf(u) \in Nat
  BY Fields, Widths, Format, SizeAssumption DEF intexp
<1>2. CASE shift < 0
  <2>1. PICK p, g, h, s : FractionParts(u, p, g, h, s)
    BY <1>1, <1>2, FractionPartsExist
  <2>2. g = pow2[-shift] /\ s = Significand(u)
    <3>1. -shift = M - intexp(u)
      BY <1>1
    <3>2. /\ g = pow2[M - intexp(u)] /\ s \in Nat /\ e - 1 \in Nat
          /\ u = SignOf(u) + s + (e - 1) * IMPBIT
      BY <2>1 DEF FractionParts
    <3>3. (e - 1) * IMPBIT = e * IMPBIT - IMPBIT /\ e * IMPBIT \in Nat
      BY <1>1
    <3> HIDE DEF e, shift
    <3>4. s = IMPBIT + Fraction(u)
      BY <1>1, <3>2, <3>3
    <3> QED
      BY <3>1, <3>2, <3>4 DEF Significand
  <2>3. Units(u) \div one = s \div g
    BY <2>1, FractionDivides
  <2> QED
    BY <1>2, <2>2, <2>3
<1>3. CASE ~(shift < 0)
  <2> DEFINE j == M + EXPBIAS - 1
  <2>1. e > 0 /\ e - 1 \in Nat /\ j \in Nat /\ j <= e - 1 /\ e - 1 - j = shift
    BY <1>1, <1>3
  <2>2. Units(u) = Significand(u) * pow2[e - 1]
    BY <2>1, UnitsBounds DEF Significand
  <2>3. Significand(u) \in Nat
    BY <1>1 DEF Significand
  <2>4. one = pow2[j] /\ one \in Nat \ {0}
    BY OneIs DEF j
  <2> HIDE DEF e, j, shift
  <2>5. pow2[e - 1] = one * pow2[shift] /\ pow2[shift] \in Nat
    BY <2>1, <2>4, Pow2Grows
  <2> DEFINE s == Significand(u)
             g == pow2[shift]
  <2>6. Units(u) = s * (one * g) /\ s \in Nat /\ g \in Nat
    BY <2>2, <2>3, <2>5
  <2> HIDE DEF s, g
  <2>7. s * (one * g) = one * (s * g) + 0 /\ s * g \in Int /\ 0 \in 0 .. one - 1
    BY <2>4, <2>6
  <2>8. Units(u) \div one = s * g
    <3>1. Units(u) \in Int
      BY UnitsBounds
    <3>2. Units(u) = one * (s * g) + 0
      BY <2>6, <2>7
    <3> QED
      BY ONLY <2>4, <2>7, <3>1, <3>2, DivisionUnique
  <2> QED
    BY <1>3, <2>8 DEF s, g, shift
<1> QED
  BY <1>2, <1>3

\* A half added to a number without its sign may round, but not to another integer: where
\* the sum has a bit less for the fraction it is just above a power of two.
LEMMA HalfAdded ==
    ASSUME NEW u \in Patterns, intexp(u) >= -1, intexp(u) < M, NEW m
    PROVE  LET r == Sum(m, Magnitude(u), HALF)
           IN  /\ r \in Patterns /\ intexp(r) >= 0
               /\ Units(r) \div one = Ones("away", Negative(u), Units(u))
<1> DEFINE e == ExponentField(u)
           s == IMPBIT + Fraction(u)
           p == pow2[e - 1]
           k == M + EXPBIAS - 1 - e
           c == pow2[k]
           d == pow2[e + 1 - EXPBIAS]
           n == Units(u)
           h == Units(HALF)
           o == one
           r == Sum(m, Magnitude(u), HALF)
           R == RoundedIn(m, n + h, 1)
<1>1. /\ e \in Nat /\ intexp(u) = e - EXPBIAS /\ M \in Nat /\ EXPBIAS \in Nat /\ EXPBIAS > 2
      /\ M < EXPBIAS /\ IMPBIT \in Nat \ {0} /\ Fraction(u) \in 0 .. IMPBIT - 1
  BY Fields, Widths, SizeAssumption, RangeAssumption DEF intexp
<1>2. /\ e > 1 /\ e - 1 \in Nat /\ k \in Nat /\ k <= M /\ e + 1 - EXPBIAS \in Nat
      /\ M - k = e + 1 - EXPBIAS /\ e - 1 <= 2 * EXPBIAS - 2 /\ k + e = M + EXPBIAS - 1
      /\ e - 1 = e - 1 /\ (k > 0 => k - 1 \in Nat /\ e <= 2 * EXPBIAS - 2)
      /\ (e - 1) + 1 = e
  BY <1>1
<1>3. n = s * p /\ s \in Nat /\ s < 2 * IMPBIT /\ IMPBIT <= s /\ p \in Nat \ {0}
  <2>1. ExponentField(u) > 0
    BY <1>1, <1>2
  <2>2. n = s * p /\ p \in Nat \ {0}
    BY <2>1, UnitsBounds
  <2>3. s \in Nat /\ s < 2 * IMPBIT /\ IMPBIT <= s
    BY <1>1
  <2> QED
    BY <2>2, <2>3
<1>4. /\ o = 2 * h /\ o \in Nat \ {0} /\ h \in Nat \ {0} /\ o = pow2[M + EXPBIAS - 1]
      /\ HALF \in Patterns /\ ~Negative(HALF)
  BY OneIs
<1>5. /\ n \in Nat /\ Value(Magnitude(u)) = n /\ Value(HALF) = h
  BY <1>4, MagnitudeIs, UnitsBounds, ValueIs
<1>6. n + h # 0 /\ n + h \in Int /\ r = R /\ AbsValue(n + h) = n + h
  BY <1>4, <1>5 DEF Sum, AbsValue
<1> HIDE DEF e, s, k, n, h, o, r, R
<1>7. /\ pow2[e] = 2 * p /\ c \in Nat \ {0} /\ d \in Nat \ {0} /\ IMPBIT = c * d
      /\ pow2[M + EXPBIAS - 1] = c * pow2[e] /\ c <= IMPBIT
  <2>1. pow2[e] = 2 * pow2[e - 1]
    BY <1>2, Pow2Next
  <2>2. pow2[k + e] = pow2[k] * pow2[e]
    BY <1>1, <1>2, Pow2Sum
  <2>3. pow2[k] \in Nat /\ pow2[k] > k
    BY <1>2, Pow2Type
  <2>4. pow2[M] = pow2[k] * pow2[M - k] /\ pow2[M - k] \in Nat \ {0} /\ pow2[k] <= pow2[M]
    BY <1>1, <1>2, Pow2Grows
  <2> QED
    BY <1>2, <2>1, <2>2, <2>3, <2>4 DEF IMPBIT
<1> DEFINE q == pow2[e]
<1>8. q \in Nat \ {0} /\ q = 2 * p
  BY <1>3, <1>7
<1> HIDE DEF p, c, d, q
<1>9. h = c * p /\ o = c * q
  <2>1. 2 * h = c * (2 * p)
    BY <1>4, <1>7
  <2>2. c * (2 * p) = 2 * (c * p) /\ c * p \in Nat
    BY <1>3, <1>7
  <2> QED
    BY <1>4, <1>7, <2>1, <2>2 DEF q
<1>10. n + h = (s + c) * p
  <2>1. (s + c) * p = s * p + c * p
    BY <1>3, <1>7
  <2> QED
    BY <1>3, <1>9, <2>1
<1>11. n >= h
  <2>1. 2 * n >= o
    BY ExponentTells DEF n, o
  <2> QED
    BY <1>4, <1>5, <2>1
<1>12. (n + h) \div o = Ones("away", Negative(u), n)
  <2> DEFINE a == n \div o
             z == n % o
  <2>1. a \in Nat /\ z \in 0 .. o - 1 /\ n = a * o + z
    BY <1>5, OnesAndRest DEF o
  <2>2. Ones("away", Negative(u), n) = IF 2 * z >= o THEN a + 1 ELSE a
    BY DEF Ones, Outward, o
  <2> HIDE DEF a, z
  <2>3. /\ 2 * z >= o => n + h = o * (a + 1) + (z - h) /\ z - h \in 0 .. o - 1
        /\ ~(2 * z >= o) => n + h = o * a + (z + h) /\ z + h \in 0 .. o - 1
    <3>1. o * (a + 1) = o * a + o /\ o * a = a * o /\ o * a \in Nat
      BY <1>4, <2>1
    <3> QED
      BY <1>4, <1>5, <2>1, <3>1
  <2>4. \A i \in Int, v \in 0 .. o - 1, y0 \in Int : y0 = o * i + v => y0 \div o = i
    BY <1>4, DivisionUnique
  <2> QED
    BY <1>6, <2>1, <2>2, <2>3, <2>4
<1>13. R \in Patterns /\ Units(R) \in Nat
  <2>1. R \in Patterns
    BY <1>6, RoundedInType DEF R
  <2> QED
    BY <2>1, UnitsBounds
<1>14. Units(R) >= o /\ Units(R) \div o = (n + h) \div o
  <2>1. CASE s + c <= 2 * IMPBIT
    <3>1. Units(R) = n + h
      <4>1. s + c \in Nat /\ AbsValue(n + h) = (s + c) * pow2[e - 1]
        BY <1>3, <1>6, <1>7, <1>10 DEF p
      <4>2. e - 1 \in Nat /\ e - 1 <= 2 * EXPBIAS - 2
        BY <1>2
      <4>3. Units(RoundedIn(m, n + h, 1)) = AbsValue(n + h)
        <5> DEFINE t == s + c
                   j == e - 1
                   v == n + h
        <5>1. t \in Nat /\ j \in Nat /\ t <= 2 * IMPBIT /\ j <= 2 * EXPBIAS - 2 /\ v \in Int
              /\ AbsValue(v) = t * pow2[j]
          BY <1>6, <2>1, <4>1, <4>2
        <5> HIDE DEF t, j, v
        <5>2. Units(RoundedIn(m, v, 1)) = AbsValue(v)
          BY ONLY <5>1, MultipleExact
        <5> QED
          BY <5>2 DEF v
      <4> QED
        BY <1>6, <4>3 DEF R
    <3> QED
      BY <1>4, <1>5, <1>11, <3>1
  <2>2. CASE s + c > 2 * IMPBIT
    <3> DEFINE b == pow2[k - 1]
               l == d * o
    <3>1. k > 0
      <4>1. k = 0 => c = 1
        BY Pow2Next DEF c
      <4> QED
        BY <1>1, <1>2, <1>3, <2>2, <4>1
    <3>2. c = 2 * b /\ b \in Nat \ {0} /\ b <= IMPBIT
      <4>1. k - 1 \in Nat /\ (k - 1) + 1 = k
        BY <1>2, <3>1
      <4>2. pow2[k] = 2 * pow2[k - 1] /\ pow2[k - 1] \in Nat /\ pow2[k - 1] > k - 1
        BY <4>1, Pow2Next, Pow2Type
      <4> QED
        BY <1>1, <1>7, <4>1, <4>2 DEF c
    <3> HIDE DEF b
    <3>3. h = b * q /\ l = IMPBIT * q /\ l \in Nat /\ (IMPBIT + b) * q = l + h /\ l >= o
      <4>1. (2 * b) * p = b * (2 * p)
        BY <1>3, <3>2
      <4>2. d * (c * q) = (c * d) * q /\ (IMPBIT + b) * q = IMPBIT * q + b * q
        BY <1>1, <1>7, <1>8, <3>2
      <4>3. d * o \in Nat /\ d * o >= o
        BY <1>4, <1>7
      <4> QED
        BY <1>7, <1>8, <1>9, <3>2, <4>1, <4>2, <4>3
    <3>4. l <= n + h /\ n + h <= l + h
      <4> DEFINE t == s + c
      <4>1. /\ t \in Int /\ 2 * IMPBIT \in Int /\ 2 * (IMPBIT + b) \in Int
            /\ 2 * IMPBIT <= t /\ t <= 2 * (IMPBIT + b)
        BY <1>1, <1>3, <1>7, <2>2, <3>2
      <4> HIDE DEF t
      <4>2. p * (2 * IMPBIT) <= p * t /\ p * t <= p * (2 * (IMPBIT + b))
        BY ONLY <1>3, <4>1, Times
      <4>3. p * (2 * IMPBIT) = IMPBIT * (2 * p) /\ p * (2 * (IMPBIT + b)) = (IMPBIT + b) * (2 * p)
            /\ p * t = t * p
        BY <1>1, <1>3, <3>2, <4>1
      <4> QED
        BY <1>8, <1>10, <3>3, <4>2, <4>3 DEF t
    <3>5. \A i \in Nat : i <= 2 * IMPBIT =>
             /\ n + h <= i * q => Units(R) <= i * q
             /\ n + h >= i * q => Units(R) >= i * q
      <4> SUFFICES ASSUME NEW i \in Nat, i <= 2 * IMPBIT
                   PROVE  /\ n + h <= i * q => Units(R) <= i * q
                          /\ n + h >= i * q => Units(R) >= i * q
        OBVIOUS
      <4>1. PICK v \in Patterns : Magnitude(v) < EXPBITS /\ Units(v) = i * q
        <5>1. e \in Nat /\ e <= 2 * EXPBIAS - 2
          BY <1>1, <1>2, <3>1 DEF e
        <5> QED
          BY <5>1, NumberExists DEF q
      <4>2. /\ n + h <= Units(v) => Magnitude(R) <= Magnitude(v)
            /\ n + h >= Units(v) => Magnitude(R) >= Magnitude(v)
        <5> DEFINE z == n + h
        <5>1. z \in Int /\ 1 \in Nat \ {0} /\ AbsValue(z) = z /\ 1 * Units(v) = Units(v)
          BY <1>6, UnitsBounds
        <5> HIDE DEF z
        <5>2. /\ AbsValue(z) <= 1 * Units(v) => Magnitude(RoundedIn(m, z, 1)) <= Magnitude(v)
              /\ AbsValue(z) >= 1 * Units(v) => Magnitude(RoundedIn(m, z, 1)) >= Magnitude(v)
          BY ONLY <5>1, <4>1, v \in Patterns, RoundedInBound
        <5> QED
          BY <5>1, <5>2 DEF z, R
      <4>3. /\ Units(R) < Units(v) <=> Magnitude(R) < Magnitude(v)
            /\ Units(v) < Units(R) <=> Magnitude(v) < Magnitude(R)
        BY <1>13, UnitsOrder
      <4>4. Magnitude(R) \in Int /\ Magnitude(v) \in Int /\ Units(v) \in Int
        BY <1>13, Fields, UnitsBounds
      <4> QED
        BY <1>13, <4>1, <4>2, <4>3, <4>4
    <3>6. l <= Units(R) /\ Units(R) <= l + h
      <4>1. IMPBIT \in Nat /\ IMPBIT <= 2 * IMPBIT /\ IMPBIT + b \in Nat /\ IMPBIT + b <= 2 * IMPBIT
        BY <1>1, <3>2
      <4>2. Units(R) >= IMPBIT * q
        BY <3>3, <3>4, <3>5, <4>1
      <4>3. Units(R) <= (IMPBIT + b) * q
        BY <3>3, <3>4, <3>5, <4>1
      <4> QED
        BY <3>3, <4>2, <4>3
    <3>7. \A z \in Int : l <= z /\ z <= l + h => z \div o = d
      <4> SUFFICES ASSUME NEW z \in Int, l <= z, z <= l + h
                   PROVE  z \div o = d
        OBVIOUS
      <4>1. o * d = l
        BY <1>4, <1>7
      <4> HIDE DEF l
      <4>2. z - l \in 0 .. o - 1 /\ z = o * d + (z - l) /\ d \in Int
        BY <1>4, <1>7, <3>3, <4>1
      <4> QED
        BY ONLY <1>4, <4>2, z \in Int, DivisionUnique
    <3> HIDE DEF l
    <3>8. Units(R) \div o = d /\ (n + h) \div o = d
      BY <1>6, <1>13, <3>4, <3>6, <3>7
    <3> QED
      BY <1>4, <1>13, <3>3, <3>6, <3>8
  <2> QED
    BY <1>1, <1>3, <1>7, <2>1, <2>2
<1>15. intexp(R) >= 0
  BY <1>13, <1>14, ExponentTells DEF o
<1> QED
  BY <1>6, <1>12, <1>13, <1>14, <1>15 DEF o, n, r

\* The integer functions that add a half round halves away from zero.
LEMMA NearestLongIs ==
    ASSUME NEW u \in Patterns, intexp(u) >= -1, NEW m
    PROVE  NearestLong(u, m).ret = Rounds("away", u)
<1> DEFINE r == IF intexp(u) < M THEN Sum(m, Magnitude(u), HALF) ELSE Magnitude(u)
           shift == intexp(r) - M
           k == Ones("away", Negative(u), Units(u))
<1>1. M \in Nat /\ intexp(u) \in Int /\ M > 0
  BY ExponentTells, SizeAssumption
<1>2. r \in Patterns /\ intexp(r) >= 0 /\ Units(r) \div one = k
  <2>1. CASE intexp(u) < M
    BY <2>1, HalfAdded
  <2>2. CASE ~(intexp(u) < M)
    <3>1. intexp(u) >= M
      BY <1>1, <2>2
    <3>2. Units(u) % one = 0
      BY <3>1, LargeIsIntegral
    <3>3. k = Units(u) \div one
      BY <3>2, OneIs DEF Ones, Outward
    <3>4. /\ Magnitude(u) \in Patterns /\ Units(Magnitude(u)) = Units(u)
          /\ intexp(Magnitude(u)) = intexp(u)
      BY MagnitudeIs, UnitsBounds DEF intexp
    <3> QED
      BY <1>1, <2>2, <3>1, <3>3, <3>4
  <2> QED
    BY <2>1, <2>2
<1>3. NearestLong(u, m).ret =
          WithSign(u, IF shift < 0 THEN Significand(r) \div pow2[-shift]
                      ELSE Significand(r) * pow2[shift])
  BY DEF NearestLong, Answer
<1> HIDE DEF r, k
<1>4. (IF shift < 0 THEN Significand(r) \div pow2[-shift] ELSE Significand(r) * pow2[shift]) = k
  BY <1>2, SignificandIs
<1> QED
  BY <1>3, <1>4 DEF WithSign, Rounds, k

\* A number whose exponent is at least some i has as many ones as 2^i.
LEMMA LargeByExponent ==
    ASSUME NEW u \in Patterns, NEW i \in Nat
    PROVE  intexp(u) >= i <=> Units(u) >= pow2[i] * one
<1> DEFINE e == ExponentField(u)
           n == Units(u)
           d == EXPBIAS - 1
<1>1. /\ e \in Nat /\ intexp(u) = e - EXPBIAS /\ EXPBIAS \in Nat /\ EXPBIAS > 2 /\ d \in Nat
      /\ IMPBIT \in Nat \ {0} /\ M \in Nat
  BY Fields, Widths, SizeAssumption DEF intexp
<1>2. /\ n \in Nat /\ (e = 0 => n < IMPBIT)
      /\ e > 0 => IMPBIT * pow2[e - 1] <= n /\ n < IMPBIT * pow2[e] /\ e - 1 \in Nat
  BY UnitsBounds
<1>3. pow2[i] * one = IMPBIT * pow2[i + d] /\ i + d \in Nat /\ pow2[i + d] \in Nat \ {0}
  <2>1. one = pow2[M + EXPBIAS - 1] /\ M + EXPBIAS - 1 = M + d /\ i + d \in Nat
    BY <1>1, OneIs
  <2>2. pow2[M + d] = pow2[M] * pow2[d] /\ pow2[i + d] = pow2[i] * pow2[d]
    BY <1>1, Pow2Sum
  <2>3. pow2[i] \in Nat /\ pow2[d] \in Nat /\ pow2[M] \in Nat /\ pow2[i + d] \in Nat
        /\ pow2[i + d] > i + d
    BY <1>1, <2>1, Pow2Type
  <2>4. pow2[i] * (pow2[M] * pow2[d]) = pow2[M] * (pow2[i] * pow2[d])
    <3> DEFINE b == pow2[i]
               c == pow2[M]
               f == pow2[d]
    <3>1. b \in Int /\ c \in Int /\ f \in Int
      BY <2>3
    <3> HIDE DEF b, c, f
    <3>2. b * (c * f) = c * (b * f)
      BY <3>1
    <3> QED
      BY <3>2 DEF b, c, f
  <2> QED
    BY <1>1, <2>1, <2>2, <2>3, <2>4 DEF IMPBIT
<1> HIDE DEF e, n, d
<1>4. intexp(u) >= i <=> e > i + d
  BY <1>1 DEF d
<1>5. ASSUME e > i + d PROVE n >= pow2[i] * one
  <2>1. e - 1 \in Nat /\ i + d <= e - 1
    BY <1>1, <1>3, <1>5
  <2>2. pow2[i + d] <= pow2[e - 1] /\ pow2[e - 1] \in Nat
    BY <1>3, <2>1, Pow2Grows, Pow2Type
  <2>3. IMPBIT * pow2[i + d] <= IMPBIT * pow2[e - 1]
    BY <1>1, <1>3, <2>2, Times
  <2>4. IMPBIT * pow2[i + d] \in Int /\ IMPBIT * pow2[e - 1] \in Int
    BY <1>1, <1>3, <2>2
  <2> QED
    BY <1>1, <1>2, <1>3, <1>5, <2>3, <2>4
<1>6. ASSUME ~(e > i + d) PROVE ~(n >= pow2[i] * one)
  <2>1. e <= i + d
    BY <1>1, <1>3, <1>6
  <2>2. pow2[e] <= pow2[i + d] /\ pow2[e] \in Nat
    BY <1>1, <1>3, <2>1, Pow2Grows, Pow2Type
  <2>3. IMPBIT * pow2[e] <= IMPBIT * pow2[i + d]
    BY <1>1, <1>3, <2>2, Times
  <2>4. IMPBIT * pow2[i + d] \in Int /\ IMPBIT * pow2[e] \in Int
        /\ IMPBIT <= IMPBIT * pow2[i + d]
    BY <1>1, <1>3, <2>2
  <2> QED
    BY <1>1, <1>2, <1>3, <2>3, <2>4
<1> QED
  BY <1>4, <1>5, <1>6 DEF n

\* lround and lroundf: below one half nothing is left, and beyond the range of long int
\* the result is not the integer.
LEMMA LroundIs ==
    ASSUME NEW u \in Patterns, Finite(u), NEW m
    PROVE  /\ Fits(Rounds("away", u)) =>
                 lround(u, m).ret = Rounds("away", u) /\ lroundf(u, m).ret = Rounds("away", u)
           /\ lround(u, m).ret \in Longs /\ lroundf(u, m).ret \in Longs
<1> DEFINE n == Units(u)
           a == n \div one
           k == Ones("away", Negative(u), n)
           l == pow2[LONGBITS - 1]
           z == Rounds("away", u)
<1>1. /\ a \in Nat /\ n % one \in 0 .. one - 1 /\ n = a * one + (n % one) /\ n \in Nat
      /\ one \in Nat \ {0} /\ (n < one => a = 0 /\ n % one = n)
  BY UnitsBounds, OnesAndRest, OneIs
<1>2. l \in Nat /\ LONG_MIN = -l /\ 2 * IMPBIT < l /\ IMPBIT \in Nat \ {0}
      /\ LONGBITS - 1 > M + 1 /\ LONGBITS - 1 \in Nat /\ M \in Nat /\ intexp(u) \in Int
  BY LongRange, Widths, SizeAssumption, ExponentTells
<1>3. k = IF 2 * (n % one) >= one THEN a + 1 ELSE a
  BY DEF Ones, Outward
<1>4. z = (IF Negative(u) THEN -k ELSE k) /\ k \in Nat
  BY RoundsIs DEF Rounds
<1>5. CASE intexp(u) < -1
  <2>1. 2 * n < one
    BY <1>1, <1>2, <1>5, ExponentTells
  <2> HIDE DEF n, a, k, l, z
  <2>2. k = 0
    BY <1>1, <1>3, <2>1
  <2>3. lround(u, m) = Answer(0, {}) /\ lroundf(u, m) = Answer(0, {})
    BY <1>5 DEF lround, lroundf
  <2>4. z = 0 /\ 0 \in Longs
    <3>1. z = 0
      <4>1. k <= 0 /\ k >= 0
        BY <1>4, <2>2
      <4> QED
        BY ONLY <1>4, <4>1
    <3>2. 0 \in Longs
      BY <1>2 DEF Longs
    <3> QED
      BY <3>1, <3>2
  <2> QED
    BY <2>3, <2>4 DEF Answer, z
<1>6. CASE ~(intexp(u) < -1) /\ intexp(u) >= LONGBITS - 1
  <2>1. n >= l * one
    BY <1>2, <1>6, LargeByExponent
  <2> HIDE DEF n, l
  <2>2. a >= l
    <3> HIDE DEF a, k, z
    <3>1. one * l < one * (a + 1)
      <4>1. one * l = l * one /\ one * (a + 1) = a * one + one /\ a * one \in Nat
            /\ l * one \in Nat
        BY <1>1, <1>2
      <4> QED
        BY <1>1, <2>1, <4>1
    <3>2. l \in Int /\ a + 1 \in Int /\ one \in Nat
      BY <1>1, <1>2
    <3>3. l < a + 1
      BY ONLY <3>1, <3>2, Times
    <3> QED
      BY <1>1, <1>2, <3>3
  <2> HIDE DEF a, k, z
  <2>3. k >= l
    BY <1>1, <1>2, <1>3, <2>2
  <2>4. ~Fits(z)
    BY <1>2, <1>4, <2>3 DEF Fits, Longs
  <2>5. lround(u, m).ret = 0 /\ lroundf(u, m).ret = LONG_MIN
    BY <1>6 DEF lround, lroundf, Answer
  <2>6. 0 \in Longs /\ LONG_MIN \in Longs
    BY <1>2 DEF Longs
  <2> QED
    BY <2>4, <2>5, <2>6 DEF z
<1>7. CASE ~(intexp(u) < -1) /\ ~(intexp(u) >= LONGBITS - 1)
  <2>1. lround(u, m) = NearestLong(u, m) /\ lroundf(u, m) = NearestLong(u, m)
    BY <1>7 DEF lround, lroundf
  <2>2. NearestLong(u, m).ret = z
    <3>1. intexp(u) >= -1
      BY <1>2, <1>7
    <3> QED
      BY <3>1, NearestLongIs
  <2>3. n < l * one
    <3>1. ~(n >= l * one)
      BY <1>2, <1>7, LargeByExponent
    <3> HIDE DEF n, l
    <3>2. l * one \in Nat
      BY <1>1, <1>2
    <3> QED
      BY <1>1, <3>1, <3>2
  <2>4. k <= l /\ (intexp(u) >= M => k < l) /\ (k = l => FALSE)
    <3>1. a < l
      <4> HIDE DEF n, a, k, l, z
      <4>1. one * a < one * l
        <5>1. one * l = l * one /\ one * a = a * one /\ a * one \in Nat /\ l * one \in Nat
          BY <1>1, <1>2
        <5> QED
          BY <1>1, <2>3, <5>1
      <4>2. l \in Int /\ a \in Int /\ one \in Nat
        BY <1>1, <1>2
      <4> QED
        BY ONLY <4>1, <4>2, Times
    <3>2. CASE intexp(u) >= M
      <4>1. n % one = 0
        BY <3>2, LargeIsIntegral
      <4> HIDE DEF n, a, k, l, z
      <4> QED
        BY <1>1, <1>2, <1>3, <3>1, <4>1
    <3>3. CASE ~(intexp(u) >= M)
      <4>1. n < IMPBIT * one
        <5>1. IMPBIT * one \in Nat
          BY <1>1, <1>2
        <5> QED
          BY <1>1, <3>3, <5>1, ExponentTells
      <4> HIDE DEF n, a, k, l, z
      <4>2. one * a < one * IMPBIT
        <5>1. one * IMPBIT = IMPBIT * one /\ one * a = a * one /\ a * one \in Nat
              /\ IMPBIT * one \in Nat
          BY <1>1, <1>2
        <5> QED
          BY <1>1, <4>1, <5>1
      <4>3. IMPBIT \in Int /\ a \in Int /\ one \in Nat
        BY <1>1, <1>2
      <4>4. a < IMPBIT
        BY ONLY <4>2, <4>3, Times
      <4> QED
        BY <1>1, <1>2, <1>3, <3>3, <4>4
    <3> QED
      BY <3>2, <3>3
  <2> HIDE DEF n, a, k, l, z
  <2>5. z \in Longs
    BY <1>2, <1>4, <2>4 DEF Longs
  <2> QED
    BY <2>1, <2>2, <2>5 DEF z
<1> QED
  BY <1>5, <1>6, <1>7

-----------------------------------------------------------------------------
(* All functions together.                                               *)

\* The answer a is b.
Same(a, b) == a.ret = b.ret /\ a.flags = b.flags

\* The answer a is that of f for u in the direction m, if f is one of these.
GivesRounded(f, u, m, a) ==
    /\ f = "ceil" => Same(a, ceil(u, m))
    /\ f = "floor" => Same(a, floor(u, m))
    /\ f = "trunc" => Same(a, trunc(u, m))
    /\ f = "round" => Same(a, round(u, m))
    /\ f = "rint" => Same(a, rint(u, m))
    /\ f = "nearbyint" => Same(a, nearbyint(u, m))
    /\ f = "modf" => Same(a, modf(u, m))
    /\ f = "vrd2_round" => Same(a, vrd2_round(u))
    /\ f = "vrs4_roundf" => Same(a, vrs4_roundf(u))
    /\ f = "lrint" => Same(a, lrint(u, m))
    /\ f = "lround" => Same(a, lround(u, m))
    /\ f = "lroundf" => Same(a, lroundf(u, m))

\* The direction of a function.
DirectionOf(f, m) == CASE f = "ceil" -> "upward"
                       [] f = "floor" -> "downward"
                       [] f = "trunc" -> "towardzero"
                       [] f \in {"round", "lround", "lroundf", "vrd2_round", "vrs4_roundf"} -> "away"
                       [] OTHER -> m

\* It is one of the five, and that of the properties.
LEMMA DirectionIs ==
    /\ Direction = DirectionOf(fn, mode)
    /\ \A f, m : m \in Modes => DirectionOf(f, m) \in Modes \cup {"away"}
BY DEF Direction, DirectionOf, Modes

\* What a function that returns a float returns for a finite number.
LEMMA IntegralIs ==
    ASSUME NEW f \in IntegralValued, NEW u \in Patterns, Finite(u), NEW m \in Modes, NEW a,
           GivesRounded(f, u, m, a)
    PROVE  /\ Integer(DirectionOf(f, m), u, a.ret)
           /\ SignOf(a.ret) = SignOf(u) \/ (f = "nearbyint" /\ m = "downward" /\ a.ret = NEG_ZERO)
           /\ a.flags = IF f \in {"rint", "nearbyint", "vrs4_roundf"}
                        THEN Raised(Units(u) % one # 0) ELSE {}
<1>1. CASE f = "ceil"
  BY <1>1, CeilIs DEF GivesRounded, Same, DirectionOf
<1>2. CASE f = "floor"
  BY <1>2, FloorIs DEF GivesRounded, Same, DirectionOf
<1>3. CASE f = "trunc"
  BY <1>3, TruncIs DEF GivesRounded, Same, DirectionOf
<1>4. CASE f = "round"
  BY <1>4, RoundIs DEF GivesRounded, Same, DirectionOf
<1>5. CASE f = "rint"
  BY <1>5, RintIs DEF GivesRounded, Same, DirectionOf
<1>6. CASE f = "nearbyint"
  BY <1>6, NearbyintIs DEF GivesRounded, Same, DirectionOf
<1>7. CASE f = "vrd2_round"
  BY <1>7, LaneIs DEF GivesRounded, Same, DirectionOf, vrd2_round
<1>8. CASE f = "vrs4_roundf"
  BY <1>8, LaneIs DEF GivesRounded, Same, DirectionOf, vrs4_roundf, Raised
<1> QED
  BY <1>1, <1>2, <1>3, <1>4, <1>5, <1>6, <1>7, <1>8 DEF IntegralValued

\* Infinities and NaNs stay what they are.
LEMMA SpecialIs ==
    ASSUME NEW f \in IntegralValued, NEW u \in Patterns, ~Finite(u), NEW m \in Modes, NEW a,
           GivesRounded(f, u, m, a)
    PROVE  a.ret \in Patterns /\ ~Finite(a.ret)
<1>1. /\ Quiet(u).ret \in Patterns /\ ~Finite(Quiet(u).ret) /\ Magnitude(u) >= EXPBITS
  BY Format DEF Quiet, Answer, Quieted, IsQuiet, IsSignalling, IsNaN, Patterns, Finite, Magnitude,
     Negative
<1>2. /\ TWOPOW_M < EXPBITS /\ TWOPOW_M1 < EXPBITS /\ TWOPOW_M \in Int /\ TWOPOW_M1 \in Int
      /\ Magnitude(u) \in Int /\ EXPBITS \in Int /\ M \in Nat /\ intexp(u) \in Int
  BY OneIs, Fields, Format, SizeAssumption, ExponentTells DEF Finite, Patterns
<1>3. Magnitude(u) > TWOPOW_M /\ Magnitude(u) >= TWOPOW_M1
  BY <1>1, <1>2
<1>4. intexp(u) > M
  BY <1>3, ExponentTells
<1>5. intexp(u) >= M /\ intexp(u) > M - 1
  BY <1>2, <1>4
<1>6. IsNaN(u) \/ IsInf(u)
  BY <1>1, <1>2 DEF IsNaN, IsInf
<1>7. CASE f \in {"ceil", "floor", "round", "rint", "nearbyint"}
  <2>1. ceil(u, m) = Quiet(u) /\ floor(u, m) = Quiet(u)
    <3>1. POS_ONE \in Int /\ POS_ONE <= TWOPOW_M1
      <4>1. Units(POS_ONE) < Units(TWOPOW_M1)
        <5>1. IMPBIT \in Nat \ {0} /\ one \in Nat \ {0} /\ Units(POS_ONE) = one
              /\ Units(TWOPOW_M1) = (2 * IMPBIT) * one
          BY Widths, OneIs
        <5>2. one < (2 * IMPBIT) * one
          <6> DEFINE o == one
          <6>1. IMPBIT \in Nat \ {0} /\ o \in Nat \ {0}
            BY <5>1
          <6> HIDE DEF o
          <6>2. IMPBIT * o >= o /\ (2 * IMPBIT) * o = 2 * (IMPBIT * o) /\ IMPBIT * o \in Nat
            BY <6>1
          <6> QED
            BY <6>1, <6>2 DEF o
        <5> QED
          BY <5>1, <5>2
      <4>2. /\ POS_ONE \in Patterns /\ Magnitude(POS_ONE) = POS_ONE
            /\ TWOPOW_M1 \in Patterns /\ Magnitude(TWOPOW_M1) = TWOPOW_M1 /\ POS_ONE \in Int
        BY OneIs, Format DEF Patterns
      <4>3. Magnitude(POS_ONE) < Magnitude(TWOPOW_M1)
        BY <4>1, <4>2, UnitsOrder
      <4> QED
        BY <1>2, <4>2, <4>3
    <3>2. ~(Magnitude(u) < POS_ONE)
      BY <1>2, <1>3, <3>1
    <3> QED
      BY <1>3, <3>2 DEF ceil, floor
  <2>2. round(u, m) = Quiet(u) /\ rint(u, m) = Quiet(u) /\ nearbyint(u, m) = Quiet(u)
    BY <1>3, <1>5 DEF round, rint, nearbyint
  <2> QED
    BY <1>1, <1>7, <2>1, <2>2 DEF GivesRounded, Same
<1>8. CASE f = "trunc"
  BY <1>5, <1>8 DEF GivesRounded, Same, trunc, Answer
<1>9. CASE f \in {"vrd2_round", "vrs4_roundf"}
  BY <1>1, <1>6, <1>9 DEF GivesRounded, Same, vrd2_round, vrs4_roundf, RoundedLane, Answer
<1> QED
  BY <1>7, <1>8, <1>9 DEF IntegralValued

\* What the functions return is a float.
LEMMA IntegralType ==
    ASSUME NEW f \in IntegralValued, NEW u \in Patterns, NEW m \in Modes, NEW a, GivesRounded(f, u, m, a)
    PROVE  a.ret \in Patterns /\ (Finite(a.ret) <=> Finite(u))
BY IntegralIs, SpecialIs DEF Integer

\* Integers with the sign of the number, or zeros, have the value that the direction gives.
LEMMA IntegerValue ==
    ASSUME NEW d \in Modes \cup {"away"}, NEW u \in Patterns, NEW v, Integer(d, u, v),
           SignOf(v) = SignOf(u) \/ v = NEG_ZERO
    PROVE  Value(v) = IntegerIn(d, Value(u)) * one /\ Value(v) \div one = IntegerIn(d, Value(u))
<1> DEFINE k == Ones(d, Negative(u), Units(u))
           z == Rounds(d, u)
           o == one
<1>1. /\ k \in Nat /\ z = (IF Negative(u) THEN -k ELSE k) /\ z \in Int
      /\ IntegerIn(d, Value(u)) = z /\ o \in Nat \ {0}
  BY RoundsIs, OneIs DEF Rounds
<1>2. v \in Patterns /\ Units(v) = k * o /\ Value(v) = (IF Negative(v) THEN -(k * o) ELSE k * o)
  BY ValueIs DEF Integer
<1>3. v = NEG_ZERO => Units(v) = 0
  <2>1. NEG_ZERO \in Patterns /\ IsZero(NEG_ZERO)
    BY Format DEF NEG_ZERO, Patterns, IsZero, Magnitude, Negative
  <2> QED
    BY <2>1, ValueIs
<1>4. SignOf(v) = SignOf(u) => (Negative(v) <=> Negative(u))
  BY Format DEF SignOf
<1> HIDE DEF k, z, o
<1>5. Value(v) = z * o
  <2>1. (-k) * o = -(k * o) /\ k * o \in Nat /\ (k * o = 0 => k = 0)
    BY <1>1
  <2>2. CASE SignOf(v) = SignOf(u)
    BY <1>1, <1>2, <1>4, <2>1, <2>2
  <2>3. CASE v = NEG_ZERO
    <3>1. k * o = 0 /\ k <= 0 /\ k >= 0
      BY <1>1, <1>2, <1>3, <2>1, <2>3
    <3>2. z <= 0 /\ z >= 0
      BY <1>1, <3>1
    <3>3. z = 0 /\ 0 * o = 0
      BY <1>1, <3>2
    <3>4. Value(v) = 0
      BY <1>2, <1>3, <2>3, ValueIs
    <3> QED
      BY <3>3, <3>4
  <2> QED
    BY <2>2, <2>3
<1>6. Value(v) \div o = z
  <2>1. z * o \in Int /\ z * o = o * z + 0 /\ 0 \in 0 .. o - 1
    BY <1>1
  <2> QED
    BY ONLY <1>1, <1>5, <2>1, DivisionUnique
<1> QED
  BY <1>1, <1>5, <1>6 DEF o

\* What the integer functions return for a finite number.
LEMMA LongIs ==
    ASSUME NEW f \in LongValued, NEW u \in Patterns, Finite(u), NEW m \in Modes, NEW a,
           GivesRounded(f, u, m, a)
    PROVE  /\ Fits(IntegerIn(DirectionOf(f, m), Value(u))) =>
                  a.ret = IntegerIn(DirectionOf(f, m), Value(u))
           /\ f = "lrint" => ("inexact" \in a.flags <=> Units(u) % one # 0)
<1>1. CASE f = "lrint"
  <2>1. IntegerIn(m, Value(u)) = Rounds(m, u)
    BY RoundsIs
  <2> QED
    BY <1>1, <2>1, LrintIs DEF GivesRounded, Same, DirectionOf
<1>2. CASE f \in {"lround", "lroundf"}
  <2>1. IntegerIn("away", Value(u)) = Rounds("away", u)
    BY RoundsIs
  <2> QED
    BY <1>2, <2>1, LroundIs DEF GivesRounded, Same, DirectionOf
<1> QED
  BY <1>1, <1>2 DEF LongValued

\* More units do not make fewer ones.
LEMMA OnesGrow ==
    ASSUME NEW d \in Modes \cup {"away"}, NEW g, NEW n \in Nat, NEW l \in Nat, n <= l
    PROVE  Ones(d, g, n) \in Nat /\ Ones(d, g, l) \in Nat /\ Ones(d, g, n) <= Ones(d, g, l)
<1> DEFINE a == n \div one
           b == l \div one
           r == n % one
           q == l % one
           o == one
<1>1. /\ a \in Nat /\ r \in 0 .. o - 1 /\ n = a * o + r
      /\ b \in Nat /\ q \in 0 .. o - 1 /\ l = b * o + q /\ o \in Nat \ {0}
  BY OnesAndRest, OneIs
<1>2. /\ Ones(d, g, n) = (IF Outward(d, g, a, r) THEN a + 1 ELSE a)
      /\ Ones(d, g, l) = (IF Outward(d, g, b, q) THEN b + 1 ELSE b)
  BY DEF Ones
<1> HIDE DEF a, b, r, q, o
<1>3. a <= b
  <2>1. o * a < o * (b + 1)
    <3>1. o * a = a * o /\ o * (b + 1) = b * o + o /\ a * o \in Nat /\ b * o \in Nat
      BY <1>1
    <3> QED
      BY <1>1, <3>1
  <2>2. a \in Int /\ b + 1 \in Int /\ o \in Nat
    BY <1>1
  <2>3. a < b + 1
    BY ONLY <2>1, <2>2, Times
  <2> QED
    BY <1>1, <2>3
<1>4. CASE a = b
  <2>1. r <= q
    <3>1. a * o \in Nat
      BY <1>1
    <3> QED
      BY <1>1, <1>4, <3>1
  <2>2. Outward(d, g, a, r) => Outward(d, g, b, q)
    <3>1. r \in Nat /\ q \in Nat /\ o \in Nat
      BY <1>1
    <3>2. CASE d = "nearest"
      <4>1. /\ Outward(d, g, a, r) <=> 2 * r > o \/ (2 * r = o /\ a % 2 = 1)
            /\ Outward(d, g, b, q) <=> 2 * q > o \/ (2 * q = o /\ b % 2 = 1)
        BY <3>2 DEF Outward, o
      <4> QED
        BY <1>4, <2>1, <3>1, <4>1
    <3>3. CASE d = "away"
      <4>1. (Outward(d, g, a, r) <=> 2 * r >= o) /\ (Outward(d, g, b, q) <=> 2 * q >= o)
        BY <3>3 DEF Outward, o
      <4> QED
        BY <2>1, <3>1, <4>1
    <3>4. CASE d \in {"upward", "downward", "towardzero"}
      <4>1. r > 0 => q > 0
        BY <2>1, <3>1
      <4> QED
        BY <3>4, <4>1 DEF Outward
    <3> QED
      BY <3>2, <3>3, <3>4 DEF Modes
  <2> QED
    BY <1>1, <1>2, <1>4, <2>2
<1>5. CASE a # b
  BY <1>1, <1>2, <1>3, <1>5
<1> QED
  BY <1>4, <1>5

\* Every direction is monotone.
LEMMA RoundsGrow ==
    ASSUME NEW d \in Modes \cup {"away"}, NEW u \in Patterns, NEW v \in Patterns,
           Value(u) <= Value(v)
    PROVE  IntegerIn(d, Value(u)) <= IntegerIn(d, Value(v))
<1> DEFINE n == Units(u)
           l == Units(v)
           j == Ones(d, Negative(u), n)
           k == Ones(d, Negative(v), l)
           y1 == IntegerIn(d, Value(u))
           y2 == IntegerIn(d, Value(v))
<1>1. /\ n \in Nat /\ l \in Nat /\ j \in Nat /\ k \in Nat
      /\ Value(u) = (IF Negative(u) THEN -n ELSE n) /\ Value(v) = (IF Negative(v) THEN -l ELSE l)
      /\ y1 = (IF Negative(u) THEN -j ELSE j) /\ y2 = (IF Negative(v) THEN -k ELSE k)
  BY ValueIs, RoundsIs DEF Rounds
<1>2. CASE Negative(u) /\ Negative(v)
  <2>1. l <= n
    BY <1>1, <1>2
  <2>2. k = Ones(d, TRUE, l) /\ j = Ones(d, TRUE, n)
    BY <1>2 DEF Ones, Outward
  <2> HIDE DEF n, l, j, k, y1, y2
  <2>3. k <= j
    BY <1>1, <2>1, <2>2, OnesGrow
  <2> QED
    BY <1>1, <1>2, <2>3 DEF y1, y2
<1>3. CASE ~Negative(u) /\ ~Negative(v)
  <2>1. n <= l
    BY <1>1, <1>3
  <2>2. k = Ones(d, FALSE, l) /\ j = Ones(d, FALSE, n)
    BY <1>3 DEF Ones, Outward
  <2> HIDE DEF n, l, j, k, y1, y2
  <2>3. j <= k
    BY <1>1, <2>1, <2>2, OnesGrow
  <2> QED
    BY <1>1, <1>3, <2>3 DEF y1, y2
<1>4. CASE Negative(u) /\ ~Negative(v)
  <2> HIDE DEF n, l, j, k, y1, y2
  <2> QED
    BY <1>1, <1>4 DEF y1, y2
<1>5. CASE ~Negative(u) /\ Negative(v)
  <2>1. n = 0 /\ l = 0
    BY <1>1, <1>5
  <2>3. one \in Nat \ {0} /\ n < one /\ l < one
    BY <2>1, OneIs
  <2>4. n \div one = 0 /\ n % one = 0 /\ l \div one = 0 /\ l % one = 0
    BY <1>1, <2>1, <2>3, OnesAndRest
  <2>5. j = 0 /\ k = 0
    <3>1. ASSUME NEW g PROVE ~Outward(d, g, 0, 0)
      <4>1. ~(2 * 0 > one) /\ ~(2 * 0 = one) /\ ~(2 * 0 >= one) /\ ~(0 > 0)
        BY <2>3
      <4> HIDE DEF n, l, j, k, y1, y2
      <4>2. CASE d = "nearest"
        BY <4>1, <4>2 DEF Outward
      <4>3. CASE d = "away"
        BY <4>1, <4>3 DEF Outward
      <4>4. CASE d \in {"upward", "downward", "towardzero"}
        BY <4>1, <4>4 DEF Outward
      <4> QED
        BY <4>2, <4>3, <4>4 DEF Modes
    <3> QED
      BY <2>4, <3>1 DEF Ones
  <2> HIDE DEF n, l, j, k, y1, y2
  <2>6. j >= 0 /\ j <= 0 /\ k >= 0 /\ k <= 0
    BY <1>1, <2>5
  <2> QED
    BY <1>1, <1>5, <2>6 DEF y1, y2
<1> QED
  BY <1>2, <1>3, <1>4, <1>5

-----------------------------------------------------------------------------
(* Elementary functions.                                                    *)

\* What an answer raises follows from its codes.
LEMMA FlagsOfCodes ==
    ASSUME NEW raise
    PROVE  /\ "invalid"   \in Exceptions(raise) <=> AMD_F_INVALID \in raise
           /\ "divbyzero" \in Exceptions(raise) <=> AMD_F_DIVBYZERO \in raise
           /\ "overflow"  \in Exceptions(raise) <=> AMD_F_OVERFLOW \in raise
           /\ "underflow" \in Exceptions(raise) <=> AMD_F_UNDERFLOW \in raise
           /\ "inexact"   \in Exceptions(raise) <=>
                  \/ AMD_F_INEXACT \in raise
                  \/ AMD_F_OVERFLOW \in raise \/ AMD_F_UNDERFLOW \in raise
BY DEF Exceptions

\* Codes of different names are different numbers.
LEMMA CodesDiffer ==
    /\ AMD_F_INVALID = 1 /\ AMD_F_DIVBYZERO = 4 /\ AMD_F_OVERFLOW = 8
    /\ AMD_F_UNDERFLOW = 16 /\ AMD_F_INEXACT = 32
    /\ ALM_E_IN_X_NEG = 256 /\ ALM_E_IN_X_NAN = 128 /\ ALM_E_IN_X_INF = 64
    /\ ALM_E_IN_X_ZERO = 32 /\ ALM_E_DIV_BY_ZER0 = 4 /\ ALM_E_OUT_NAN = 65536
    /\ ALM_E_OVERFLOW = 524288 /\ ALM_E_UNDERFLOW = 1048576
BY DEF AMD_F_INVALID, AMD_F_DIVBYZERO, AMD_F_OVERFLOW, AMD_F_UNDERFLOW, AMD_F_INEXACT,
       ALM_E_IN_X_NEG, ALM_E_IN_X_NAN, ALM_E_IN_X_INF, ALM_E_IN_X_ZERO, ALM_E_DIV_BY_ZER0,
       ALM_E_OUT_NAN, ALM_E_OVERFLOW, ALM_E_UNDERFLOW

Rules(f, u, a) == NaNRule(f, u, a) /\ PoleRule(f, u, a) /\ RangeRule(f, u, a)

-----------------------------------------------------------------------------
(* One function at a time.  In each proof the steps differ in the branches  *)
(* of the function and in its handler only.                                *)

\* The logarithms.
LEMMA LogarithmRules ==
    ASSUME Thresholds, NEW u \in Patterns
    PROVE  /\ Rules("log", u, log(u))
           /\ Rules("log10", u, log10(u))
           /\ Rules("log2", u, log2(u))
           /\ Rules("log1p", u, log1p(u))
           /\ Rules("logf", u, logf(u))
           /\ Rules("log2f", u, log2f(u))
           /\ Rules("log10f", u, log10f(u))
           /\ Rules("log1pf", u, log1pf(u))
<1> USE Format, FlagsOfCodes, CodesDiffer
        DEF Rules, NaNRule, PoleRule, RangeRule, Pole, OutOfDomain, MayRaiseForQuietNaN, PassOn,
            OverflowAtInfinity, Thresholds, Patterns, Negative, Magnitude, SignOf, Negated,
            IsNaN, IsQuiet, IsSignalling, IsQuietNaN,
            IsInf, IsZero, Finite, Quieted, Ordinal,
            Kernel, MadeNaN, MINUS_ONE, NEG_INF, QNANBITPATT, INDEFBITPATT,
            Handled, Silent, After, Operated, Ordered, Equated, Above, AtLeast, Below, AtMost
<1>1. Rules("log", u, log(u))
  BY DEF log, Logarithm, alm_log_special
<1>2. Rules("log10", u, log10(u))
  BY DEF log10, Logarithm, alm_log_special
<1>3. Rules("log2", u, log2(u))
  BY DEF log2, Logarithm, alm_log_special
<1>4. Rules("log1p", u, log1p(u))
  BY DEF log1p, alm_log_special
<1>5. Rules("logf", u, logf(u))
  BY DEF logf, alm_logf_special
<1>6. Rules("log2f", u, log2f(u))
  BY DEF log2f, logf, alm_logf_special
<1>7. Rules("log10f", u, log10f(u))
  BY DEF log10f, Doubled, alm_logf_special
<1>8. Rules("log1pf", u, log1pf(u))
  <2>1. CASE ~Finite(u)
    BY <2>1 DEF log1pf, alm_logf_special
  <2>2. CASE Finite(u) /\ u >= MINUS_ONE
    BY <2>2 DEF log1pf, alm_logf_special
  <2>3. CASE Finite(u) /\ u < MINUS_ONE
    BY <2>3 DEF log1pf, alm_logf_special
  <2> QED
    BY ONLY <2>1, <2>2, <2>3, u \in Patterns, Format, Thresholds
       DEF Patterns, MINUS_ONE, Thresholds
<1> QED
  BY ONLY <1>1, <1>2, <1>3, <1>4, <1>5, <1>6, <1>7, <1>8

\* The exponentials.
LEMMA ExponentialRules ==
    ASSUME Thresholds, NEW u \in Patterns
    PROVE  /\ Rules("exp", u, exp(u))
           /\ Rules("exp2", u, exp2(u))
           /\ Rules("exp10", u, exp10(u))
           /\ Rules("expm1", u, expm1(u))
           /\ Rules("expf", u, expf(u))
           /\ Rules("exp2f", u, exp2f(u))
           /\ Rules("exp10f", u, exp10f(u))
           /\ Rules("expm1f", u, expm1f(u))
<1> USE Format, FlagsOfCodes, CodesDiffer
        DEF Rules, NaNRule, PoleRule, RangeRule, Pole, OutOfDomain, MayRaiseForQuietNaN, PassOn,
            OverflowAtInfinity, Thresholds, Patterns, Negative, Magnitude, SignOf, Negated,
            IsNaN, IsQuiet, IsSignalling, IsQuietNaN,
            IsInf, IsZero, Finite, Quieted, Ordinal,
            Kernel, MadeNaN, MINUS_ONE, NEG_INF, QNANBITPATT, INDEFBITPATT,
            Handled, Silent, After, Operated, Ordered, Equated, Above, AtLeast, Below, AtMost
<1>1. Rules("exp", u, exp(u))
  BY DEF exp, alm_exp_special
<1>2. Rules("exp2", u, exp2(u))
  BY DEF exp2, alm_exp_special
<1>3. Rules("exp10", u, exp10(u))
  BY DEF exp10, alm_exp_special
<1>4. Rules("expm1", u, expm1(u))
  BY DEF expm1, alm_expm1_special
<1>5. Rules("expf", u, expf(u))
  BY DEF expf, alm_exp_special
<1>6. Rules("exp2f", u, exp2f(u))
  BY DEF exp2f, expf, alm_exp_special
<1>7. Rules("exp10f", u, exp10f(u))
  BY DEF exp10f
<1>8. Rules("expm1f", u, expm1f(u))
  BY DEF expm1f
<1> QED
  BY ONLY <1>1, <1>2, <1>3, <1>4, <1>5, <1>6, <1>7, <1>8

\* The trigonometric functions and their inverses.
LEMMA TrigonometricRules ==
    ASSUME Thresholds, NEW u \in Patterns
    PROVE  /\ Rules("sin", u, sin(u))
           /\ Rules("cos", u, cos(u))
           /\ Rules("tan", u, tan(u))
           /\ Rules("sinf", u, sinf(u))
           /\ Rules("cosf", u, cosf(u))
           /\ Rules("tanf", u, tanf(u))
           /\ Rules("acos", u, acos(u))
           /\ Rules("acosf", u, acosf(u))
           /\ Rules("asin", u, asin(u))
           /\ Rules("asinf", u, asinf(u))
           /\ Rules("atan", u, atan(u))
           /\ Rules("atanf", u, atanf(u))
<1> USE Format, FlagsOfCodes, CodesDiffer
        DEF Rules, NaNRule, PoleRule, RangeRule, Pole, OutOfDomain, MayRaiseForQuietNaN, PassOn,
            OverflowAtInfinity, Thresholds, Patterns, Negative, Magnitude, SignOf, Negated,
            IsNaN, IsQuiet, IsSignalling, IsQuietNaN,
            IsInf, IsZero, Finite, Quieted, Ordinal,
            Kernel, MadeNaN, MINUS_ONE, NEG_INF, QNANBITPATT, INDEFBITPATT,
            Handled, Silent, After, Operated, Ordered, Equated, Above, AtLeast, Below, AtMost
<1>1. Rules("sin", u, sin(u))
  BY DEF sin, _sin_cos_special
<1>2. Rules("cos", u, cos(u))
  BY DEF cos, _sin_cos_special
<1>3. Rules("tan", u, tan(u))
  BY DEF tan, _sin_cos_special
<1>4. Rules("sinf", u, sinf(u))
  BY DEF sinf, _sin_cos_special
<1>5. Rules("cosf", u, cosf(u))
  BY DEF cosf, cos, _sin_cos_special
<1>6. Rules("tanf", u, tanf(u))
  BY DEF tanf, tan, _sin_cos_special
<1>7. Rules("acos", u, acos(u))
  BY DEF acos, alm_acos_special
<1>8. Rules("acosf", u, acosf(u))
  BY DEF acosf, acos, alm_acos_special
<1>9. Rules("asin", u, asin(u))
  BY DEF asin, alm_acos_special
<1>10. Rules("asinf", u, asinf(u))
  BY DEF asinf, alm_acos_special
<1>11. Rules("atan", u, atan(u))
  BY DEF atan
<1>12. Rules("atanf", u, atanf(u))
  BY DEF atanf
<1> QED
  BY ONLY <1>1, <1>2, <1>3, <1>4, <1>5, <1>6, <1>7, <1>8, <1>9, <1>10, <1>11, <1>12

\* The hyperbolic functions and their inverses.
LEMMA HyperbolicRules ==
    ASSUME Thresholds, NEW u \in Patterns
    PROVE  /\ Rules("sinh", u, sinh(u))
           /\ Rules("sinhf", u, sinhf(u))
           /\ Rules("cosh", u, cosh(u))
           /\ Rules("coshf", u, coshf(u))
           /\ Rules("tanh", u, tanh(u))
           /\ Rules("tanhf", u, tanhf(u))
           /\ Rules("atanh", u, atanh(u))
           /\ Rules("atanhf", u, atanhf(u))
           /\ Rules("asinh", u, asinh(u))
           /\ Rules("asinhf", u, asinhf(u))
           /\ Rules("acosh", u, acosh(u))
           /\ Rules("acoshf", u, acoshf(u))
<1> USE Format, FlagsOfCodes, CodesDiffer
        DEF Rules, NaNRule, PoleRule, RangeRule, Pole, OutOfDomain, MayRaiseForQuietNaN, PassOn,
            OverflowAtInfinity, Thresholds, Patterns, Negative, Magnitude, SignOf, Negated,
            IsNaN, IsQuiet, IsSignalling, IsQuietNaN,
            IsInf, IsZero, Finite, Quieted, Ordinal,
            Kernel, MadeNaN, MINUS_ONE, NEG_INF, QNANBITPATT, INDEFBITPATT,
            Handled, Silent, After, Operated, Ordered, Equated, Above, AtLeast, Below, AtMost
<1>1. Rules("sinh", u, sinh(u))
  BY DEF sinh
<1>2. Rules("sinhf", u, sinhf(u))
  BY DEF sinhf, sinh
<1>3. Rules("cosh", u, cosh(u))
  BY DEF cosh
<1>4. Rules("coshf", u, coshf(u))
  BY DEF coshf
<1>5. Rules("tanh", u, tanh(u))
  BY DEF tanh
<1>6. Rules("tanhf", u, tanhf(u))
  BY DEF tanhf
<1>7. Rules("atanh", u, atanh(u))
  BY DEF atanh
<1>8. Rules("atanhf", u, atanhf(u))
  BY DEF atanhf, atanh
<1>9. Rules("asinh", u, asinh(u))
  BY DEF asinh
<1>10. Rules("asinhf", u, asinhf(u))
  BY DEF asinhf, asinh
<1>11. Rules("acosh", u, acosh(u))
  BY DEF acosh
<1>12. Rules("acoshf", u, acoshf(u))
  BY DEF acoshf
<1> QED
  BY ONLY <1>1, <1>2, <1>3, <1>4, <1>5, <1>6, <1>7, <1>8, <1>9, <1>10, <1>11, <1>12

\* The cube roots and the error functions.
LEMMA RootAndErrorRules ==
    ASSUME Thresholds, NEW u \in Patterns
    PROVE  /\ Rules("cbrt", u, cbrt(u))
           /\ Rules("cbrtf", u, cbrtf(u))
           /\ Rules("erf", u, erf(u))
           /\ Rules("erff", u, erff(u))
           /\ Rules("erfc", u, erfc(u))
           /\ Rules("erfcf", u, erfcf(u))
<1> USE Format, FlagsOfCodes, CodesDiffer
        DEF Rules, NaNRule, PoleRule, RangeRule, Pole, OutOfDomain, MayRaiseForQuietNaN, PassOn,
            OverflowAtInfinity, Thresholds, Patterns, Negative, Magnitude, SignOf, Negated,
            IsNaN, IsQuiet, IsSignalling, IsQuietNaN,
            IsInf, IsZero, Finite, Quieted, Ordinal,
            Kernel, MadeNaN, MINUS_ONE, NEG_INF, QNANBITPATT, INDEFBITPATT,
            Handled, Silent, After, Operated, Ordered, Equated, Above, AtLeast, Below, AtMost
<1>1. Rules("cbrt", u, cbrt(u))
  BY DEF cbrt, cbrt_special
<1>2. Rules("cbrtf", u, cbrtf(u))
  BY DEF cbrtf
<1>3. Rules("erf", u, erf(u))
  BY DEF erf
<1>4. Rules("erff", u, erff(u))
  BY DEF erff
<1>5. Rules("erfc", u, erfc(u))
  BY DEF erfc, TWO
<1>6. Rules("erfcf", u, erfcf(u))
  BY DEF erfcf, erfc, TWO
<1> QED
  BY ONLY <1>1, <1>2, <1>3, <1>4, <1>5, <1>6

-----------------------------------------------------------------------------
(* Every function.                                                         *)

Logarithms     == {"log", "log10", "log2", "log1p", "logf", "log2f", "log10f", "log1pf"}
Exponentials   == {"exp", "exp2", "exp10", "expm1", "expf", "exp2f", "exp10f", "expm1f"}
Trigonometrics == {"sin", "cos", "tan", "sinf", "cosf", "tanf", "acos", "acosf", "asin",
                   "asinf", "atan", "atanf"}
Hyperbolics    == {"sinh", "sinhf", "cosh", "coshf", "tanh", "tanhf", "atanh", "atanhf",
                   "asinh", "asinhf", "acosh", "acoshf"}
RootsAndErrors == {"cbrt", "cbrtf", "erf", "erff", "erfc", "erfcf"}

\* The functions by their groups.
LEMMA FunctionNames ==
    ElementaryFunctions = Logarithms \cup Exponentials \cup Trigonometrics \cup Hyperbolics
                    \cup RootsAndErrors
<1>1. DOMAIN FloatOf = {"log", "log10", "log2", "log1p", "exp", "exp2", "exp10", "expm1",
                        "sin", "cos", "tan", "acos", "asin", "atan", "sinh", "cosh", "tanh",
                        "atanh", "asinh", "acosh", "cbrt", "erf", "erfc"}
  BY DEF FloatOf
<1>2. {FloatOf[f] : f \in DOMAIN FloatOf} =
          {"logf", "log2f", "log10f", "log1pf", "expf", "exp2f", "exp10f", "expm1f", "sinf",
           "cosf", "tanf", "acosf", "asinf", "atanf", "sinhf", "coshf", "tanhf", "atanhf",
           "asinhf", "acoshf", "cbrtf", "erff", "erfcf"}
  <2>1. ASSUME NEW f \in DOMAIN FloatOf
        PROVE  FloatOf[f] \in {"logf", "log2f", "log10f", "log1pf", "expf", "exp2f",
                               "exp10f", "expm1f", "sinf", "cosf", "tanf", "acosf", "asinf",
                               "atanf", "sinhf", "coshf", "tanhf", "atanhf", "asinhf",
                               "acoshf", "cbrtf", "erff", "erfcf"}
    BY <1>1, <2>1 DEF FloatOf
  <2>2. ASSUME NEW g \in {"logf", "log2f", "log10f", "log1pf", "expf", "exp2f", "exp10f",
                        "expm1f", "sinf", "cosf", "tanf", "acosf", "asinf", "atanf",
                        "sinhf", "coshf", "tanhf", "atanhf", "asinhf", "acoshf", "cbrtf",
                        "erff", "erfcf"}
        PROVE  \E f \in DOMAIN FloatOf : g = FloatOf[f]
    BY <1>1, <2>2 DEF FloatOf
  <2> QED
    BY <2>1, <2>2
<1> QED
  BY <1>1, <1>2 DEF ElementaryFunctions, Logarithms, Exponentials, Trigonometrics, Hyperbolics,
                    RootsAndErrors

\* Whatever a caller gives to one of the 46 functions, the answer obeys the three
\* rules: NaNs and invalid come of NaNs and of numbers outside the domain only, a
\* division by zero of a pole only, and infinities and zeros are told by flags.
THEOREM AnswersObeyRules ==
    ASSUME Thresholds, NEW f \in ElementaryFunctions, NEW u \in Patterns
    PROVE  /\ NaNRule(f, u, Answered(f, u))
           /\ PoleRule(f, u, Answered(f, u))
           /\ RangeRule(f, u, Answered(f, u))
<1> SUFFICES Rules(f, u, Answered(f, u))
  BY DEF Rules
<1>1. CASE f \in Logarithms
  BY <1>1, LogarithmRules DEF Logarithms, Answered
<1>2. CASE f \in Exponentials
  BY <1>2, ExponentialRules DEF Exponentials, Answered
<1>3. CASE f \in Trigonometrics
  BY <1>3, TrigonometricRules DEF Trigonometrics, Answered
<1>4. CASE f \in Hyperbolics
  BY <1>4, HyperbolicRules DEF Hyperbolics, Answered
<1>5. CASE f \in RootsAndErrors
  BY <1>5, RootAndErrorRules DEF RootsAndErrors, Answered
<1> QED
  BY <1>1, <1>2, <1>3, <1>4, <1>5, FunctionNames

-----------------------------------------------------------------------------
(* Pairs of calls.                                                         *)

\* Each odd and each even function takes u and -u aside alike.
LEMMA OppositesOfEach ==
    ASSUME Thresholds, NEW u \in Patterns
    PROVE  /\ SymmetryRule("sin", u, sin(u), sin(Negated(u)))
           /\ SymmetryRule("sinf", u, sinf(u), sinf(Negated(u)))
           /\ SymmetryRule("tan", u, tan(u), tan(Negated(u)))
           /\ SymmetryRule("tanf", u, tanf(u), tanf(Negated(u)))
           /\ SymmetryRule("asin", u, asin(u), asin(Negated(u)))
           /\ SymmetryRule("asinf", u, asinf(u), asinf(Negated(u)))
           /\ SymmetryRule("atan", u, atan(u), atan(Negated(u)))
           /\ SymmetryRule("atanf", u, atanf(u), atanf(Negated(u)))
           /\ SymmetryRule("sinh", u, sinh(u), sinh(Negated(u)))
           /\ SymmetryRule("sinhf", u, sinhf(u), sinhf(Negated(u)))
           /\ SymmetryRule("tanh", u, tanh(u), tanh(Negated(u)))
           /\ SymmetryRule("tanhf", u, tanhf(u), tanhf(Negated(u)))
           /\ SymmetryRule("atanh", u, atanh(u), atanh(Negated(u)))
           /\ SymmetryRule("atanhf", u, atanhf(u), atanhf(Negated(u)))
           /\ SymmetryRule("asinh", u, asinh(u), asinh(Negated(u)))
           /\ SymmetryRule("asinhf", u, asinhf(u), asinhf(Negated(u)))
           /\ SymmetryRule("cbrt", u, cbrt(u), cbrt(Negated(u)))
           /\ SymmetryRule("cbrtf", u, cbrtf(u), cbrtf(Negated(u)))
           /\ SymmetryRule("erf", u, erf(u), erf(Negated(u)))
           /\ SymmetryRule("erff", u, erff(u), erff(Negated(u)))
           /\ SymmetryRule("cos", u, cos(u), cos(Negated(u)))
           /\ SymmetryRule("cosf", u, cosf(u), cosf(Negated(u)))
           /\ SymmetryRule("cosh", u, cosh(u), cosh(Negated(u)))
           /\ SymmetryRule("coshf", u, coshf(u), coshf(Negated(u)))
<1> USE Format, CodesDiffer
        DEF SymmetryRule, Odd, Even, Thresholds, Patterns, Negative,
            Magnitude, SignOf, Negated, IsNaN, IsQuiet, IsSignalling, IsQuietNaN, IsInf, IsZero,
            Finite, Quieted, Ordinal, Kernel, MadeNaN, MINUS_ONE, NEG_INF, QNANBITPATT,
            INDEFBITPATT, Handled, Silent, After, Operated, Ordered, Equated, Above, AtLeast,
            Below, AtMost
<1>1. SymmetryRule("sin", u, sin(u), sin(Negated(u)))
  BY DEF sin, _sin_cos_special
<1>2. SymmetryRule("sinf", u, sinf(u), sinf(Negated(u)))
  BY DEF sinf, _sin_cos_special
<1>3. SymmetryRule("tan", u, tan(u), tan(Negated(u)))
  BY DEF tan, _sin_cos_special
<1>4. SymmetryRule("tanf", u, tanf(u), tanf(Negated(u)))
  BY DEF tanf, tan, _sin_cos_special
<1>5. SymmetryRule("asin", u, asin(u), asin(Negated(u)))
  BY DEF asin, alm_acos_special
<1>6. SymmetryRule("asinf", u, asinf(u), asinf(Negated(u)))
  BY DEF asinf, alm_acos_special
<1>7. SymmetryRule("atan", u, atan(u), atan(Negated(u)))
  BY DEF atan
<1>8. SymmetryRule("atanf", u, atanf(u), atanf(Negated(u)))
  BY DEF atanf
<1>9. SymmetryRule("sinh", u, sinh(u), sinh(Negated(u)))
  BY DEF sinh
<1>10. SymmetryRule("sinhf", u, sinhf(u), sinhf(Negated(u)))
  BY DEF sinhf, sinh
<1>11. SymmetryRule("tanh", u, tanh(u), tanh(Negated(u)))
  <2>1. CASE Magnitude(u) < TINY
    BY <2>1 DEF tanh
  <2>2. CASE Magnitude(u) >= TINY /\ ~Negative(u)
    BY <2>2 DEF tanh
  <2>3. CASE Magnitude(u) >= TINY /\ Negative(u)
    BY <2>3 DEF tanh
  <2> QED
    BY <2>1, <2>2, <2>3
<1>12. SymmetryRule("tanhf", u, tanhf(u), tanhf(Negated(u)))
  BY DEF tanhf
<1>13. SymmetryRule("atanh", u, atanh(u), atanh(Negated(u)))
  BY DEF atanh
<1>14. SymmetryRule("atanhf", u, atanhf(u), atanhf(Negated(u)))
  BY DEF atanhf, atanh
<1>15. SymmetryRule("asinh", u, asinh(u), asinh(Negated(u)))
  BY DEF asinh
<1>16. SymmetryRule("asinhf", u, asinhf(u), asinhf(Negated(u)))
  BY DEF asinhf, asinh
<1>17. SymmetryRule("cbrt", u, cbrt(u), cbrt(Negated(u)))
  BY DEF cbrt, cbrt_special
<1>18. SymmetryRule("cbrtf", u, cbrtf(u), cbrtf(Negated(u)))
  BY DEF cbrtf
<1>19. SymmetryRule("erf", u, erf(u), erf(Negated(u)))
  BY DEF erf
<1>20. SymmetryRule("erff", u, erff(u), erff(Negated(u)))
  BY DEF erff
<1>21. SymmetryRule("cos", u, cos(u), cos(Negated(u)))
  BY DEF cos, _sin_cos_special
<1>22. SymmetryRule("cosf", u, cosf(u), cosf(Negated(u)))
  BY DEF cosf, cos, _sin_cos_special
<1>23. SymmetryRule("cosh", u, cosh(u), cosh(Negated(u)))
  BY DEF cosh
<1>24. SymmetryRule("coshf", u, coshf(u), coshf(Negated(u)))
  BY DEF coshf
<1> QED
  BY ONLY <1>1, <1>2, <1>3, <1>4, <1>5, <1>6, <1>7, <1>8, <1>9, <1>10, <1>11, <1>12, <1>13,
          <1>14, <1>15, <1>16, <1>17, <1>18, <1>19, <1>20, <1>21, <1>22, <1>23, <1>24

\* Turning the sign of an argument round turns the sign of an odd function's
\* special results round, keeps an even function's and changes no exception.
THEOREM OppositesAgree ==
    ASSUME Thresholds, NEW f \in ElementaryFunctions, NEW u \in Patterns
    PROVE  SymmetryRule(f, u, Answered(f, u), Answered(f, Negated(u)))
<1>1. CASE f \in Odd \cup Even
  BY <1>1, OppositesOfEach DEF Odd, Even, Answered
<1>2. CASE f \notin Odd \cup Even
  BY ONLY <1>2 DEF SymmetryRule
<1> QED
  BY <1>1, <1>2

\* The double and the float version of each function give the same value
\* where both take the argument aside.
LEMMA TwinsOfEach ==
    ASSUME Thresholds, NEW u \in Patterns
    PROVE  /\ TwinRule("log", u, log(u), logf(u))
           /\ TwinRule("log10", u, log10(u), log10f(u))
           /\ TwinRule("log2", u, log2(u), log2f(u))
           /\ TwinRule("log1p", u, log1p(u), log1pf(u))
           /\ TwinRule("exp", u, exp(u), expf(u))
           /\ TwinRule("exp2", u, exp2(u), exp2f(u))
           /\ TwinRule("exp10", u, exp10(u), exp10f(u))
           /\ TwinRule("expm1", u, expm1(u), expm1f(u))
           /\ TwinRule("sin", u, sin(u), sinf(u))
           /\ TwinRule("cos", u, cos(u), cosf(u))
           /\ TwinRule("tan", u, tan(u), tanf(u))
           /\ TwinRule("acos", u, acos(u), acosf(u))
           /\ TwinRule("asin", u, asin(u), asinf(u))
           /\ TwinRule("atan", u, atan(u), atanf(u))
           /\ TwinRule("sinh", u, sinh(u), sinhf(u))
           /\ TwinRule("cosh", u, cosh(u), coshf(u))
           /\ TwinRule("tanh", u, tanh(u), tanhf(u))
           /\ TwinRule("atanh", u, atanh(u), atanhf(u))
           /\ TwinRule("asinh", u, asinh(u), asinhf(u))
           /\ TwinRule("acosh", u, acosh(u), acoshf(u))
           /\ TwinRule("cbrt", u, cbrt(u), cbrtf(u))
           /\ TwinRule("erf", u, erf(u), erff(u))
           /\ TwinRule("erfc", u, erfc(u), erfcf(u))
<1> USE Format, CodesDiffer
        DEF TwinRule, Thresholds, Patterns, Negative,
            Magnitude, SignOf, Negated, IsNaN, IsQuiet, IsSignalling, IsQuietNaN, IsInf, IsZero,
            Finite, Quieted, Ordinal, Kernel, MadeNaN, MINUS_ONE, NEG_INF, QNANBITPATT,
            INDEFBITPATT, Handled, Silent, After, Operated, Ordered, Equated, Above, AtLeast,
            Below, AtMost
<1>1. TwinRule("log", u, log(u), logf(u))
  BY DEF log, Logarithm, alm_log_special, logf, alm_logf_special
<1>2. TwinRule("log10", u, log10(u), log10f(u))
  BY DEF log10, Logarithm, alm_log_special, log10f, Doubled, alm_logf_special
<1>3. TwinRule("log2", u, log2(u), log2f(u))
  BY DEF log2, Logarithm, alm_log_special, log2f, logf, alm_logf_special
<1>4. TwinRule("log1p", u, log1p(u), log1pf(u))
  BY DEF log1p, alm_log_special, log1pf, alm_logf_special
<1>5. TwinRule("exp", u, exp(u), expf(u))
  BY DEF exp, alm_exp_special, expf
<1>6. TwinRule("exp2", u, exp2(u), exp2f(u))
  BY DEF exp2, alm_exp_special, exp2f, expf
<1>7. TwinRule("exp10", u, exp10(u), exp10f(u))
  <2>1. CASE Magnitude(u) < TINY
    BY <2>1 DEF exp10, alm_exp_special, exp10f
  <2>2. CASE Magnitude(u) >= TINY /\ ~Negative(u)
    BY <2>2 DEF exp10, alm_exp_special, exp10f
  <2>3. CASE Magnitude(u) >= TINY /\ Negative(u)
    BY <2>3 DEF exp10, alm_exp_special, exp10f
  <2> QED
    BY <2>1, <2>2, <2>3
<1>8. TwinRule("expm1", u, expm1(u), expm1f(u))
  BY DEF expm1, alm_expm1_special, expm1f
<1>9. TwinRule("sin", u, sin(u), sinf(u))
  BY DEF sin, _sin_cos_special, sinf
<1>10. TwinRule("cos", u, cos(u), cosf(u))
  BY DEF cos, _sin_cos_special, cosf
<1>11. TwinRule("tan", u, tan(u), tanf(u))
  BY DEF tan, _sin_cos_special, tanf
<1>12. TwinRule("acos", u, acos(u), acosf(u))
  BY DEF acos, alm_acos_special, acosf
<1>13. TwinRule("asin", u, asin(u), asinf(u))
  BY DEF asin, alm_acos_special, asinf
<1>14. TwinRule("atan", u, atan(u), atanf(u))
  BY DEF atan, atanf
<1>15. TwinRule("sinh", u, sinh(u), sinhf(u))
  BY DEF sinh, sinhf
<1>16. TwinRule("cosh", u, cosh(u), coshf(u))
  BY DEF cosh, coshf
<1>17. TwinRule("tanh", u, tanh(u), tanhf(u))
  BY DEF tanh, tanhf
<1>18. TwinRule("atanh", u, atanh(u), atanhf(u))
  BY DEF atanh, atanhf
<1>19. TwinRule("asinh", u, asinh(u), asinhf(u))
  BY DEF asinh, asinhf
<1>20. TwinRule("acosh", u, acosh(u), acoshf(u))
  BY DEF acosh, acoshf
<1>21. TwinRule("cbrt", u, cbrt(u), cbrtf(u))
  BY DEF cbrt, cbrt_special, cbrtf
<1>22. TwinRule("erf", u, erf(u), erff(u))
  BY DEF erf, erff
<1>23. TwinRule("erfc", u, erfc(u), erfcf(u))
  BY DEF erfc, TWO, erfcf
<1> QED
  BY ONLY <1>1, <1>2, <1>3, <1>4, <1>5, <1>6, <1>7, <1>8, <1>9, <1>10, <1>11, <1>12, <1>13,
          <1>14, <1>15, <1>16, <1>17, <1>18, <1>19, <1>20, <1>21, <1>22, <1>23

\* A program that changes from double to float, or calls the trampolines of
\* both, sees the same special values.
THEOREM TwinsAgree ==
    ASSUME Thresholds, NEW f \in DOMAIN FloatOf, NEW u \in Patterns
    PROVE  TwinRule(f, u, Answered(f, u), Answered(FloatOf[f], u))
<1>1. DOMAIN FloatOf = {"log", "log10", "log2", "log1p", "exp", "exp2", "exp10", "expm1",
                        "sin", "cos", "tan", "acos", "asin", "atan", "sinh", "cosh", "tanh",
                        "atanh", "asinh", "acosh", "cbrt", "erf", "erfc"}
  BY DEF FloatOf
<1> QED
  BY <1>1, TwinsOfEach DEF FloatOf, Answered

-----------------------------------------------------------------------------
(* Powers.                                                                  *)

\* What pow relies on: large numbers are even and numbers below one no integers.
Parities == /\ {POS_ONE, IMPBIT, YSMALL, YLARGE} \subseteq Nat
            /\ 0 < YSMALL /\ YSMALL < POS_ONE /\ POS_ONE < YLARGE /\ YLARGE < EXPBITS
            /\ 0 < IMPBIT /\ IMPBIT < POS_ONE
            /\ \A u \in Patterns :
                  /\ checkint(u) \in 0 .. 2
                  /\ Magnitude(u) >= POS_ONE \/ checkint(u) = 0
                  /\ Magnitude(u) < YLARGE \/ checkint(u) = 2
                  /\ checkint(Negated(u)) = checkint(u)

\* What the proofs about powers use of checkint holds in every format.
LEMMA ParitiesHold == Parities
<1>1. /\ {POS_ONE, IMPBIT, YSMALL, YLARGE} \subseteq Nat
      /\ 0 < YSMALL /\ YSMALL < POS_ONE /\ POS_ONE < YLARGE /\ YLARGE < EXPBITS
      /\ 0 < IMPBIT /\ IMPBIT < POS_ONE
  BY PowerAssumption, Widths, SizeAssumption DEF ExponentThresholds, POS_ONE
<1>2. ASSUME NEW u \in Patterns
      PROVE  /\ checkint(u) \in 0 .. 2
             /\ Magnitude(u) >= POS_ONE \/ checkint(u) = 0
             /\ Magnitude(u) < YLARGE \/ checkint(u) = 2
             /\ checkint(Negated(u)) = checkint(u)
  <2> DEFINE m == Magnitude(u)
             e == ExponentField(u)
             f == Fraction(u)
  <2>1. /\ m \in Nat /\ m = e * IMPBIT + f /\ e \in Nat /\ f \in 0 .. IMPBIT - 1
        /\ ExponentField(Negated(u)) = e /\ Negated(u) \in Patterns
        /\ Negated(u) = u + SIGNBIT \/ u = Negated(u) + SIGNBIT
    BY Fields, Format, Widths
       DEF ExponentField, Negated, Magnitude, Negative, Patterns
  <2> HIDE DEF m, e, f
  <2>2. checkint(u) \in 0 .. 2
    BY DEF checkint
  <2>3. m < POS_ONE => checkint(u) = 0
    <3>1. SUFFICES ASSUME m < POS_ONE, e >= EXPBIAS PROVE FALSE
      BY <2>1, Widths DEF checkint, e
    <3>2. e * IMPBIT >= EXPBIAS * IMPBIT
      BY <2>1, <3>1, Widths
    <3> QED
      BY <2>1, <3>1, <3>2, Widths DEF POS_ONE
  <2>4. m >= YLARGE => checkint(u) = 2
    <3>1. SUFFICES ASSUME m >= YLARGE, e <= EXPBIAS + M PROVE FALSE
      BY <2>1, Widths, SizeAssumption DEF checkint, e
    <3>2. e * IMPBIT <= (EXPBIAS + M) * IMPBIT
      BY <2>1, <3>1, Widths, SizeAssumption
    <3>3. (EXPBIAS + M + 1) * IMPBIT = (EXPBIAS + M) * IMPBIT + IMPBIT
      BY Widths, SizeAssumption
    <3>4. (EXPBIAS + M + 1) * IMPBIT <= YLARGE /\ (EXPBIAS + M) * IMPBIT \in Nat
      BY PowerAssumption, Widths, SizeAssumption DEF ExponentThresholds
    <3> QED
      BY <1>1, <2>1, <3>1, <3>2, <3>3, <3>4, Widths
  <2>5. checkint(Negated(u)) = checkint(u)
    <3>1. CASE e < EXPBIAS \/ e > EXPBIAS + M
      BY <2>1, <3>1, Widths, SizeAssumption DEF checkint, e
    <3>2. CASE ~(e < EXPBIAS \/ e > EXPBIAS + M)
      <4> DEFINE c == pow2[EXPBIAS + M - e]
      <4>1. EXPBIAS + M - e \in 0 .. M
        BY <2>1, <3>2, Widths, SizeAssumption
      <4>2. c \in Nat \ {0}
        BY <4>1, Pow2Type
      <4>3. PICK h \in Nat : SIGNBIT = c * (2 * h)
        BY <4>1, SignIsEven
      <4> HIDE DEF c
      <4>4. Negated(u) % c = u % c /\ (Negated(u) \div c) % 2 = (u \div c) % 2
        <5>1. u \in Nat /\ Negated(u) \in Nat
          BY <2>1, Format DEF Patterns
        <5>2. CASE Negated(u) = u + SIGNBIT
          <6>1. Negated(u) = u + c * (2 * h)
            BY ONLY <4>3, <5>2
          <6>2. /\ (u + c * (2 * h)) % c = u % c
                /\ ((u + c * (2 * h)) \div c) % 2 = (u \div c) % 2
            BY ONLY <4>2, <4>3, <5>1, EvenMultiple
          <6> QED
            BY ONLY <6>1, <6>2
        <5>3. CASE u = Negated(u) + SIGNBIT
          <6>1. u = Negated(u) + c * (2 * h)
            BY ONLY <4>3, <5>3
          <6>2. /\ (Negated(u) + c * (2 * h)) % c = Negated(u) % c
                /\ ((Negated(u) + c * (2 * h)) \div c) % 2 = (Negated(u) \div c) % 2
            BY ONLY <4>2, <4>3, <5>1, EvenMultiple
          <6> QED
            BY ONLY <6>1, <6>2
        <5> QED
          BY <2>1, <5>2, <5>3
      <4> QED
        BY <2>1, <4>4 DEF checkint, c, e
    <3> QED
      BY <3>1, <3>2
  <2> QED
    BY <1>1, <2>1, <2>2, <2>3, <2>4, <2>5 DEF m
<1> QED
  BY <1>1, <1>2 DEF Parities

\* The integers to which the two codes of the power handler are mapped.
LEMMA PowerHandler ==
    /\ alm_pow_special(0, POW_Z_ZERO) = Handled(0, {AMD_F_INEXACT, AMD_F_UNDERFLOW})
    /\ alm_pow_special(0, POW_X_ZERO_Z_INF).flags = Exceptions({AMD_F_DIVBYZERO})
BY DEF alm_pow_special, POW_Z_ZERO, POW_X_ZERO_Z_INF, Handled, Silent

PowerRules(u, t, a) == PowerNaNRule(u, t, a) /\ PowerSignRule(u, t, a) /\ PowerRangeRule(u, t, a)

-----------------------------------------------------------------------------
(* One group of arguments at a time.                                       *)

\* Exponents that are zero, infinite or NaNs.
LEMMA ExponentRules ==
    ASSUME Parities, NEW u \in Patterns, NEW t \in Patterns, checkzeroinfnan(t)
    PROVE  PowerRules(u, t, SpecialExponent(u, t))
<1> USE Format, FlagsOfCodes, CodesDiffer, PowerHandler
        DEF PowerRules, PowerNaNRule, PowerSignRule, PowerRangeRule, SpecialExponent, Parities,
            Patterns, Negative, Magnitude, SignOf, Negated, IsNaN, IsQuiet, IsSignalling, IsInf,
            IsZero, Finite, Quieted, checkzeroinfnan, result_sign, Kernel, MinusKernel, AddNaN,
            Handled, Silent, INDEFBITPATT, QNANBITPATT, IsOdd, NoRealPower, IsOne
<1>1. PowerNaNRule(u, t, SpecialExponent(u, t))
  OBVIOUS
<1>2. PowerSignRule(u, t, SpecialExponent(u, t))
  OBVIOUS
<1>3. PowerRangeRule(u, t, SpecialExponent(u, t))
  OBVIOUS
<1> QED
  BY ONLY <1>1, <1>2, <1>3 DEF PowerRules

\* Bases that are zero, infinite or NaNs, with an ordinary exponent.
LEMMA BaseRules ==
    ASSUME Parities, NEW u \in Patterns, NEW t \in Patterns,
           ~checkzeroinfnan(t), checkzeroinfnan(u)
    PROVE  PowerRules(u, t, SpecialBase(u, t, Exceptions({AMD_F_DIVBYZERO})))
<1> USE Format, FlagsOfCodes, CodesDiffer, PowerHandler
        DEF PowerRules, PowerNaNRule, PowerSignRule, PowerRangeRule, SpecialBase, Parities,
            Patterns, Negative, Magnitude, SignOf, Negated, IsNaN, IsQuiet, IsSignalling, IsInf,
            IsZero, Finite, Quieted, checkzeroinfnan, result_sign, Kernel, MinusKernel, AddNaN,
            Handled, Silent, INDEFBITPATT, QNANBITPATT, IsOdd, NoRealPower, IsOne
<1> DEFINE a == SpecialBase(u, t, Exceptions({AMD_F_DIVBYZERO}))
<1>1. PowerNaNRule(u, t, a)
  OBVIOUS
<1>2. PowerSignRule(u, t, a)
  OBVIOUS
<1>3. PowerRangeRule(u, t, a)
  OBVIOUS
<1> QED
  BY ONLY <1>1, <1>2, <1>3 DEF PowerRules

\* Ordinary arguments without a real power, and those that go to the polynomials.
LEMMA OrdinaryRules ==
    ASSUME Parities, NEW u \in Patterns, NEW t \in Patterns,
           ~checkzeroinfnan(t), ~checkzeroinfnan(u)
    PROVE  /\ NoRealPower(u, t) => PowerRules(u, t, NotReal)
           /\ ~NoRealPower(u, t) => PowerRules(u, t, Signed(u, t))
           /\ ~Negative(u) => PowerRules(u, t, Silent(Kernel))
<1> USE Format, FlagsOfCodes, CodesDiffer, PowerHandler
        DEF PowerRules, PowerNaNRule, PowerSignRule, PowerRangeRule, NotReal, Signed, Parities,
            Patterns, Negative, Magnitude, SignOf, Negated, IsNaN, IsQuiet, IsSignalling, IsInf,
            IsZero, Finite, Quieted, checkzeroinfnan, result_sign, Kernel, MinusKernel, AddNaN,
            Handled, Silent, INDEFBITPATT, QNANBITPATT, IsOdd, NoRealPower, IsOne
<1> QED
  OBVIOUS

\* Ordinary bases with an exponent of extreme size: a large one is even, so it
\* loses the sign of u, and a small one is no integer.
LEMMA ExtremeRules ==
    ASSUME Parities, NEW u \in Patterns, NEW t \in Patterns,
           ~checkzeroinfnan(t), ~checkzeroinfnan(u), ~NoRealPower(u, t), Extreme(t)
    PROVE  PowerRules(u, t, ExtremeExponent(u, t))
<1> USE Format, FlagsOfCodes, CodesDiffer, PowerHandler
        DEF PowerRules, PowerNaNRule, PowerSignRule, PowerRangeRule, ExtremeExponent, Extreme, Parities,
            Patterns, Negative, Magnitude, SignOf, Negated, IsNaN, IsQuiet, IsSignalling, IsInf,
            IsZero, Finite, Quieted, checkzeroinfnan, result_sign, Kernel, MinusKernel, AddNaN,
            Handled, Silent, INDEFBITPATT, QNANBITPATT, IsOdd, NoRealPower, IsOne
<1> QED
  OBVIOUS

-----------------------------------------------------------------------------
(* Every call.                                                             *)

\* Whatever a caller gives to pow, its special results are those of the
\* standard: the NaNs, the signs, the poles and the ranges.
THEOREM PowObeysRules ==
    ASSUME Parities, NEW u \in Patterns, NEW t \in Patterns
    PROVE  /\ PowerNaNRule(u, t, pow(u, t))
           /\ PowerSignRule(u, t, pow(u, t))
           /\ PowerRangeRule(u, t, pow(u, t))
<1> SUFFICES PowerRules(u, t, pow(u, t))
  BY DEF PowerRules
<1>1. CASE checkzeroinfnan(t)
  <2>1. Extreme(t)
    BY <1>1, Format
       DEF checkzeroinfnan, Extreme, Parities, IsZero, Finite, Magnitude, Negative, Patterns
  <2> QED
    BY <1>1, <2>1, ExponentRules DEF pow
<1>2. CASE ~checkzeroinfnan(t) /\ checkzeroinfnan(u)
  BY <1>2, BaseRules, PowerHandler, Format
     DEF pow, checkzeroinfnan, Parities, IsZero, Finite, Negative, Magnitude, Patterns
<1>3. CASE ~checkzeroinfnan(t) /\ ~checkzeroinfnan(u)
  BY <1>3, OrdinaryRules, ExtremeRules DEF pow, NoRealPower, checkzeroinfnan
<1> QED
  BY <1>1, <1>2, <1>3

\* The same for powf, which takes no exponent aside for its size.
THEOREM PowfObeysRules ==
    ASSUME Parities, NEW u \in Patterns, NEW t \in Patterns
    PROVE  /\ PowerNaNRule(u, t, powf(u, t))
           /\ PowerSignRule(u, t, powf(u, t))
           /\ PowerRangeRule(u, t, powf(u, t))
<1> SUFFICES PowerRules(u, t, powf(u, t))
  BY DEF PowerRules
<1>1. CASE checkzeroinfnan(t)
  BY <1>1, ExponentRules DEF powf
<1>2. CASE ~checkzeroinfnan(t) /\ checkzeroinfnan(u)
  BY <1>2, BaseRules, Format
     DEF powf, checkzeroinfnan, Parities, IsZero, Finite, Negative, Magnitude, Patterns
<1>3. CASE ~checkzeroinfnan(t) /\ ~checkzeroinfnan(u)
  BY <1>3, OrdinaryRules DEF powf, NoRealPower, checkzeroinfnan
<1> QED
  BY <1>1, <1>2, <1>3

-----------------------------------------------------------------------------
(* Pairs of calls.                                                         *)

\* -t has the size, the parity and so the group of t.
LEMMA NegatedExponent ==
    ASSUME Parities, NEW t \in Patterns
    PROVE  /\ Negated(t) \in Patterns /\ Magnitude(Negated(t)) = Magnitude(t)
           /\ Negative(Negated(t)) <=> ~Negative(t)
           /\ checkint(Negated(t)) = checkint(t)
BY Format DEF Parities, Patterns, Negated, Negative, Magnitude

\* Answers that are reciprocal whatever the arguments.
LEMMA ReciprocalAnswers ==
    ASSUME Parities
    PROVE  /\ ReciprocalRule(Silent(POS_ONE), Silent(POS_ONE))
           /\ ReciprocalRule(Silent(0), Silent(EXPBITS))
           /\ ReciprocalRule(Silent(EXPBITS), Silent(0))
           /\ \A v, z \in Patterns : IsNaN(v) \/ IsNaN(z) =>
                  \A a : ReciprocalRule(AddNaN(v, z), a)
<1>1. /\ POS_ONE \in Nat /\ POS_ONE > 0 /\ POS_ONE < EXPBITS
      /\ EXPBITS \in Nat /\ EXPBITS < SIGNBIT /\ SIGNBIT \in Nat
  BY Format DEF Parities
<1>2. \A v \in {0, POS_ONE, EXPBITS} : Magnitude(v) = v /\ v # Kernel /\ v # MinusKernel
  BY <1>1 DEF Magnitude, Negative, Kernel, MinusKernel
<1>3. ASSUME NEW v \in Patterns, NEW z \in Patterns, IsNaN(v) \/ IsNaN(z), NEW a
      PROVE  ReciprocalRule(AddNaN(v, z), a)
  <2> DEFINE q == IF IsNaN(v) THEN v ELSE z
  <2>1. q \in Patterns /\ IsNaN(q)
    BY <1>3
  <2>2. IsNaN(Quieted(q))
    <3> HIDE DEF q
    <3> QED
      BY <2>1, Format DEF Patterns, IsNaN, IsQuiet, Quieted, Magnitude, Negative
  <2>3. AddNaN(v, z).ret = Quieted(q)
    BY DEF AddNaN, Handled
  <2> QED
    BY ONLY <2>2, <2>3 DEF ReciprocalRule
<1>4. /\ ReciprocalRule(Silent(POS_ONE), Silent(POS_ONE))
      /\ ReciprocalRule(Silent(0), Silent(EXPBITS))
      /\ ReciprocalRule(Silent(EXPBITS), Silent(0))
  BY ONLY <1>1, <1>2 DEF ReciprocalRule, Reciprocal, Silent, IsZero, IsInf
<1> QED
  BY <1>3, <1>4

\* In each group of arguments the answers for t and -t are reciprocal.
LEMMA ReciprocalsOfGroups ==
    ASSUME Parities, NEW u \in Patterns, NEW t \in Patterns, NEW poleFlags
    PROVE  /\ checkzeroinfnan(t) =>
                  ReciprocalRule(SpecialExponent(u, t), SpecialExponent(u, Negated(t)))
           /\ ~checkzeroinfnan(t) /\ checkzeroinfnan(u) =>
                  ReciprocalRule(SpecialBase(u, t, poleFlags),
                                 SpecialBase(u, Negated(t), poleFlags))
           /\ ~checkzeroinfnan(t) /\ ~checkzeroinfnan(u) =>
                  ReciprocalRule(ExtremeExponent(u, t), ExtremeExponent(u, Negated(t)))
           /\ ReciprocalRule(Signed(u, t), Signed(u, Negated(t)))
           /\ ReciprocalRule(NotReal, NotReal)
           /\ ReciprocalRule(Silent(Kernel), Silent(Kernel))
<1> DEFINE s == Negated(t)
<1>1. ReciprocalRule(SpecialExponent(u, t), SpecialExponent(u, s))
  <2>1. /\ s \in Patterns /\ (Negative(s) <=> ~Negative(t))
        /\ IsZero(s) = IsZero(t) /\ IsNaN(s) = IsNaN(t)
    BY NegatedExponent DEF IsZero, IsNaN
  <2>2. IsSignalling(s) = IsSignalling(t)
    BY NegatedIs DEF IsSignalling, IsNaN, IsQuiet
  <2>3. IsSignalling(u) => IsNaN(u)
    BY DEF IsSignalling
  <2>4. IsSignalling(t) => IsNaN(t)
    BY DEF IsSignalling
  <2> HIDE DEF s
  <2> QED
    BY ONLY <2>1, <2>2, <2>3, <2>4, ReciprocalAnswers, Parities, u \in Patterns, t \in Patterns
       DEF SpecialExponent
<1> USE Format, FlagsOfCodes, CodesDiffer, PowerHandler
        DEF ReciprocalRule, Reciprocal, Parities, Patterns, Negative, Magnitude, SignOf,
            Negated, IsNaN, IsQuiet, IsSignalling, IsInf, IsZero, Finite, Quieted,
            checkzeroinfnan, result_sign, Kernel, MinusKernel, AddNaN, Handled, Silent,
            INDEFBITPATT, QNANBITPATT
<1>2. ASSUME ~checkzeroinfnan(t), checkzeroinfnan(u)
      PROVE  ReciprocalRule(SpecialBase(u, t, poleFlags), SpecialBase(u, s, poleFlags))
  BY <1>2 DEF SpecialBase
<1>3. ASSUME ~checkzeroinfnan(t), ~checkzeroinfnan(u)
      PROVE  ReciprocalRule(ExtremeExponent(u, t), ExtremeExponent(u, s))
  BY <1>3 DEF ExtremeExponent
<1>4. ReciprocalRule(Signed(u, t), Signed(u, s))
  BY DEF Signed
<1>5. ReciprocalRule(NotReal, NotReal) /\ ReciprocalRule(Silent(Kernel), Silent(Kernel))
  BY DEF NotReal
<1> HIDE DEF ReciprocalRule, checkzeroinfnan
<1> QED
  BY ONLY <1>1, <1>2, <1>3, <1>4, <1>5

\* Turning the sign of the exponent round exchanges zeros and infinities, and
\* takes the same powers aside.
THEOREM ReciprocalsAgree ==
    ASSUME Parities, NEW u \in Patterns, NEW t \in Patterns
    PROVE  /\ ReciprocalRule(pow(u, t), pow(u, Negated(t)))
           /\ ReciprocalRule(powf(u, t), powf(u, Negated(t)))
<1> DEFINE s == Negated(t)
           poles == alm_pow_special(0, POW_X_ZERO_Z_INF).flags
           divides == Exceptions({AMD_F_DIVBYZERO})
<1>1. /\ checkint(s) = checkint(t) /\ Extreme(s) = Extreme(t)
      /\ checkzeroinfnan(s) = checkzeroinfnan(t)
  BY NegatedExponent DEF checkzeroinfnan, IsZero, Finite, Extreme
<1>2. /\ checkzeroinfnan(t) => ReciprocalRule(SpecialExponent(u, t), SpecialExponent(u, s))
      /\ ~checkzeroinfnan(t) /\ checkzeroinfnan(u) =>
             /\ ReciprocalRule(SpecialBase(u, t, poles), SpecialBase(u, s, poles))
             /\ ReciprocalRule(SpecialBase(u, t, divides), SpecialBase(u, s, divides))
      /\ ~checkzeroinfnan(t) /\ ~checkzeroinfnan(u) =>
             ReciprocalRule(ExtremeExponent(u, t), ExtremeExponent(u, s))
      /\ ReciprocalRule(Signed(u, t), Signed(u, s))
      /\ ReciprocalRule(NotReal, NotReal)
      /\ ReciprocalRule(Silent(Kernel), Silent(Kernel))
  BY ReciprocalsOfGroups
<1>3. ReciprocalRule(pow(u, t), pow(u, s))
  BY ONLY <1>1, <1>2 DEF pow
<1>4. ReciprocalRule(powf(u, t), powf(u, s))
  BY ONLY <1>1, <1>2 DEF powf
<1> QED
  BY <1>3, <1>4

\* pow and powf give the same special results, but for the exponents that only
\* pow takes aside.
THEOREM PowersAgree ==
    ASSUME Parities, NEW u \in Patterns, NEW t \in Patterns
    PROVE  PowerTwinRule(pow(u, t), powf(u, t))
<1> DEFINE poles == Exceptions({AMD_F_DIVBYZERO})
\* The groups of arguments that both take aside are answered alike,
<1>1. alm_pow_special(0, POW_X_ZERO_Z_INF).flags = poles
  BY PowerHandler
<1>2. /\ PowerTwinRule(SpecialExponent(u, t), SpecialExponent(u, t))
      /\ PowerTwinRule(SpecialBase(u, t, poles), SpecialBase(u, t, poles))
      /\ PowerTwinRule(NotReal, NotReal) /\ PowerTwinRule(Signed(u, t), Signed(u, t))
      /\ PowerTwinRule(Silent(Kernel), Silent(Kernel))
  BY DEF PowerTwinRule
\* and an exponent that only pow takes aside has one of three answers.
<1>3. /\ PowerTwinRule(ExtremeExponent(u, t), Silent(Kernel))
      /\ PowerTwinRule(ExtremeExponent(u, t), Signed(u, t))
  <2>1. ExtremeExponent(u, t).ret \in {0, POS_ONE, EXPBITS}
    BY PowerHandler DEF ExtremeExponent, Handled
  <2>2. Silent(Kernel).ret = Kernel /\ Signed(u, t).ret \in {Kernel, MinusKernel}
    BY DEF Signed, Silent
  <2> QED
    BY ONLY <2>1, <2>2 DEF PowerTwinRule
<1>4. checkzeroinfnan(t) => Extreme(t)
  BY Format DEF Parities, checkzeroinfnan, Extreme, IsZero, Finite, Patterns, Magnitude, Negative
<1>5. ~Negative(u) /\ IMPBIT <= u /\ Finite(u) => ~checkzeroinfnan(u)
  BY Format DEF Parities, checkzeroinfnan, IsZero, Finite, Patterns, Magnitude, Negative
<1> HIDE DEF poles
<1> QED
  BY ONLY <1>1, <1>2, <1>3, <1>4, <1>5 DEF pow, powf, poles

-----------------------------------------------------------------------------
(* Lanes.                                                                   *)

\* The scalar functions that a guard stands before.
Guards == [large |-> {"exp", "exp2", "expf", "exp2f", "sin", "cos", "tan", "sinf", "cosf",
           "tanf", "coshf"}, masked |-> {"expf", "exp2f"}, infinity |-> {"log", "logf"}, normal
           |-> {"log", "log2", "logf", "log2f", "log10f"}, flat |-> {"tanhf"}, halves |->
           {"acos", "acosf"}, one |-> {"acosf"}, unusual |-> {"asin"}, none |-> {"asin",
           "asinf", "atan", "atanf"}, erf |-> {"erf"}, erfc |-> {"erfc", "erfcf"}]

\* Every function of the table has one of the guards, before one of its functions.
LEMMA GuardType ==
    ASSUME NEW v \in DOMAIN VectorFunctions
    PROVE  /\ VectorFunctions[v].guard \in DOMAIN Guards
           /\ VectorFunctions[v].scalar \in Guards[VectorFunctions[v].guard]
<1> USE DEF Function, Both,
            vrd2_exp, vrd4_exp, vrd8_exp, vrd2_exp2, vrd4_exp2, vrd8_exp2, vrs4_expf, vrs8_expf,
            vrs16_expf, vrs4_exp2f, vrs8_exp2f, vrs16_exp2f, vrd2_log, vrd4_log, vrd8_log,
            vrd2_log2, vrd4_log2, vrd8_log2, vrs4_logf, vrs8_logf, vrs16_logf, vrs4_log2f,
            vrs8_log2f, vrs16_log2f, vrs4_log10f, vrs8_log10f, vrs16_log10f, vrd2_sin, vrd4_sin,
            vrd8_sin, vrd2_cos, vrd4_cos, vrd8_cos, vrd2_tan, vrd4_tan, vrd8_tan, vrs4_sinf,
            vrs8_sinf, vrs16_sinf, vrs4_cosf, vrs8_cosf, vrs16_cosf, vrs4_tanf, vrs8_tanf,
            vrs16_tanf, vrs4_coshf, vrs8_coshf, vrs4_tanhf, vrs8_tanhf, vrs16_tanhf, vrd2_acos,
            vrd4_acos, vrs4_acosf, vrs8_acosf, vrs16_acosf, vrd2_asin, vrd4_asin, vrd8_asin,
            vrs4_asinf, vrs8_asinf, vrs16_asinf, vrd2_atan, vrd4_atan, vrd8_atan, vrs4_atanf,
            vrs8_atanf, vrs16_atanf, vrd2_erf, vrd4_erf, vrd8_erf, vrd2_erfc, vrd4_erfc,
            vrd8_erfc, vrs4_erfcf, vrs8_erfcf, vrs16_erfcf, vrd2_sincos, vrd4_sincos,
            vrd8_sincos, vrs4_sincosf, vrs8_sincosf, vrs16_sincosf
<1>1. VectorFunctions[v].guard \in DOMAIN Guards
  BY SMTT(30) DEF VectorFunctions, Guards
<1>2. VectorFunctions[v].scalar \in Guards[VectorFunctions[v].guard]
  BY SMTT(30) DEF VectorFunctions, Guards
<1> QED
  BY ONLY <1>1, <1>2

-----------------------------------------------------------------------------
(* Neighbours.                                                             *)

\* In a lane without an own reason the masks of its neighbours change nothing.
LEMMA MaskedAlike ==
    ASSUME Thresholds, LaneThresholds, NEW u \in Patterns, NEW t, NEW z
    PROVE  Masked(u, t) = Masked(u, z)
BY Format
   DEF Masked, TooLarge, Above, Below, LaneThresholds, Thresholds, Patterns, Magnitude,
       Negative

\* The array functions compute their last elements twice, beside other neighbours:
\* but for the functions that look around, that gives the same answer.
THEOREM NeighboursDoNotMatter ==
    ASSUME Thresholds, LaneThresholds, NEW v \in DOMAIN VectorFunctions,
           NEW u \in Patterns, NEW t \in Patterns, NEW z \in Patterns
    PROVE  NeighbourRule(v, LaneAnswer(v, u, t), LaneAnswer(v, u, z))
<1>1. CASE VectorFunctions[v].guard = "masked"
  BY <1>1, MaskedAlike DEF LaneAnswer, NeighbourRule
<1>2. CASE VectorFunctions[v].guard # "masked"
  BY <1>2, GuardType DEF Guards, NeighbourRule, LooksAround, LaneAnswer
<1> QED
  BY <1>1, <1>2

-----------------------------------------------------------------------------
(* Lanes and the scalar functions.                                         *)

\* Both are NaNs or none, and infinite or none.
SameKind(a, b) == (IsNaN(a.ret) <=> IsNaN(b.ret)) /\ (IsInf(a.ret) <=> IsInf(b.ret))

\* The answer a for u is a NaN for a NaN only and never infinite.
Plain(u, a) == (IsNaN(a.ret) <=> IsNaN(u)) /\ ~IsInf(a.ret)

\* What a scalar function gives for the arguments that its vectors compute.
LEMMA ScalarIsPlain ==
    ASSUME Thresholds, LaneThresholds, NEW u \in Patterns
    PROVE  /\ Magnitude(u) <= LANEMAX => Plain(u, exp(u))
           /\ Magnitude(u) <= LANEMAX => Plain(u, exp2(u))
           /\ Magnitude(u) <= LANEMAX => Plain(u, expf(u))
           /\ Magnitude(u) <= LANEMAX => Plain(u, exp2f(u))
           /\ Magnitude(u) <= LANEMAX => Plain(u, sin(u))
           /\ Magnitude(u) <= LANEMAX => Plain(u, cos(u))
           /\ Magnitude(u) <= LANEMAX => Plain(u, tan(u))
           /\ Magnitude(u) <= LANEMAX => Plain(u, sinf(u))
           /\ Magnitude(u) <= LANEMAX => Plain(u, cosf(u))
           /\ Magnitude(u) <= LANEMAX => Plain(u, tanf(u))
           /\ Magnitude(u) <= LANEMAX => Plain(u, coshf(u))
           /\ u \in 1 .. EXPBITS - 1 => Plain(u, log(u))
           /\ u \in 1 .. EXPBITS - 1 => Plain(u, log2(u))
           /\ u \in 1 .. EXPBITS - 1 => Plain(u, logf(u))
           /\ u \in 1 .. EXPBITS - 1 => Plain(u, log2f(u))
           /\ u \in 1 .. EXPBITS - 1 => Plain(u, log10f(u))
           /\ ~NotBelowOne(u) => Plain(u, acos(u))
           /\ ~NotBelowOne(u) => Plain(u, acosf(u))
           /\ ~NotBelowOne(u) => Plain(u, asin(u))
           /\ Plain(u, tanhf(u))
           /\ Plain(u, atan(u))
           /\ Plain(u, atanf(u))
           /\ Magnitude(u) <= SATURATION => Plain(u, erf(u))
           /\ Finite(u) => Plain(u, erfc(u))
           /\ Finite(u) => Plain(u, erfcf(u))
<1> USE Format
        DEF Plain, Thresholds, LaneThresholds, Patterns, Negative, Magnitude, SignOf, IsNaN,
            IsQuiet, IsSignalling, IsQuietNaN, IsInf, IsZero, Finite, Quieted, Kernel, Poly,
            Polynomial, MadeNaN, NEG_INF, QNANBITPATT, INDEFBITPATT, Handled, Silent, After,
            Operated, Ordered, Equated, Above, AtLeast, Below, AtMost, TWO
<1>1. Magnitude(u) <= LANEMAX => Plain(u, exp(u))
  BY DEF exp, alm_exp_special
<1>2. Magnitude(u) <= LANEMAX => Plain(u, exp2(u))
  BY DEF exp2, alm_exp_special
<1>3. Magnitude(u) <= LANEMAX => Plain(u, expf(u))
  BY DEF expf, alm_exp_special
<1>4. Magnitude(u) <= LANEMAX => Plain(u, exp2f(u))
  BY DEF exp2f, expf, alm_exp_special
<1>5. Magnitude(u) <= LANEMAX => Plain(u, sin(u))
  BY DEF sin
<1>6. Magnitude(u) <= LANEMAX => Plain(u, cos(u))
  BY DEF cos
<1>7. Magnitude(u) <= LANEMAX => Plain(u, tan(u))
  BY DEF tan
<1>8. Magnitude(u) <= LANEMAX => Plain(u, sinf(u))
  BY DEF sinf
<1>9. Magnitude(u) <= LANEMAX => Plain(u, cosf(u))
  BY DEF cosf, cos
<1>10. Magnitude(u) <= LANEMAX => Plain(u, tanf(u))
  BY DEF tanf, tan
<1>11. Magnitude(u) <= LANEMAX => Plain(u, coshf(u))
  BY DEF coshf
<1>12. u \in 1 .. EXPBITS - 1 => Plain(u, log(u))
  BY DEF log, Logarithm
<1>13. u \in 1 .. EXPBITS - 1 => Plain(u, log2(u))
  BY DEF log2, Logarithm
<1>14. u \in 1 .. EXPBITS - 1 => Plain(u, logf(u))
  BY DEF logf
<1>15. u \in 1 .. EXPBITS - 1 => Plain(u, log2f(u))
  BY DEF log2f, logf
<1>16. u \in 1 .. EXPBITS - 1 => Plain(u, log10f(u))
  BY DEF log10f
<1>17. ~NotBelowOne(u) => Plain(u, acos(u))
  BY DEF acos, NotBelowOne, alm_acos_special
<1>18. ~NotBelowOne(u) => Plain(u, acosf(u))
  BY DEF acosf, acos, NotBelowOne, alm_acos_special
<1>19. ~NotBelowOne(u) => Plain(u, asin(u))
  BY DEF asin, NotBelowOne, alm_acos_special
<1>20. Plain(u, tanhf(u))
  BY DEF tanhf
<1>21. Plain(u, atan(u))
  BY DEF atan
<1>22. Plain(u, atanf(u))
  BY DEF atanf
<1>23. Magnitude(u) <= SATURATION => Plain(u, erf(u))
  BY DEF erf
<1>24. Finite(u) => Plain(u, erfc(u))
  BY DEF erfc
<1>25. Finite(u) => Plain(u, erfcf(u))
  BY DEF erfcf, erfc
<1> QED
  BY ONLY <1>1, <1>2, <1>3, <1>4, <1>5, <1>6, <1>7, <1>8, <1>9, <1>10, <1>11, <1>12, <1>13,
          <1>14, <1>15, <1>16, <1>17, <1>18, <1>19, <1>20, <1>21, <1>22, <1>23, <1>24, <1>25

\* A lane that either is left to the scalar function or gets a plain answer from it.
LEMMA FallbackAgrees ==
    ASSUME NEW f, NEW u \in Patterns, NEW special \in BOOLEAN,
           ~special => Plain(u, Answered(f, u))
    PROVE  SameKind(Fallback(f, u, special), Answered(f, u))
<1>1. CASE special
  BY <1>1 DEF Fallback, SameKind
<1>2. CASE ~special
  <2>1. SameKind(Polynomial(u), Answered(f, u))
    BY <1>2, Format
       DEF SameKind, Plain, Polynomial, Silent, Poly, IsNaN, IsInf, Quieted, IsQuiet, Magnitude,
           Negative, Patterns
  <2> QED
    BY <1>2, <2>1 DEF Fallback
<1> QED
  BY <1>1, <1>2

\* Lanes whose answer is not that of Fallback.
LEMMA OtherLanes ==
    ASSUME Thresholds, LaneThresholds, NEW u \in Patterns, NEW t \in Patterns
    PROVE  /\ SameKind(Masked(u, t), expf(u))
           /\ SameKind(Unguarded("asin", u), asin(u))
           /\ SameKind(Unguarded("asinf", u), asinf(u))
           /\ SameKind(Unguarded("atan", u), atan(u))
           /\ SameKind(Unguarded("atanf", u), atanf(u))
           /\ SameKind(ErfLane(u, t), erf(u)) \/ (IsNaN(u) /\ Magnitude(t) > SATURATION
                  /\ Magnitude(ErfLane(u, t).ret) = POS_ONE)
           /\ SameKind(ErfcLane("erfc", u, t), erfc(u))
           /\ SameKind(ErfcLane("erfcf", u, t), erfcf(u))
<1> USE Format
        DEF SameKind, Thresholds, LaneThresholds, Patterns, Negative, Magnitude, SignOf, IsNaN,
            IsQuiet, IsSignalling, IsQuietNaN, IsInf, IsZero, Finite, Quieted, Kernel, Poly,
            Polynomial, MadeNaN, NEG_INF, QNANBITPATT, INDEFBITPATT, Handled, Silent, After,
            Operated, Ordered, Equated, Above, AtLeast, Below, AtMost, TWO
<1>1. SameKind(Masked(u, t), expf(u))
  BY DEF Masked, TooLarge, expf, alm_exp_special
<1>2. SameKind(Unguarded("asin", u), asin(u))
  BY DEF Unguarded, asin, alm_acos_special, ALM_E_IN_X_NAN, ALM_E_OUT_NAN
<1>3. SameKind(Unguarded("asinf", u), asinf(u))
  BY DEF Unguarded, asinf, alm_acos_special, ALM_E_IN_X_NAN, ALM_E_OUT_NAN
<1>4. SameKind(Unguarded("atan", u), atan(u))
  BY DEF Unguarded, atan
<1>5. SameKind(Unguarded("atanf", u), atanf(u))
  BY DEF Unguarded, atanf
<1>6. SameKind(ErfLane(u, t), erf(u)) \/ (IsNaN(u) /\ Magnitude(t) > SATURATION
          /\ Magnitude(ErfLane(u, t).ret) = POS_ONE)
  <2>1. /\ POS_ONE + 1 \in Region(ErfBounds, u) <=> Magnitude(u) > POS_ONE
        /\ SATURATION + 1 \in Region(ErfBounds, u) <=> Magnitude(u) > SATURATION
        /\ SATURATION + 1 \in Region(ErfBounds, t) <=> Magnitude(t) > SATURATION
    BY DEF Region, ErfBounds
  <2>2. Region(ErfBounds, u) = ErfBounds => Magnitude(u) > SATURATION
    BY <2>1 DEF ErfBounds
  <2>3. Magnitude(u) > SATURATION => Region(ErfBounds, u) = ErfBounds
    BY DEF Region, ErfBounds
  <2>4. CASE Region(ErfBounds, u) # Region(ErfBounds, t)
    BY <2>4 DEF ErfLane, Answered
  <2>5. CASE Region(ErfBounds, u) = Region(ErfBounds, t) /\ Magnitude(u) > SATURATION
    BY <2>1, <2>3, <2>5 DEF ErfLane, erf
  <2>6. CASE Region(ErfBounds, u) = Region(ErfBounds, t) /\ ~(Magnitude(u) > SATURATION)
    BY <2>2, <2>6 DEF ErfLane, erf
  <2> QED
    BY ONLY <2>4, <2>5, <2>6
<1>7. ASSUME NEW f \in {"erfc", "erfcf"}
      PROVE  SameKind(ErfcLane(f, u, t), erfc(u))
  <2>1. Answered(f, u) = erfc(u)
    BY ONLY <1>7 DEF Answered, erfcf
  <2>2. CASE ErfcLane(f, u, t) = Answered(f, u)
    BY <2>1, <2>2
  <2>3. CASE ~Finite(u) /\ ~Finite(t)
    BY <2>3 DEF ErfcLane, erfc
  <2>4. CASE Finite(u) /\ ErfcLane(f, u, t) = Silent(Poly)
    BY <2>4 DEF erfc
  <2> QED
    BY ONLY <2>2, <2>3, <2>4 DEF ErfcLane
<1> QED
  BY ONLY <1>1, <1>2, <1>3, <1>4, <1>5, <1>6, <1>7 DEF erfcf

\* A lane of a vector function is a NaN or infinite exactly if the scalar function
\* is, but for the arguments that LaneRule names.
THEOREM LanesFollowScalars ==
    ASSUME Thresholds, LaneThresholds, NEW v \in DOMAIN VectorFunctions,
           NEW u \in Patterns, NEW t \in Patterns
    PROVE  LaneRule(v, u, t, LaneAnswer(v, u, t))
<1> DEFINE f == VectorFunctions[v].scalar
           g == VectorFunctions[v].guard
           a == LaneAnswer(v, u, t)
<1>1. f \in Guards[g] /\ g \in DOMAIN Guards
  BY GuardType
<1>2. SameKind(a, Answered(f, u)) => LaneRule(v, u, t, a)
  BY DEF SameKind, LaneRule, Scalar
<1>3. CASE g = "large"
  <2>1. a = Fallback(f, u, TooLarge(u))
    BY <1>3 DEF LaneAnswer
  <2>2. ~TooLarge(u) => Plain(u, Answered(f, u))
    BY <1>1, <1>3, ScalarIsPlain, Format
       DEF Guards, Answered, TooLarge, LaneThresholds, Patterns, Magnitude, Negative
  <2>3. TooLarge(u) \in BOOLEAN
    BY DEF TooLarge
  <2> QED
    BY <1>2, <2>1, <2>2, <2>3, FallbackAgrees
<1>4. CASE g = "normal"
  <2>1. a = Fallback(f, u, NotPositiveNormal(u))
    BY <1>4 DEF LaneAnswer
  <2>2. ~NotPositiveNormal(u) => Plain(u, Answered(f, u))
    BY <1>1, <1>4, ScalarIsPlain, Format, Widths
       DEF Guards, Answered, NotPositiveNormal, LaneThresholds, Patterns
  <2> QED
    BY <1>2, <2>1, <2>2, FallbackAgrees DEF NotPositiveNormal
<1>5. CASE g = "infinity"
  <2>1. a = Fallback(f, u, AboveInfinity(u))
    BY <1>5 DEF LaneAnswer
  <2>2. CASE u \in {0, EXPBITS}
    BY <1>5, <2>2 DEF LaneRule, Misguarded
  <2>3. CASE u \notin {0, EXPBITS}
    <3>1. ~AboveInfinity(u) => Plain(u, Answered(f, u))
      BY <1>1, <1>5, <2>3, ScalarIsPlain, Format
         DEF Guards, Answered, AboveInfinity, Patterns
    <3>2. AboveInfinity(u) \in BOOLEAN
      BY DEF AboveInfinity
    <3> QED
      BY <1>2, <2>1, <3>1, <3>2, FallbackAgrees
  <2> QED
    BY ONLY <2>2, <2>3
<1>6. CASE g = "flat"
  <2>1. a = Fallback(f, u, FlatOrTiny(u))
    BY <1>6 DEF LaneAnswer
  <2>2. Plain(u, Answered(f, u))
    BY <1>1, <1>6, ScalarIsPlain DEF Guards, Answered
  <2> QED
    BY <1>2, <2>1, <2>2, FallbackAgrees DEF FlatOrTiny
<1>7. CASE g = "one"
  <2>1. a = Fallback(f, u, NotBelowOne(u))
    BY <1>7 DEF LaneAnswer
  <2>2. ~NotBelowOne(u) => Plain(u, Answered(f, u))
    BY <1>1, <1>7, ScalarIsPlain DEF Guards, Answered
  <2> QED
    BY <1>2, <2>1, <2>2, FallbackAgrees DEF NotBelowOne
<1>8. CASE g = "halves"
  <2>1. a = Fallback(f, u, NotBelowOne(u) \/ (MixedHalves(u, t) /\ AboveHalf(u)))
    BY <1>8 DEF LaneAnswer, Halves
  <2>2. ~NotBelowOne(u) => Plain(u, Answered(f, u))
    BY <1>1, <1>8, ScalarIsPlain DEF Guards, Answered
  <2> QED
    BY <1>2, <2>1, <2>2, FallbackAgrees DEF NotBelowOne
<1>9. CASE g = "unusual"
  <2>1. a = Fallback(f, u, Unusual(u) \/ Unusual(t))
    BY <1>9 DEF LaneAnswer
  <2>2. ~(Unusual(u) \/ Unusual(t)) => ~NotBelowOne(u)
    BY DEF Unusual, NotBelowOne
  <2>3. ~(Unusual(u) \/ Unusual(t)) => Plain(u, Answered(f, u))
    BY <1>1, <1>9, <2>2, ScalarIsPlain DEF Guards, Answered
  <2> QED
    BY <1>2, <2>1, <2>3, FallbackAgrees DEF Unusual
<1>10. CASE g = "masked"
  <2>1. a = Masked(u, t) /\ Answered(f, u) = expf(u)
    BY <1>1, <1>10 DEF LaneAnswer, Guards, Answered, exp2f
  <2> QED
    BY <1>2, <2>1, OtherLanes
<1>11. CASE g = "none"
  <2>1. a = Unguarded(f, u) /\ f \in Guards.none
    BY <1>1, <1>11 DEF LaneAnswer, Guards
  <2>2. SameKind(Unguarded(f, u), Answered(f, u))
    BY <2>1, OtherLanes DEF Guards, Answered
  <2> QED
    BY <1>2, <2>1, <2>2
<1>12. CASE g = "erf"
  <2>1. a = ErfLane(u, t) /\ f = "erf" /\ Answered(f, u) = erf(u)
    BY <1>1, <1>12 DEF LaneAnswer, Guards, Answered
  <2> QED
    BY <1>2, <2>1, OtherLanes DEF LaneRule
<1>13. CASE g = "erfc"
  <2>1. a = ErfcLane(f, u, t) /\ f \in {"erfc", "erfcf"}
    BY <1>1, <1>13 DEF LaneAnswer, Guards
  <2>2. SameKind(ErfcLane(f, u, t), Answered(f, u))
    BY <2>1, OtherLanes DEF Answered
  <2> QED
    BY <1>2, <2>1, <2>2
<1> QED
  BY ONLY <1>1, <1>3, <1>4, <1>5, <1>6, <1>7, <1>8, <1>9, <1>10, <1>11, <1>12, <1>13 DEF Guards

-----------------------------------------------------------------------------
(* The two calls of a behaviour.                                           *)

\* The tables name different functions.
LEMMA GroupsDiffer ==
    /\ \A f \in ElementaryFunctions : f \notin LaneFunctions
    /\ \A f \in ElementaryFunctions \cup LaneFunctions :
          f \notin RoundingFunctions \cup ResidueFunctions \cup ComparisonFunctions
                       \cup PowerFunctions
<1>1. \A f \in ElementaryFunctions :
          f \notin LaneFunctions \cup RoundingFunctions \cup ResidueFunctions
                       \cup ComparisonFunctions \cup PowerFunctions
  BY FunctionNames
     DEF Logarithms, Exponentials, Trigonometrics, Hyperbolics, RootsAndErrors,
         LaneFunctions, VectorFunctions, RoundingFunctions, IntegralValued, LongValued,
         ResidueFunctions, ComparisonFunctions, PowerFunctions
<1>2. \A f \in LaneFunctions :
          f \notin RoundingFunctions \cup ResidueFunctions \cup ComparisonFunctions
                       \cup PowerFunctions
  BY DEF LaneFunctions, VectorFunctions, RoundingFunctions, IntegralValued, LongValued,
         ResidueFunctions, ComparisonFunctions, PowerFunctions
<1> QED
  BY <1>1, <1>2

\* The answer a is that of f for u and t, if f is one of these.
Gives(f, u, t, a) ==
    /\ f \in ElementaryFunctions => Same(a, Answered(f, u))
    /\ f \in LaneFunctions => Same(a, LaneAnswer(f, u, t))
    /\ f = "pow" => Same(a, pow(u, t))
    /\ f = "powf" => Same(a, powf(u, t))
    /\ f = "fmax" => Same(a, fmax(u, t))
    /\ f = "fmin" => Same(a, fmin(u, t))
    /\ f = "vrda_fmax" => Same(a, vrda_fmax(u, t))
    /\ f = "vrda_fmin" => Same(a, vrda_fmin(u, t))
    /\ f = "fdim" => \E m \in Modes : Same(a, fdim(u, t, m))

\* How the two calls are related.
Related ==
    /\ relation = "opposite" =>
          /\ fn \in ElementaryFunctions \cup PowerFunctions /\ before.fn = fn
          /\ fn \in ElementaryFunctions => /\ before.x \in Patterns /\ x = Negated(before.x)
                                           /\ Gives(fn, before.x, y, before)
          /\ fn \in PowerFunctions => Gives(fn, x, Negated(y), before)
    /\ relation = "agreeing" =>
          /\ before.fn \in DOMAIN Counterpart /\ fn = Counterpart[before.fn]
          /\ Gives(before.fn, x, y, before)
    /\ relation = "exchanged" =>
          /\ fn \in ComparisonFunctions /\ before.fn = fn
          /\ Gives(fn, y, x, before)
    /\ relation = "elsewhere" =>
          /\ fn \in LaneFunctions /\ before.fn = fn
          /\ \E t \in Patterns : Gives(fn, x, t, before)
    /\ relation = "onResult" => fn \in IntegralValued \cup ResidueFunctions
    /\ relation = "onNext" => fn \in IntegralValued \cup LongValued
    /\ relation \in {"first", "onResult", "onNext", "agreeing", "exchanged", "opposite",
                    "elsewhere"}

\* The inductive invariant of the special cases.
CallInv ==
    /\ fn \in Functions /\ y \in Patterns /\ mode \in Modes
    /\ x \in Patterns \/ fn \in IntegralValued \cup ResidueFunctions
    /\ pc = "done" => Gives(fn, x, y, answer)
    /\ Related

\* A behaviour starts with a first call of numbers of the format.
LEMMA CallInvInit == Init => CallInv
BY ArgumentsAssumption, SizeAssumption, Format
   DEF Init, CallInv, Related, Gives, Patterns, Functions, OfOneArgument, Modes

\* A call of a function outside the residues gives what its definition says.
LEMMA CallGives ==
    ASSUME CallInv, RoundingCall \/ ComparisonCall \/ ElementaryCall \/ PowerCall \/ LaneCall
    PROVE  Gives(fn, x, y, answer)'
<1>1. CASE RoundingCall
  BY <1>1, GroupsDiffer
     DEF RoundingCall, Call, callVars, Gives, RoundingFunctions, IntegralValued, LongValued
<1>2. CASE ComparisonCall
  BY <1>2, GroupsDiffer
     DEF ComparisonCall, Call, Return, callVars, CallInv, Gives, Same, answer,
         ComparisonFunctions
<1>3. CASE ElementaryCall
  BY <1>3, GroupsDiffer
     DEF ElementaryCall, Call, Return, callVars, Gives, Same, answer, ComparisonFunctions,
         PowerFunctions
<1>4. CASE PowerCall
  BY <1>4, GroupsDiffer
     DEF PowerCall, Call, Return, callVars, Gives, Same, answer, PowerFunctions
<1>5. CASE LaneCall
  BY <1>5, GroupsDiffer
     DEF LaneCall, Call, Return, callVars, Gives, Same, answer, ComparisonFunctions,
         PowerFunctions
<1> QED
  BY <1>1, <1>2, <1>3, <1>4, <1>5

\* A call leaves its arguments and what is known of the first call alone.
LEMMA CallInvCall ==
    ASSUME CallInv, RoundingCall \/ ComparisonCall \/ ElementaryCall \/ PowerCall \/ LaneCall
    PROVE  CallInv'
<1>1. UNCHANGED callVars
  BY DEF RoundingCall, ComparisonCall, ElementaryCall, PowerCall, LaneCall, Call
<1>2. Gives(fn, x, y, answer)'
  BY CallGives
<1>3. Related'
  BY <1>1 DEF callVars, CallInv, Related
<1> QED
  BY <1>1, <1>2, <1>3 DEF callVars, CallInv


\* So does every round of a division with remainder.
LEMMA CallInvResidue == ASSUME CallInv, ResidueCall PROVE CallInv'
<1>1. UNCHANGED callVars /\ fn \in ResidueFunctions
  BY DEF ResidueCall, ResidueNext, callVars, PassNaN, Undefined, Equal, Smaller, FarApart,
         Setup, ProductOverflows, Reduce, LastFmod, LastRemainder, LastRemquo, Unstored
<1>2. Gives(fn, x, y, answer)'
  BY <1>1, GroupsDiffer DEF callVars, Gives, ResidueFunctions
<1>3. Related'
  BY <1>1 DEF callVars, CallInv, Related
<1> QED
  BY <1>1, <1>2, <1>3 DEF callVars, CallInv

\* What the second call knows of the first one.
LEMMA SecondKeeps ==
    ASSUME CallInv, NEW r, NEW f, NEW a, NEW b, Second(r, f, a, b)
    PROVE  /\ Gives(fn, x, y, before') /\ before'.fn = fn /\ before'.x = x
           /\ relation' = r /\ fn' = f /\ x' = a /\ y' = b /\ pc' = "call"
BY DEF Second, CallInv, Gives, Same, answer

\* The counterparts of the functions.
LEMMA Counterparts ==
    /\ DOMAIN Counterpart = {"lrint", "lround", "lroundf", "modf", "pow"} \cup DOMAIN FloatOf
    /\ Counterpart["lrint"] = "rint" /\ Counterpart["lround"] = "round"
    /\ Counterpart["lroundf"] = "round" /\ Counterpart["modf"] = "trunc"
    /\ Counterpart["pow"] = "powf"
    /\ \A f \in DOMAIN FloatOf : Counterpart[f] = FloatOf[f]
BY DEF Counterpart, FloatOf

\* The second call starts with arguments that stand in its relation to the first.
LEMMA CallInvSecond ==
    ASSUME CallInv, Elsewhere \/ OnResult \/ OnNext \/ Agreeing \/ Exchanged \/ Opposite
    PROVE  CallInv'
<1>1. pc' = "call"
  BY DEF Elsewhere, OnResult, OnNext, Agreeing, Exchanged, Opposite, Second
<1>2. SUFFICES fn' \in Functions /\ y' \in Patterns /\ Related'
               /\ (x' \in Patterns \/ fn' \in IntegralValued \cup ResidueFunctions)
  <2>1. mode' \in Modes
    BY DEF CallInv, Elsewhere, OnResult, OnNext, Agreeing, Exchanged, Opposite
  <2> QED
    BY <1>1, <2>1 DEF CallInv
<1>3. CASE Elsewhere
  <2>1. PICK v \in Neighbours : Second("elsewhere", fn, x, v)
    BY <1>3 DEF Elsewhere
  <2>2. fn \in LaneFunctions /\ v \in Patterns
    BY <1>3, ArgumentsAssumption DEF Elsewhere
  <2>3. Related'
    BY <2>1, <2>2, SecondKeeps DEF Related, CallInv
  <2> QED
    BY <2>1, <2>2, <2>3, SecondKeeps DEF CallInv
<1>4. CASE OnResult
  <2>1. PICK f \in IntegralValued \cup ResidueFunctions : Second("onResult", f, ret, y)
    BY <1>4 DEF OnResult
  <2>2. Related'
    BY <2>1, SecondKeeps DEF Related
  <2> QED
    BY <2>1, <2>2, SecondKeeps DEF CallInv, Functions, RoundingFunctions
<1>5. CASE OnNext
  <2>1. fn \in IntegralValued \cup LongValued /\ Finite(x) /\ Second("onNext", fn, NextFloat(x), y)
    BY <1>5 DEF OnNext
  <2>2. Related'
    BY <2>1, SecondKeeps DEF Related
  <2>3. x \in Patterns => NextFloat(x) \in Patterns
    BY <2>1, Format DEF NextFloat, Patterns, Finite, Magnitude, Negative, IsZero
  <2>4. fn \notin IntegralValued => x \in Patterns
    BY <2>1 DEF CallInv, LongValued, ResidueFunctions
  <2> QED
    BY <2>1, <2>2, <2>3, <2>4, SecondKeeps DEF CallInv
<1>6. CASE Agreeing
  <2>1. fn \in DOMAIN Counterpart /\ Second("agreeing", Counterpart[fn], x, y)
    BY <1>6 DEF Agreeing
  <2>2. Related'
    BY <2>1, SecondKeeps DEF Related
  <2>3. Counterpart[fn] \in Functions
    BY <2>1, Counterparts
       DEF Functions, RoundingFunctions, IntegralValued, LongValued, ElementaryFunctions,
           PowerFunctions
  <2>4. x \in Patterns
    BY <2>1, Counterparts, GroupsDiffer
       DEF CallInv, IntegralValued, ResidueFunctions, RoundingFunctions, ElementaryFunctions
  <2> QED
    BY <2>1, <2>2, <2>3, <2>4, SecondKeeps DEF CallInv
<1>7. CASE Exchanged
  <2>1. fn \in ComparisonFunctions /\ Second("exchanged", fn, y, x)
    BY <1>7 DEF Exchanged
  <2>2. x \in Patterns /\ fn \in Functions
    BY <2>1 DEF CallInv, ComparisonFunctions, IntegralValued, ResidueFunctions
  <2>3. Related'
    BY <2>1, SecondKeeps DEF Related
  <2> QED
    BY <2>1, <2>2, <2>3, SecondKeeps DEF CallInv
<1>8. CASE Opposite
  <2>1. CASE fn \in ElementaryFunctions /\ Second("opposite", fn, Negated(x), y)
    <3>1. x \in Patterns /\ Negated(x) \in Patterns /\ fn \notin PowerFunctions
      BY <2>1, GroupsDiffer, NegatedTwice DEF CallInv, RoundingFunctions
    <3>2. Related'
      <4>1. /\ fn' = fn /\ x' = Negated(x) /\ y' = y /\ before'.fn = fn /\ before'.x = x
            /\ relation' = "opposite" /\ Gives(fn, x, y, before')
        BY <2>1, SecondKeeps
      <4> QED
        BY <4>1, <3>1, <2>1 DEF Related
    <3> QED
      BY <2>1, <3>1, <3>2, SecondKeeps DEF CallInv
  <2>2. CASE fn \in PowerFunctions /\ Second("opposite", fn, x, Negated(y))
    <3>1. Negated(y) \in Patterns /\ Negated(Negated(y)) = y /\ fn \notin ElementaryFunctions
          /\ x \in Patterns
      BY <2>2, GroupsDiffer, NegatedTwice
         DEF CallInv, PowerFunctions, IntegralValued, ResidueFunctions
    <3>2. Related'
      <4>1. /\ fn' = fn /\ x' = x /\ y' = Negated(y) /\ before'.fn = fn
            /\ relation' = "opposite" /\ Gives(fn, x, y, before')
        BY <2>2, SecondKeeps
      <4> QED
        BY <4>1, <3>1, <2>2 DEF Related
    <3> QED
      BY <2>2, <3>1, <3>2, SecondKeeps DEF CallInv
  <2> QED
    BY <1>8, <2>1, <2>2 DEF Opposite
<1> QED
  BY <1>3, <1>4, <1>5, <1>6, <1>7, <1>8

\* In every pair of calls each answer is that of its function for its arguments, and
\* the arguments of the second are in their relation to those of the first.
THEOREM SpecCallInv == Spec => []CallInv
<1>1. Init => CallInv
  BY CallInvInit
<1>2. CallInv /\ [Next]_vars => CallInv'
  <2>1. CASE UNCHANGED vars
    BY <2>1 DEF vars, CallInv, Related, Gives, answer
  <2> QED
    BY <2>1, CallInvCall, CallInvResidue, CallInvSecond DEF Next
<1> QED
  BY <1>1, <1>2, PTL DEF Spec

-----------------------------------------------------------------------------
(* The properties of the special cases.                                    *)

\* The rules look at the result and the flags of an answer only.
LEMMA SameRules ==
    ASSUME NEW f, NEW u, NEW t, NEW a, NEW b, Same(a, b)
    PROVE  /\ Rules(f, u, a) <=> Rules(f, u, b)
           /\ PowerRules(u, t, a) <=> PowerRules(u, t, b)
           /\ LaneRule(f, u, t, a) <=> LaneRule(f, u, t, b)
BY DEF Same, Rules, NaNRule, PoleRule, RangeRule, PowerRules, PowerNaNRule, PowerSignRule,
       PowerRangeRule, LaneRule

\* So do the rules about two answers.
LEMMA SamePairs ==
    ASSUME NEW f, NEW u, NEW a, NEW b, NEW c, NEW d, Same(a, c), Same(b, d)
    PROVE  /\ SymmetryRule(f, u, a, b) <=> SymmetryRule(f, u, c, d)
           /\ TwinRule(f, u, a, b) <=> TwinRule(f, u, c, d)
           /\ ReciprocalRule(a, b) <=> ReciprocalRule(c, d)
           /\ PowerTwinRule(a, b) <=> PowerTwinRule(c, d)
BY DEF Same, SymmetryRule, TwinRule, ReciprocalRule, PowerTwinRule

\* The arguments of the last call are numbers of the format.
LEMMA CallTypes ==
    ASSUME CallInv
    PROVE  /\ y \in Patterns
           /\ fn \in ElementaryFunctions \cup PowerFunctions \cup ComparisonFunctions
                         \cup LaneFunctions => x \in Patterns
BY GroupsDiffer
   DEF CallInv, RoundingFunctions, IntegralValued, ResidueFunctions, ComparisonFunctions,
       PowerFunctions

\* Every call of an elementary function, with any argument and in any order of calls,
\* gives a NaN, an infinity and their exceptions where the function asks for them.
THEOREM SpecElementarySpecialValues == Spec => []ElementarySpecialValues
<1>1. ASSUME CallInv PROVE ElementarySpecialValues
  <2>1. SUFFICES ASSUME pc = "done", fn \in ElementaryFunctions
                 PROVE  Rules(fn, x, answer)
    BY DEF ElementarySpecialValues, Done, Rules
  <2>2. Same(answer, Answered(fn, x)) /\ x \in Patterns
    BY <1>1, <2>1, CallTypes DEF CallInv, Gives
  <2>3. Rules(fn, x, Answered(fn, x))
    BY <2>1, <2>2, AnswersObeyRules, ElementaryAssumption DEF Rules
  <2> QED
    BY ONLY <2>2, <2>3, SameRules
<1> QED
  BY <1>1, SpecCallInv, PTL

\* A function treats x and -x alike, and its float version treats x like the double one.
THEOREM SpecElementaryPairs == Spec => []ElementaryPairs
<1>1. ASSUME CallInv PROVE ElementaryPairs
  <2>1. SUFFICES ASSUME pc = "done", fn \in ElementaryFunctions
                 PROVE  /\ relation = "opposite" => SymmetryRule(fn, before.x, before, answer)
                        /\ relation = "agreeing" => TwinRule(before.fn, x, before, answer)
    BY DEF ElementaryPairs, Done
  <2>2. Same(answer, Answered(fn, x)) /\ x \in Patterns
    BY <1>1, <2>1, CallTypes DEF CallInv, Gives
  <2>3. ASSUME relation = "opposite" PROVE SymmetryRule(fn, before.x, before, answer)
    <3>1. before.x \in Patterns /\ x = Negated(before.x) /\ Same(before, Answered(fn, before.x))
      BY <1>1, <2>1, <2>3 DEF CallInv, Related, Gives
    <3>2. SymmetryRule(fn, before.x, Answered(fn, before.x), Answered(fn, x))
      BY <2>1, <3>1, OppositesAgree, ElementaryAssumption
    <3> QED
      BY ONLY <2>2, <3>1, <3>2, SamePairs
  <2>4. ASSUME relation = "agreeing" PROVE TwinRule(before.fn, x, before, answer)
    <3>1. before.fn \in DOMAIN FloatOf /\ fn = FloatOf[before.fn]
          /\ Same(before, Answered(before.fn, x))
      <4>1. before.fn \in DOMAIN Counterpart /\ fn = Counterpart[before.fn]
            /\ Gives(before.fn, x, y, before)
        BY <1>1, <2>4 DEF CallInv, Related
      <4>2. before.fn \in DOMAIN FloatOf
        BY <2>1, <4>1, Counterparts, GroupsDiffer
           DEF RoundingFunctions, IntegralValued, PowerFunctions
      <4> QED
        BY <4>1, <4>2, Counterparts DEF Gives, ElementaryFunctions
    <3>2. TwinRule(before.fn, x, Answered(before.fn, x), Answered(fn, x))
      BY <2>2, <3>1, TwinsAgree, ElementaryAssumption
    <3> QED
      BY ONLY <2>2, <3>1, <3>2, SamePairs
  <2> QED
    BY <2>3, <2>4
<1> QED
  BY <1>1, SpecCallInv, PTL

\* pow and powf give the special values of the standard for all pairs of arguments.
THEOREM SpecPowerSpecialValues == Spec => []PowerSpecialValues
<1>1. ASSUME CallInv PROVE PowerSpecialValues
  <2>1. SUFFICES ASSUME pc = "done", fn \in PowerFunctions
                 PROVE  PowerRules(x, y, answer)
    BY DEF PowerSpecialValues, Done, PowerRules
  <2>2. Gives(fn, x, y, answer) /\ x \in Patterns /\ y \in Patterns
    BY <1>1, <2>1, CallTypes DEF CallInv
  <2>3. CASE fn = "pow"
    <3>1. Same(answer, pow(x, y))
      BY <2>2, <2>3 DEF Gives
    <3>2. PowerRules(x, y, pow(x, y))
      BY <2>2, PowObeysRules, ParitiesHold DEF PowerRules
    <3> QED
      BY ONLY <3>1, <3>2, SameRules
  <2>4. CASE fn = "powf"
    <3>1. Same(answer, powf(x, y))
      BY <2>2, <2>4 DEF Gives
    <3>2. PowerRules(x, y, powf(x, y))
      BY <2>2, PowfObeysRules, ParitiesHold DEF PowerRules
    <3> QED
      BY ONLY <3>1, <3>2, SameRules
  <2> QED
    BY <2>1, <2>3, <2>4 DEF PowerFunctions
<1> QED
  BY <1>1, SpecCallInv, PTL

\* Their special values for y and -y, and in double and float, fit together.
THEOREM SpecPowerPairs == Spec => []PowerPairs
<1>1. ASSUME CallInv PROVE PowerPairs
  <2>1. SUFFICES ASSUME pc = "done", fn \in PowerFunctions
                 PROVE  /\ relation = "opposite" => ReciprocalRule(before, answer)
                        /\ relation = "agreeing" => PowerTwinRule(before, answer)
    BY DEF PowerPairs, Done
  <2>2. Gives(fn, x, y, answer) /\ x \in Patterns /\ y \in Patterns
    BY <1>1, <2>1, CallTypes DEF CallInv
  <2>3. ASSUME relation = "opposite" PROVE ReciprocalRule(before, answer)
    <3> DEFINE z == Negated(y)
    <3>1. z \in Patterns /\ Negated(z) = y /\ Gives(fn, x, z, before)
      BY <1>1, <2>1, <2>2, <2>3, NegatedTwice DEF CallInv, Related
    <3> HIDE DEF z
    <3>2. ReciprocalRule(pow(x, z), pow(x, y)) /\ ReciprocalRule(powf(x, z), powf(x, y))
      BY <2>2, <3>1, ReciprocalsAgree, ParitiesHold
    <3>3. CASE fn = "pow"
      <4>1. Same(answer, pow(x, y)) /\ Same(before, pow(x, z))
        BY <2>2, <3>1, <3>3 DEF Gives
      <4> QED
        BY ONLY <3>2, <4>1, SamePairs
    <3>4. CASE fn = "powf"
      <4>1. Same(answer, powf(x, y)) /\ Same(before, powf(x, z))
        BY <2>2, <3>1, <3>4 DEF Gives
      <4> QED
        BY ONLY <3>2, <4>1, SamePairs
    <3> QED
      BY <2>1, <3>3, <3>4 DEF PowerFunctions
  <2>4. ASSUME relation = "agreeing" PROVE PowerTwinRule(before, answer)
    <3>1. before.fn \in DOMAIN Counterpart /\ fn = Counterpart[before.fn]
          /\ Gives(before.fn, x, y, before)
      BY <1>1, <2>4 DEF CallInv, Related
    <3>2. before.fn = "pow" /\ fn = "powf"
      <4>1. before.fn \notin DOMAIN FloatOf
        BY <2>1, <3>1, Counterparts, GroupsDiffer DEF ElementaryFunctions
      <4> QED
        BY <2>1, <3>1, <4>1, Counterparts DEF PowerFunctions
    <3>3. Same(answer, powf(x, y)) /\ Same(before, pow(x, y))
      BY <2>2, <3>1, <3>2 DEF Gives
    <3>4. PowerTwinRule(pow(x, y), powf(x, y))
      BY <2>2, PowersAgree, ParitiesHold
    <3> QED
      BY ONLY <3>3, <3>4, SamePairs
  <2> QED
    BY <2>3, <2>4
<1> QED
  BY <1>1, SpecCallInv, PTL

\* A lane is a NaN or infinite when the scalar function is, beside any neighbours.
THEOREM SpecLaneIsScalar == Spec => []LaneIsScalar
<1>1. ASSUME CallInv PROVE LaneIsScalar
  <2>1. SUFFICES ASSUME pc = "done", fn \in LaneFunctions PROVE LaneRule(fn, x, y, answer)
    BY DEF LaneIsScalar, Done
  <2>2. Same(answer, LaneAnswer(fn, x, y)) /\ x \in Patterns /\ y \in Patterns
    BY <1>1, <2>1, CallTypes DEF CallInv, Gives
  <2>3. LaneRule(fn, x, y, LaneAnswer(fn, x, y))
    BY <2>1, <2>2, LanesFollowScalars, ElementaryAssumption, LanesAssumption DEF LaneFunctions
  <2> QED
    BY ONLY <2>2, <2>3, SameRules
<1> QED
  BY <1>1, SpecCallInv, PTL

\* An element that an array function computes twice, beside other neighbours, has the
\* same answer both times.
THEOREM SpecLanesIndependent == Spec => []LanesIndependent
<1>1. ASSUME CallInv PROVE LanesIndependent
  <2>1. SUFFICES ASSUME pc = "done", fn \in LaneFunctions, relation = "elsewhere"
                 PROVE  NeighbourRule(fn, [ret |-> before.ret, flags |-> before.flags], answer)
    BY DEF LanesIndependent, Done
  <2>2. Same(answer, LaneAnswer(fn, x, y)) /\ x \in Patterns /\ y \in Patterns
    BY <1>1, <2>1, CallTypes DEF CallInv, Gives
  <2>3. PICK t \in Patterns : Same(before, LaneAnswer(fn, x, t))
    BY <1>1, <2>1 DEF CallInv, Related, Gives
  <2>4. NeighbourRule(fn, LaneAnswer(fn, x, t), LaneAnswer(fn, x, y))
    BY <2>1, <2>2, <2>3, NeighboursDoNotMatter, ElementaryAssumption, LanesAssumption
       DEF LaneFunctions
  <2> QED
    BY ONLY <2>2, <2>3, <2>4 DEF NeighbourRule, Same, answer
<1> QED
  BY <1>1, SpecCallInv, PTL

\* The logarithms of zero raise division by zero, and asin and tanhf of it nothing.
LEMMA ScalarsOfZero ==
    ASSUME Thresholds, NEW f
    PROVE  /\ f \in Guards["normal"] => Answered(f, 0).flags = {"divbyzero"}
           /\ f \in {"asin", "tanhf"} => Answered(f, 0).flags = {}
<1>1. /\ IsZero(0) /\ Magnitude(0) = 0 /\ ~IsNaN(0) /\ ~Negative(0)
  BY Format DEF IsZero, IsNaN, Magnitude, Negative
<1>2. Exceptions({AMD_F_DIVBYZERO}) = {"divbyzero"}
  BY CodesDiffer DEF Exceptions
<1>3. f \in Guards["normal"] => Answered(f, 0).flags = {"divbyzero"}
  BY <1>1, <1>2, CodesDiffer
     DEF Guards, Answered, log, log2, logf, log2f, log10f, Logarithm, alm_log_special,
         alm_logf_special, Handled
<1>4. f \in {"asin", "tanhf"} => Answered(f, 0).flags = {}
  BY <1>1 DEF Answered, asin, tanhf, Silent, Thresholds
<1> QED
  BY <1>3, <1>4

\* Beside the logarithms the call made for an empty lane raises nothing.
THEOREM EmptyLanesAreQuiet ==
    ASSUME Thresholds, LaneThresholds, NEW v \in DOMAIN VectorFunctions
    PROVE  PaddingRule(v, LaneAnswer(v, 0, 0))
<1> DEFINE f == VectorFunctions[v].scalar
           g == VectorFunctions[v].guard
<1>1. g \in DOMAIN Guards /\ f \in Guards[g]
  BY GuardType
<1>2. LaneAnswer(v, 0, 0).flags = IF g = "normal" THEN {"divbyzero"} ELSE {}
  <2>1. /\ Magnitude(0) = 0 /\ ~IsNaN(0) /\ ~IsInf(0) /\ Finite(0) /\ IsZero(0) /\ ~Negative(0)
        /\ IMPBIT > 0 /\ HALF \in Nat /\ POS_ONE \in Nat /\ POS_ONE > 0 /\ EXPBITS \in Nat
    BY Format, Widths
       DEF IsZero, IsNaN, IsInf, Finite, Magnitude, Negative, LaneThresholds, Thresholds, HALF
  <2>2. /\ f \in Guards["normal"] => Answered(f, 0).flags = {"divbyzero"}
        /\ f \in {"asin", "tanhf"} => Answered(f, 0).flags = {}
    BY ScalarsOfZero
  <2>3. Polynomial(0).flags = {}
    BY <2>1 DEF Polynomial, Silent
  <2>4. Region(ErfBounds, 0) # ErfBounds
    <3>1. POS_ONE + 1 \in ErfBounds /\ POS_ONE + 1 \notin Region(ErfBounds, 0)
      BY <2>1 DEF Region, ErfBounds
    <3> QED
      BY <3>1
  <2> HIDE DEF f, g
  <2>5. LaneAnswer(v, 0, 0) =
            CASE g = "large"    -> Fallback(f, 0, TooLarge(0))
              [] g = "normal"   -> Fallback(f, 0, NotPositiveNormal(0))
              [] g = "infinity" -> Fallback(f, 0, AboveInfinity(0))
              [] g = "flat"     -> Fallback(f, 0, FlatOrTiny(0))
              [] g = "one"      -> Fallback(f, 0, NotBelowOne(0))
              [] g = "unusual"  -> Fallback(f, 0, Unusual(0) \/ Unusual(0))
              [] g = "halves"   -> Halves(f, 0, 0)
              [] g = "masked"   -> Masked(0, 0)
              [] g = "none"     -> Unguarded(f, 0)
              [] g = "erf"      -> ErfLane(0, 0)
              [] g = "erfc"     -> ErfcLane(f, 0, 0)
    BY DEF LaneAnswer, f, g
  <2>6. CASE g \in {"large", "infinity", "one", "halves"}
    <3>1. ~TooLarge(0) /\ ~AboveInfinity(0) /\ ~NotBelowOne(0) /\ ~MixedHalves(0, 0)
      BY <2>1
         DEF TooLarge, AboveInfinity, NotBelowOne, MixedHalves, AboveHalf, UpToHalf,
             LaneThresholds
    <3>2. LaneAnswer(v, 0, 0) = Polynomial(0)
      BY <2>5, <2>6, <3>1 DEF Fallback, Halves
    <3> QED
      BY <2>3, <2>6, <3>2
  <2>7. CASE g \in {"normal", "flat", "unusual"}
    <3>1. NotPositiveNormal(0) /\ FlatOrTiny(0) /\ Unusual(0)
      BY <2>1, Widths DEF NotPositiveNormal, FlatOrTiny, Unusual, Thresholds
    <3>2. LaneAnswer(v, 0, 0) = Answered(f, 0)
      BY <2>5, <2>7, <3>1 DEF Fallback
    <3>3. f \in (IF g = "normal" THEN Guards["normal"] ELSE {"asin", "tanhf"})
      BY <1>1, <2>7 DEF Guards
    <3> QED
      BY <2>2, <2>7, <3>2, <3>3
  <2>8. CASE g \in {"masked", "none"}
    <3>1. ~TooLarge(0) /\ ~(Magnitude(0) > POS_ONE)
      BY <2>1 DEF TooLarge, LaneThresholds
    <3>2. LaneAnswer(v, 0, 0) = Polynomial(0)
      BY <2>5, <2>8, <3>1 DEF Masked, Unguarded
    <3> QED
      BY <2>3, <2>8, <3>2
  <2>9. CASE g \in {"erf", "erfc"}
    <3>1. LaneAnswer(v, 0, 0) = Silent(Poly)
      BY <2>1, <2>4, <2>5, <2>9 DEF ErfLane, ErfcLane
    <3> QED
      BY <2>9, <3>1 DEF Silent
  <2> QED
    BY <1>1, <2>6, <2>7, <2>8, <2>9 DEF Guards
<1> QED
  BY <1>2 DEF PaddingRule

\* Lanes without an element raise nothing, but beside the logarithms.
THEOREM SpecPaddingIsQuiet == Spec => []PaddingIsQuiet
<1>1. ASSUME CallInv PROVE PaddingIsQuiet
  <2>1. SUFFICES ASSUME pc = "done", fn \in LaneFunctions, x = 0, y = 0
                 PROVE  PaddingRule(fn, answer)
    BY DEF PaddingIsQuiet, Done
  <2>2. Same(answer, LaneAnswer(fn, 0, 0))
    BY <1>1, <2>1 DEF CallInv, Gives
  <2>3. PaddingRule(fn, LaneAnswer(fn, 0, 0))
    BY <2>1, EmptyLanesAreQuiet, ElementaryAssumption, LanesAssumption DEF LaneFunctions
  <2> QED
    BY <2>2, <2>3 DEF Same, PaddingRule
<1> QED
  BY <1>1, SpecCallInv, PTL

-----------------------------------------------------------------------------
(* fmax, fmin and fdim.                                                     *)

\* The positive difference is positive, and zero only up to the second argument.
LEMMA DifferenceIsPositive ==
    ASSUME NEW u \in Patterns, NEW t \in Patterns, NEW m, ~IsNaN(u), ~IsNaN(t)
    PROVE  LET d == fdim(u, t, m).ret
           IN  /\ Ordinal(u) <= Ordinal(t) => d = 0
               /\ Ordinal(u) > Ordinal(t) => ~Negative(d) /\ d # 0
<1>1. Ordinal(u) \in Int /\ Ordinal(t) \in Int /\ ~Negative(EXPBITS) /\ EXPBITS # 0
  BY Format DEF Ordinal, Patterns, Negative
<1>2. ASSUME Ordinal(u) > Ordinal(t), Finite(u), Finite(t)
      PROVE  ~Negative(Difference(m, u, t)) /\ Difference(m, u, t) # 0
  <2> DEFINE v == Value(u) + Value(Negated(t))
  <2>1. v \in Int /\ v > 0
    <3>1. Value(t) < Value(u)
      BY <1>1, <1>2, ValueGrows
    <3> QED
      BY <3>1, ValueIs
  <2>2. Difference(m, u, t) = RoundedIn(m, v, 1)
    BY <2>1 DEF Difference, Sum
  <2> HIDE DEF v
  <2>3. ~Negative(RoundedIn(m, v, 1)) /\ Magnitude(RoundedIn(m, v, 1)) > 0
    BY <2>1, RoundedInType
  <2> QED
    BY <2>2, <2>3, Format DEF Magnitude, Negative
<1>3. (Finite(u) \/ IsInf(u)) /\ (Finite(t) \/ IsInf(t))
  BY Format, Fields DEF IsNaN, IsInf, Finite
<1>4. fdim(u, t, m).ret = IF Ordinal(u) <= Ordinal(t) THEN 0
                          ELSE IF IsInf(u) \/ IsInf(t) THEN EXPBITS
                          ELSE Difference(m, u, t)
  BY DEF fdim, Answer
<1> QED
  BY <1>1, <1>2, <1>3, <1>4

\* fmax, fmin and fdim give the extremum or the positive difference of any two numbers,
\* and the same one when the arguments are exchanged.
THEOREM SpecExtremumOfNumbers == Spec => []ExtremumOfNumbers
<1>1. ASSUME CallInv PROVE ExtremumOfNumbers
  <2> SUFFICES ASSUME pc = "done", fn \in ComparisonFunctions
               PROVE  ExtremumOfNumbers
    BY DEF ExtremumOfNumbers, Done, ComparisonFunctions
  <2>1. x \in Patterns /\ y \in Patterns /\ Gives(fn, x, y, answer)
    BY <1>1, CallTypes DEF CallInv
  <2>2. relation = "exchanged" => Gives(fn, y, x, before)
    BY <1>1 DEF CallInv, Related
  <2>3. Ordinal(x) \in Int /\ Ordinal(y) \in Int
    BY <2>1, Format DEF Patterns, Ordinal
  <2>4. CASE fn = "fmax"
    BY <2>1, <2>2, <2>3, <2>4, Format
       DEF ExtremumOfNumbers, Done, Gives, Same, answer, fmax, SpecialExtremum, TheNaN, IsNaN,
           Quieted, IsQuiet, Patterns, Negative, Magnitude
  <2>5. CASE fn = "fmin"
    BY <2>1, <2>2, <2>3, <2>5, Format
       DEF ExtremumOfNumbers, Done, Gives, Same, answer, fmin, SpecialExtremum, TheNaN, IsNaN,
           Quieted, IsQuiet, Patterns, Negative, Magnitude
  <2>6. CASE fn \in {"vrda_fmax", "vrda_fmin"}
    BY <2>1, <2>3, <2>6
       DEF ExtremumOfNumbers, Done, Gives, Same, answer, vrda_fmax, vrda_fmin, Unordered, fmax,
           fmin, SpecialExtremum
  <2>7. CASE fn = "fdim"
    <3>1. SUFFICES ASSUME relation = "exchanged", ~IsNaN(x), ~IsNaN(y)
                   PROVE  /\ ret = 0 \/ before.ret = 0
                          /\ ~Negative(ret)
                          /\ ret = 0 /\ before.ret = 0 => Ordinal(x) = Ordinal(y)
      BY <2>7 DEF ExtremumOfNumbers, Done
    <3>2. PICK m : ret = fdim(x, y, m).ret
      BY <2>1, <2>7 DEF Gives, Same, answer
    <3>3. PICK k : before.ret = fdim(y, x, k).ret
      BY <2>2, <2>7, <3>1 DEF Gives, Same
    <3>4. /\ Ordinal(x) <= Ordinal(y) => ret = 0
          /\ Ordinal(x) > Ordinal(y) => ~Negative(ret) /\ ret # 0
      BY <2>1, <3>1, <3>2, DifferenceIsPositive
    <3>5. /\ Ordinal(y) <= Ordinal(x) => before.ret = 0
          /\ Ordinal(y) > Ordinal(x) => before.ret # 0
      BY <2>1, <3>1, <3>3, DifferenceIsPositive
    <3>6. ~Negative(0)
      BY Format DEF Negative
    <3> QED
      BY <2>3, <3>4, <3>5, <3>6
  <2> QED
    BY <2>4, <2>5, <2>6, <2>7 DEF ComparisonFunctions
<1> QED
  BY <1>1, SpecCallInv, PTL

-----------------------------------------------------------------------------
(* The functions that round.                                              *)

\* The inductive invariant of the functions that round.
RoundingInv ==
    /\ mode \in Modes
    /\ fn \in RoundingFunctions => /\ x \in Patterns
                                   /\ pc = "done" => GivesRounded(fn, x, mode, answer)
    /\ relation = "agreeing" /\ fn \in IntegralValued =>
          /\ before.fn \in LongValued \cup {"modf"} /\ fn = Counterpart[before.fn]
          /\ GivesRounded(before.fn, x, mode, before)
    /\ relation = "onResult" /\ fn \in IntegralValued =>
          \E f \in IntegralValued, u \in Patterns, m \in Modes :
              GivesRounded(f, u, m, before) /\ x = before.ret
    /\ relation = "onNext" =>
          /\ fn \in IntegralValued \cup LongValued /\ before.fn = fn
          /\ before.x \in Patterns /\ Finite(before.x) /\ x = NextFloat(before.x)
          /\ GivesRounded(fn, before.x, mode, before)

\* The groups of functions that are not these.
LEMMA RoundingGroups ==
    /\ \A f \in RoundingFunctions :
          f \notin ResidueFunctions \cup ComparisonFunctions \cup ElementaryFunctions
                       \cup PowerFunctions \cup LaneFunctions
    /\ \A f \in LongValued \cup {"modf"} :
          f \notin IntegralValued /\ f \in DOMAIN Counterpart
             /\ Counterpart[f] \in IntegralValued /\ f \in RoundingFunctions
    /\ \A f \in IntegralValued : f \in RoundingFunctions /\ f \notin LongValued
    /\ \A f \in DOMAIN Counterpart : Counterpart[f] \in IntegralValued =>
          f \in LongValued \cup {"modf"}
<1>1. \A f \in RoundingFunctions : f \notin ElementaryFunctions \cup LaneFunctions
  BY GroupsDiffer
<1>2. \A f \in RoundingFunctions :
          f \notin ResidueFunctions \cup ComparisonFunctions \cup PowerFunctions
  BY DEF RoundingFunctions, IntegralValued, LongValued, ResidueFunctions,
         ComparisonFunctions, PowerFunctions
<1>3. \A f \in LongValued \cup {"modf"} :
          f \notin IntegralValued /\ f \in DOMAIN Counterpart
             /\ Counterpart[f] \in IntegralValued /\ f \in RoundingFunctions
  BY Counterparts DEF RoundingFunctions, IntegralValued, LongValued
<1>4. \A f \in IntegralValued : f \in RoundingFunctions /\ f \notin LongValued
  BY DEF RoundingFunctions, IntegralValued, LongValued
<1>5. ASSUME NEW f \in DOMAIN Counterpart, Counterpart[f] \in IntegralValued
      PROVE  f \in LongValued \cup {"modf"}
  <2>1. CASE f \in DOMAIN FloatOf
    <3>1. Counterpart[f] \in ElementaryFunctions
      BY <2>1, Counterparts DEF ElementaryFunctions
    <3> QED
      BY <1>1, <1>4, <1>5, <3>1
  <2>2. CASE f = "pow"
    BY <1>2, <1>4, <1>5, <2>2, Counterparts DEF PowerFunctions
  <2> QED
    BY <2>1, <2>2, Counterparts DEF LongValued
<1> QED
  BY <1>1, <1>2, <1>3, <1>4, <1>5

\* A call of such a function gives what its definition says.
LEMMA RoundingCallGives ==
    ASSUME RoundingCall
    PROVE  GivesRounded(fn, x, mode, answer)' /\ fn \in RoundingFunctions /\ UNCHANGED callVars
<1>1. UNCHANGED callVars /\ x' = x /\ mode' = mode /\ fn' = fn
  BY DEF RoundingCall, Call, callVars
<1>2. fn \in RoundingFunctions
  BY DEF RoundingCall, Call, RoundingFunctions, IntegralValued, LongValued
<1>3. GivesRounded(fn, x, mode, answer')
  BY DEF RoundingCall, Call, Return, answer, GivesRounded, Same
<1> QED
  BY <1>1, <1>2, <1>3

\* A behaviour starts with a first call.
LEMMA RoundingInvInit == Init => RoundingInv
BY RoundingGroups DEF Init, RoundingInv, Modes

\* Calls leave what is known of the first one alone.
LEMMA RoundingInvCall ==
    ASSUME RoundingInv, CallInv,
           RoundingCall \/ ComparisonCall \/ ElementaryCall \/ PowerCall \/ LaneCall \/ ResidueCall
    PROVE  RoundingInv'
<1>1. UNCHANGED callVars
  BY DEF RoundingCall, ComparisonCall, ElementaryCall, PowerCall, LaneCall, Call, callVars,
         ResidueCall, ResidueNext, PassNaN, Undefined, Equal, Smaller, FarApart,
         Setup, ProductOverflows, Reduce, LastFmod, LastRemainder, LastRemquo, Unstored
<1>2. fn \in RoundingFunctions => GivesRounded(fn, x, mode, answer)'
  <2>1. CASE RoundingCall
    BY <2>1, RoundingCallGives
  <2>2. CASE ComparisonCall \/ ElementaryCall \/ PowerCall \/ LaneCall \/ ResidueCall
    BY <2>2, RoundingGroups
       DEF ComparisonCall, ElementaryCall, PowerCall, LaneCall, ResidueCall, Call,
           ComparisonFunctions, PowerFunctions
  <2> QED
    BY <2>1, <2>2
<1> QED
  BY <1>1, <1>2 DEF RoundingInv, callVars

\* The second call starts in its relation to the first one.
LEMMA RoundingInvSecond ==
    ASSUME RoundingInv, CallInv, Elsewhere \/ OnResult \/ OnNext \/ Agreeing \/ Exchanged \/ Opposite
    PROVE  RoundingInv'
<1>1. pc' = "call" /\ mode' \in Modes /\ pc = "done"
  BY DEF Elsewhere, OnResult, OnNext, Agreeing, Exchanged, Opposite, Second, RoundingInv
<1>2. fn \in RoundingFunctions => x \in Patterns /\ GivesRounded(fn, x, mode, answer)
  BY <1>1 DEF RoundingInv
<1>3. ASSUME NEW r, NEW f, NEW a, NEW b, Second(r, f, a, b)
      PROVE  /\ relation' = r /\ fn' = f /\ x' = a /\ before'.fn = fn /\ before'.x = x
             /\ before'.ret = ret /\ before'.flags = flags
             /\ fn \in RoundingFunctions => GivesRounded(fn, x, mode, before')
  <2>1. /\ relation' = r /\ fn' = f /\ x' = a /\ before'.fn = fn /\ before'.x = x
        /\ before'.ret = ret /\ before'.flags = flags
    BY <1>3 DEF Second
  <2> QED
    BY <1>2, <2>1 DEF GivesRounded, Same, answer
<1>4. CASE Elsewhere \/ Exchanged \/ Opposite
  <2>1. fn' = fn /\ relation' \notin {"agreeing", "onResult", "onNext"} /\ fn \notin RoundingFunctions
    BY <1>4, <1>3, RoundingGroups DEF Elsewhere, Exchanged, Opposite
  <2> QED
    BY <1>1, <2>1 DEF RoundingInv
<1>5. CASE OnResult
  <2>1. CASE fn \in IntegralValued
    <3>1. PICK f \in IntegralValued, m \in Modes : Second("onResult", f, ret, y) /\ mode' = m
      BY <1>5, <2>1, RoundingGroups DEF OnResult
    <3>2. x \in Patterns /\ GivesRounded(fn, x, mode, answer) /\ fn \in RoundingFunctions
      BY <1>2, <2>1, RoundingGroups
    <3>3. ret \in Patterns
      BY <2>1, <3>2, IntegralType DEF RoundingInv, answer
    <3>4. GivesRounded(fn, x, mode, before') /\ x' = before'.ret /\ x' = ret /\ fn' = f
          /\ relation' = "onResult"
      BY <1>3, <3>1, <3>2
    <3>5. \E g \in IntegralValued, u \in Patterns, n \in Modes :
              GivesRounded(g, u, n, before') /\ x' = before'.ret
      BY <2>1, <3>2, <3>4 DEF RoundingInv
    <3> QED
      BY <1>1, <3>1, <3>3, <3>4, <3>5, RoundingGroups DEF RoundingInv
  <2>2. CASE fn \in ResidueFunctions
    <3>1. fn' = fn /\ relation' = "onResult" /\ fn \notin RoundingFunctions
      BY <1>3, <1>5, <2>2, RoundingGroups DEF OnResult
    <3> QED
      BY <1>1, <3>1, RoundingGroups DEF RoundingInv
  <2> QED
    BY <1>5, <2>1, <2>2 DEF OnResult
<1>6. CASE OnNext
  <2>1. /\ fn \in IntegralValued \cup LongValued /\ Finite(x) /\ UNCHANGED mode
        /\ Second("onNext", fn, NextFloat(x), y)
    BY <1>6 DEF OnNext
  <2>2. fn \in RoundingFunctions /\ x \in Patterns
    BY <1>2, <2>1, RoundingGroups
  <2>3. NextFloat(x) \in Patterns
    BY <2>1, <2>2, Format DEF NextFloat, Patterns, Finite, Magnitude, Negative, IsZero
  <2>4. /\ fn' = fn /\ x' = NextFloat(x) /\ relation' = "onNext" /\ before'.fn = fn
        /\ before'.x = x /\ GivesRounded(fn, x, mode, before')
    BY <1>3, <2>1, <2>2
  <2> QED
    BY <1>1, <2>1, <2>2, <2>3, <2>4 DEF RoundingInv
<1>7. CASE Agreeing
  <2>1. fn \in DOMAIN Counterpart /\ Second("agreeing", Counterpart[fn], x, y) /\ UNCHANGED mode
    BY <1>7 DEF Agreeing
  <2>2. /\ fn' = Counterpart[fn] /\ x' = x /\ relation' = "agreeing" /\ before'.fn = fn
        /\ fn \in RoundingFunctions => GivesRounded(fn, x, mode, before')
    BY <1>3, <2>1
  <2>3. fn' \in RoundingFunctions => fn' \in IntegralValued
    <3>1. Counterpart[fn] \notin LongValued \cup {"modf"}
      BY <2>1, Counterparts, RoundingGroups DEF ElementaryFunctions, LongValued, PowerFunctions
    <3> QED
      BY <2>2, <3>1 DEF RoundingFunctions
  <2>4. fn' \in IntegralValued => fn \in LongValued \cup {"modf"} /\ fn \in RoundingFunctions
    BY <2>1, <2>2, RoundingGroups
  <2> QED
    BY <1>1, <1>2, <2>1, <2>2, <2>3, <2>4 DEF RoundingInv
<1> QED
  BY <1>4, <1>5, <1>6, <1>7

\* Each answer of a function that rounds is the one its definition gives, and the argument
\* of the second call is in its relation to the first call.
THEOREM SpecRoundingInv == Spec => []RoundingInv
<1>1. Init => RoundingInv
  BY RoundingInvInit
<1>2. RoundingInv /\ CallInv /\ [Next]_vars => RoundingInv'
  <2>1. CASE UNCHANGED vars
    BY <2>1 DEF vars, RoundingInv, answer
  <2> QED
    BY <2>1, RoundingInvCall, RoundingInvSecond DEF Next
<1>3. Spec => []CallInv
  BY SpecCallInv
<1> QED
  BY <1>1, <1>2, <1>3, PTL DEF Spec

-----------------------------------------------------------------------------
(* The properties of the functions that round.                             *)

\* What the properties ask of a finite number follows from the invariant.
LEMMA IntegralDone ==
    ASSUME RoundingInv, Done(IntegralValued), Finite(x)
    PROVE  /\ x \in Patterns /\ ret \in Patterns /\ Integer(Direction, x, ret)
           /\ Direction \in Modes \cup {"away"}
           /\ Value(ret) = IntegerIn(Direction, Value(x)) * one
           /\ Value(ret) \div one = IntegerIn(Direction, Value(x))
           /\ IntegerIn(Direction, Value(x)) \in Int
           /\ SignOf(ret) = SignOf(x) \/ (fn = "nearbyint" /\ mode = "downward" /\ ret = NEG_ZERO)
           /\ flags = IF fn \in {"rint", "nearbyint", "vrs4_roundf"}
                      THEN Raised(Units(x) % one # 0) ELSE {}
<1>1. /\ fn \in IntegralValued /\ x \in Patterns /\ mode \in Modes
      /\ GivesRounded(fn, x, mode, answer)
  BY RoundingGroups DEF RoundingInv, Done
<1>2. Direction = DirectionOf(fn, mode) /\ Direction \in Modes \cup {"away"}
  BY <1>1, DirectionIs
<1>3. /\ Integer(Direction, x, ret)
      /\ SignOf(ret) = SignOf(x) \/ (fn = "nearbyint" /\ mode = "downward" /\ ret = NEG_ZERO)
      /\ flags = IF fn \in {"rint", "nearbyint", "vrs4_roundf"}
                 THEN Raised(Units(x) % one # 0) ELSE {}
  BY <1>1, <1>2, IntegralIs DEF answer
<1>4. /\ Value(ret) = IntegerIn(Direction, Value(x)) * one
      /\ Value(ret) \div one = IntegerIn(Direction, Value(x))
  BY <1>1, <1>2, <1>3, IntegerValue
<1>5. IntegerIn(Direction, Value(x)) \in Int
  BY <1>1, <1>2, RoundsIs
<1> QED
  BY <1>1, <1>2, <1>3, <1>4, <1>5 DEF Integer

\* ceil, floor, trunc, round, rint, nearbyint and the lanes return the integer that their
\* direction asks for, with the sign of the argument, for every format.
THEOREM SpecRoundsInDirection == Spec => []RoundsInDirection
<1>1. RoundingInv => RoundsInDirection
  BY IntegralDone DEF RoundsInDirection
<1> QED
  BY <1>1, SpecRoundingInv, PTL

\* A rest remains of a number if and only if one remains of its units.
LEMMA RestOfValue ==
    ASSUME NEW u \in Patterns
    PROVE  Value(u) % one = 0 <=> Units(u) % one = 0
<1> DEFINE n == Units(u)
           o == one
           a == n \div o
           r == n % o
<1>1. /\ o \in Nat \ {0} /\ n \in Nat /\ a \in Nat /\ r \in 0 .. o - 1 /\ n = a * o + r
      /\ Value(u) = IF Negative(u) THEN -n ELSE n
  BY OneIs, OnesAndRest, ValueIs
<1> HIDE DEF n, o, a, r
<1>2. (-n) % o = 0 <=> r = 0
  <2>1. /\ r = 0 => -n = o * (-a) + 0
        /\ r > 0 => -n = o * (-a - 1) + (o - r) /\ o - r \in 0 .. o - 1 /\ o - r # 0
    <3>1. o * (-a) = -(a * o) /\ o * (-a - 1) = -(a * o) - o /\ a * o \in Nat
      BY <1>1
    <3> QED
      BY <1>1, <3>1
  <2>2. \A k \in Int, v \in 0 .. o - 1, z \in Int : z = o * k + v => z % o = v
    BY <1>1, DivisionUnique
  <2>3. -n \in Int /\ -a \in Int /\ -a - 1 \in Int /\ 0 \in 0 .. o - 1
    BY <1>1
  <2> QED
    BY <1>1, <2>1, <2>2, <2>3
<1> QED
  BY <1>1, <1>2 DEF n, o, r

\* The functions that round by an addition, and the float lanes, raise inexact for a number
\* that is not an integer; none does for an integer, and the others do for no number.
THEOREM SpecInexactWhenRounded == Spec => []InexactWhenRounded
<1>1. ASSUME RoundingInv, Done(IntegralValued \cup {"lrint"}), Finite(x)
      PROVE  ("inexact" \in flags) <=> /\ fn \in {"rint", "nearbyint", "lrint", "vrs4_roundf"}
                                       /\ Value(x) % one # 0
  <2>1. CASE fn \in IntegralValued
    <3>1. flags = (IF fn \in {"rint", "nearbyint", "vrs4_roundf"}
                   THEN Raised(Units(x) % one # 0) ELSE {}) /\ x \in Patterns
      BY <1>1, <2>1, IntegralDone DEF Done
    <3>2. fn # "lrint"
      BY <2>1 DEF IntegralValued
    <3>3. Value(x) % one # 0 <=> Units(x) % one # 0
      BY <3>1, RestOfValue
    <3> QED
      BY <3>1, <3>2, <3>3 DEF Raised
  <2>2. CASE fn = "lrint"
    <3>1. x \in Patterns /\ mode \in Modes /\ GivesRounded(fn, x, mode, answer) /\ fn \in LongValued
      BY <1>1, <2>2, RoundingGroups DEF RoundingInv, Done, RoundingFunctions, LongValued
    <3>2. "inexact" \in flags <=> Units(x) % one # 0
      BY <1>1, <2>2, <3>1, LongIs DEF answer
    <3>3. Value(x) % one # 0 <=> Units(x) % one # 0
      BY <3>1, RestOfValue
    <3> QED
      BY <2>2, <3>2, <3>3
  <2> QED
    BY <1>1, <2>1, <2>2 DEF Done
<1>2. RoundingInv => InexactWhenRounded
  BY <1>1 DEF InexactWhenRounded
<1> QED
  BY <1>2, SpecRoundingInv, PTL

\* lrint, lround and lroundf return what rint and round do, if a long int holds it, and the
\* two parts of modf add up.
THEOREM SpecAgrees == Spec => []Agrees
<1>1. ASSUME RoundingInv, Done(IntegralValued), relation = "agreeing", Finite(x)
      PROVE  IF before.fn = "modf"
             THEN /\ Value(before.ret) + Value(iptr(x)) = Value(x) /\ iptr(x) = ret
                  /\ \/ SignOf(before.ret) = SignOf(x)
                     \/ mode = "downward" /\ before.ret = NEG_ZERO
             ELSE Fits(Value(ret) \div one) => before.ret * one = Value(ret)
  <2>1. /\ fn \in IntegralValued /\ fn = Counterpart[before.fn] /\ x \in Patterns
        /\ before.fn \in LongValued \cup {"modf"} /\ GivesRounded(before.fn, x, mode, before)
        /\ mode \in Modes /\ GivesRounded(fn, x, mode, answer)
    BY <1>1, RoundingGroups DEF RoundingInv, Done
  <2>2. /\ Value(ret) = IntegerIn(Direction, Value(x)) * one
        /\ Value(ret) \div one = IntegerIn(Direction, Value(x))
    BY <1>1, IntegralDone
  <2>3. CASE before.fn = "modf"
    <3>1. fn = "trunc"
      BY <2>1, <2>3, Counterparts
    <3>2. ret = trunc(x, mode).ret /\ before.ret = modf(x, mode).ret
      BY <2>1, <2>3, <3>1 DEF GivesRounded, Same, answer
    <3> QED
      BY <1>1, <2>1, <2>3, <3>2, ModfIs
  <2>4. CASE before.fn \in LongValued
    <3>1. Direction = DirectionOf(before.fn, mode)
      BY <2>1, <2>4, Counterparts DEF Direction, DirectionOf, LongValued
    <3>2. Fits(IntegerIn(Direction, Value(x))) => before.ret = IntegerIn(Direction, Value(x))
      BY <1>1, <2>1, <2>4, <3>1, LongIs
    <3>3. before.fn # "modf"
      BY <2>4 DEF LongValued
    <3> QED
      BY <2>2, <3>2, <3>3
  <2> QED
    BY <2>1, <2>3, <2>4
<1>2. RoundingInv => Agrees
  BY <1>1 DEF Agrees
<1> QED
  BY <1>2, SpecRoundingInv, PTL

\* The next float is not smaller.
LEMMA NextIsLarger ==
    ASSUME NEW u \in Patterns, Finite(u)
    PROVE  NextFloat(u) \in Patterns /\ Value(u) <= Value(NextFloat(u))
<1> DEFINE v == NextFloat(u)
<1>1. v \in Patterns /\ (Ordinal(u) < Ordinal(v) \/ (IsZero(u) /\ v = 1))
  BY Format DEF NextFloat, Patterns, Finite, Magnitude, Negative, IsZero, Ordinal
<1>2. CASE Ordinal(u) < Ordinal(v)
  <2>1. Value(u) < Value(v) /\ Value(u) \in Int /\ Value(v) \in Int
    BY <1>1, <1>2, ValueGrows, ValueIs
  <2> QED
    BY <1>1, <2>1
<1>3. CASE IsZero(u) /\ v = 1 /\ v \in Patterns
  <2>1. Value(u) = 0 /\ ~Negative(v)
    BY <1>3, Format, ValueIs DEF Negative
  <2>2. Value(v) >= 0
    BY <1>3, <2>1, ValueIs
  <2> QED
    BY <1>3, <2>1, <2>2
<1> QED
  BY <1>1, <1>2, <1>3

\* What is an integer stays what it is, and a larger number gives no smaller integer.
THEOREM SpecSecondCallFits == Spec => []SecondCallFits
<1>1. ASSUME RoundingInv, Done(IntegralValued), relation = "onResult", Finite(before.ret)
      PROVE  Value(ret) = Value(before.ret) /\ flags = {}
  <2>1. PICK f \in IntegralValued, u \in Patterns, m \in Modes :
            GivesRounded(f, u, m, before) /\ x = before.ret
    BY <1>1 DEF RoundingInv, Done
  <2>2. x \in Patterns /\ Finite(x) /\ Finite(u)
    BY <1>1, <2>1, IntegralType
  <2>3. Integer(DirectionOf(f, m), u, x)
    BY <2>1, <2>2, IntegralIs
  <2>4. Units(x) % one = 0
    <3> DEFINE k == Ones(DirectionOf(f, m), Negative(u), Units(u))
               o == one
    <3>1. k \in Nat /\ o \in Nat \ {0} /\ Units(x) = k * o
      BY <2>1, <2>3, DirectionIs, RoundsIs, OneIs DEF Integer
    <3> HIDE DEF k, o
    <3>2. Units(x) \in Int /\ Units(x) = o * k + 0 /\ k \in Int /\ 0 \in 0 .. o - 1
      BY <3>1
    <3>3. Units(x) % o = 0
      BY ONLY <3>1, <3>2, DivisionUnique
    <3> QED
      BY <3>3 DEF o
  <2>5. /\ Integer(Direction, x, ret)
        /\ SignOf(ret) = SignOf(x) \/ ret = NEG_ZERO
        /\ flags = IF fn \in {"rint", "nearbyint", "vrs4_roundf"}
                   THEN Raised(Units(x) % one # 0) ELSE {}
        /\ Direction \in Modes \cup {"away"}
    BY <1>1, <2>2, IntegralDone
  <2>6. Units(ret) = Units(x)
    BY <2>2, <2>4, <2>5, IntegralIsInteger DEF Integer
  <2>7. Value(ret) = Value(x)
    <3>1. ret \in Patterns /\ x \in Patterns
      BY <2>2, <2>5 DEF Integer
    <3>2. SignOf(ret) = SignOf(x) => (Negative(ret) <=> Negative(x))
      BY Format DEF SignOf
    <3>3. ret = NEG_ZERO => Units(ret) = 0
      <4>1. NEG_ZERO \in Patterns /\ IsZero(NEG_ZERO)
        BY Format DEF NEG_ZERO, Patterns, IsZero, Magnitude, Negative
      <4> QED
        BY <4>1, ValueIs
    <3>4. /\ Value(ret) = IF Negative(ret) THEN -Units(ret) ELSE Units(ret)
          /\ Value(x) = IF Negative(x) THEN -Units(x) ELSE Units(x)
      BY <3>1, ValueIs
    <3>5. ret = NEG_ZERO => Value(ret) = 0 /\ Value(x) = 0
      BY <2>6, <3>1, <3>3, ValueIs
    <3> QED
      BY <2>5, <2>6, <3>2, <3>4, <3>5
  <2> QED
    BY <2>1, <2>4, <2>5, <2>7 DEF Raised
<1>2. ASSUME RoundingInv, relation = "onNext", Finite(x), pc = "done"
      PROVE  /\ x \in Patterns /\ before.x \in Patterns /\ Finite(before.x) /\ before.fn = fn
             /\ Value(before.x) <= Value(x) /\ mode \in Modes
             /\ fn \in IntegralValued \cup LongValued
             /\ GivesRounded(fn, before.x, mode, before) /\ GivesRounded(fn, x, mode, answer)
             /\ Direction = DirectionOf(fn, mode) /\ Direction \in Modes \cup {"away"}
             /\ IntegerIn(Direction, Value(before.x)) <= IntegerIn(Direction, Value(x))
  <2>1. /\ before.x \in Patterns /\ Finite(before.x) /\ before.fn = fn /\ x = NextFloat(before.x)
        /\ fn \in IntegralValued \cup LongValued
        /\ GivesRounded(fn, before.x, mode, before) /\ mode \in Modes
    BY <1>2 DEF RoundingInv
  <2>2. x \in Patterns /\ Value(before.x) <= Value(x)
    BY <2>1, NextIsLarger
  <2>3. fn \in RoundingFunctions
    BY <2>1, RoundingGroups
  <2>4. Direction = DirectionOf(fn, mode) /\ Direction \in Modes \cup {"away"}
    BY <2>1, DirectionIs
  <2>5. IntegerIn(Direction, Value(before.x)) <= IntegerIn(Direction, Value(x))
    BY <2>1, <2>2, <2>4, RoundsGrow
  <2> QED
    BY <1>2, <2>1, <2>2, <2>3, <2>4, <2>5 DEF RoundingInv
<1>3. ASSUME RoundingInv, Done(IntegralValued), relation = "onNext", Finite(x)
      PROVE  Order(before.ret, ret)
  <2> DEFINE u == before.x
             d == Direction
             i == IntegerIn(d, Value(u))
             j == IntegerIn(d, Value(x))
  <2>1. /\ x \in Patterns /\ u \in Patterns /\ Finite(u) /\ i <= j /\ d \in Modes \cup {"away"}
        /\ GivesRounded(fn, u, mode, before) /\ mode \in Modes /\ fn \in IntegralValued
        /\ d = DirectionOf(fn, mode)
    BY <1>2, <1>3 DEF Done
  <2>2. Value(ret) = j * one
    BY <1>3, IntegralDone
  <2>3. Value(before.ret) = i * one
    <3>1. Integer(d, u, before.ret) /\ (SignOf(before.ret) = SignOf(u) \/ before.ret = NEG_ZERO)
      BY <2>1, IntegralIs
    <3> QED
      BY <2>1, <3>1, IntegerValue
  <2>4. i \in Int /\ j \in Int /\ one \in Nat
    BY <2>1, RoundsIs, OneIs
  <2> HIDE DEF i, j
  <2>5. one * i <= one * j
    BY ONLY <2>1, <2>4, Times
  <2>6. one * i = i * one /\ one * j = j * one
    BY <2>4
  <2> QED
    BY <2>2, <2>3, <2>5, <2>6 DEF Order
<1>4. ASSUME RoundingInv, Done(LongValued), relation = "onNext", Finite(x),
             Fits(IntegerIn(Direction, Value(x))), Fits(IntegerIn(Direction, Value(before.x)))
      PROVE  before.ret <= ret
  <2>1. /\ x \in Patterns /\ before.x \in Patterns /\ Finite(before.x) /\ mode \in Modes
        /\ GivesRounded(fn, before.x, mode, before) /\ GivesRounded(fn, x, mode, answer)
        /\ Direction = DirectionOf(fn, mode)
        /\ IntegerIn(Direction, Value(before.x)) <= IntegerIn(Direction, Value(x))
        /\ fn \in LongValued
    BY <1>2, <1>4 DEF Done
  <2>2. ret = IntegerIn(Direction, Value(x)) /\ before.ret = IntegerIn(Direction, Value(before.x))
    BY <1>4, <2>1, LongIs DEF answer
  <2> QED
    BY <2>1, <2>2
<1>5. RoundingInv => SecondCallFits
  BY <1>1, <1>3, <1>4 DEF SecondCallFits
<1> QED
  BY <1>5, SpecRoundingInv, PTL

-----------------------------------------------------------------------------
(* Types.                                                                  *)

FloatExceptions == {"invalid", "divbyzero", "overflow", "underflow", "inexact"}

\* What an answer may be, results of polynomials included.
Results == Patterns \cup {Kernel, MinusKernel}
Answers(values) == [ret : values, flags : SUBSET FloatExceptions]

\* The handlers keep the value they are given.
LEMMA AnswerTypes ==
    ASSUME NEW V
    PROVE  /\ \A v \in V : Silent(v) \in Answers(V)
           /\ \A v \in V : \A raise : Handled(v, raise) \in Answers(V)
           /\ \A raise : Exceptions(raise) \subseteq FloatExceptions
           /\ \A raise : \A a \in Answers(V) : After(Exceptions(raise), a) \in Answers(V)
<1>1. \A raise : Exceptions(raise) \subseteq FloatExceptions
  BY DEF Exceptions, FloatExceptions
<1>2. \A v \in V : Silent(v) \in Answers(V)
  BY DEF Silent, Answers
<1>3. \A v \in V : \A raise : Handled(v, raise) \in Answers(V)
  BY <1>1 DEF Handled, Answers
<1>4. ASSUME NEW raise, NEW a \in Answers(V)
      PROVE  After(Exceptions(raise), a) \in Answers(V)
  BY <1>1, <1>4 DEF After, Answers
<1> QED
  BY <1>1, <1>2, <1>3, <1>4

\* The values that the functions hand on are floats.
LEMMA ValueTypes ==
    ASSUME Thresholds
    PROVE  /\ {0, 1, POS_ONE, TWO, MINUS_ONE, EXPBITS, NEG_INF, QNANBITPATT, INDEFBITPATT} \subseteq Patterns
           /\ \A u \in Patterns : /\ SignOf(u) \in Patterns /\ SignOf(u) + POS_ONE \in Patterns
                                  /\ SignOf(u) + EXPBITS \in Patterns
                                  /\ EXPBITS + SignOf(u) \in Patterns
                                  /\ Magnitude(u) \in Patterns
                                  /\ ~Finite(u) => Quieted(u) \in Patterns
                                  /\ MadeNaN(u) \in Patterns
           /\ \A u \in Patterns : IsNaN(u) => ~Finite(u)
<1>1. {0, 1, POS_ONE, TWO, MINUS_ONE, EXPBITS, NEG_INF, QNANBITPATT, INDEFBITPATT} \subseteq Patterns
  BY Format DEF Thresholds, Patterns, TWO, MINUS_ONE, NEG_INF, QNANBITPATT, INDEFBITPATT
<1>2. \A u \in Patterns : /\ SignOf(u) \in {0, SIGNBIT}
                          /\ Magnitude(u) \in 0 .. SIGNBIT - 1
                          /\ u = SignOf(u) + Magnitude(u)
  BY Format DEF Patterns, SignOf, Magnitude, Negative
<1>3. POS_ONE \in Nat /\ POS_ONE < EXPBITS /\ SIGNBIT \in Patterns
  BY Format DEF Thresholds, Patterns
<1>4. ASSUME NEW u \in Patterns
      PROVE  /\ SignOf(u) \in Patterns /\ SignOf(u) + POS_ONE \in Patterns
             /\ SignOf(u) + EXPBITS \in Patterns
             /\ EXPBITS + SignOf(u) \in Patterns
             /\ Magnitude(u) \in Patterns
             /\ SignOf(u) + QNANBITPATT \in Patterns
  BY <1>2, <1>3, Format DEF Patterns, QNANBITPATT
<1>5. ASSUME NEW u \in Patterns, ~Finite(u) PROVE Quieted(u) \in Patterns
  <2>1. Magnitude(u) >= EXPBITS
    BY <1>2, <1>5, Format DEF Finite
  <2>2. CASE IsQuiet(u)
    BY <2>2 DEF Quieted
  <2>3. CASE ~IsQuiet(u)
    <3>1. Magnitude(u) + QNAN_MASK < SIGNBIT
      BY <1>2, <2>3, Format DEF IsQuiet
    <3>2. u + QNAN_MASK \in Patterns
      BY <1>2, <3>1, Format DEF Patterns
    <3> QED
      BY <2>3, <3>2 DEF Quieted
  <2> QED
    BY <2>2, <2>3
<1>6. \A u \in Patterns : MadeNaN(u) \in Patterns
  BY <1>4, <1>5 DEF MadeNaN
<1>7. ASSUME NEW u \in Patterns, IsNaN(u) PROVE ~Finite(u)
  BY <1>2, <1>7, Format DEF IsNaN, Finite
<1> QED
  BY <1>1, <1>4, <1>5, <1>6, <1>7

\* Every answer of an elementary function is a float or that of a polynomial.
LEMMA ElementaryType ==
    ASSUME Thresholds, NEW f \in ElementaryFunctions, NEW u \in Patterns
    PROVE  Answered(f, u) \in Answers(Patterns \cup {Kernel})
<1> DEFINE V == Patterns \cup {Kernel}
           W == Answers(V)
<1> SUFFICES Answered(f, u) \in W
  OBVIOUS
<1>1. /\ 0 \in V /\ 1 \in V /\ POS_ONE \in V /\ TWO \in V /\ MINUS_ONE \in V /\ EXPBITS \in V
      /\ NEG_INF \in V /\ QNANBITPATT \in V /\ INDEFBITPATT \in V /\ Kernel \in V /\ u \in V
      /\ SignOf(u) \in V /\ SignOf(u) + POS_ONE \in V /\ SignOf(u) + EXPBITS \in V
      /\ Magnitude(u) \in V /\ MadeNaN(u) \in V
      /\ ~Finite(u) => Quieted(u) \in V
      /\ IsNaN(u) => ~Finite(u)
  BY ValueTypes
<1>2. /\ \A v \in V : Silent(v) \in W
      /\ \A v \in V : \A raise : Handled(v, raise) \in W
  BY AnswerTypes
<1>after. \A raise : \A a \in W : After(Exceptions(raise), a) \in W
  BY AnswerTypes
<1> HIDE DEF V, W
<1>3. /\ \A v \in V : \A c : /\ alm_log_special(v, c) \in W /\ alm_logf_special(v, c) \in W
                         /\ alm_exp_special(v, c) \in W /\ alm_expm1_special(v, c) \in W
      /\ ~Finite(u) => /\ Ordered(u) \in W /\ Operated(u) \in W
                       /\ _sin_cos_special(u) \in W
      /\ Equated(u) \in W
      /\ alm_acos_special(u, ALM_E_OUT_NAN) \in W
      /\ ~Finite(u) => alm_acos_special(u, ALM_E_IN_X_NAN) \in W
      /\ IsQuietNaN(u) => IsNaN(u)
  <2>1. ALM_E_OUT_NAN # ALM_E_IN_X_NAN
    BY CodesDiffer
  <2> QED
    BY <1>1, <1>2, <2>1
       DEF alm_log_special, alm_logf_special, alm_exp_special, alm_expm1_special, Ordered, Operated,
           _sin_cos_special, Equated, alm_acos_special, IsQuietNaN
<1>flags. /\ \E r : Equated(u).flags = Exceptions(r)
          /\ \E r : Doubled(u) = Exceptions(r)
          /\ \A c : \E r : cbrt_special(u, c) = Exceptions(r)
  <2>1. \E r : Equated(u).flags = Exceptions(r)
    BY DEF Equated, Handled
  <2>2. \A c : \E r : cbrt_special(u, c) = Exceptions(r)
    BY DEF cbrt_special
  <2>3. \E r : Doubled(u) = Exceptions(r)
    BY <2>1 DEF Doubled
  <2> QED
    BY <2>1, <2>2, <2>3
<1>raised. \A a \in W : /\ After(Equated(u).flags, a) \in W
                       /\ After(Doubled(u), a) \in W
                       /\ \A c : After(cbrt_special(u, c), a) \in W
  <2> TAKE a \in W
  <2>1. PICK r : Equated(u).flags = Exceptions(r)
    BY ONLY <1>flags
  <2>2. PICK s : Doubled(u) = Exceptions(s)
    BY ONLY <1>flags
  <2>3. After(Exceptions(r), a) \in W /\ After(Exceptions(s), a) \in W
    BY ONLY <1>after, a \in W
  <2>4. ASSUME NEW c PROVE After(cbrt_special(u, c), a) \in W
    <3>1. PICK t : cbrt_special(u, c) = Exceptions(t)
      BY ONLY <1>flags
    <3>2. After(Exceptions(t), a) \in W
      BY ONLY <1>after, a \in W
    <3> QED
      BY ONLY <3>1, <3>2
  <2> QED
    BY ONLY <2>1, <2>2, <2>3, <2>4
<1>4. CASE f \in Logarithms
  <2>1. log(u) \in W /\ log10(u) \in W /\ log2(u) \in W
    BY ONLY <1>1, <1>2, <1>3, <1>raised DEF log, log10, log2, Logarithm
  <2>2. log1p(u) \in W /\ log1pf(u) \in W
    BY ONLY <1>1, <1>2, <1>3, <1>raised DEF log1p, log1pf
  <2>3. logf(u) \in W /\ log2f(u) \in W
    BY ONLY <1>1, <1>2, <1>3, <1>raised DEF logf, log2f
  <2>4. log10f(u) \in W
    BY ONLY <1>1, <1>2, <1>3, <1>raised DEF log10f
  <2> QED
    BY ONLY <1>4, <2>1, <2>2, <2>3, <2>4 DEF Logarithms, Answered
<1>5. CASE f \in Exponentials
  <2>1. exp(u) \in W /\ exp2(u) \in W
    BY ONLY <1>1, <1>2, <1>3 DEF exp, exp2
  <2>2. exp10(u) \in W /\ expm1(u) \in W
    BY ONLY <1>1, <1>2, <1>3, <1>raised DEF exp10, expm1
  <2>3. expf(u) \in W /\ exp2f(u) \in W
    BY ONLY <1>1, <1>2, <1>3 DEF expf, exp2f
  <2>4. exp10f(u) \in W /\ expm1f(u) \in W
    BY ONLY <1>1, <1>2, <1>3 DEF exp10f, expm1f
  <2> QED
    BY ONLY <1>5, <2>1, <2>2, <2>3, <2>4 DEF Exponentials, Answered
<1>6. CASE f \in Trigonometrics
  <2>1. /\ sin(u) \in W /\ cos(u) \in W /\ tan(u) \in W
        /\ sinf(u) \in W /\ cosf(u) \in W /\ tanf(u) \in W
    BY ONLY <1>1, <1>2, <1>3 DEF sin, cos, tan, sinf, cosf, tanf
  <2>2. /\ acos(u) \in W /\ asin(u) \in W /\ acosf(u) \in W
        /\ asinf(u) \in W
    BY ONLY <1>1, <1>2, <1>3 DEF acos, asin, acosf, asinf
  <2>3. atan(u) \in W /\ atanf(u) \in W
    BY ONLY <1>1, <1>2, <1>3 DEF atan, atanf
  <2> QED
    BY ONLY <1>6, <2>1, <2>2, <2>3 DEF Trigonometrics, Answered
<1>7. CASE f \in Hyperbolics
  <2>1. /\ sinh(u) \in W /\ cosh(u) \in W /\ tanh(u) \in W
        /\ sinhf(u) \in W /\ coshf(u) \in W /\ tanhf(u) \in W
    BY ONLY <1>1, <1>2, <1>3 DEF sinh, cosh, tanh, sinhf, coshf, tanhf
  <2>2. atanh(u) \in W /\ asinh(u) \in W
    BY ONLY <1>1, <1>2, <1>3 DEF atanh, asinh
  <2>3. atanhf(u) \in W /\ asinhf(u) \in W
    BY ONLY <2>2 DEF atanhf, asinhf
  <2>4. acosh(u) \in W /\ acoshf(u) \in W
    BY ONLY <1>1, <1>2, <1>3 DEF acosh, acoshf
  <2> QED
    BY ONLY <1>7, <2>1, <2>2, <2>3, <2>4 DEF Hyperbolics, Answered
<1>8. CASE f \in RootsAndErrors
  <2>1. IsInf(u) => ~Finite(u)
    BY Format DEF IsInf, Finite
  <2>2. cbrt(u) \in W
    BY ONLY <1>1, <1>2, <1>3, <1>raised, <1>after, <2>1 DEF cbrt
  <2>3. cbrtf(u) \in W
    <3>1. Silent(u) \in W /\ Silent(0) \in W /\ Silent(Kernel) \in W
      BY ONLY <1>1, <1>2
    <3>2. IsNaN(u) => Operated(u) \in W
      BY ONLY <1>1, <1>3
    <3>3. After(Exceptions({AMD_F_OVERFLOW}), Silent(u)) \in W
      BY ONLY <1>after, <3>1
    <3>4. IsNaN(u) => After(Exceptions({AMD_F_INVALID}), Operated(u)) \in W
      BY ONLY <1>after, <3>2
    <3> QED
      BY ONLY <3>1, <3>3, <3>4 DEF cbrtf
  <2>4. erf(u) \in W /\ erff(u) \in W /\ erfc(u) \in W
        /\ erfcf(u) \in W
    BY ONLY <1>1, <1>2, <1>3 DEF erf, erff, erfc, erfcf
  <2> QED
    BY ONLY <1>8, <2>2, <2>3, <2>4 DEF RootsAndErrors, Answered
<1> QED
  BY ONLY <1>4, <1>5, <1>6, <1>7, <1>8, f \in ElementaryFunctions, FunctionNames

\* So is every answer of a power, where a polynomial may give a negative number.
LEMMA PowerType ==
    ASSUME Thresholds, NEW u \in Patterns, NEW t \in Patterns
    PROVE  pow(u, t) \in Answers(Results) /\ powf(u, t) \in Answers(Results)
<1>1. /\ {0, POS_ONE, EXPBITS, INDEFBITPATT, Kernel, MinusKernel} \subseteq Results
      /\ result_sign(u, t) \in Results /\ EXPBITS + result_sign(u, t) \in Results
      /\ IsNaN(u) => Quieted(u) \in Results
      /\ IsNaN(t) => Quieted(t) \in Results
      /\ IsNaN(u) <=> IsNaN(u) /\ ~Finite(u)
  <2>1. Patterns \subseteq Results /\ {Kernel, MinusKernel} \subseteq Results
    BY DEF Results
  <2>2. {0, POS_ONE, EXPBITS, INDEFBITPATT, EXPBITS + SIGNBIT, SIGNBIT} \subseteq Patterns
    BY ValueTypes, Format DEF NEG_INF, Patterns
  <2>3. result_sign(u, t) \in {0, SIGNBIT} /\ EXPBITS + 0 = EXPBITS
    BY Format DEF result_sign
  <2> QED
    BY <2>1, <2>2, <2>3, ValueTypes
<1>2. /\ \A v \in Results : Silent(v) \in Answers(Results)
      /\ \A v \in Results : \A raise : Handled(v, raise) \in Answers(Results)
      /\ \A v \in Results : \A raise : [ret |-> v, flags |-> Exceptions(raise)] \in Answers(Results)
  BY AnswerTypes DEF Handled
<1>3. IsNaN(u) \/ IsNaN(t) => AddNaN(u, t) \in Answers(Results)
  BY <1>1, <1>2 DEF AddNaN
<1>4. IsNaN(u) => AddNaN(u, u) \in Answers(Results)
  BY <1>1, <1>2 DEF AddNaN
<1>5. checkzeroinfnan(t) => SpecialExponent(u, t) \in Answers(Results)
  <2>1. (IsSignalling(u) => IsNaN(u)) /\ (IsSignalling(t) => IsNaN(t))
    BY DEF IsSignalling
  <2> QED
    BY <1>1, <1>2, <1>3, <2>1 DEF SpecialExponent
<1>6. \A raise : SpecialBase(u, t, Exceptions(raise)) \in Answers(Results)
  BY <1>1, <1>2, <1>4 DEF SpecialBase
<1>7. \E raise : alm_pow_special(0, POW_X_ZERO_Z_INF).flags = Exceptions(raise)
  BY DEF alm_pow_special, Handled
<1>8. ExtremeExponent(u, t) \in Answers(Results)
  BY <1>1, <1>2 DEF ExtremeExponent, alm_pow_special
<1>9. NotReal \in Answers(Results) /\ Signed(u, t) \in Answers(Results)
      /\ Silent(Kernel) \in Answers(Results)
  BY <1>1, <1>2 DEF NotReal, Signed
<1>10. pow(u, t) \in Answers(Results)
  BY ONLY <1>5, <1>6, <1>7, <1>8, <1>9 DEF pow
<1>11. powf(u, t) \in Answers(Results)
  BY ONLY <1>5, <1>6, <1>8, <1>9 DEF powf
<1> QED
  BY <1>10, <1>11

\* So is every lane of a vector function.
LEMMA LaneType ==
    ASSUME Thresholds, NEW v \in LaneFunctions, NEW u \in Patterns, NEW t \in Patterns
    PROVE  LaneAnswer(v, u, t) \in Answers(Patterns \cup {Kernel, Poly})
<1> DEFINE V == Patterns \cup {Kernel, Poly}
           f == VectorFunctions[v].scalar
           g == VectorFunctions[v].guard
<1>1. f \in ElementaryFunctions /\ "erf" \in ElementaryFunctions /\ "expf" \in ElementaryFunctions
  BY GuardType, FunctionNames
     DEF Guards, LaneFunctions, Logarithms, Exponentials, Trigonometrics, Hyperbolics, RootsAndErrors
<1>2. Answered(f, u) \in Answers(V) /\ Answered("erf", u) \in Answers(V)
  BY <1>1, ElementaryType DEF Answers
<1>3. /\ {0, TWO, EXPBITS, INDEFBITPATT, Poly} \subseteq V /\ SignOf(u) + POS_ONE \in V
      /\ IsNaN(u) => Quieted(u) \in V
      /\ ~Finite(u) => Quieted(u) \in V
  BY ValueTypes
<1>4. /\ \A z \in V : Silent(z) \in Answers(V)
      /\ \A z \in V : \A raise : Handled(z, raise) \in Answers(V)
  BY AnswerTypes
<1> HIDE DEF V, f, g
<1>5. Polynomial(u) \in Answers(V)
  BY <1>3, <1>4 DEF Polynomial
<1>6. \A s : Fallback(f, u, s) \in Answers(V)
  BY <1>2, <1>5 DEF Fallback
<1>7. Halves(f, u, t) \in Answers(V) /\ Masked(u, t) \in Answers(V) /\ Unguarded(f, u) \in Answers(V)
  BY <1>3, <1>4, <1>5, <1>6 DEF Halves, Masked, Unguarded
<1>8. ErfLane(u, t) \in Answers(V)
  BY <1>2, <1>3, <1>4 DEF ErfLane
<1>9. ErfcLane(f, u, t) \in Answers(V)
  <2>1. ~Finite(u) => Operated(u) \in Answers(V)
    BY <1>3, <1>4 DEF Operated
  <2> QED
    BY <1>2, <1>3, <1>4, <2>1 DEF ErfcLane
<1>10. g \in {"large", "normal", "infinity", "flat", "one", "unusual", "halves", "masked", "none",
              "erf", "erfc"}
  BY GuardType DEF g, Guards, LaneFunctions
<1> QED
  BY <1>6, <1>7, <1>8, <1>9, <1>10 DEF LaneAnswer, f, g, V

\* The flags of the functions that round are those of the format.
LEMMA RoundingFlags ==
    ASSUME NEW f \in RoundingFunctions, NEW u, NEW m, NEW a, GivesRounded(f, u, m, a)
    PROVE  a.flags \subseteq FloatExceptions
<1>1. Quiet(u).flags \subseteq FloatExceptions /\ (\A c : Raised(c) \subseteq FloatExceptions)
  BY DEF Quiet, Answer, Raised, FloatExceptions
<1>2. ShiftRaises(m, u) \subseteq FloatExceptions /\ NearestLong(u, m).flags \subseteq FloatExceptions
  BY <1>1 DEF ShiftRaises, NearestLong, Answer
<1>3. ToLong(u).flags \subseteq FloatExceptions
  BY DEF ToLong, Answer, FloatExceptions
<1>4. CASE f \in {"ceil", "floor", "trunc", "round"}
  BY <1>1, <1>4 DEF GivesRounded, Same, ceil, floor, trunc, round, Answer, FloatExceptions
<1>5. CASE f \in {"rint", "nearbyint"}
  BY <1>1, <1>2, <1>5 DEF GivesRounded, Same, rint, nearbyint, Answer
<1>6. CASE f \in {"vrd2_round", "vrs4_roundf"}
  BY <1>1, <1>6
     DEF GivesRounded, Same, vrd2_round, vrs4_roundf, RoundedLane, Answer, FloatExceptions
<1>7. CASE f = "modf"
  BY <1>1, <1>7 DEF GivesRounded, Same, modf, Answer
<1>8. CASE f = "lrint"
  BY <1>2, <1>3, <1>8 DEF GivesRounded, Same, lrint, Answer
<1>9. CASE f \in {"lround", "lroundf"}
  BY <1>2, <1>9 DEF GivesRounded, Same, lround, lroundf, Answer, FloatExceptions
<1> QED
  BY <1>4, <1>5, <1>6, <1>7, <1>8, <1>9 DEF RoundingFunctions, IntegralValued, LongValued

\* They return floats, and numbers of a long int.
LEMMA RoundingType ==
    ASSUME NEW f \in RoundingFunctions, NEW u \in Patterns, NEW m \in Modes, NEW a,
           GivesRounded(f, u, m, a)
    PROVE  /\ f \in LongValued => a.ret \in Longs
           /\ f \notin LongValued => a.ret \in Patterns
<1>1. LONG_MIN \in Longs
  <2>1. pow2[LONGBITS - 1] \in Nat \ {0}
    BY LongAssumption, SizeAssumption, Pow2Type
  <2> QED
    BY <2>1 DEF Longs, LONG_MIN
<1>2. CASE f \in IntegralValued
  BY <1>2, IntegralType, RoundingGroups
<1>3. CASE f = "modf"
  <2>1. CASE Finite(u)
    BY <1>3, <2>1, ModfIs DEF GivesRounded, Same, LongValued
  <2>2. CASE ~Finite(u)
    <3>1. Magnitude(u) >= TWOPOW_M1
      <4>1. TWOPOW_M1 < EXPBITS /\ TWOPOW_M1 \in Int /\ Magnitude(u) \in Int
        BY OneIs, Fields DEF Patterns, Finite
      <4> QED
        BY <2>2, <4>1, Format DEF Finite
    <3>2. Quiet(u).ret \in Patterns /\ SignOf(u) \in Patterns
      BY Format DEF Quiet, Answer, Quieted, IsQuiet, IsSignalling, IsNaN, Patterns, Magnitude,
         Negative, SignOf
    <3>3. modf(u, m).ret \in Patterns
      BY <3>1, <3>2 DEF modf, Answer
    <3> QED
      BY <1>3, <3>3 DEF GivesRounded, Same, LongValued
  <2> QED
    BY <2>1, <2>2
<1>4. CASE f = "lrint"
  <2>1. CASE Finite(u)
    BY <1>4, <2>1, LrintIs DEF GivesRounded, Same, LongValued
  <2>2. CASE ~Finite(u)
    <3>1. Magnitude(u) > TWOPOW_M
      <4>1. TWOPOW_M < EXPBITS /\ TWOPOW_M \in Int /\ Magnitude(u) \in Int
        BY OneIs, Fields DEF Patterns, Finite
      <4> QED
        BY <2>2, <4>1, Format DEF Finite
    <3>2. lrint(u, m).ret = LONG_MIN
      BY <2>2, <3>1 DEF lrint, ToLong, Answer
    <3> QED
      BY <1>1, <1>4, <3>2 DEF GivesRounded, Same, LongValued
  <2> QED
    BY <2>1, <2>2
<1>5. CASE f \in {"lround", "lroundf"}
  <2>1. CASE Finite(u)
    BY <1>5, <2>1, LroundIs DEF GivesRounded, Same, LongValued
  <2>2. CASE ~Finite(u)
    BY <1>1, <1>5, <2>2 DEF GivesRounded, Same, LongValued, lround, lroundf, Answer
  <2> QED
    BY <2>1, <2>2
<1> QED
  BY <1>2, <1>3, <1>4, <1>5 DEF RoundingFunctions, LongValued

\* The extremum of two floats and their difference are floats.
LEMMA ComparisonType ==
    ASSUME NEW u \in Patterns, NEW t \in Patterns
    PROVE  /\ fmax(u, t) \in Answers(Patterns) /\ fmin(u, t) \in Answers(Patterns)
           /\ vrda_fmax(u, t) \in Answers(Patterns) /\ vrda_fmin(u, t) \in Answers(Patterns)
           /\ \A m : fdim(u, t, m) \in Answers(Patterns)
<1>1. IsNaN(t) => Quieted(t) \in Patterns
  BY Format DEF Quieted, IsQuiet, IsNaN, Patterns, Magnitude, Negative
<1>2. IsNaN(u) => Quieted(u) \in Patterns
  BY Format DEF Quieted, IsQuiet, IsNaN, Patterns, Magnitude, Negative
<1>3. {"invalid"} \in SUBSET FloatExceptions /\ {} \in SUBSET FloatExceptions
      /\ {"inexact"} \in SUBSET FloatExceptions
  BY DEF FloatExceptions
<1>4. SpecialExtremum(u, t) \in Answers(Patterns)
  BY <1>1, <1>3 DEF SpecialExtremum, Answers
<1>5. fmax(u, t) \in Answers(Patterns) /\ fmin(u, t) \in Answers(Patterns)
  BY <1>3, <1>4 DEF fmax, fmin, Answers
<1>6. vrda_fmax(u, t) \in Answers(Patterns) /\ vrda_fmin(u, t) \in Answers(Patterns)
  BY <1>3 DEF vrda_fmax, vrda_fmin, Unordered, Answers
<1>7. ASSUME NEW m PROVE fdim(u, t, m) \in Answers(Patterns)
  <2>1. Quiet(u) \in Answers(Patterns)
    BY <1>2, <1>3 DEF Quiet, IsSignalling, Answer, Answers
  <2>2. Quiet(t) \in Answers(Patterns)
    BY <1>1, <1>3 DEF Quiet, IsSignalling, Answer, Answers
  <2>3. Difference(m, u, t) \in Patterns /\ 0 \in Patterns /\ EXPBITS \in Patterns
    <3>1. Negated(t) \in Patterns
      BY NegatedIs
    <3> QED
      BY <3>1, SumType, Format DEF Difference, Patterns
  <2>4. \A c : Raised(c) \in SUBSET FloatExceptions
    BY <1>3 DEF Raised
  <2> QED
    BY <1>3, <2>1, <2>2, <2>3, <2>4 DEF fdim, Answer, Answers
<1> QED
  BY <1>5, <1>6, <1>7

\* The exponent that a number has, or that a subnormal one would have.
LEMMA NormalizedType ==
    ASSUME NEW u \in Patterns, ~Negative(u), ~IsZero(u)
    PROVE  /\ Normalized(u) \in 1 - M .. pow2[E] - 1
           /\ IF ExponentField(u) > 0 THEN Normalized(u) = ExponentField(u)
              ELSE /\ Normalized(u) < 1
                   /\ Fraction(u) * pow2[1 - Normalized(u)] \in IMPBIT .. 2 * IMPBIT - 1
<1>1. /\ M \in Nat /\ E \in Nat /\ IMPBIT = pow2[M] /\ IMPBIT \in Nat \ {0}
      /\ pow2[E] = 2 * EXPBIAS + 2 /\ EXPBIAS \in Nat
      /\ ExponentField(u) \in 0 .. 2 * EXPBIAS + 1 /\ Fraction(u) \in 0 .. IMPBIT - 1
  BY SizeAssumption, Widths, Fields DEF IMPBIT
<1>2. CASE ExponentField(u) > 0
  <2>1. ExponentField(u) \in 1 - M .. pow2[E] - 1
    BY <1>1, <1>2
  <2> QED
    BY <1>2, <2>1 DEF Normalized
<1>3. CASE ~(ExponentField(u) > 0)
  <2> DEFINE f == Fraction(u)
             S == {j \in Nat : f * pow2[j] >= IMPBIT}
  <2>1. f \in 1 .. IMPBIT - 1
    <3>1. ExponentField(u) = 0 /\ ExponentField(Magnitude(u)) = 0 /\ Fraction(Magnitude(u)) = f
      BY <1>1, <1>3, Fields
    <3>2. Magnitude(u) = 0 * IMPBIT + f
      BY <3>1, Fields
    <3> QED
      BY <1>1, <3>2 DEF IsZero
  <2> HIDE DEF f
  <2>2. M \in S
    <3>1. f * IMPBIT >= IMPBIT
      BY <1>1, <2>1
    <3> QED
      BY <1>1, <3>1
  <2>3. PICK k \in S : k <= M /\ \A j \in 0 .. k - 1 : j \notin S
    <3>1. S \subseteq Nat
      OBVIOUS
    <3> HIDE DEF S
    <3> QED
      BY ONLY <2>2, <3>1, Least
  <2>4. k # 0
    <3>1. pow2[0] = 1
      BY Pow2Next
    <3>2. f * 1 = f
      BY <2>1
    <3> QED
      BY <1>1, <2>1, <2>3, <3>1, <3>2
  <2>5. /\ k \in Nat /\ k - 1 \in Nat /\ k - 1 \in 0 .. k - 1 /\ (k - 1) + 1 = k
        /\ 1 - (1 - k) = k /\ 1 - k \in 1 - M .. pow2[E] - 1 /\ 1 - k < 1
    BY <1>1, <2>3, <2>4
  <2>6. pow2[k] = 2 * pow2[k - 1] /\ pow2[k - 1] \in Nat
    BY <2>5, Pow2Next, Pow2Type
  <2>7. f * pow2[k - 1] < IMPBIT
    <3>1. ~(f * pow2[k - 1] >= IMPBIT)
      BY <2>3, <2>5
    <3> DEFINE p == pow2[k - 1]
    <3>2. p \in Nat
      BY <2>6
    <3> HIDE DEF p
    <3>3. f * p \in Nat
      BY <2>1, <3>2
    <3> QED
      BY <1>1, <3>1, <3>3 DEF p
  <2>8. f * pow2[k] \in IMPBIT .. 2 * IMPBIT - 1
    <3> DEFINE p == pow2[k - 1]
    <3>1. p \in Nat /\ pow2[k] = 2 * p /\ f * p < IMPBIT /\ f * pow2[k] >= IMPBIT
      BY <2>3, <2>6, <2>7
    <3> HIDE DEF p
    <3>2. f * (2 * p) = 2 * (f * p) /\ f * p \in Nat
      BY <2>1, <3>1
    <3> QED
      BY <1>1, <3>1, <3>2
  <2>9. f * pow2[1 - (1 - k)] \in IMPBIT .. 2 * IMPBIT - 1
    BY <2>5, <2>8
  <2>10. \E e \in 1 - M .. pow2[E] - 1 :
             IF ExponentField(u) > 0 THEN e = ExponentField(u)
             ELSE e < 1 /\ Fraction(u) * pow2[1 - e] \in IMPBIT .. 2 * IMPBIT - 1
    BY <1>3, <2>5, <2>9 DEF f
  <2> QED
    BY <2>10 DEF Normalized
<1> QED
  BY <1>2, <1>3

\* The head of a quotient, with its lowest bits cleared.
LEMMA IntHeadType == ASSUME NEW t \in Int PROVE IntHead(t) \in Int
<1> DEFINE p == M + 1 - SPLIT
           k == CHOOSE j \in 0 .. AbsValue(t) : /\ t < pow2[M + 1 - SPLIT + j]
                                                /\ j > 0 => t >= pow2[M - SPLIT + j]
<1>1. M \in Nat /\ SPLIT \in 1 .. M /\ p \in Nat
  BY SizeAssumption, ResidueAssumption
<1>2. \E j \in 0 .. AbsValue(t) : /\ t < pow2[M + 1 - SPLIT + j]
                                  /\ j > 0 => t >= pow2[M - SPLIT + j]
  <2>1. CASE t < 0
    <3>1. pow2[M + 1 - SPLIT + 0] \in Nat
      BY <1>1, Pow2Type
    <3>2. 0 \in 0 .. AbsValue(t) /\ t < pow2[M + 1 - SPLIT + 0] /\ ~(0 > 0)
      BY <2>1, <3>1 DEF AbsValue
    <3> QED
      BY <3>2
  <2>2. CASE t >= 0
    <3> DEFINE S == {j \in Nat : t < pow2[M + 1 - SPLIT + j]}
    <3>1. t \in S /\ AbsValue(t) = t
      <4>1. M + 1 - SPLIT + t \in Nat /\ M + 1 - SPLIT + t >= t
        BY <1>1, <2>2
      <4>2. pow2[M + 1 - SPLIT + t] \in Nat /\ pow2[M + 1 - SPLIT + t] > M + 1 - SPLIT + t
        BY <4>1, Pow2Type
      <4> QED
        BY <2>2, <4>1, <4>2 DEF AbsValue
    <3>2. PICK n \in S : n <= t /\ \A j \in 0 .. n - 1 : j \notin S
      <4>1. S \subseteq Nat
        OBVIOUS
      <4> HIDE DEF S
      <4> QED
        BY ONLY <3>1, <4>1, Least
    <3>3. ASSUME n > 0 PROVE t >= pow2[M - SPLIT + n]
      <4>1. n - 1 \in Nat /\ n - 1 \in 0 .. n - 1 /\ M + 1 - SPLIT + (n - 1) = M - SPLIT + n
            /\ M - SPLIT + n \in Nat
        BY <1>1, <3>2, <3>3
      <4>2. ~(t < pow2[M - SPLIT + n])
        BY <3>2, <4>1
      <4>3. pow2[M - SPLIT + n] \in Nat
        BY <4>1, Pow2Type
      <4> QED
        BY <4>2, <4>3
    <3>4. n \in 0 .. AbsValue(t) /\ t < pow2[M + 1 - SPLIT + n]
      BY <3>1, <3>2
    <3> QED
      BY <3>3, <3>4
  <2> QED
    BY <2>1, <2>2
<1>3. k \in 0 .. AbsValue(t)
  BY <1>2
<1>4. IntHead(t) = t - (t % pow2[k])
  BY DEF IntHead
<1> HIDE DEF k
<1>5. k \in Nat
  BY <1>3 DEF AbsValue
<1>6. pow2[k] \in Nat \ {0}
  BY <1>5, Pow2Type
<1>7. t % pow2[k] \in Int
  BY <1>6, Division
<1> QED
  BY <1>4, <1>7

\* What every round leaves is a number of units.
LEMMA SubtractedType ==
    ASSUME NEW a \in Int, NEW u \in Patterns, NEW t \in Int
    PROVE  /\ Dekker(a, u, t) \in Int /\ FmodSubtract(a, u, t) \in Int
           /\ \A b, c \in Int : Product(t, b, c) \in Int
<1> DEFINE n == Units(u)
           h == Head(u)
           g == IntHead(t)
<1>1. n \in Int /\ g \in Int
  BY UnitsBounds, IntHeadType
<1>2. h \in Int
  <2>1. pow2[SPLIT] \in Nat \ {0}
    BY ResidueAssumption, SizeAssumption, Pow2Type
  <2>2. u \in Nat /\ u % pow2[SPLIT] \in 0 .. u
    <3>1. u \in Nat
      BY DEF Patterns
    <3> DEFINE q == pow2[SPLIT]
    <3>2. q \in Nat \ {0}
      BY <2>1
    <3> HIDE DEF q
    <3> DEFINE d == u \div q
               r == u % q
    <3>3. u = q * d + r /\ r \in Nat /\ d \in Nat
      <4>1. u \in Int /\ u >= 0
        BY <3>1
      <4>2. u = q * (u \div q) + (u % q) /\ u % q \in 0 .. q - 1 /\ u \div q \in Nat
        BY ONLY <3>2, <4>1, Division
      <4> QED
        BY ONLY <3>2, <4>2
    <3> HIDE DEF d, r
    <3>4. q * d \in Nat
      BY ONLY <3>2, <3>3
    <3>5. r \in 0 .. u
      BY ONLY <3>1, <3>3, <3>4
    <3> QED
      BY <3>1, <3>5 DEF q, r
  <2>3. u - (u % pow2[SPLIT]) \in Patterns
    <3> DEFINE r == u % pow2[SPLIT]
    <3>1. r \in 0 .. u /\ u \in Nat
      BY <2>2
    <3> HIDE DEF r
    <3>2. u - r \in Patterns
      BY <3>1, Format DEF Patterns
    <3> QED
      BY <3>2 DEF r
  <2> QED
    BY <2>3, UnitsBounds DEF Head
<1>3. \A z \in Int : Nearest(z) \in Int
  BY NearestType
<1>4. \A b \in Int : \A c \in Int : \A d \in Int : Product(b, c, d) \in Int
  <2> TAKE b \in Int
  <2> TAKE c \in Int
  <2> TAKE d \in Int
  <2>1. b * c \in Int /\ b * c + d \in Int
    OBVIOUS
  <2>2. Nearest(b * c) \in Int /\ Nearest(b * c + d) \in Int
    BY ONLY <1>3, <2>1
  <2>3. Nearest(b * c) + d \in Int
    BY ONLY <2>2, d \in Int
  <2>4. Nearest(Nearest(b * c) + d) \in Int
    BY ONLY <1>3, <2>3
  <2> QED
    BY <2>2, <2>4 DEF Product
<1>5. \A c \in Int : Error(u, t, c) \in Int
  <2> TAKE c \in Int
  <2> DEFINE l == n - h
             k == t - g
  <2>1. l \in Int /\ k \in Int
    BY <1>1, <1>2
  <2>2. Error(u, t, c) = Product(l, k, Product(l, g, Product(h, k, c)))
    BY DEF Error
  <2> HIDE DEF l, k, h, g
  <2>3. Product(h, k, c) \in Int
    BY ONLY <1>2, <1>4, <2>1, c \in Int
  <2>4. Product(l, g, Product(h, k, c)) \in Int
    BY ONLY <1>1, <1>4, <2>1, <2>3
  <2>5. Product(l, k, Product(l, g, Product(h, k, c))) \in Int
    BY ONLY <1>4, <2>1, <2>4
  <2> QED
    BY <2>2, <2>5
<1>6. n * t \in Int /\ h * g \in Int
  <2> HIDE DEF n, h, g
  <2> QED
    BY <1>1, <1>2
<1>7. Nearest(n * t) \in Int
  BY <1>3, <1>6
<1>8. /\ Nearest(h * g - n * t) \in Int /\ Nearest(h * g - Nearest(n * t)) \in Int
      /\ h * g - n * t \in Int
  <2>1. h * g - n * t \in Int /\ h * g - Nearest(n * t) \in Int
    BY ONLY <1>6, <1>7
  <2> QED
    BY ONLY <1>3, <2>1
<1>9. FmodSubtract(a, u, t) \in Int
  <2> DEFINE c == Nearest(n * t)
             e == Error(u, t, Nearest(h * g - c))
             v == Nearest(a - c)
  <2>1. c \in Int /\ e \in Int
    BY <1>5, <1>7, <1>8
  <2>2. FmodSubtract(a, u, t) = Nearest(Nearest(Nearest(Nearest(a - v) - c) - e) + v)
    BY DEF FmodSubtract
  <2> HIDE DEF c, e
  <2>3. v \in Int
    BY <1>3, <2>1
  <2> HIDE DEF v
  <2>4. Nearest(a - v) \in Int
    BY <1>3, <2>3
  <2>5. Nearest(Nearest(a - v) - c) \in Int
    BY <1>3, <2>1, <2>4
  <2>6. Nearest(Nearest(Nearest(a - v) - c) - e) \in Int
    BY <1>3, <2>1, <2>5
  <2>7. Nearest(Nearest(Nearest(Nearest(a - v) - c) - e) + v) \in Int
    BY <1>3, <2>3, <2>6
  <2> QED
    BY <2>2, <2>7
<1>10. Dekker(a, u, t) \in Int
  <2> DEFINE c == Nearest(n * t)
             e == Error(u, t, IF contracted THEN Nearest(h * g - n * t) ELSE Nearest(h * g - c))
             Less(z) == IF contracted THEN Nearest(z - n * t) ELSE Nearest(z - c)
             v == Less(a)
  <2>1. c \in Int /\ e \in Int
    BY <1>5, <1>7, <1>8
  <2>2. Dekker(a, u, t) = Nearest(v + Nearest(Less(Nearest(a - v)) - e))
    BY DEF Dekker
  <2> HIDE DEF c, e
  <2>3. \A z \in Int : Less(z) \in Int
    <3> TAKE z \in Int
    <3>1. z - n * t \in Int /\ z - c \in Int
      BY ONLY <1>6, <2>1, z \in Int
    <3> QED
      BY <1>3, <3>1
  <2>4. v \in Int
    BY <2>3
  <2> HIDE DEF v, Less
  <2>5. Nearest(a - v) \in Int
    BY <1>3, <2>4
  <2>6. Nearest(Less(Nearest(a - v)) - e) \in Int
    BY <1>3, <2>1, <2>3, <2>5
  <2>7. Nearest(v + Nearest(Less(Nearest(a - v)) - e)) \in Int
    BY <1>3, <2>4, <2>6
  <2> QED
    BY <2>2, <2>7
<1> QED
  BY <1>4, <1>9, <1>10

Ints == -pow2[QUOBITS - 1] .. pow2[QUOBITS - 1] - 1

\* A division with remainder works on two numbers, the divisor not zero, and the multiple
\* that it takes away next is the divisor, shifted by the rounds that are to come.
DivisionInv ==
    /\ pc \in {"call", "reduce", "last", "done"}
    /\ contracted \in BOOLEAN /\ quo \in Nat /\ w \in Nat /\ adx \in Int /\ stored \in Ints
    /\ pc # "done" => ret = 0 /\ flags = {}
    /\ fn \in ResidueFunctions => x \in Patterns /\ ret \in Patterns /\ flags \subseteq FloatExceptions
    /\ pc \in {"reduce", "last"} => /\ fn \in ResidueFunctions /\ ~Exceptional /\ ax > ay
                                    /\ w = ay * pow2[Bits * quo]
    /\ pc = "reduce" <=> pc \in {"reduce", "last"} /\ quo > 0

\* The divisor of a division that is not exceptional.
LEMMA DivisorIs ==
    ASSUME y \in Patterns, ~Exceptional
    PROVE  ay \in Nat \ {0} /\ ~IsZero(y)
<1>1. ~IsZero(y)
  BY DEF Exceptional
<1>2. Units(y) \in Nat /\ Units(Magnitude(y)) = Units(y) /\ Value(y) # 0
      /\ Value(y) = IF Negative(y) THEN -Units(y) ELSE Units(y)
  BY <1>1, ValueIs
<1> QED
  BY <1>1, <1>2 DEF ay

\* What the division returns are floats.
LEMMA PatternTypes ==
    /\ \A v \in Int : /\ Pattern(v) \in Patterns /\ ZeroMinus(v) \in Patterns
                      /\ Flipped(v) \in Patterns
    /\ NewNaN \in Patterns /\ 0 \in Patterns /\ SignOf(x) \in Patterns
<1>1. \A v \in Int : Pattern(v) \in Patterns
  BY RoundedInType DEF Pattern
<1>2. ASSUME NEW v \in Int
      PROVE  ZeroMinus(v) \in Patterns /\ Flipped(v) \in Patterns
  <2>1. -v \in Int
    OBVIOUS
  <2>2. Negated(Pattern(v)) \in Patterns
    BY <1>1, NegatedIs
  <2> QED
    BY <1>1, <2>1, <2>2 DEF ZeroMinus, Flipped
<1>3. NewNaN \in Patterns /\ 0 \in Patterns /\ SignOf(x) \in Patterns
  BY Format DEF NewNaN, Patterns, SignOf
<1> QED
  BY <1>1, <1>2, <1>3

\* An int holds what remquo stores.
LEMMA StoredTypes ==
    /\ \A v \in Int : ToInt(v) \in Ints
    /\ 0 \in Ints /\ 1 \in Ints /\ qsgn \in Ints /\ qsgn \in Int
<1> DEFINE p == pow2[QUOBITS - 1]
<1>1. p \in Nat /\ p > 2 /\ pow2[QUOBITS] = 2 * p
  <2>1. QUOBITS - 1 \in Nat /\ (QUOBITS - 1) + 1 = QUOBITS /\ QUOBITS - 1 > 2
    BY ResidueAssumption
  <2> QED
    BY <2>1, Pow2Type, Pow2Next
<1>2. \A v \in Int : ToInt(v) = ((v + p) % (2 * p)) - p
  BY <1>1 DEF ToInt
<1>3. Ints = -p .. p - 1
  BY DEF Ints
<1> HIDE DEF p
<1>4. ASSUME NEW v \in Int PROVE ToInt(v) \in Ints
  <2> DEFINE a == v + p
             c == 2 * p
             r == a % c
  <2>1. a \in Int /\ c \in Nat \ {0}
    BY <1>1
  <2>2. ToInt(v) = r - p
    BY <1>2
  <2> HIDE DEF a
  <2>3. r \in 0 .. c - 1
    BY ONLY <2>1, Division
  <2> HIDE DEF r
  <2> QED
    BY <1>1, <1>3, <2>2, <2>3
<1>5. qsgn \in {-1, 1}
  BY DEF qsgn
<1> QED
  BY <1>1, <1>3, <1>4, <1>5

\* The bits of a round, and the precision of a quotient.
LEMMA RoundTypes == Bits \in Nat \ {0} /\ Precision \in Nat
BY ResidueAssumption, SizeAssumption DEF Bits, Precision

\* The multiple in a round.
LEMMA MultipleType ==
    ASSUME DivisionInv, y \in Patterns, pc \in {"reduce", "last"}
    PROVE  w \in Nat \ {0}
<1> DEFINE p == pow2[Bits * quo]
<1>1. ay \in Nat \ {0}
  BY DivisorIs DEF DivisionInv
<1>2. Bits * quo \in Nat
  <2> DEFINE b == Bits
  <2>1. b \in Nat /\ quo \in Nat
    BY RoundTypes DEF DivisionInv
  <2> HIDE DEF b
  <2>2. b * quo \in Nat
    BY <2>1
  <2> QED
    BY <2>2 DEF b
<1>3. p \in Nat \ {0}
  BY <1>2, Pow2Type
<1>4. w = ay * p
  BY DEF DivisionInv
<1> DEFINE a == ay
<1>5. w = a * p /\ a \in Nat \ {0}
  BY <1>1, <1>4
<1> HIDE DEF p, a
<1> QED
  BY <1>3, <1>5

\* What a round leaves.
LEMMA LeftType ==
    ASSUME DivisionInv, y \in Patterns, pc \in {"reduce", "last"}, NEW n \in Int
    PROVE  TruncatedQuotient(Precision, n, w) \in Int /\ Subtracted(TruncatedQuotient(Precision, adx, w)) \in Int
<1>1. w \in Nat \ {0} /\ adx \in Int /\ fn \in ResidueFunctions
  BY MultipleType DEF DivisionInv
<1>2. \A k \in Int : TruncatedQuotient(Precision, k, w) \in Int
  BY <1>1, RoundTypes, TruncatedType
<1> DEFINE t == TruncatedQuotient(Precision, adx, w)
<1>3. t \in Int
  BY <1>1, <1>2
<1> HIDE DEF t
<1>4. Subtracted(t) \in Int
  <2>1. Pattern(w) \in Patterns
    BY <1>1, PatternTypes
  <2>2. adx - t * w \in Int /\ -t \in Int
    <3>1. t * w \in Int
      BY ONLY <1>1, <1>3
    <3> QED
      BY ONLY <1>1, <1>3, <3>1
  <2>3. Product(-t, w, adx) \in Int
    <3>1. \A b, c \in Int : Product(-t, b, c) \in Int
      BY ONLY <2>1, <2>2, SubtractedType
    <3> QED
      BY <1>1, <3>1
  <2>4. Dekker(adx, Pattern(w), t) \in Int /\ FmodSubtract(adx, Pattern(w), t) \in Int
    BY <1>1, <1>3, <2>1, SubtractedType
  <2> QED
    BY <1>1, <2>2, <2>3, <2>4 DEF Subtracted, ResidueFunctions, InFloat
<1> QED
  BY <1>2, <1>4 DEF t

\* A division starts as it should.
LEMMA DivisionInvInit == ASSUME Init PROVE DivisionInv
<1>1. /\ pc = "call" /\ ret = 0 /\ flags = {}
      /\ adx = 0 /\ w = 0 /\ quo = 0 /\ stored = 0 /\ contracted \in BOOLEAN
  BY DEF Init, ResidueInit
<1>2. x \in Patterns
  BY ArgumentsAssumption DEF Init
<1>3. 0 \in Patterns /\ 0 \in Ints
  BY PatternTypes, StoredTypes
<1> QED
  BY <1>1, <1>2, <1>3 DEF DivisionInv

\* So it goes on, in every round.
LEMMA DivisionInvResidue ==
    ASSUME DivisionInv, CallInv, ResidueCall
    PROVE  DivisionInv'
<1>1. /\ fn \in ResidueFunctions /\ UNCHANGED <<fn, x, y, contracted>> /\ y \in Patterns
      /\ x \in Patterns /\ contracted \in BOOLEAN /\ quo \in Nat /\ w \in Nat /\ adx \in Int
      /\ stored \in Ints /\ ret \in Patterns /\ flags \subseteq FloatExceptions
  BY DEF ResidueCall, ResidueNext, DivisionInv, CallInv, PassNaN, Undefined, Equal, Smaller, FarApart,
         Setup, ProductOverflows, Reduce, LastFmod, LastRemainder, LastRemquo, Unstored
<1>2. {"invalid"} \subseteq FloatExceptions
  BY DEF FloatExceptions
<1>3. /\ Exceptional' = Exceptional /\ ax' = ax /\ ay' = ay /\ Bits' = Bits
      /\ ResidueFunctions' = ResidueFunctions
  BY <1>1 DEF Exceptional, ax, ay, Bits, InFloat, ResidueFunctions
<1>4. ax \in Nat
  BY <1>1, UnitsBounds DEF ax
<1>done. ASSUME NEW v \in Patterns, NEW r \in SUBSET FloatExceptions, Return(v, r),
                UNCHANGED <<adx, w, quo>>, stored' \in Ints
         PROVE  DivisionInv'
  BY <1>1, <1>done DEF Return, DivisionInv
<1>5. CASE PassNaN
  <2>1. IsNaN(IF IsNaN(x) THEN x ELSE y) /\ (IF IsNaN(x) THEN x ELSE y) \in Patterns
    BY <1>1, <1>5 DEF PassNaN, PassesNaN, ResidueFunctions
  <2>2. \A z \in Patterns : IsNaN(z) => Quieted(z) \in Patterns
    BY Format DEF Quieted, IsQuiet, IsNaN, Patterns, Magnitude, Negative
  <2>3. Quieted(IF IsNaN(x) THEN x ELSE y) \in Patterns
    BY <2>1, <2>2
  <2> QED
    BY <1>1, <1>2, <1>5, <1>done, <2>3 DEF PassNaN, Unstored
<1>6. CASE Undefined
  BY <1>1, <1>2, <1>6, <1>done, PatternTypes DEF Undefined, Unstored
<1>7. CASE Equal
  <2>1. stored' \in Ints
    BY <1>1, <1>7, StoredTypes DEF Equal, Stores
  <2> QED
    BY <1>1, <1>7, <1>done, <2>1, PatternTypes DEF Equal
<1>8. CASE Smaller
  <2>1. stored' \in Ints
    BY <1>1, <1>8, StoredTypes DEF Smaller, Stores
  <2>2. ay \in Nat
    BY <1>1, UnitsBounds DEF ay
  <2>3. PICK z \in {ax, ax - ay} :
            Return(CASE fn \in {"fmod", "fmodf"} -> x
                     [] fn = "remainder"         -> ZeroMinus(z)
                     [] fn = "remainderf"        -> IF IsZero(x) THEN x ELSE ZeroMinus(z)
                     [] fn = "remquo"            -> IF IsZero(x) THEN x ELSE Flipped(z), {})
    BY <1>8 DEF Smaller
  <2>4. z \in Int
    BY <1>4, <2>2, <2>3
  <2>5. ZeroMinus(z) \in Patterns /\ Flipped(z) \in Patterns
    BY <2>4, PatternTypes
  <2> QED
    BY <1>1, <1>8, <1>done, <2>1, <2>3, <2>5 DEF Smaller, ResidueFunctions
<1>9. CASE FarApart
  <2>1. ay \in Nat \ {0}
    BY <1>1, <1>9, DivisorIs DEF FarApart, Larger
  <2>2. fprem(ax, ay) \in Int
    BY <1>4, <2>1, Division DEF fprem
  <2>3. fprem1(ax, ay) \in Int
    <3> DEFINE n == NearestInteger(ax, ay)
               d == ay
               a == ax
    <3>1. n \in Nat /\ d \in Nat /\ a \in Nat
      BY <1>4, <2>1, NearestIs
    <3> HIDE DEF n, d, a
    <3>2. a - d * n \in Int
      BY <3>1
    <3> QED
      BY <3>2 DEF fprem1, n, d, a
  <2> QED
    BY <1>1, <1>9, <1>done, <2>2, <2>3, PatternTypes DEF FarApart, Unstored
<1>10. CASE Setup
  <2>1. Larger /\ ~Exceptional /\ ax > ay /\ ay \in Nat \ {0} /\ ax # 0
    BY <1>1, <1>4, <1>10, DivisorIs DEF Setup, Larger
  <2>2. diff_exp \in Int
    <3>1. \A u \in Patterns : /\ Magnitude(u) \in Patterns /\ ~Negative(Magnitude(u))
                              /\ IsZero(Magnitude(u)) <=> IsZero(u)
                              /\ ExponentField(Magnitude(u)) \in Int
      BY MagnitudeIs, Fields DEF IsZero
    <3>2. ~IsZero(x) /\ ~IsZero(y)
      <4>1. Value(x) # 0 /\ Value(y) # 0
        BY <1>1, <2>1, ValueIs DEF ax, ay
      <4> QED
        BY <1>1, <4>1, ValueIs
    <3>3. Normalized(Magnitude(x)) \in Int /\ Normalized(Magnitude(y)) \in Int
      BY <1>1, <3>1, <3>2, NormalizedType
    <3>4. Field(x) \in Int /\ Field(y) \in Int
      BY <1>1, <3>1, <3>3 DEF Field
    <3> QED
      BY <3>4 DEF diff_exp
  <2>3. quo' \in Nat
    <3> DEFINE b == Bits
               d == diff_exp
    <3>1. b \in Nat \ {0} /\ d \in Int
      BY <2>2, RoundTypes
    <3>2. quo' \in {0, d \div b} /\ (d <= 0 => quo' = 0)
      BY <1>10 DEF Setup
    <3> HIDE DEF b, d
    <3>3. d > 0 => d \div b \in Nat
      BY <3>1, Division
    <3> QED
      BY <3>1, <3>2, <3>3
  <2>4. /\ adx' = ax /\ w' = ay * pow2[Bits * quo']
        /\ pc' = IF quo' = 0 THEN "last" ELSE "reduce"
        /\ UNCHANGED <<ret, flags, stored>> /\ pc = "call"
    BY <1>10, <2>1 DEF Setup, Larger
  <2>5. w' \in Nat
    <3> DEFINE b == Bits
               q == quo'
               a == ay
               p == pow2[b * q]
    <3>1. b \in Nat /\ q \in Nat /\ a \in Nat
      BY <2>1, <2>3, RoundTypes
    <3>2. b * q \in Nat
      <4> HIDE DEF b, q
      <4> QED
        BY <3>1
    <3>3. p \in Nat
      BY <3>2, Pow2Type
    <3>4. w' = a * p
      BY <2>4
    <3> HIDE DEF a, p
    <3> QED
      BY <3>1, <3>3, <3>4
  <2> QED
    BY <1>1, <1>3, <1>4, <2>1, <2>3, <2>4, <2>5 DEF DivisionInv
<1>11. CASE Reduce
  <2>1. pc = "reduce" /\ quo > 0 /\ ~Exceptional /\ ax > ay /\ w = ay * pow2[Bits * quo]
        /\ ret = 0 /\ flags = {}
    BY <1>11 DEF Reduce, DivisionInv
  <2>2. adx' \in Int
    <3>1. PICK left \in {Subtracted(TruncatedQuotient(Precision, adx, w))} :
              adx' = IF fn = "remquo" /\ left < 0 THEN Nearest(left + w) ELSE left
      BY <1>11 DEF Reduce
    <3>2. left \in Int
      BY <1>1, <2>1, <3>1, LeftType
    <3>3. left + w \in Int
      BY <1>1, <3>2
    <3>4. Nearest(left + w) \in Int
      BY <3>3, NearestType
    <3> QED
      BY <3>1, <3>2, <3>4
  <2>3. /\ quo' = quo - 1 /\ quo' \in Nat /\ pc' = IF quo' = 0 THEN "last" ELSE "reduce"
        /\ UNCHANGED <<ret, flags, stored>>
    BY <1>1, <1>11, <2>1 DEF Reduce
  <2>4. w' \in Nat /\ w' = ay * pow2[Bits * quo']
    <3> DEFINE b == Bits
               a == ay
               p == pow2[b]
               r == pow2[b * (quo - 1)]
    <3>1. b \in Nat /\ a \in Nat /\ p \in Nat \ {0}
      BY <1>1, <2>1, RoundTypes, DivisorIs, Pow2Type
    <3>2. b * (quo - 1) \in Nat /\ b * quo = b * (quo - 1) + b
      <4> HIDE DEF b
      <4> QED
        BY <1>1, <2>1, <3>1
    <3>3. r \in Nat /\ pow2[b * quo] = r * p
      BY <3>1, <3>2, Pow2Sum, Pow2Type
    <3>4. w = a * (r * p) /\ w' = w \div p /\ w' = w \div pow2[Bits]
      BY <1>11, <2>1, <3>3 DEF Reduce
    <3>5. quo' = quo - 1
      BY <2>3
    <3> HIDE DEF a, p, r
    <3>6. a * r \in Nat /\ a * (r * p) = p * (a * r) + 0 /\ 0 \in 0 .. p - 1 /\ w \in Int
      BY <1>1, <3>1, <3>3
    <3>7. w \div p = a * r
      BY ONLY <3>1, <3>4, <3>6, DivisionUnique
    <3> QED
      BY <3>4, <3>5, <3>6, <3>7 DEF a, r
  <2> QED
    BY <1>1, <1>3, <2>1, <2>2, <2>3, <2>4 DEF DivisionInv
<1>12. CASE LastFmod
  <2>1. PICK left \in {Subtracted(TruncatedQuotient(Precision, adx, w))} :
            Return(ZeroMinus(IF fn = "fmod" /\ left < 0 THEN Nearest(left + ay) ELSE left), {})
    BY <1>12 DEF LastFmod
  <2>2. pc = "last"
    BY <1>12 DEF LastFmod
  <2>3. left \in Int /\ ay \in Int
    BY <1>1, <2>1, <2>2, LeftType, UnitsBounds DEF ay
  <2>4. left + ay \in Int
    BY <2>3
  <2>5. Nearest(left + ay) \in Int
    BY <2>4, NearestType
  <2>6. ZeroMinus(IF fn = "fmod" /\ left < 0 THEN Nearest(left + ay) ELSE left) \in Patterns
    BY <2>3, <2>5, PatternTypes
  <2> QED
    BY <1>1, <1>12, <1>done, <2>1, <2>6 DEF LastFmod, Unstored
<1>13. CASE LastRemainder
  <2>1. pc = "last" /\ Unstored
    BY <1>13 DEF LastRemainder
  <2> DEFINE left == Subtracted(TruncatedQuotient(Precision, adx, w))
  <2>2. PICK v \in {left, left - w} : Return(ZeroMinus(v), {})
    BY <1>13 DEF LastRemainder
  <2>3. left \in Int
    BY <1>1, <2>1, LeftType
  <2> HIDE DEF left
  <2>4. v \in Int
    BY <1>1, <2>2, <2>3
  <2>5. ZeroMinus(v) \in Patterns
    BY <2>4, PatternTypes
  <2> QED
    BY <1>1, <1>done, <2>1, <2>2, <2>5 DEF Unstored
<1>14. CASE LastRemquo
  <2> DEFINE temp == TruncatedQuotient(Precision, adx, w)
  <2>1. pc = "last" /\ UNCHANGED <<fn, x, y, contracted, adx, w, quo>>
    BY <1>14 DEF LastRemquo
  <2>2. temp \in Int /\ Subtracted(temp) \in Int
    BY <1>1, <2>1, LeftType
  <2> DEFINE low == temp % pow2[QUOBITS - 1]
  <2>3. low \in Int
    <3>1. pow2[QUOBITS - 1] \in Nat \ {0}
      BY ResidueAssumption, Pow2Type
    <3> QED
      BY <2>2, <3>1, Division
  <2>4. \E left \in {Subtracted(temp)}, back, up \in BOOLEAN :
            LET dx == IF back THEN Nearest(left + w) ELSE left
                l  == low - (IF back THEN 1 ELSE 0)
            IN  /\ Return(Flipped(IF up THEN dx - w ELSE dx), {})
                /\ stored' = ToInt(ToInt(IF up THEN l + 1 ELSE l) * qsgn)
    BY <1>14 DEF LastRemquo
  <2>5. PICK left \in {Subtracted(temp)}, back \in BOOLEAN, up \in BOOLEAN :
            LET dx == IF back THEN Nearest(left + w) ELSE left
                l  == low - (IF back THEN 1 ELSE 0)
            IN  /\ Return(Flipped(IF up THEN dx - w ELSE dx), {})
                /\ stored' = ToInt(ToInt(IF up THEN l + 1 ELSE l) * qsgn)
    BY <2>4
  <2> DEFINE dx == IF back THEN Nearest(left + w) ELSE left
             l  == low - (IF back THEN 1 ELSE 0)
             i  == ToInt(IF up THEN l + 1 ELSE l)
  <2>6. left \in Int
    BY <2>2, <2>5
  <2> HIDE DEF temp, low
  <2>7. dx \in Int
    <3>1. left + w \in Int
      BY <1>1, <2>6
    <3> QED
      BY <2>6, <3>1, NearestType
  <2>8. Flipped(IF up THEN dx - w ELSE dx) \in Patterns
    <3> HIDE DEF dx
    <3>1. (IF up THEN dx - w ELSE dx) \in Int
      BY <1>1, <2>7
    <3> QED
      BY <3>1, PatternTypes
  <2>9. stored' \in Ints
    <3>1. l \in Int
      BY <2>3
    <3> HIDE DEF l
    <3>2. (IF up THEN l + 1 ELSE l) \in Int
      BY <3>1
    <3>3. i \in Ints /\ Ints \subseteq Int /\ qsgn \in Int
      BY <3>2, StoredTypes DEF Ints
    <3>4. stored' = ToInt(i * qsgn)
      BY <2>5 DEF l
    <3> DEFINE s == qsgn
    <3>5. s \in Int
      BY <3>3
    <3> HIDE DEF i, s
    <3>6. i * s \in Int
      BY ONLY <3>3, <3>5
    <3> QED
      BY <3>4, <3>6, StoredTypes DEF s
  <2>10. Return(Flipped(IF up THEN dx - w ELSE dx), {})
    BY <2>5
  <2> HIDE DEF dx
  <2> QED
    BY <1>1, <1>done, <2>1, <2>8, <2>9, <2>10
<1>15. CASE ProductOverflows
  <2> DEFINE infinite == pc = "last" /\ fn = "remquo" /\ contracted
             low == TruncatedQuotient(Precision, adx, w) % pow2[QUOBITS - 1]
             largest == pow2[QUOBITS - 1] - 1
  <2>1. pc \in {"reduce", "last"} /\ UNCHANGED <<fn, x, y, contracted, adx, w, quo>>
    BY <1>15 DEF ProductOverflows
  <2>2. /\ IF infinite THEN Return(SignOf(x) + EXPBITS, {"overflow"})
           ELSE Return(NewNaN, {"overflow", "invalid"})
        /\ \E q \in {low + 1, low, 0, largest} : Stores(ToInt(ToInt(q) * qsgn))
    BY <1>15 DEF ProductOverflows
  <2>3. low \in Int /\ largest \in Int
    <3>1. pow2[QUOBITS - 1] \in Nat \ {0}
      BY ResidueAssumption, Pow2Type
    <3> DEFINE t == TruncatedQuotient(Precision, adx, w)
               p == pow2[QUOBITS - 1]
    <3>2. t \in Int
      BY <1>1, <2>1, LeftType
    <3> HIDE DEF t, p
    <3>3. t % p \in Int /\ p - 1 \in Int
      BY <3>1, <3>2, Division DEF p
    <3> QED
      BY <3>3 DEF t, p
  <2> HIDE DEF low, largest
  <2>4. PICK q \in {low + 1, low, 0, largest} : Stores(ToInt(ToInt(q) * qsgn))
    BY <2>2
  <2>5. ToInt(ToInt(q) * qsgn) \in Ints
    <3> DEFINE i == ToInt(q)
               s == qsgn
    <3>1. i \in Int /\ s \in Int
      BY <2>3, StoredTypes DEF Ints
    <3> HIDE DEF i, s
    <3>2. i * s \in Int
      BY ONLY <3>1
    <3> QED
      BY <3>2, StoredTypes DEF i, s
  <2>6. stored' \in Ints
    BY <1>1, <2>4, <2>5 DEF Stores
  <2>7. SignOf(x) + EXPBITS \in Patterns
    BY <1>1, Format DEF Patterns, SignOf, Negative
  <2>8. {"overflow"} \subseteq FloatExceptions /\ {"overflow", "invalid"} \subseteq FloatExceptions
    BY DEF FloatExceptions
  <2> QED
    BY <1>1, <1>done, <2>1, <2>2, <2>6, <2>7, <2>8, PatternTypes
<1> QED
  BY <1>5, <1>6, <1>7, <1>8, <1>9, <1>10, <1>11, <1>12, <1>13, <1>14, <1>15 DEF ResidueCall, ResidueNext

\* The other calls leave the division as it is.
LEMMA DivisionInvCall ==
    ASSUME DivisionInv, RoundingCall \/ ComparisonCall \/ ElementaryCall \/ PowerCall \/ LaneCall
    PROVE  DivisionInv'
<1>1. pc' = "done" /\ UNCHANGED <<fn, x, contracted, adx, w, quo, stored>>
  BY DEF RoundingCall, ComparisonCall, ElementaryCall, PowerCall, LaneCall, Call, Return, callVars,
         residueVars
<1>2. fn \notin ResidueFunctions
  BY GroupsDiffer, RoundingGroups
     DEF RoundingCall, ComparisonCall, ElementaryCall, PowerCall, LaneCall, Call, RoundingFunctions,
         IntegralValued, LongValued, ResidueFunctions
<1>3. ResidueFunctions' = ResidueFunctions
  BY DEF ResidueFunctions
<1> QED
  BY <1>1, <1>2, <1>3 DEF DivisionInv

\* A second call starts anew; that of a division is given what the first one returned.
LEMMA DivisionInvSecond ==
    ASSUME DivisionInv, CallInv, Elsewhere \/ OnResult \/ OnNext \/ Agreeing \/ Exchanged \/ Opposite
    PROVE  DivisionInv'
<1>1. /\ pc' = "call" /\ ret' = 0 /\ flags' = {} /\ adx' = 0 /\ w' = 0 /\ quo' = 0 /\ stored' = 0
      /\ contracted' = contracted
  BY DEF Elsewhere, OnResult, OnNext, Agreeing, Exchanged, Opposite, Second
<1>2. fn' \in ResidueFunctions => x' \in Patterns
  <2>1. CASE Elsewhere \/ OnNext \/ Exchanged \/ Opposite
    <3>1. fn' = fn /\ fn \in LaneFunctions \cup IntegralValued \cup LongValued \cup ComparisonFunctions
                         \cup ElementaryFunctions \cup PowerFunctions
      BY <2>1 DEF Elsewhere, OnNext, Exchanged, Opposite, Second
    <3>2. \A f \in ComparisonFunctions \cup PowerFunctions : f \notin ResidueFunctions
      BY DEF ComparisonFunctions, PowerFunctions, ResidueFunctions
    <3> QED
      BY <3>1, <3>2, GroupsDiffer, RoundingGroups DEF RoundingFunctions
  <2>2. CASE OnResult
    <3>1. CASE fn \in ResidueFunctions
      BY <2>2, <3>1, RoundingGroups DEF OnResult, Second, DivisionInv, RoundingFunctions
    <3>2. CASE fn \notin ResidueFunctions
      BY <2>2, <3>2, RoundingGroups DEF OnResult, Second, RoundingFunctions
    <3> QED
      BY <3>1, <3>2
  <2>3. CASE Agreeing
    <3>1. fn \in DOMAIN Counterpart /\ fn' = Counterpart[fn]
      BY <2>3 DEF Agreeing, Second
    <3>2. fn' \in {"rint", "round", "trunc", "powf"} \cup ElementaryFunctions
      BY <3>1, Counterparts DEF ElementaryFunctions
    <3> QED
      BY <3>2, GroupsDiffer DEF ResidueFunctions
  <2> QED
    BY <2>1, <2>2, <2>3
<1>3. 0 \in Patterns /\ 0 \in Ints /\ ResidueFunctions' = ResidueFunctions /\ contracted \in BOOLEAN
  BY PatternTypes, StoredTypes DEF ResidueFunctions, DivisionInv
<1> QED
  BY <1>1, <1>2, <1>3 DEF DivisionInv

\* Each division with remainder divides two numbers, and takes multiples of the divisor
\* away that end with the divisor itself.
THEOREM SpecDivisionInv == Spec => []DivisionInv
<1>1. Init => DivisionInv
  BY DivisionInvInit
<1>2. DivisionInv /\ CallInv /\ [Next]_vars => DivisionInv'
  <2>1. CASE UNCHANGED vars
    BY <2>1 DEF vars, residueVars, DivisionInv, Exceptional, ax, ay, Bits, InFloat
  <2> QED
    BY <2>1, DivisionInvResidue, DivisionInvCall, DivisionInvSecond DEF Next
<1>3. Spec => []CallInv
  BY SpecCallInv
<1> QED
  BY <1>1, <1>2, <1>3, PTL DEF Spec

\* The state has its types: floats stay below 2 * SIGNBIT and integers in a long int,
\* whatever is called on whatever result.
THEOREM SpecTypeOK == Spec => []TypeOK
<1>1. ASSUME DivisionInv, CallInv, RoundingInv PROVE TypeOK
  <2>1. /\ fn \in Functions /\ y \in Patterns /\ mode \in Modes
        /\ pc \in {"call", "reduce", "last", "done"}
        /\ contracted \in BOOLEAN /\ quo \in Nat /\ w \in Nat /\ adx \in Int
        /\ stored \in -pow2[QUOBITS - 1] .. pow2[QUOBITS - 1] - 1
        /\ relation \in {"first", "onResult", "onNext", "agreeing", "exchanged", "opposite",
                        "elsewhere"}
    BY <1>1 DEF CallInv, Related, DivisionInv, Ints
  <2>2. x \in Patterns
    BY <1>1, RoundingGroups DEF CallInv, RoundingInv, DivisionInv
  <2>3. 0 \in Patterns /\ 0 \in Longs /\ {} \subseteq FloatExceptions
    <3>1. pow2[LONGBITS - 1] \in Nat \ {0}
      BY LongAssumption, SizeAssumption, Pow2Type
    <3> QED
      BY <3>1, PatternTypes DEF Longs, LONG_MIN
  <2> DEFINE Given(values) == ret \in values /\ flags \subseteq FloatExceptions
  <2>4. ASSUME NEW values, NEW a \in Answers(values), Same(answer, a) PROVE Given(values)
    BY <2>4 DEF Answers, Same, answer
  <2>5. pc # "done" => Given(Patterns) /\ Given(Longs)
    BY <1>1, <2>3 DEF DivisionInv
  <2>6. CASE fn \in RoundingFunctions
    <3>1. pc = "done" => /\ flags \subseteq FloatExceptions
                         /\ fn \in LongValued => ret \in Longs
                         /\ fn \notin LongValued => ret \in Patterns
      BY <1>1, <2>1, <2>2, <2>6, RoundingFlags, RoundingType DEF RoundingInv, answer
    <3> QED
      BY <2>1, <2>2, <2>5, <2>6, <3>1, RoundingGroups
         DEF TypeOK, FloatExceptions
  <2>7. CASE fn \in ResidueFunctions
    <3>1. Given(Patterns)
      BY <1>1, <2>7 DEF DivisionInv
    <3> QED
      BY <2>1, <2>2, <2>7, <3>1, GroupsDiffer, RoundingGroups
         DEF TypeOK, FloatExceptions, PowerFunctions, ResidueFunctions, RoundingFunctions
  <2>8. CASE fn \in ComparisonFunctions
    <3>1. pc = "done" => Given(Patterns)
      <4>1. pc = "done" => Gives(fn, x, y, answer)
        BY <1>1 DEF CallInv
      <4>2. pc = "done" => \E a \in Answers(Patterns) : Same(answer, a)
        BY <2>1, <2>2, <2>8, <4>1, ComparisonType DEF Gives, ComparisonFunctions
      <4> QED
        BY <2>4, <4>2
    <3> QED
      BY <2>1, <2>2, <2>5, <2>8, <3>1, GroupsDiffer, RoundingGroups
         DEF TypeOK, FloatExceptions, PowerFunctions, ComparisonFunctions, RoundingFunctions
  <2>9. CASE fn \in ElementaryFunctions
    <3>1. pc = "done" => Given(Patterns \cup {Kernel})
      <4>1. pc = "done" => Same(answer, Answered(fn, x))
        BY <1>1, <2>9 DEF CallInv, Gives
      <4>2. Answered(fn, x) \in Answers(Patterns \cup {Kernel})
        BY <2>2, <2>9, ElementaryAssumption, ElementaryType
      <4> QED
        BY <2>4, <4>1, <4>2
    <3> QED
      BY <2>1, <2>2, <2>5, <2>9, <3>1, GroupsDiffer DEF TypeOK, FloatExceptions, RoundingFunctions
  <2>10. CASE fn \in PowerFunctions
    <3>1. pc = "done" => Given(Patterns \cup {Kernel, MinusKernel})
      <4>1. pc = "done" => Same(answer, pow(x, y)) \/ Same(answer, powf(x, y))
        BY <1>1, <2>10 DEF CallInv, Gives, PowerFunctions
      <4>2. pow(x, y) \in Answers(Results) /\ powf(x, y) \in Answers(Results)
        BY <2>1, <2>2, ElementaryAssumption, PowerType
      <4> QED
        BY <2>4, <4>1, <4>2 DEF Results
    <3> QED
      BY <2>1, <2>2, <2>5, <2>10, <3>1, GroupsDiffer, RoundingGroups
         DEF TypeOK, FloatExceptions, RoundingFunctions
  <2>11. CASE fn \in LaneFunctions
    <3>1. pc = "done" => Given(Patterns \cup {Kernel, Poly})
      <4>1. pc = "done" => Same(answer, LaneAnswer(fn, x, y))
        BY <1>1, <2>11 DEF CallInv, Gives
      <4>2. LaneAnswer(fn, x, y) \in Answers(Patterns \cup {Kernel, Poly})
        BY <2>1, <2>2, <2>11, ElementaryAssumption, LaneType
      <4> QED
        BY <2>4, <4>1, <4>2
    <3> QED
      BY <2>1, <2>2, <2>5, <2>11, <3>1, GroupsDiffer DEF TypeOK, FloatExceptions, RoundingFunctions
  <2> QED
    BY <2>1, <2>6, <2>7, <2>8, <2>9, <2>10, <2>11 DEF Functions
<1> QED
  BY <1>1, SpecCallInv, SpecRoundingInv, SpecDivisionInv, PTL

-----------------------------------------------------------------------------
(* Products that are computed exactly, fused or by Dekker's split.         *)

\* The heads of both factors leave half of their bits.
LEMMA SplitHalves ==
    /\ SplitsInHalf(SPLIT)
    /\ \A u : Head(u) = HeadOf(u, SPLIT)
    /\ \A t : IntHead(t) = IntHeadOf(t, SPLIT)
BY ResidueAssumption DEF SplitsInHalf, Head, HeadOf, IntHead, IntHeadOf

\* The error of the rounded product is found.
LEMMA ErrorIs ==
    ASSUME NEW u \in Patterns, ~Negative(u), Finite(u), NEW t \in Nat, t <= 2 * IMPBIT,
           contracted \/ t <= IMPBIT,
           NEW n \in Nat, n = Units(u) * t, Rounded(n, 1) # EXPBITS
    PROVE  /\ Error(u, t, Nearest(Head(u) * IntHead(t) - Nearest(n))) = n - Nearest(n)
           /\ Nearest(n - Nearest(n)) = n - Nearest(n)
<1> DEFINE h == Head(u)
           r == IntHead(t)
           l == Units(u) - h
           D == t - r
           c == Nearest(n)
<1>1. PICK i \in Nat, A \in Nat, B \in Nat :
         /\ A < pow2[M + 1 - SPLIT] /\ B < pow2[SPLIT]
         /\ h = A * pow2[SPLIT + i] /\ Units(u) = h + B * pow2[i]
  BY SplitHalves, HeadIs
<1>2. PICK k \in Nat, C \in Nat, d \in Nat :
         /\ C < pow2[M + 1 - SPLIT] /\ d < pow2[k]
         /\ r = C * pow2[k] /\ t = r + d
         /\ k <= SPLIT \/ (d = 0 /\ k = SPLIT + 1)
         /\ t <= IMPBIT => d = 0 \/ k < SPLIT
  BY SplitHalves, IntHeadIs
<1>3. h \in Nat /\ l = B * pow2[i] /\ l \in Nat /\ Units(u) = h + l
  <2>1. SPLIT + i \in Nat /\ SPLIT \in Nat
    BY SplitHalves, SplitIs
  <2>2. pow2[SPLIT + i] \in Nat /\ pow2[i] \in Nat
    BY ONLY <2>1, i \in Nat, Pow2Type
  <2>3. h \in Nat /\ B * pow2[i] \in Nat
    BY <1>1, <2>2
  <2> HIDE DEF h
  <2> QED
    BY <1>1, <2>3
<1>4. r \in Nat /\ D = d
  <2>1. pow2[k] \in Nat
    BY Pow2Type
  <2>2. r \in Nat
    BY <1>2, <2>1
  <2> HIDE DEF r
  <2> QED
    BY <1>2, <2>2
<1> DEFINE v == h * t + l * r
<1>5. v \in Nat
  <2> HIDE DEF h, l, r
  <2> QED
    BY <1>3, <1>4
<1>6. c \in Int
  BY NearestType
<1> HIDE DEF h, r, l, D, c, v
<1>7. /\ Nearest(h * r - Nearest(n)) = h * r - Nearest(n)
      /\ Nearest(h * t - Nearest(n)) = h * t - Nearest(n)
      /\ Nearest(v - Nearest(n)) = v - Nearest(n)
      /\ Nearest(n - Nearest(n)) = n - Nearest(n)
      /\ Nearest(h * d) = h * d /\ Nearest(l * r) = l * r
      /\ d = 0 \/ k < SPLIT => Nearest(l * d) = l * d
  <2>1. SplitProduct(SPLIT, i, k, A, B, C, d, h, l, r, t, n, v)
    BY <1>1, <1>2, <1>3, <1>4, <1>5, SplitHalves DEF v, SplitProduct
  <2> QED
    BY ONLY <2>1, DekkerExact
<1>8. ~contracted => Nearest(l * d) = l * d
  BY <1>2, <1>7
<1> DEFINE hr == h * r
           hd == h * d
           lr == l * r
           ld == l * d
<1>9. /\ hr \in Nat /\ hd \in Nat /\ lr \in Nat /\ ld \in Nat
      /\ h * t = hr + hd /\ v = hr + hd + lr /\ n = hr + hd + lr + ld
  <2>1. h * (r + d) = h * r + h * d /\ l * (r + d) = l * r + l * d
        /\ (h + l) * t = h * t + l * t
    BY <1>3, <1>4
  <2>2. hr \in Nat /\ hd \in Nat /\ lr \in Nat /\ ld \in Nat
    BY <1>3, <1>4
  <2>3. h * t = hr + hd /\ l * t = lr + ld /\ n = h * t + l * t /\ v = h * t + lr
    BY <1>2, <1>3, <2>1 DEF v
  <2> HIDE DEF hr, hd, lr, ld
  <2> QED
    BY <2>2, <2>3
<1>10. /\ Nearest(hr - c) = hr - c
       /\ Product(h, d, hr - c) = (hr + hd) - c
       /\ Product(l, r, (hr + hd) - c) = (hr + hd + lr) - c
       /\ Product(l, d, (hr + hd + lr) - c) = n - c
       /\ Nearest(n - c) = n - c
  <2>1. /\ Nearest(hr - c) = hr - c /\ Nearest(n - c) = n - c
        /\ Nearest(hd) = hd /\ Nearest(lr) = lr /\ (~contracted => Nearest(ld) = ld)
    BY <1>7, <1>8 DEF c
  <2>2. Nearest((hr + hd) - c) = (hr + hd) - c
    <3> DEFINE z == h * t
    <3>1. Nearest(z - c) = z - c
      BY <1>7 DEF c
    <3>2. z = hr + hd
      BY <1>9
    <3> HIDE DEF z, hr, hd
    <3> QED
      BY ONLY <3>1, <3>2
  <2>3. Nearest((hr + hd + lr) - c) = (hr + hd + lr) - c
    <3>1. Nearest(v - c) = v - c
      BY <1>7 DEF c
    <3>2. v = hr + hd + lr
      BY <1>9
    <3> HIDE DEF hr, hd, lr
    <3> QED
      BY ONLY <3>1, <3>2
  <2>4. /\ Product(h, d, hr - c) = IF contracted THEN Nearest(hd + (hr - c)) ELSE Nearest(Nearest(hd) + (hr - c))
        /\ Product(l, r, (hr + hd) - c) = IF contracted THEN Nearest(lr + ((hr + hd) - c))
                                        ELSE Nearest(Nearest(lr) + ((hr + hd) - c))
        /\ Product(l, d, (hr + hd + lr) - c) = IF contracted THEN Nearest(ld + ((hr + hd + lr) - c))
                                             ELSE Nearest(Nearest(ld) + ((hr + hd + lr) - c))
    BY DEF Product
  <2> HIDE DEF hr, hd, lr, ld
  <2>5. /\ hd + (hr - c) = (hr + hd) - c
        /\ lr + ((hr + hd) - c) = (hr + hd + lr) - c
        /\ ld + ((hr + hd + lr) - c) = n - c
    BY <1>6, <1>9
  <2> QED
    BY <2>1, <2>2, <2>3, <2>4, <2>5
<1>11. Error(u, t, Nearest(hr - c)) = Product(l, d, Product(l, r, Product(h, d, Nearest(hr - c))))
  BY <1>4 DEF Error, l, h, r, D
<1> QED
  BY <1>10, <1>11 DEF c, h, r

\* Both functions take the product away exactly.
LEMMA TakenExactly ==
    ASSUME NEW u \in Patterns, ~Negative(u), Finite(u), NEW d \in Nat \ {0}, d = Units(u),
           NEW t \in Nat, t <= 2 * IMPBIT, NEW a \in Nat, Aligned(a, d), Short(M + 1, a),
           NEW n \in Nat, n = d * t, Rounded(n, 1) # EXPBITS, -d < 2 * (a - n), a - n < d
    PROVE  /\ contracted => FmodSubtract(a, u, t) = a - n
           /\ ~contracted /\ t <= IMPBIT => Dekker(a, u, t) = a - n
<1> DEFINE c == Nearest(n)
           s == n - c
           v == a - c
           e == Error(u, t, Nearest(Head(u) * IntHead(t) - c))
<1>1. c \in Nat /\ Nearest(c) = c
  BY NearestTwice
<1>2. Nearest(a - c) = v
  BY CloseExact
<1>3. contracted \/ t <= IMPBIT => e = s /\ Nearest(s) = s
  BY ErrorIs
<1>4. Nearest(a - n) = a - n
  <2>1. Aligned(a - t * d, d)
    BY ONLY a \in Int, d \in Nat, t \in Int, Aligned(a, d), AlignedLeft
  <2>2. t * d = n
    OBVIOUS
  <2>3. a - n \in Int /\ d \in Nat /\ Aligned(a - n, d) /\ AbsValue(a - n) <= d
    BY <2>1, <2>2 DEF AbsValue
  <2> QED
    BY ONLY <2>3, AlignedExact
<1>5. Nearest(0) = 0
  BY NearestOdd
<1> HIDE DEF e
<1>6. /\ s \in Int /\ v \in Int /\ a - v = c /\ c - c = 0 /\ 0 - s = -s /\ v + (-s) = a - n
      /\ (-s) + v = a - n
  <2> HIDE DEF c
  <2> QED
    BY <1>1
<1> HIDE DEF s, v
<1>7. Nearest(s) = s => Nearest(0 - s) = -s
  BY <1>6, NearestOdd
<1>8. contracted => FmodSubtract(a, u, t) = a - n
  <2>1. SUFFICES ASSUME contracted PROVE FmodSubtract(a, u, t) = a - n
    OBVIOUS
  <2>2. FmodSubtract(a, u, t) = Nearest(Nearest(Nearest(Nearest(a - v) - c) - e) + v)
    BY <1>2 DEF FmodSubtract, c, e
  <2>3. e = s /\ Nearest(s) = s
    BY <1>3, <2>1
  <2>4. Nearest(Nearest(a - v) - c) = 0
    BY <1>1, <1>5, <1>6
  <2>5. Nearest(0 - e) = -s
    BY <1>7, <2>3
  <2> QED
    BY <1>4, <1>6, <2>2, <2>4, <2>5
<1>9. ~contracted /\ t <= IMPBIT => Dekker(a, u, t) = a - n
  <2>1. SUFFICES ASSUME ~contracted, t <= IMPBIT PROVE Dekker(a, u, t) = a - n
    OBVIOUS
  <2>2. Dekker(a, u, t) = Nearest(v + Nearest(Nearest(Nearest(a - v) - c) - e))
    BY <1>2, <2>1 DEF Dekker, c, e
  <2>3. e = s /\ Nearest(s) = s
    BY <1>3, <2>1
  <2>4. Nearest(Nearest(a - v) - c) = 0
    BY <1>1, <1>5, <1>6
  <2>5. Nearest(0 - e) = -s
    BY <1>7, <2>3
  <2> QED
    BY <1>4, <1>6, <2>2, <2>4, <2>5
<1> QED
  BY <1>8, <1>9

-----------------------------------------------------------------------------
(* What a division leaves between its rounds.                              *)

\* Where the leading bit of a number is, counted from the smallest subnormal.
Place(u) == Normalized(Magnitude(u)) - 1 + M

\* The leading bit of a number, subnormal or not.
LEMMA PlaceIs ==
    ASSUME NEW u \in Patterns, Finite(u), ~IsZero(u)
    PROVE  /\ Place(u) \in 0 .. 2 * EXPBIAS - 1 + M
           /\ Leading(Units(Magnitude(u)), Place(u))
           /\ ExponentField(Magnitude(u)) > 0 =>
                 Normalized(Magnitude(u)) = ExponentField(Magnitude(u))
<1> DEFINE v == Magnitude(u)
<1>1. /\ v \in Patterns /\ ~Negative(v) /\ Magnitude(v) = v /\ ~IsZero(v) /\ Finite(v)
  BY MagnitudeIs DEF IsZero, Finite
<1>2. /\ IMPBIT \in Nat \ {0} /\ EXPBIAS \in Nat /\ M \in Nat /\ BIASEDEMAX = 2 * EXPBIAS
      /\ IMPBIT = pow2[M]
  BY Widths, SizeAssumption DEF IMPBIT
<1> HIDE DEF v
<1>3. CASE ExponentField(v) > 0
  <2>1. Normalized(v) = ExponentField(v)
    BY <1>1, <1>3, NormalizedType
  <2>2. /\ Leading(Units(v), ExponentField(v) - 1 + M)
        /\ ExponentField(v) \in 1 .. 2 * EXPBIAS
    BY <1>1, <1>3, NormalLeading
  <2>3. ExponentField(v) - 1 + M \in 0 .. 2 * EXPBIAS - 1 + M
    BY <1>2, <2>2
  <2> QED
    BY <2>1, <2>2, <2>3 DEF Place, v
<1>4. CASE ~(ExponentField(v) > 0)
  <2> DEFINE e == Normalized(v)
             f == Fraction(v)
             p == pow2[1 - e]
             k == e - 1 + M
             q == pow2[k]
             g == f * p
  <2>1. e \in 1 - M .. 0 /\ g \in IMPBIT .. 2 * IMPBIT - 1
    <3>1. e \in 1 - M .. pow2[E] - 1 /\ e < 1 /\ g \in IMPBIT .. 2 * IMPBIT - 1
      BY <1>1, <1>4, NormalizedType
    <3> HIDE DEF e, g
    <3>2. pow2[E] \in Nat
      BY SizeAssumption, Pow2Type
    <3> QED
      BY <1>2, <3>1, <3>2
  <2>2. Units(v) = f /\ f \in Nat
    <3>1. ExponentField(v) = 0 /\ f \in 0 .. IMPBIT - 1
      BY <1>1, <1>4, Fields
    <3> QED
      BY <1>1, <1>2, <3>1, UnitsBounds
  <2> HIDE DEF e, f
  <2>3. k \in Nat /\ 1 - e \in Nat /\ (1 - e) + k = M
    BY <1>2, <2>1
  <2>4. IMPBIT = p * q /\ p \in Nat /\ q \in Nat
    <3>1. pow2[(1 - e) + k] = p * q
      BY <2>3, Pow2Sum
    <3> QED
      BY <1>2, <2>3, <3>1, Pow2Type
  <2>5. f * IMPBIT = g * q
    <3> HIDE DEF p, q
    <3>1. f * (p * q) = (f * p) * q
      BY <2>2, <2>4
    <3> QED
      BY <2>4, <3>1
  <2> HIDE DEF g
  <2>6. Leading(Units(v), k)
    BY <2>1, <2>2, <2>5 DEF Leading
  <2>7. k \in 0 .. 2 * EXPBIAS - 1 + M
    <3>1. EXPBIAS >= 3
      BY Widths
    <3> QED
      BY <1>2, <2>1, <2>3, <3>1
  <2> QED
    BY <1>4, <2>6, <2>7 DEF Place, v, e
<1> QED
  BY <1>3, <1>4

\* The exponents tell how far the leading bits are apart.
Normal == fn = "remainder" => ExponentField(Magnitude(y)) > 0

\* The rounds take exact multiples away.
Sharp == (fn = "remquo" => ~contracted) /\ Normal

\* What is left of |x| is congruent to it, on the grid of w, and below the multiples
\* that the rounds to come can take away; a rest of remainder may be negative.
Rest(a, v, q) ==
    /\ \E k \in Nat : ax = a + k * (v * pow2[Bits])
    /\ \E b \in 1 .. M + 1 : /\ a < v * pow2[b]
                             /\ fn # "fmod" => b <= Bits
                             /\ fn = "remainder" => b + Bits * q <= M + 1
    /\ Aligned(a, v) /\ Short(M + 1, AbsValue(a))
    /\ IF fn = "remainder" THEN 2 * a > -ay ELSE a >= 0
    /\ fn = "fmod" => q = 0 /\ a = ax

\* Only remquo is built in two ways, and between the rounds there is a rest.
RestInv == /\ fn # "remquo" => contracted
           /\ (pc \in {"reduce", "last"} /\ Sharp) => Rest(adx, w, quo)

\* What a round leaves, computed exactly.
LEMMA RoundLeaves ==
    ASSUME DivisionInv, RestInv, y \in Patterns, pc \in {"reduce", "last"}, Sharp
    PROVE  LET t == TruncatedQuotient(Precision, adx, w)
           IN  /\ t \in Nat /\ adx - t * w \in -w .. w - 1 /\ Aligned(adx - t * w, w)
               /\ 2 * (adx - t * w) > -w
               /\ fn = "remainder" => 2 * (adx - t * w) > -ay
               /\ InFloat => adx - t * w = adx % w
               /\ adx >= 0 => /\ t \in {adx \div w, adx \div w + 1} /\ t <= 2 * IMPBIT
                              /\ adx - t * w \in {adx % w, (adx % w) - w}
<1> DEFINE s == TruncatedQuotient(Precision, adx, w)
<1> SUFFICES ASSUME NEW t, t = s
             PROVE  /\ t \in Nat /\ adx - t * w \in -w .. w - 1 /\ Aligned(adx - t * w, w)
                    /\ 2 * (adx - t * w) > -w
                    /\ fn = "remainder" => 2 * (adx - t * w) > -ay
                    /\ InFloat => adx - t * w = adx % w
                    /\ adx >= 0 => /\ t \in {adx \div w, adx \div w + 1} /\ t <= 2 * IMPBIT
                                   /\ adx - t * w \in {adx % w, (adx % w) - w}
  OBVIOUS
<1>1. /\ w \in Nat \ {0} /\ adx \in Int /\ fn \in ResidueFunctions /\ ~Exceptional
      /\ w = ay * pow2[Bits * quo] /\ quo \in Nat /\ contracted \in BOOLEAN
  BY MultipleType DEF DivisionInv
<1>2. ay \in Nat \ {0} /\ Bits \in Nat \ {0} /\ Precision \in Nat /\ M \in Nat
  BY <1>1, DivisorIs, RoundTypes, SizeAssumption
<1>3. PICK b \in 1 .. M + 1 : /\ adx < w * pow2[b]
                              /\ fn # "fmod" => b <= Bits
                              /\ fn = "remainder" => b + Bits * quo <= M + 1
  BY DEF RestInv, Rest
<1>4. /\ Aligned(adx, w) /\ Short(M + 1, AbsValue(adx))
      /\ IF fn = "remainder" THEN 2 * adx > -ay ELSE adx >= 0
  BY DEF RestInv, Rest
<1> DEFINE j == Bits * quo
<1>5. j \in Nat
  <2> DEFINE c == Bits
  <2>1. c \in Nat /\ quo \in Nat
    BY <1>1, <1>2
  <2> HIDE DEF c
  <2>2. c * quo \in Nat
    BY <2>1
  <2> QED
    BY <2>2 DEF c
<1>6. CASE adx < 0
  <2>1. fn = "remainder" /\ Precision = M + 1 /\ 2 * (-adx) < ay /\ -adx \in Nat
    BY <1>1, <1>2, <1>4, <1>6 DEF Precision, InFloat
  <2>2. 2 * (-adx) < w
    <3> DEFINE u == pow2[j]
               a == ay
    <3>1. u \in Nat \ {0} /\ w = a * u /\ a \in Nat /\ 2 * (-adx) < a
      BY <1>1, <1>2, <1>5, <2>1, Pow2Type
    <3> HIDE DEF u, a
    <3>2. a * 1 <= a * u /\ a * u \in Nat
      BY <3>1, Times
    <3> QED
      BY <1>1, <3>1, <3>2
  <2>3. QuotientOf(M + 1, -adx, w) = 0
    <3>1. M + 1 \in Nat \ {0}
      BY <1>2
    <3> QED
      BY <1>1, <2>1, <2>2, <3>1, SmallQuotient
  <2>4. t = 0
    BY <1>6, <2>1, <2>3 DEF TruncatedQuotient
  <2>5. adx - t * w = adx
    BY <1>1, <2>4
  <2> QED
    BY <1>1, <1>2, <1>4, <1>6, <2>1, <2>2, <2>4, <2>5 DEF InFloat
<1>7. CASE adx >= 0 /\ InFloat
  <2>1. t = QuotientOf(WIDE, adx, w) /\ adx \in Nat /\ fn # "remainder"
    BY <1>1, <1>7 DEF TruncatedQuotient, Precision, InFloat
  <2>2. WIDE \in Nat /\ WIDE > 2 * M + 2 /\ b \in Nat /\ b <= M + 1 /\ w \in Nat \ {0}
    BY <1>1, <1>2, ResidueAssumption
  <2>3. t = adx \div w
    BY <1>3, <1>4, <2>1, <2>2, WideQuotient
  <2> DEFINE q == adx \div w
             r == adx % w
  <2>4. q \in Nat /\ r \in 0 .. w - 1 /\ adx = w * q + r
    <3>1. adx \in Int /\ adx >= 0
      BY <2>1
    <3> QED
      BY ONLY <2>2, <3>1, Division
  <2>5. Aligned(adx - t * w, w)
    <3>1. t \in Int
      BY <2>3, <2>4
    <3> QED
      BY <1>1, <1>4, <2>2, <3>1, AlignedLeft
  <2>6. q < pow2[b] /\ pow2[b] \in Nat /\ pow2[b] <= 2 * IMPBIT
    <3>1. pow2[b] \in Nat /\ pow2[b] <= pow2[M + 1]
      <4>1. M + 1 \in Nat
        BY <1>2
      <4> QED
        BY <2>2, <4>1, Pow2Grows, Pow2Type
    <3>2. pow2[M + 1] = 2 * IMPBIT
      BY <1>2, Pow2Next DEF IMPBIT
    <3> HIDE DEF q, r
    <3>3. w * q < w * pow2[b]
      <4>1. w * q \in Nat /\ w * q <= adx
        BY <1>1, <2>4
      <4> QED
        BY <1>1, <1>3, <2>4, <3>1, <4>1
    <3> QED
      BY <1>1, <2>4, <3>1, <3>2, <3>3, Times
  <2> HIDE DEF q, r
  <2>7. q * w = w * q /\ w * q \in Nat
    BY <1>1, <2>4
  <2>8. adx - t * w = r
    BY <1>1, <2>3, <2>4, <2>7 DEF q
  <2>9. IMPBIT \in Nat
    BY Widths
  <2> DEFINE l == adx - t * w
  <2>10. t = q /\ l = r
    BY <2>3, <2>8 DEF q
  <2>11. Aligned(l, w)
    BY <2>5
  <2> HIDE DEF l
  <2>12. /\ t \in Nat /\ l \in -w .. w - 1 /\ Aligned(l, w) /\ fn # "remainder" /\ l = r
         /\ 2 * l > -w
         /\ t \in {q, q + 1} /\ t <= 2 * IMPBIT /\ l \in {r, r - w}
    BY <1>1, <2>1, <2>4, <2>6, <2>9, <2>10, <2>11
  <2> QED
    BY ONLY <2>12 DEF l, q, r
<1>8. CASE adx >= 0 /\ ~InFloat
  <2>1. t = QuotientOf(M + 1, adx, w) /\ adx \in Nat /\ AbsValue(adx) = adx
    BY <1>1, <1>8 DEF TruncatedQuotient, Precision, AbsValue
  <2>2. /\ t \in Nat /\ t \in {adx \div w, adx \div w + 1} /\ t <= pow2[b]
        /\ adx - t * w \in {adx % w, (adx % w) - w} /\ adx - t * w \in -w .. w - 1
        /\ adx - t * w < 0 => 2 * ((t * w - adx) * pow2[M + 1 - b]) < w
        /\ Aligned(adx - t * w, w)
    BY <1>1, <1>3, <1>4, <2>1, RestOfQuotient
  <2>3. t <= 2 * IMPBIT
    <3>1. M + 1 \in Nat /\ b \in Nat /\ b <= M + 1
      BY <1>2
    <3>2. pow2[b] <= pow2[M + 1] /\ pow2[b] \in Nat
      BY <3>1, Pow2Grows, Pow2Type
    <3>3. pow2[M + 1] = 2 * IMPBIT /\ IMPBIT \in Nat
      BY <1>2, Pow2Next, Widths DEF IMPBIT
    <3> QED
      BY <2>2, <3>2, <3>3
  <2>5. 2 * (adx - t * w) > -w
    <3> DEFINE l == t * w - adx
    <3>1. t * w \in Int
      BY <1>1, <2>2
    <3>2. l \in Int /\ adx - t * w = -l
      BY <1>1, <3>1
    <3>3. CASE l <= 0
      <4> HIDE DEF l
      <4> QED
        BY <1>1, <3>2, <3>3
    <3>4. CASE l > 0
      <4>1. 2 * (l * pow2[M + 1 - b]) < w
        <5>1. adx - t * w < 0
          BY <3>1, <3>2, <3>4, <1>1
        <5> QED
          BY <2>2, <5>1
      <4> HIDE DEF l
      <4>2. w * pow2[0] = w /\ b + 0 <= M + 1 /\ l \in Nat /\ 0 \in Nat
        BY <1>1, <1>2, <3>2, <3>4, Pow2Next
      <4>3. 2 * (l * pow2[M + 1 - b]) < w * pow2[0]
        BY ONLY <4>1, <4>2
      <4>4. 2 * l < w
        BY <1>1, <4>2, <4>3, RestIsSmall
      <4> QED
        BY <1>1, <3>2, <4>2, <4>4
    <3> QED
      BY <3>2, <3>3, <3>4
  <2>4. ASSUME fn = "remainder" PROVE 2 * (adx - t * w) > -ay
    <3> DEFINE l == t * w - adx
    <3>1. t * w \in Int
      BY <1>1, <2>2
    <3>2. l \in Int /\ adx - t * w = -l
      BY <1>1, <3>1
    <3>3. CASE l <= 0
      <4> HIDE DEF l
      <4> QED
        BY <1>2, <3>2, <3>3
    <3>4. CASE l > 0
      <4>1. 2 * (l * pow2[M + 1 - b]) < ay * pow2[j]
        <5>1. adx - t * w < 0
          BY <3>1, <3>2, <3>4, <1>1
        <5> QED
          BY <1>1, <2>2, <5>1
      <4>2. b + j <= M + 1
        BY <1>3, <2>4
      <4> HIDE DEF l, j
      <4>3. 2 * l < ay
        <5>1. l \in Nat
          BY <3>2, <3>4
        <5> QED
          BY <1>2, <1>5, <4>1, <4>2, <5>1, RestIsSmall
      <4> QED
        BY <1>2, <3>2, <4>3
    <3> QED
      BY <3>2, <3>3, <3>4
  <2> QED
    BY <1>8, <2>2, <2>3, <2>4, <2>5
<1> QED
  BY <1>1, <1>6, <1>7, <1>8

\* Two numbers are divided.
LEMMA LargerIs ==
    ASSUME ~Exceptional, ax > ay, x \in Patterns, y \in Patterns
    PROVE  /\ Finite(x) /\ Finite(y) /\ ~IsZero(x) /\ ~IsZero(y) /\ ax \in Nat /\ ay \in Nat \ {0}
           /\ ExponentField(Magnitude(y)) > 0 => ExponentField(Magnitude(x)) > 0
<1>1. Finite(x) /\ ~IsNaN(y) /\ ~IsZero(y) /\ ax > ay
  BY DEF Exceptional
<1>2. ax \in Nat /\ ay \in Nat \ {0} /\ Magnitude(x) \in Patterns /\ Magnitude(y) \in Patterns
      /\ ax = Units(x) /\ ay = Units(y)
  BY <1>1, DivisorIs, UnitsBounds, MagnitudeIs DEF ax, ay
<1>3. Finite(y)
  <2>1. SUFFICES ASSUME ~Finite(y) PROVE FALSE
    OBVIOUS
  <2>2. Magnitude(x) \in Nat /\ Magnitude(y) \in Nat /\ EXPBITS \in Nat
    BY Format, Fields
  <2>3. Magnitude(x) < Magnitude(y)
    BY <1>1, <2>1, <2>2 DEF Finite
  <2>4. Units(Magnitude(x)) < Units(Magnitude(y))
    <3>1. ~Negative(Magnitude(x)) /\ ~Negative(Magnitude(y))
      BY MagnitudeIs
    <3>2. /\ Magnitude(Magnitude(x)) = Magnitude(x)
          /\ Magnitude(Magnitude(y)) = Magnitude(y)
      BY MagnitudeIs
    <3> QED
      BY <1>2, <2>3, <3>2, UnitsGrow
  <2> QED
    BY <1>1, <1>2, <2>4 DEF ax, ay
<1>4. ~IsZero(x)
  <2>1. Value(x) # 0
    BY <1>1, <1>2, ValueIs
  <2> QED
    BY <2>1, ValueIs
<1>5. ASSUME ExponentField(Magnitude(y)) > 0 PROVE ExponentField(Magnitude(x)) > 0
  <2> DEFINE k == ExponentField(y)
  <2>1. ExponentField(y) > 0 /\ ExponentField(x) \in Nat /\ ExponentField(Magnitude(x)) = ExponentField(x)
    BY <1>5, Fields, Widths
  <2>2. SUFFICES ASSUME ExponentField(x) = 0 PROVE FALSE
    BY <2>1
  <2>3. Units(x) < IMPBIT /\ IMPBIT \in Nat
    BY <2>2, UnitsBounds, Widths
  <2>4. pow2[k - 1] \in Nat \ {0} /\ IMPBIT * pow2[k - 1] <= Units(y)
    BY <2>1, UnitsBounds
  <2>5. IMPBIT * 1 <= IMPBIT * pow2[k - 1] /\ IMPBIT * pow2[k - 1] \in Nat
    <3> DEFINE p == pow2[k - 1]
    <3>1. p \in Nat \ {0}
      BY <2>4
    <3> HIDE DEF p
    <3>2. IMPBIT * 1 <= IMPBIT * p /\ IMPBIT * p \in Nat
      BY <2>3, <3>1, Times
    <3> QED
      BY <3>2 DEF p
  <2> QED
    BY <1>1, <1>2, <2>3, <2>4, <2>5
<1> QED
  BY <1>1, <1>2, <1>3, <1>4, <1>5

\* The exponents are as far apart as the leading bits.
LEMMA FieldsApart ==
    ASSUME Larger, ~Far, Normal, x \in Patterns, y \in Patterns, fn \in ResidueFunctions
    PROVE  /\ diff_exp = Place(x) - Place(y) /\ diff_exp \in Nat
           /\ fn \in {"fmod", "remainder"} => diff_exp <= M
<1>1. /\ Finite(x) /\ Finite(y) /\ ~IsZero(x) /\ ~IsZero(y) /\ ax \in Nat /\ ay \in Nat \ {0}
      /\ ExponentField(Magnitude(y)) > 0 => ExponentField(Magnitude(x)) > 0
  BY LargerIs DEF Larger
<1>2. /\ Place(x) \in 0 .. 2 * EXPBIAS - 1 + M /\ Place(y) \in 0 .. 2 * EXPBIAS - 1 + M
      /\ Leading(ax, Place(x)) /\ Leading(ay, Place(y))
      /\ ExponentField(Magnitude(x)) > 0 =>
            Normalized(Magnitude(x)) = ExponentField(Magnitude(x))
      /\ ExponentField(Magnitude(y)) > 0 =>
            Normalized(Magnitude(y)) = ExponentField(Magnitude(y))
  BY <1>1, PlaceIs DEF ax, ay
<1>3. Place(x) \in Nat /\ Place(y) \in Nat /\ M \in Nat
  BY <1>2, SizeAssumption
<1>4. ax > ay
  BY DEF Larger
<1>5. Place(y) <= Place(x)
  BY <1>1, <1>2, <1>3, <1>4, LeadingOrder
<1>6. Field(x) = Normalized(Magnitude(x)) /\ Field(y) = Normalized(Magnitude(y))
  <2>1. CASE InFloat \/ fn = "remquo"
    BY <2>1 DEF Field
  <2>2. ExponentField(Magnitude(x)) \in Nat /\ ExponentField(Magnitude(y)) \in Nat
    BY Fields, Widths
  <2>3. CASE fn = "fmod"
    <3>1. Field(x) = ExponentField(Magnitude(x)) /\ Field(y) = ExponentField(Magnitude(y))
      BY <2>3 DEF Field, InFloat
    <3>2. Field(x) # 0 /\ Field(y) # 0
      BY <2>3 DEF Far
    <3> QED
      BY <1>2, <2>2, <3>1, <3>2
  <2>4. CASE fn = "remainder"
    <3>1. Field(x) = ExponentField(Magnitude(x)) /\ Field(y) = ExponentField(Magnitude(y))
      BY <2>4 DEF Field, InFloat
    <3>2. ExponentField(Magnitude(y)) > 0
      BY <2>4 DEF Normal
    <3> QED
      BY <1>1, <1>2, <3>1, <3>2
  <2> QED
    BY <2>1, <2>3, <2>4 DEF ResidueFunctions, InFloat
<1>7. diff_exp = Place(x) - Place(y)
  <2> DEFINE i == Normalized(Magnitude(x))
             j == Normalized(Magnitude(y))
  <2>1. i - 1 + M \in Nat /\ j - 1 + M \in Nat /\ Place(x) = i - 1 + M /\ Place(y) = j - 1 + M
    BY <1>3 DEF Place
  <2>2. i \in Int /\ j \in Int
    <3>1. /\ Magnitude(x) \in Patterns /\ ~Negative(Magnitude(x)) /\ ~IsZero(Magnitude(x))
          /\ Magnitude(y) \in Patterns /\ ~Negative(Magnitude(y)) /\ ~IsZero(Magnitude(y))
      BY <1>1, MagnitudeIs DEF IsZero
    <3> QED
      BY <3>1, NormalizedType
  <2>3. diff_exp = i - j
    BY <1>6 DEF diff_exp
  <2> HIDE DEF i, j
  <2> QED
    BY <1>3, <2>1, <2>2, <2>3
<1>8. diff_exp \in Nat
  BY <1>3, <1>5, <1>7
<1>9. ASSUME fn = "fmod" PROVE diff_exp <= M
  BY <1>3, <1>8, <1>9 DEF Far
<1>10. ASSUME fn = "remainder" PROVE diff_exp <= M
  BY <1>3, <1>8, <1>10 DEF Far
<1> QED
  BY <1>7, <1>8, <1>9, <1>10

\* A division starts with all of |x|.
LEMMA SetupRest ==
    ASSUME Larger, ~Far, Normal, x \in Patterns, y \in Patterns, fn \in ResidueFunctions,
           NEW q, q = IF fn = "fmod" \/ diff_exp <= 0 THEN 0 ELSE diff_exp \div Bits
    PROVE  Rest(ax, ay * pow2[Bits * q], q)
<1> DEFINE d == diff_exp
           c == Bits
           a == ax
           e == ay
<1>1. /\ Finite(x) /\ Finite(y) /\ ~IsZero(x) /\ ~IsZero(y) /\ a \in Nat /\ e \in Nat \ {0}
      /\ a > e
  BY LargerIs DEF Larger
<1>2. d = Place(x) - Place(y) /\ d \in Nat /\ (fn \in {"fmod", "remainder"} => d <= M)
  BY FieldsApart
<1>3. /\ Place(x) \in 0 .. 2 * EXPBIAS - 1 + M /\ Place(y) \in 0 .. 2 * EXPBIAS - 1 + M
      /\ Leading(a, Place(x)) /\ Leading(e, Place(y))
  BY <1>1, PlaceIs DEF ax, ay
<1>4. M \in Nat /\ c \in Nat \ {0} /\ c <= M + 1 /\ Place(x) \in Nat /\ Place(y) \in Nat
      /\ Place(x) <= 2 * EXPBIAS - 1 + M
  <2>1. M \in Nat /\ c \in Nat \ {0} /\ c <= M + 1
    BY SizeAssumption, ResidueAssumption, RoundTypes DEF Bits
  <2>2. EXPBIAS \in Nat
    BY Widths
  <2> QED
    BY <1>3, <2>1, <2>2
<1>5. Short(M + 1, AbsValue(a))
  <2>1. a = Units(x)
    BY UnitsBounds DEF ax
  <2>2. AbsValue(a) = a
    BY <1>1 DEF AbsValue
  <2> QED
    BY <2>1, <2>2, UnitsShort
<1>6. q \in Nat /\ (fn = "fmod" => q = 0)
      /\ (fn # "fmod" => \E r \in 0 .. c - 1 : d = c * q + r)
  <2>1. CASE fn = "fmod"
    BY <2>1
  <2>2. CASE fn # "fmod"
    <3>1. d \in Int /\ d >= 0
      BY <1>2
    <3>2. q = d \div c
      <4>1. CASE d = 0
        <5>1. d = c * 0 + 0 /\ 0 \in 0 .. c - 1 /\ 0 \in Int
          BY <1>4, <4>1
        <5> HIDE DEF c, d
        <5>2. d \div c = 0
          BY <1>4, <3>1, <5>1, DivisionUnique
        <5>3. q = 0
          BY <2>2, <4>1 DEF d
        <5> QED
          BY <5>2, <5>3
      <4>2. CASE d > 0
        <5>1. ~(d <= 0)
          BY <3>1, <4>2
        <5> QED
          BY <2>2, <5>1
      <4> QED
        BY <3>1, <4>1, <4>2
    <3> HIDE DEF c, d
    <3>3. c \in Nat \ {0}
      BY <1>4
    <3>4. d \div c \in Nat /\ d % c \in 0 .. c - 1 /\ d = c * (d \div c) + (d % c)
      BY ONLY <3>1, <3>3, Division
    <3> DEFINE r == d % c
    <3>5. r \in 0 .. c - 1 /\ d = c * q + r /\ q \in Nat
      BY ONLY <3>2, <3>4
    <3> HIDE DEF r
    <3>6. \E i \in 0 .. c - 1 : d = c * q + i
      BY ONLY <3>5
    <3> QED
      BY ONLY <2>2, <3>5, <3>6
  <2> QED
    BY <2>1, <2>2
<1> DEFINE k == c * q
           p == pow2[k]
           v == e * p
<1>7. k \in Nat /\ k <= d /\ (fn # "fmod" => d - k < c)
  <2> HIDE DEF c, d
  <2>1. k \in Nat
    BY <1>4, <1>6
  <2>2. CASE fn = "fmod"
    BY <1>2, <1>4, <1>6, <2>2
  <2>3. CASE fn # "fmod"
    <3>1. PICK r \in 0 .. c - 1 : d = k + r
      BY <1>6, <2>3
    <3> HIDE DEF k
    <3> QED
      BY <1>4, <2>1, <3>1
  <2> QED
    BY <2>1, <2>2, <2>3
<1>8. p \in Nat \ {0}
  BY <1>7, Pow2Type
<1> HIDE DEF a, c, d, e, k, p
<1>9. Aligned(a, v)
  <2>1. Place(y) + k <= Place(x)
    BY <1>2, <1>4, <1>7
  <2> QED
    BY <1>1, <1>3, <1>4, <1>7, <2>1, LeadingAligned DEF p
<1>10. \E b \in 1 .. M + 1 : /\ a < v * pow2[b]
                             /\ fn # "fmod" => b <= c
                             /\ fn = "remainder" => b + c * q <= M + 1
  <2> DEFINE b == d - k + 1
  <2>1. b \in 1 .. M + 1 /\ b \in Nat
    <3>1. CASE fn = "fmod"
      BY <1>2, <1>4, <1>7, <3>1
    <3>2. CASE fn # "fmod"
      BY <1>2, <1>4, <1>7, <3>2
    <3> QED
      BY <3>1, <3>2
  <2>2. a < e * pow2[d + 1]
    <3>1. Place(y) <= Place(x) /\ Place(x) - Place(y) + 1 = d + 1
      BY <1>2, <1>4
    <3> QED
      BY <1>1, <1>3, <1>4, <3>1, LeadingOrder
  <2>3. pow2[d + 1] = p * pow2[b] /\ pow2[b] \in Nat
    <3>1. d + 1 = k + b
      BY <1>2, <1>7
    <3>2. pow2[k + b] = pow2[k] * pow2[b] /\ pow2[b] \in Nat
      BY <1>7, <2>1, Pow2Sum, Pow2Type
    <3> QED
      BY <3>1, <3>2 DEF p
  <2> DEFINE u == pow2[b]
  <2>4. u \in Nat /\ a < e * (p * u)
    BY <2>2, <2>3
  <2> HIDE DEF u
  <2>5. e * (p * u) = (e * p) * u
    BY <1>1, <1>8, <2>4
  <2>6. a < v * pow2[b]
    BY <2>4, <2>5 DEF u
  <2>7. fn # "fmod" => b <= c
    BY <1>2, <1>4, <1>7
  <2>8. fn = "remainder" => b + c * q <= M + 1
    <3>1. b + k = d + 1
      BY <1>2, <1>7
    <3> QED
      BY <1>2, <1>4, <3>1 DEF k
  <2> HIDE DEF b
  <2> QED
    BY <2>1, <2>6, <2>7, <2>8
<1>11. \E n \in Nat : a = a + n * (v * pow2[c])
  <2>1. pow2[c] \in Nat /\ v \in Nat
    BY <1>1, <1>4, <1>8, Pow2Type
  <2> DEFINE z == v * pow2[c]
  <2>2. z \in Nat
    <3> HIDE DEF v
    <3> DEFINE u == pow2[c]
    <3>1. u \in Nat
      BY <2>1
    <3> HIDE DEF u
    <3>2. v * u \in Nat
      BY <2>1, <3>1
    <3> QED
      BY <3>2 DEF u
  <2> HIDE DEF z
  <2>3. a = a + 0 * z
    BY <1>1, <2>2
  <2> QED
    BY <2>3 DEF z
<1>12. 2 * a > -e /\ a >= 0
  BY <1>1
<1>13. /\ Bits = c /\ ax = a /\ ay = e /\ ay * pow2[Bits * q] = v
  BY DEF a, c, e, p, k
<1> HIDE DEF v
<1> QED
  BY <1>5, <1>6, <1>9, <1>10, <1>11, <1>12, <1>13 DEF Rest

\* A round lowers the multiple by the bits it took.
LEMMA LowerMultiple ==
    ASSUME DivisionInv, y \in Patterns, pc = "reduce"
    PROVE  /\ w \div pow2[Bits] \in Nat \ {0} /\ (w \div pow2[Bits]) * pow2[Bits] = w
           /\ w \div pow2[Bits] = ay * pow2[Bits * (quo - 1)]
           /\ Bits * (quo - 1) \in Nat /\ Bits * quo = Bits * (quo - 1) + Bits
<1> DEFINE b == Bits
           a == ay
           p == pow2[b]
           r == pow2[b * (quo - 1)]
<1>1. ~Exceptional /\ w = a * pow2[b * quo] /\ quo \in Nat /\ quo > 0 /\ w \in Int
  BY DEF DivisionInv
<1>2. b \in Nat /\ a \in Nat \ {0} /\ p \in Nat \ {0}
  BY <1>1, RoundTypes, DivisorIs, Pow2Type
<1>3. b * (quo - 1) \in Nat /\ b * quo = b * (quo - 1) + b
  <2> HIDE DEF b
  <2> QED
    BY <1>1, <1>2
<1>4. r \in Nat \ {0} /\ pow2[b * quo] = r * p
  <2> DEFINE j == b * (quo - 1)
  <2>1. j \in Nat /\ b * quo = j + b
    BY <1>3
  <2> HIDE DEF b, j
  <2>2. pow2[j] \in Nat \ {0} /\ pow2[j + b] = pow2[j] * pow2[b]
    <3>1. b \in Nat /\ j \in Nat
      BY <1>2, <2>1
    <3>2. pow2[j] \in Nat \ {0}
      BY ONLY <3>1, Pow2Type
    <3> QED
      BY ONLY <3>1, <3>2, Pow2Sum
  <2> QED
    BY <2>1, <2>2 DEF j
<1>5. w = a * (r * p)
  BY <1>1, <1>4
<1> HIDE DEF a, p, r
<1>6. a * r \in Nat \ {0} /\ a * (r * p) = p * (a * r) + 0 /\ 0 \in 0 .. p - 1 /\ a * (r * p) = (a * r) * p
  <2>1. a * r \in Nat \ {0} /\ 0 \in 0 .. p - 1
    BY <1>2, <1>4
  <2>2. a * (r * p) = (a * r) * p
    BY <1>2, <1>4
  <2> DEFINE n == a * r
  <2>3. n * p = p * n + 0
    <3>1. n \in Nat
      BY <2>1
    <3> HIDE DEF n
    <3> QED
      BY <1>2, <3>1
  <2> QED
    BY <2>1, <2>2, <2>3
<1>7. w \div p = a * r
  BY ONLY <1>1, <1>2, <1>5, <1>6, DivisionUnique
<1>8. (w \div p) * p = w /\ w \div p \in Nat \ {0}
  BY <1>5, <1>6, <1>7
<1> QED
  BY <1>3, <1>7, <1>8 DEF a, p, r

\* What a round leaves is left for the rounds to come.
LEMMA NextRest ==
    ASSUME DivisionInv, RestInv, y \in Patterns, pc = "reduce", Sharp,
           NEW t \in Nat, NEW l \in Int, l = adx - t * w, -w <= l, l < w, Aligned(l, w),
           IF fn = "remainder" THEN 2 * l > -ay ELSE l >= 0
    PROVE  Rest(l, w \div pow2[Bits], quo - 1)
<1> DEFINE v == w \div pow2[Bits]
           c == Bits
           p == pow2[c]
<1>1. /\ v \in Nat \ {0} /\ v * p = w
      /\ c * (quo - 1) \in Nat /\ c * quo = c * (quo - 1) + c
  BY LowerMultiple
<1>2. /\ c \in Nat \ {0} /\ p \in Nat \ {0} /\ w \in Nat \ {0} /\ adx \in Int /\ quo \in Nat
      /\ quo > 0 /\ ay \in Nat /\ c \in 1 .. M + 1
  <2>1. c \in Nat \ {0} /\ p \in Nat \ {0} /\ w \in Nat \ {0}
    BY MultipleType, RoundTypes, Pow2Type
  <2>2. c \in 1 .. M + 1
    BY SizeAssumption, ResidueAssumption DEF Bits
  <2>3. ay \in Nat
    BY DivisorIs DEF DivisionInv
  <2> QED
    BY <2>1, <2>2, <2>3 DEF DivisionInv
<1>3. PICK k \in Nat : ax = adx + k * (w * p)
  BY DEF RestInv, Rest
<1>4. PICK b \in 1 .. M + 1 : fn = "remainder" => b + c * quo <= M + 1
  BY DEF RestInv, Rest
<1>5. fn # "fmod"
  BY <1>2 DEF RestInv, Rest
<1> HIDE DEF v, c, p
<1>6. \E n \in Nat : ax = l + n * (v * p)
  <2> DEFINE n == t + k * p
  <2>1. n \in Nat /\ t * w \in Nat /\ k * p \in Nat
    BY <1>2, <1>3
  <2>2. k * (w * p) = (k * p) * w
    BY <1>2, <1>3
  <2> DEFINE kp == k * p
  <2>3. kp \in Nat /\ n = t + kp /\ ax = adx + kp * w
    BY <1>3, <2>1, <2>2
  <2> HIDE DEF kp, n
  <2>4. n * w = t * w + kp * w /\ kp * w \in Nat
    BY <1>2, <2>3
  <2>5. ax = l + n * w
    BY <1>2, <2>1, <2>3, <2>4
  <2> QED
    BY <1>1, <2>1, <2>5
<1>7. c <= c /\ (fn = "remainder" => c + c * (quo - 1) <= M + 1)
  <2> DEFINE i == c * quo
             j == c * (quo - 1)
  <2>1. j \in Nat /\ i = j + c /\ (fn = "remainder" => b + i <= M + 1)
    BY <1>1, <1>4
  <2> HIDE DEF i, j
  <2>2. fn = "remainder" => c + j <= M + 1
    BY <1>2, <1>4, <2>1, SizeAssumption
  <2> QED
    BY <1>2, <2>2 DEF j
<1>8. Aligned(l, v)
  <2>1. Aligned(l, v * pow2[c]) /\ v \in Nat /\ c \in Nat
    BY <1>1, <1>2 DEF p
  <2> QED
    BY <2>1, AlignedLower
<1>9. Short(M + 1, AbsValue(l))
  <2>1. AbsValue(l) <= w
    BY <1>2 DEF AbsValue
  <2> QED
    BY <1>2, <2>1, AlignedShort
<1>10. \E i \in 1 .. M + 1 : /\ l < v * pow2[i]
                             /\ fn # "fmod" => i <= c
                             /\ fn = "remainder" => i + c * (quo - 1) <= M + 1
  <2>1. l < v * pow2[c]
    BY <1>1 DEF p
  <2> QED
    BY <1>2, <1>7, <2>1
<1>11. IF fn = "remainder" THEN 2 * l > -ay ELSE l >= 0
  OBVIOUS
<1> QED
  BY <1>5, <1>6, <1>8, <1>9, <1>10, <1>11 DEF Rest, v, c, p

\* The functions take the multiple away exactly, unless the product overflows.
LEMMA SubtractedIs ==
    ASSUME DivisionInv, RestInv, y \in Patterns, pc \in {"reduce", "last"}, Sharp, ~Overflowing
    PROVE  LET t == TruncatedQuotient(Precision, adx, w) IN Subtracted(t) = adx - t * w
<1> DEFINE s == TruncatedQuotient(Precision, adx, w)
<1> SUFFICES ASSUME NEW t, t = s PROVE Subtracted(t) = adx - t * w
  OBVIOUS
<1>1. /\ w \in Nat \ {0} /\ adx \in Int /\ fn \in ResidueFunctions
  BY MultipleType DEF DivisionInv
<1>2. /\ t \in Nat /\ adx - t * w \in -w .. w - 1 /\ Aligned(adx - t * w, w)
      /\ 2 * (adx - t * w) > -w
      /\ adx >= 0 => /\ t \in {adx \div w, adx \div w + 1} /\ t <= 2 * IMPBIT
  BY RoundLeaves
<1>3. /\ Aligned(adx, w) /\ Short(M + 1, AbsValue(adx)) /\ (fn # "remainder" => adx >= 0)
      /\ (fn # "remquo" => contracted) /\ (fn = "remquo" => ~contracted)
  BY DEF RestInv, Rest, Sharp
<1>4. fn = "remquo" => t <= IMPBIT
  <2>1. SUFFICES ASSUME fn = "remquo" PROVE t <= IMPBIT
    OBVIOUS
  <2>2. PICK b \in 1 .. M + 1 : adx < w * pow2[b] /\ b <= Bits
    BY <2>1 DEF RestInv, Rest
  <2>3. Bits = M
    BY <2>1 DEF Bits, InFloat
  <2>4. b \in Nat /\ M \in Nat /\ b <= M
    BY <2>2, <2>3, SizeAssumption
  <2>5. pow2[b] <= IMPBIT /\ pow2[b] \in Nat
    BY ONLY <2>4, Pow2Grows, Pow2Type DEF IMPBIT
  <2> DEFINE q == adx \div w
             p == pow2[b]
  <2>6. q \in Nat /\ adx % w \in 0 .. w - 1 /\ adx = w * q + (adx % w)
    <3>1. adx \in Int /\ w \in Nat \ {0} /\ adx >= 0
      BY <1>1, <1>3, <2>1
    <3> QED
      BY ONLY <3>1, Division
  <2>7. adx < w * p /\ p \in Nat /\ p <= IMPBIT /\ IMPBIT \in Nat /\ t \in {q, q + 1}
    BY <1>2, <1>3, <2>1, <2>2, <2>5, Widths
  <2> HIDE DEF q, p
  <2>8. w * q < w * p
    <3>1. w * q \in Nat /\ w * p \in Nat
      BY <1>1, <2>6, <2>7
    <3> QED
      BY <1>1, <2>6, <2>7, <3>1
  <2>9. q < p
    BY <1>1, <2>6, <2>7, <2>8, Times
  <2> QED
    BY <2>6, <2>7, <2>9
<1> DEFINE n == w * t
<1>5. n \in Nat /\ t * w = n /\ (-t) * w = -n
  BY <1>1, <1>2
<1>6. CASE InFloat
  BY <1>6 DEF Subtracted, InFloat
<1>7. CASE fn = "remainder"
  <2>1. Subtracted(t) = Nearest((-t) * w + adx)
    BY <1>3, <1>7 DEF Subtracted, InFloat, Product
  <2> HIDE DEF n
  <2>2. (-t) * w + adx = adx - n /\ adx - n \in Int /\ adx - n \in -w .. w - 1 /\ Aligned(adx - n, w)
    BY <1>1, <1>2, <1>5
  <2>3. w \in Nat /\ AbsValue(adx - n) <= w
    BY <1>1, <2>2 DEF AbsValue
  <2>4. Nearest(adx - n) = adx - n
    BY ONLY <2>2, <2>3, AlignedExact
  <2> QED
    <3>1. t * w = n /\ (-t) * w + adx = adx - n
      BY <1>5, <2>2
    <3> QED
      BY ONLY <2>1, <2>4, <3>1
<1>8. CASE fn \in {"fmod", "remquo"}
  <2> DEFINE u == Pattern(w)
  <2>1. u \in Patterns /\ ~Negative(u) /\ Finite(u) /\ Units(u) = w
    BY <1>1, <1>3, PatternOfDivisor DEF Pattern
  <2>2. Rounded(n, 1) # EXPBITS
    <3>1. ~Overflow(w * s)
      BY <1>3, <1>8 DEF Overflowing
    <3>2. AbsValue(n) = n
      BY <1>5 DEF AbsValue
    <3> HIDE DEF s
    <3> QED
      BY <3>1, <3>2 DEF Overflow
  <2>3. adx \in Nat /\ AbsValue(adx) = adx /\ t <= 2 * IMPBIT
    <3>1. adx >= 0
      BY <1>3, <1>8
    <3> QED
      BY <1>1, <1>2, <3>1 DEF AbsValue
  <2> HIDE DEF u
  <2>4. -w < 2 * (adx - n) /\ adx - n < w
    <3> HIDE DEF n
    <3> QED
      BY <1>1, <1>2, <1>5
  <2>5. /\ contracted => FmodSubtract(adx, u, t) = adx - n
        /\ ~contracted /\ t <= IMPBIT => Dekker(adx, u, t) = adx - n
    <3>1. /\ u \in Patterns /\ ~Negative(u) /\ Finite(u) /\ w \in Nat \ {0} /\ w = Units(u)
          /\ t \in Nat /\ t <= 2 * IMPBIT /\ adx \in Nat /\ Aligned(adx, w) /\ Short(M + 1, adx)
          /\ n \in Nat /\ n = w * t /\ Rounded(n, 1) # EXPBITS /\ -w < 2 * (adx - n) /\ adx - n < w
      BY <1>1, <1>2, <1>3, <1>5, <2>1, <2>2, <2>3, <2>4
    <3> HIDE DEF n
    <3> QED
      BY ONLY <3>1, TakenExactly
  <2>6. CASE fn = "fmod"
    <3>1. Subtracted(t) = FmodSubtract(adx, u, t)
      BY <2>6 DEF Subtracted, InFloat, u
    <3> QED
      BY <1>3, <1>5, <2>5, <2>6, <3>1
  <2>7. CASE fn = "remquo"
    <3>1. Subtracted(t) = Dekker(adx, u, t)
      BY <2>7 DEF Subtracted, InFloat, u
    <3> QED
      BY <1>3, <1>4, <1>5, <2>5, <2>7, <3>1
  <2> QED
    BY <1>8, <2>6, <2>7
<1> QED
  BY <1>1, <1>6, <1>7, <1>8 DEF ResidueFunctions, InFloat

\* No product overflows unless the dividend is the largest number.
LEMMA NotOverflowing ==
    ASSUME DivisionInv, RestInv, x \in Patterns, y \in Patterns, pc \in {"reduce", "last"}, Sharp, Bounded
    PROVE  ~Overflowing
<1> DEFINE t == TruncatedQuotient(Precision, adx, w)
<1>1. /\ w \in Nat \ {0} /\ adx \in Int /\ fn \in ResidueFunctions /\ ~Exceptional
  BY MultipleType DEF DivisionInv
<1>2. SUFFICES ASSUME fn \in {"fmod", "remquo"}, Overflow(w * t) PROVE FALSE
  BY DEF Overflowing, Sharp
<1>3. /\ Aligned(adx, w) /\ Short(M + 1, AbsValue(adx)) /\ adx >= 0
  BY <1>2 DEF RestInv, Rest
<1>4. PICK k \in Nat : ax = adx + k * (w * pow2[Bits])
  BY DEF RestInv, Rest
<1>5. PICK b \in 1 .. M + 1 : adx < w * pow2[b]
  BY DEF RestInv, Rest
<1>6. adx \in Nat /\ AbsValue(adx) = adx
  BY <1>1, <1>3 DEF AbsValue
<1>7. t = QuotientOf(M + 1, adx, w)
  <2>1. Precision = M + 1
    BY <1>2 DEF Precision, InFloat
  <2> QED
    BY <1>6, <2>1 DEF TruncatedQuotient
<1>8. adx <= ax /\ ax = Units(x) /\ ax \in Nat
  <2>1. Bits \in Nat \ {0}
    BY <1>1, RoundTypes
  <2> DEFINE c == Bits
  <2>2. c \in Nat
    BY <2>1
  <2> HIDE DEF c
  <2> DEFINE p == pow2[c]
  <2>3. p \in Nat
    BY <2>2, Pow2Type
  <2>4. ax = adx + k * (w * p)
    BY <1>4 DEF c
  <2> HIDE DEF p
  <2> DEFINE m == k * (w * p)
  <2>5. m \in Nat
    BY <1>1, <2>3
  <2>6. ax = Units(x) /\ ax \in Nat
    BY UnitsBounds DEF ax
  <2> HIDE DEF m
  <2> QED
    BY <1>6, <2>4, <2>5, <2>6 DEF m
<1>9. adx <= (2 * IMPBIT - 2) * pow2[2 * EXPBIAS - 1]
  <2>1. Finite(x) /\ Magnitude(x) # EXPBITS - 1
    BY <1>1, <1>2 DEF Exceptional, Bounded
  <2> DEFINE B == (2 * IMPBIT - 2) * pow2[2 * EXPBIAS - 1]
  <2>2. Units(x) <= B
    BY <2>1, UnitsBelowLargest
  <2>3. B \in Int
    <3>1. IMPBIT \in Nat /\ 2 * EXPBIAS - 1 \in Nat
      BY Widths
    <3>2. pow2[2 * EXPBIAS - 1] \in Nat
      BY ONLY <3>1, Pow2Type
    <3> QED
      BY <3>1, <3>2
  <2> HIDE DEF B
  <2>4. adx <= B
    BY <1>6, <1>8, <2>2, <2>3
  <2> QED
    BY <2>4 DEF B
<1>10. t \in Nat /\ Rounded(w * t, 1) # EXPBITS
  <2>1. adx < w * pow2[b] /\ Aligned(adx, w) /\ Short(M + 1, adx)
    BY <1>3, <1>5, <1>6
  <2> HIDE DEF t
  <2> QED
    BY <1>1, <1>6, <1>7, <1>9, <2>1, MultipleFits
<1>11. AbsValue(w * t) = w * t
  <2> HIDE DEF t
  <2>1. w * t \in Nat
    BY <1>1, <1>10
  <2> QED
    BY <2>1 DEF AbsValue
<1> QED
  BY <1>2, <1>10, <1>11 DEF Overflow

-----------------------------------------------------------------------------
(* The rest is an invariant of the rounds.                                 *)

\* The arguments with which nothing is rounded, whether or not a product overflows.
Clear == /\ fn = "remquo" => ~contracted
         /\ fn \in {"remainder", "remquo"} => ExponentField(Magnitude(y)) > 1

\* With these arguments the rounds take exact multiples away.
LEMMA ClearIsSharp == /\ Clear /\ y \in Patterns => Sharp
                      /\ Exact <=> Bounded /\ Clear
<1>1. ASSUME y \in Patterns PROVE ExponentField(Magnitude(y)) \in Nat
  BY <1>1, Fields, Widths
<1>2. ASSUME Clear, y \in Patterns PROVE Sharp
  <2> DEFINE e == ExponentField(Magnitude(y))
  <2>1. e \in Nat /\ (fn = "remainder" => e > 1) /\ (fn = "remquo" => ~contracted)
    BY <1>1, <1>2 DEF Clear
  <2> HIDE DEF e
  <2>2. fn = "remainder" => e > 0
    BY <2>1
  <2> QED
    BY <2>1, <2>2 DEF Sharp, Normal, e
<1>3. Exact <=> Bounded /\ Clear
  BY Zenon DEF Exact, Clear
<1> QED
  BY <1>2, <1>3

\* What is left after a round: of remquo a rest that is negative is repaired.
LEMMA RestInvReduce ==
    ASSUME DivisionInv, RestInv, y \in Patterns, Reduce, Sharp
    PROVE  Rest(adx', w', quo')
<1> DEFINE t == TruncatedQuotient(Precision, adx, w)
           l == adx - t * w
           s == IF fn = "remquo" /\ l < 0 THEN t - 1 ELSE t
           m == adx - s * w
<1>1. pc = "reduce" /\ ~Overflowing /\ w' = w \div pow2[Bits] /\ quo' = quo - 1
  BY DEF Reduce
<1>2. Subtracted(t) = l
  BY <1>1, SubtractedIs
<1>3. adx' = IF fn = "remquo" /\ l < 0 THEN Nearest(l + w) ELSE l
  <2>1. PICK left \in {Subtracted(t)} :
            adx' = IF fn = "remquo" /\ left < 0 THEN Nearest(left + w) ELSE left
    BY DEF Reduce
  <2> QED
    BY <1>2, <2>1
<1>4. Rest(adx, w, quo)
  BY <1>1 DEF RestInv
<1>5. /\ w \in Nat \ {0} /\ adx \in Int /\ quo > 0 /\ fn \in ResidueFunctions
      /\ ay \in Nat \ {0}
  BY <1>1, MultipleType, DivisorIs DEF DivisionInv
<1>6. Aligned(adx, w) /\ (fn # "remainder" => adx >= 0) /\ fn # "fmod"
  BY <1>4, <1>5 DEF Rest
<1>7. /\ t \in Nat /\ l \in -w .. w - 1 /\ Aligned(l, w)
      /\ fn = "remainder" => 2 * l > -ay
      /\ InFloat => l = adx % w
      /\ adx >= 0 => t \in {adx \div w, adx \div w + 1} /\ l \in {adx % w, (adx % w) - w}
  BY <1>1, RoundLeaves
<1>8. adx >= 0 => adx \div w \in Nat /\ adx % w \in 0 .. w - 1 /\ adx = w * (adx \div w) + (adx % w)
  <2>1. adx \in Int /\ w \in Nat \ {0}
    BY <1>5
  <2> QED
    BY ONLY <2>1, Division
<1> HIDE DEF t
<1>9. /\ s \in Nat /\ m \in -w .. w - 1 /\ Aligned(m, w)
      /\ IF fn = "remainder" THEN 2 * m > -ay ELSE m >= 0
      /\ fn = "remquo" /\ l < 0 => m = l + w
  <2>1. CASE fn = "remquo" /\ l < 0
    <3> DEFINE q == adx \div w
               r == adx % w
    <3>1. q \in Nat /\ r \in 0 .. w - 1 /\ adx = w * q + r /\ t \in {q, q + 1} /\ l \in {r, r - w}
      BY <1>6, <1>7, <1>8, <2>1
    <3> HIDE DEF q, r
    <3>2. t = q + 1 /\ l = r - w
      <4>1. l = r - w
        BY <1>5, <2>1, <3>1
      <4>2. t # q
        <5>1. SUFFICES ASSUME t = q PROVE FALSE
          OBVIOUS
        <5>2. t * w = w * q /\ w * q \in Nat
          BY <1>5, <3>1, <5>1
        <5> QED
          BY <1>5, <2>1, <3>1, <5>2
      <4> QED
        BY <3>1, <4>1, <4>2
    <3>3. s = t - 1 /\ s = q /\ s * w = t * w - w /\ t * w \in Nat
      BY <1>5, <2>1, <3>1, <3>2
    <3>4. m = l + w /\ m = r
      BY <1>5, <2>1, <3>1, <3>2, <3>3
    <3>5. Aligned(l - (-1) * w, w)
      <4>1. l \in Int /\ w \in Nat /\ -1 \in Int /\ Aligned(l, w)
        BY <1>5, <1>7
      <4> HIDE DEF l
      <4> QED
        BY ONLY <4>1, AlignedLeft
    <3>6. l - (-1) * w = m
      BY <1>5, <1>7, <3>4
    <3> QED
      BY <1>5, <2>1, <3>1, <3>3, <3>4, <3>5, <3>6
  <2>2. CASE ~(fn = "remquo" /\ l < 0)
    <3>1. s = t /\ m = l
      BY <2>2
    <3>2. fn # "remainder" => l >= 0
      <4>1. CASE fn = "remquo"
        BY <1>7, <2>2, <4>1
      <4>2. CASE InFloat
        <5>1. adx >= 0 /\ l = adx % w
          BY <1>6, <1>7, <4>2 DEF InFloat
        <5> HIDE DEF l
        <5> QED
          BY <1>8, <5>1
      <4> QED
        BY <1>5, <1>6, <4>1, <4>2 DEF ResidueFunctions, InFloat
    <3> QED
      BY <1>7, <2>2, <3>1, <3>2
  <2> QED
    BY <2>1, <2>2
<1>10. adx' = m
  <2>1. CASE fn = "remquo" /\ l < 0
    <3>1. m = l + w
      BY <1>9, <2>1
    <3> HIDE DEF l, m
    <3>2. m \in Int /\ AbsValue(m) <= w /\ w \in Nat /\ Aligned(m, w)
      BY <1>5, <1>9 DEF AbsValue
    <3>3. Nearest(m) = m
      BY ONLY <3>2, AlignedExact
    <3> QED
      BY <1>3, <2>1, <3>1, <3>3
  <2>2. CASE ~(fn = "remquo" /\ l < 0)
    BY <1>3, <2>2
  <2> QED
    BY <2>1, <2>2
<1>11. Rest(m, w \div pow2[Bits], quo - 1)
  <2>1. m \in Int /\ m = adx - s * w /\ -w <= m /\ m < w
    BY <1>5, <1>9
  <2> HIDE DEF s, m
  <2> QED
    BY <1>1, <1>9, <2>1, NextRest
<1> QED
  BY <1>1, <1>10, <1>11

\* A rest keeps its meaning as long as the arguments are the same.
LEMMA SameRest ==
    ASSUME UNCHANGED <<fn, x, y, contracted>>
    PROVE  /\ Sharp' <=> Sharp
           /\ Rest(adx', w', quo') => Rest(adx, w, quo)'
<1>1. Sharp' <=> Sharp
  BY DEF Sharp, Normal
<1>2. ax' = ax /\ ay' = ay /\ Bits' = Bits
  BY DEF ax, ay, Bits, InFloat
<1>3. ASSUME Rest(adx', w', quo') PROVE Rest(adx, w, quo)'
  BY <1>2, <1>3 DEF Rest
<1> QED
  BY <1>1, <1>3

\* The rounds of a division keep the invariant of what is left.
LEMMA RestInvResidue ==
    ASSUME DivisionInv, RestInv, CallInv, ResidueCall
    PROVE  RestInv'
<1>1. /\ fn \in ResidueFunctions /\ UNCHANGED <<fn, x, y, contracted>> /\ y \in Patterns
      /\ x \in Patterns
  BY DEF ResidueCall, ResidueNext, DivisionInv, CallInv, PassNaN, Undefined, Equal, Smaller, FarApart,
         Setup, ProductOverflows, Reduce, LastFmod, LastRemainder, LastRemquo, Unstored
<1>2. fn' # "remquo" => contracted'
  BY <1>1 DEF RestInv
<1>3. CASE Setup
  <2>1. Sharp => Rest(adx', w', quo')
    <3>1. SUFFICES ASSUME Sharp PROVE Rest(adx', w', quo')
      OBVIOUS
    <3>2. Larger /\ ~Far /\ adx' = ax /\ w' = ay * pow2[Bits * quo']
          /\ quo' = IF fn = "fmod" \/ diff_exp <= 0 THEN 0 ELSE diff_exp \div Bits
      BY <1>3 DEF Setup
    <3>3. Rest(ax, ay * pow2[Bits * quo'], quo')
      BY <1>1, <3>1, <3>2, SetupRest DEF Sharp
    <3> QED
      BY <3>2, <3>3
  <2> QED
    BY <1>1, <1>2, <2>1, SameRest DEF RestInv
<1>4. CASE Reduce
  BY <1>1, <1>2, <1>4, RestInvReduce, SameRest DEF RestInv
<1>5. CASE PassNaN \/ Undefined \/ Equal \/ Smaller \/ FarApart \/ ProductOverflows \/ LastFmod
               \/ LastRemainder \/ LastRemquo
  <2>1. pc' = "done"
    BY <1>5 DEF PassNaN, Undefined, Equal, Smaller, FarApart, ProductOverflows, LastFmod, LastRemainder,
                LastRemquo, Return
  <2> QED
    BY <1>2, <2>1 DEF RestInv
<1> QED
  BY <1>3, <1>4, <1>5 DEF ResidueCall, ResidueNext

\* The other calls have no rounds, and a second call is compiled as the first one was.
LEMMA RestInvOthers ==
    ASSUME RestInv, CallInv,
           \/ RoundingCall \/ ComparisonCall \/ ElementaryCall \/ PowerCall \/ LaneCall
           \/ Elsewhere \/ OnResult \/ OnNext \/ Agreeing \/ Exchanged \/ Opposite
    PROVE  RestInv'
<1>1. CASE RoundingCall \/ ComparisonCall \/ ElementaryCall \/ PowerCall \/ LaneCall
  <2>1. pc' = "done" /\ UNCHANGED <<fn, contracted>>
    BY <1>1 DEF RoundingCall, ComparisonCall, ElementaryCall, PowerCall, LaneCall, Call, Return, callVars,
           residueVars
  <2> QED
    BY <2>1 DEF RestInv
<1>2. CASE Elsewhere \/ OnResult \/ OnNext \/ Agreeing \/ Exchanged \/ Opposite
  <2>1. pc' = "call" /\ contracted' = contracted
    BY <1>2 DEF Elsewhere, OnResult, OnNext, Agreeing, Exchanged, Opposite, Second
  <2>2. fn = "remquo" => fn' = fn
    <3>1. SUFFICES ASSUME fn = "remquo" PROVE fn' = fn
      OBVIOUS
    <3>2. fn \in ResidueFunctions
      BY <3>1 DEF ResidueFunctions
    <3>3. fn \notin IntegralValued
      BY <3>1 DEF IntegralValued
    <3>4. ~Agreeing
      <4>1. fn \notin DOMAIN FloatOf
        BY <3>1 DEF FloatOf
      <4> QED
        BY <3>1, <4>1, Counterparts DEF Agreeing
    <3> QED
      BY <1>2, <3>3, <3>4 DEF Elsewhere, OnResult, OnNext, Exchanged, Opposite, Second
  <2> QED
    BY <2>1, <2>2 DEF RestInv
<1> QED
  BY <1>1, <1>2

\* In every build and round that computes exactly, what is left of |x| is congruent to
\* it, on the grid of the multiple and below what the rounds to come can take away.
THEOREM SpecRestInv == Spec => []RestInv
<1>1. Init => RestInv
  BY DEF Init, ResidueInit, RestInv
<1>2. DivisionInv /\ CallInv /\ RestInv /\ [Next]_vars => RestInv'
  <2>1. CASE UNCHANGED vars
    <3>1. UNCHANGED <<fn, x, y, contracted, pc, adx, w, quo>>
      BY <2>1 DEF vars, residueVars
    <3>2. Sharp' <=> Sharp
      BY <3>1, SameRest
    <3>3. Rest(adx, w, quo) => Rest(adx, w, quo)'
      BY <3>1, SameRest
    <3> QED
      BY <3>1, <3>2, <3>3 DEF RestInv
  <2> QED
    BY <2>1, RestInvResidue, RestInvOthers DEF Next
<1> QED
  BY <1>1, <1>2, SpecDivisionInv, SpecCallInv, PTL DEF Spec

\* Between the rounds what is left is congruent to |x| modulo the divisor, and at most
\* half of the divisor below zero.
THEOREM SpecPartialRemainder == Spec => []PartialRemainder
<1>1. ASSUME DivisionInv, RestInv, CallInv PROVE PartialRemainder
  <2>1. SUFFICES ASSUME pc \in {"reduce", "last"}, Exact
                 PROVE  /\ (ax - adx) % ay = 0
                        /\ w = ay * pow2[Bits * quo]
                        /\ 2 * adx >= -ay
                        /\ fn # "fmod" => adx < w * pow2[Bits + 1]
    BY DEF PartialRemainder
  <2>2. y \in Patterns /\ w = ay * pow2[Bits * quo] /\ quo \in Nat /\ adx \in Int
    BY <1>1, <2>1 DEF CallInv, DivisionInv
  <2>3. Rest(adx, w, quo)
    BY <1>1, <2>1, <2>2, ClearIsSharp DEF RestInv
  <2>4. ay \in Nat \ {0} /\ w \in Nat \ {0} /\ Bits \in Nat \ {0}
    BY <1>1, <2>1, <2>2, DivisorIs, MultipleType, RoundTypes DEF DivisionInv
  <2> DEFINE a == ay
             b == Bits
             p == pow2[b]
             r == pow2[b * quo]
  <2>5. a \in Nat \ {0} /\ b \in Nat /\ p \in Nat \ {0} /\ r \in Nat
    <3>1. b * quo \in Nat
      <4>1. b \in Nat
        BY <2>4
      <4> HIDE DEF b
      <4> QED
        BY <2>2, <4>1
    <3> QED
      BY <2>4, <3>1, Pow2Type
  <2>6. (ax - adx) % ay = 0
    <3>1. PICK k \in Nat : ax = adx + k * (w * p)
      BY <2>3 DEF Rest
    <3>2. w = a * r
      BY <2>2
    <3> HIDE DEF a, p, r
    <3> DEFINE c == k * (r * p)
    <3>3. c \in Nat /\ k * (w * p) = a * c
      <4>1. w * p = a * (r * p)
        BY <2>5, <3>2
      <4> DEFINE e == r * p
      <4>2. e \in Nat /\ k * (w * p) = k * (a * e) /\ c = k * e
        BY <2>5, <4>1
      <4> HIDE DEF e, c
      <4> QED
        BY <2>5, <4>2
    <3> HIDE DEF c
    <3> DEFINE z == ax - adx
    <3>4. z = a * c + 0 /\ z \in Int /\ 0 \in 0 .. a - 1 /\ a \in Nat \ {0} /\ c \in Int
      <4>1. a * c \in Nat
        BY <2>5, <3>3
      <4> QED
        BY <2>2, <2>5, <3>1, <3>3, <4>1
    <3> HIDE DEF z
    <3>5. z % a = 0
      BY ONLY <3>4, DivisionUnique
    <3> QED
      BY <3>5 DEF z, a
  <2>7. 2 * adx >= -ay
    BY <2>2, <2>3, <2>4 DEF Rest
  <2>8. fn # "fmod" => adx < w * pow2[Bits + 1]
    <3>1. SUFFICES ASSUME fn # "fmod" PROVE adx < w * pow2[Bits + 1]
      OBVIOUS
    <3>2. PICK i \in 1 .. M + 1 : adx < w * pow2[i] /\ i <= Bits
      BY <2>3, <3>1 DEF Rest
    <3>3. i \in Nat /\ b + 1 \in Nat /\ i <= b + 1
      BY <2>5, <3>2
    <3>4. pow2[i] <= pow2[b + 1] /\ pow2[i] \in Nat /\ pow2[b + 1] \in Nat
      BY ONLY <3>3, Pow2Grows, Pow2Type
    <3> DEFINE g == pow2[i]
               h == pow2[b + 1]
    <3>5. g \in Nat /\ h \in Nat /\ g <= h /\ adx < w * g
      BY <3>2, <3>4
    <3> HIDE DEF g, h
    <3>6. w * g <= w * h /\ w * g \in Nat /\ w * h \in Nat
      BY <2>4, <3>5, Times
    <3> QED
      BY <2>2, <3>5, <3>6 DEF h
  <2> QED
    BY <2>2, <2>6, <2>7, <2>8
<1> QED
  BY <1>1, SpecDivisionInv, SpecRestInv, SpecCallInv, PTL

-----------------------------------------------------------------------------
(* remquo as a compiler that contracts builds it: its rounds are not exact, *)
(* but what they leave is a number that the next product does not overflow. *)

Stray == fn = "remquo" /\ contracted /\ Bounded

\* Between the rounds what is left is a number below the largest one in magnitude, and
\* not negative if the multiple is the largest number.
StrayInv ==
    pc \in {"reduce", "last"} /\ Stray =>
        /\ Aligned(0, w) /\ -NextLargest <= adx /\ adx <= NextLargest /\ Nearest(adx) = adx
        /\ adx >= 0 \/ w <= NextLargest

\* A round does not overflow, and leaves no more than there was.
LEMMA StrayRound ==
    ASSUME DivisionInv, StrayInv, y \in Patterns, pc \in {"reduce", "last"}, Stray
    PROVE  /\ ~Overflowing
           /\ LET left == Subtracted(TruncatedQuotient(Precision, adx, w))
              IN  /\ left \in Int /\ AbsValue(left) <= AbsValue(adx) /\ Nearest(left) = left
                  /\ left < 0 => w <= NextLargest
<1> DEFINE s == TruncatedQuotient(Precision, adx, w)
<1> SUFFICES ASSUME NEW t, t = s
             PROVE  /\ ~Overflowing
                    /\ Subtracted(t) \in Int /\ AbsValue(Subtracted(t)) <= AbsValue(adx)
                    /\ Nearest(Subtracted(t)) = Subtracted(t)
                    /\ Subtracted(t) < 0 => w <= NextLargest
  OBVIOUS
<1>1. /\ w \in Nat \ {0} /\ adx \in Int /\ fn = "remquo" /\ contracted /\ M > 2
      /\ Aligned(0, w) /\ -NextLargest <= adx /\ adx <= NextLargest /\ Nearest(adx) = adx
      /\ adx >= 0 \/ w <= NextLargest
  BY MultipleType, ResidueAssumption DEF DivisionInv, StrayInv, Stray
<1>2. t = TruncatedQuotient(M + 1, adx, w) /\ t \in Int
  BY <1>1, LeftType DEF Precision, InFloat
<1> DEFINE u == Pattern(w)
           h == Head(u)
           l == Units(u) - h
           g == IntHead(t)
           j == t - g
           n == Units(u) * t
<1>3. u \in Patterns /\ ~Negative(u) /\ Finite(u) /\ Units(u) = w
  BY <1>1, 0 \in Int, PatternOfDivisor DEF Pattern
<1> HIDE DEF u
<1>4. h \in Nat /\ l \in Nat /\ w = h + l
  <2>1. PICK i \in Nat, A \in Nat, B \in Nat : h = A * pow2[SPLIT + i] /\ w = h + B * pow2[i]
    BY <1>3, SplitHalves, HeadIs
  <2>2. SPLIT + i \in Nat
    BY SplitHalves, SplitIs
  <2>3. pow2[SPLIT + i] \in Nat /\ pow2[i] \in Nat
    BY ONLY <2>2, i \in Nat, Pow2Type
  <2>4. h \in Nat /\ B * pow2[i] \in Nat
    BY <2>1, <2>3
  <2> HIDE DEF h
  <2> QED
    BY <1>3, <2>1, <2>4
<1>5. /\ g \in Int /\ j \in Int /\ t = g + j
      /\ t >= 0 => g >= 0 /\ j >= 0
      /\ t < 0 => g <= 0 /\ j <= 0
  <2>1. g \in Int /\ (t >= 0 => 0 <= g /\ g <= t) /\ (t < 0 => g = t)
    BY <1>2, SplitHalves, IntHeadBetween
  <2> HIDE DEF g
  <2> QED
    BY <1>2, <2>1
<1> HIDE DEF s, h, l, g, j
<1>6. /\ AbsValue(adx - Nearest(adx - n)) <= Largest
      /\ ContractedLeft(adx, h, l, g, j) \in Int
      /\ AbsValue(ContractedLeft(adx, h, l, g, j)) <= AbsValue(adx)
      /\ t = 0 => ContractedLeft(adx, h, l, g, j) = adx
  <2>1. n = w * t
    BY <1>3
  <2> HIDE DEF n
  <2>2. SplitRound(adx, w, t, h, l, g, j, n)
    BY <1>1, <1>2, <1>4, <1>5, <2>1 DEF SplitRound
  <2> QED
    BY <1>1, <2>2, RoundLeavesLess
<1>7. Subtracted(t) = ContractedLeft(adx, h, l, g, j)
  <2> DEFINE a == h * g
             b == h * j
             c == l * g
             d == l * j
             e == Error(u, t, Nearest(h * g - n))
             v == Nearest(adx - n)
  <2>1. Subtracted(t) = Nearest(v + Nearest(Nearest(Nearest(adx - v) - n) - e))
    BY <1>1 DEF Subtracted, InFloat, Dekker, u, h, g
  <2>2. a + b + c + d = n /\ n = (h + l) * (g + j)
    <3>1. n = (h + l) * (g + j)
      BY <1>3, <1>4, <1>5
    <3>2. (h + l) * (g + j) = h * g + h * j + l * g + l * j
      BY <1>4, <1>5
    <3> QED
      BY <3>1, <3>2
  <2>3. e = Nearest(d + Nearest(c + Nearest(b + Nearest(a - n))))
    BY <1>1 DEF Error, Product, h, l, g, j
  <2> HIDE DEF a, b, c, d, e, v, n
  <2>4. e = ErrorOf(a, b, c, d)
    BY <2>2, <2>3 DEF ErrorOf
  <2>5. Subtracted(t) = LeftOf(adx, n, e)
    BY <2>1 DEF LeftOf, v
  <2> QED
    BY <2>2, <2>4, <2>5 DEF ContractedLeft, a, b, c, d
<1>8. ~Overflowing
  <2> DEFINE z == adx - Nearest(adx - w * s)
  <2>1. w * s = n
    BY <1>3
  <2>2. z \in Int /\ AbsValue(z) <= Largest
    <3>1. n \in Int
      BY <1>1, <1>2, <1>3
    <3> HIDE DEF n
    <3>2. adx - n \in Int
      BY <1>1, <3>1
    <3>3. Nearest(adx - n) \in Int
      BY <3>2, NearestType
    <3> QED
      BY <1>1, <1>6, <2>1, <3>3
  <2> HIDE DEF z
  <2>3. AbsValue(z) \in Nat
    BY <2>2 DEF AbsValue
  <2>4. Rounded(AbsValue(z), 1) # EXPBITS
    BY <2>2, <2>3, BelowOverflow DEF Largest
  <2> QED
    BY <1>1, <2>4 DEF Overflowing, Overflow, z, s
<1>9. ASSUME Subtracted(t) < 0 PROVE w <= NextLargest
  <2>1. SUFFICES ASSUME ~(w <= NextLargest) PROVE FALSE
    OBVIOUS
  <2>2. w = Largest /\ adx \in Nat
    BY <1>1, <2>1, 0 \in Int, AlignedIsNumber
  <2>3. t = 0
    BY <1>1, <1>2, <2>2, LargestQuotient
  <2> QED
    BY <1>6, <1>7, <1>9, <2>2, <2>3
<1>10. Nearest(Subtracted(t)) = Subtracted(t)
  <2> DEFINE a == h * g
             b == h * j
             c == l * g
             d == l * j
             e == ErrorOf(a, b, c, d)
             N == (h + l) * (g + j)
             v == Nearest(adx - N)
             q == Nearest(Nearest(Nearest(adx - v) - N) - e)
  <2>1. Subtracted(t) = Nearest(v + q)
    BY <1>7 DEF ContractedLeft, LeftOf
  <2>2. a \in Int /\ b \in Int /\ c \in Int /\ d \in Int /\ N \in Int
    BY <1>4, <1>5
  <2> HIDE DEF a, b, c, d, N
  <2>3. e \in Int /\ v \in Int
    <3>1. adx - N \in Int
      BY <1>1, <2>2
    <3> QED
      BY <2>2, <3>1, StepsOdd, NearestType
  <2> HIDE DEF e, v
  <2>4. q \in Int
    BY <1>1, <2>2, <2>3, NearestType
  <2>5. v + q \in Int
    BY <2>3, <2>4
  <2>6. AbsValue(Subtracted(t)) <= Largest
    BY <1>1, <1>6, <1>7, LargestIs DEF AbsValue
  <2> HIDE DEF q
  <2> QED
    BY <2>1, <2>5, <2>6, NearestStays
<1> QED
  BY <1>6, <1>7, <1>8, <1>9, <1>10

\* The multiple of the next round is less than half of this one.
LEMMA StrayReduce ==
    ASSUME DivisionInv, StrayInv, y \in Patterns, Reduce, Stray
    PROVE  /\ Aligned(0, w') /\ -NextLargest <= adx' /\ adx' <= NextLargest /\ Nearest(adx') = adx'
           /\ w' <= NextLargest
<1> DEFINE left == Subtracted(TruncatedQuotient(Precision, adx, w))
           v == w \div pow2[Bits]
<1>1. /\ pc = "reduce" /\ w' = v
      /\ adx' = IF left < 0 THEN Nearest(left + w) ELSE left
  BY DEF Reduce, Stray
<1>2. /\ left \in Int /\ AbsValue(left) <= AbsValue(adx) /\ Nearest(left) = left
      /\ left < 0 => w <= NextLargest
  BY <1>1, StrayRound
<1>3. /\ adx \in Int /\ -NextLargest <= adx /\ adx <= NextLargest /\ NextLargest \in Nat
      /\ Aligned(0, w) /\ w \in Nat \ {0}
  BY <1>1, MultipleType, LargestIs DEF StrayInv, DivisionInv
<1> HIDE DEF left
<1>4. Aligned(0, v) /\ v \in Nat /\ 2 * v <= w
  <2>1. v \in Nat \ {0} /\ v * pow2[Bits] = w /\ Bits \in Nat \ {0}
    BY <1>1, LowerMultiple, RoundTypes
  <2> DEFINE b == Bits
             p == pow2[b]
  <2>2. b \in Nat \ {0} /\ v \in Nat /\ v * p = w
    BY <2>1
  <2> HIDE DEF b, v
  <2>3. Aligned(0, v)
    BY <1>3, <2>2, 0 \in Int, AlignedLower
  <2>4. p \in Nat /\ p >= 2
    <3>1. p \in Nat /\ p > b
      BY <2>2, Pow2Type
    <3> QED
      BY <2>2, <3>1
  <2> HIDE DEF p
  <2>5. v * 2 <= v * p
    BY <2>2, <2>4, Times
  <2> QED
    BY <2>2, <2>3, <2>5
<1> HIDE DEF v
<1>5. v <= NextLargest
  <2>1. w <= NextLargest \/ w = Largest
    BY <1>3, 0 \in Int, AlignedIsNumber
  <2>2. Largest <= 2 * NextLargest
    BY LargestIs
  <2> QED
    BY <1>3, <1>4, <2>1, <2>2, LargestIs
<1>6. -NextLargest <= adx' /\ adx' <= NextLargest /\ Nearest(adx') = adx'
  <2>1. CASE left < 0
    <3>1. left + w \in Int /\ -NextLargest <= left + w /\ left + w <= NextLargest
      BY <1>2, <1>3, <2>1 DEF AbsValue
    <3> QED
      BY <1>1, <2>1, <3>1, NearestBelow
  <2>2. CASE ~(left < 0)
    <3>1. -NextLargest <= left /\ left <= NextLargest
      BY <1>2, <1>3, <2>2 DEF AbsValue
    <3> QED
      BY <1>1, <1>2, <2>2, <3>1
  <2> QED
    BY <2>1, <2>2
<1> QED
  BY <1>1, <1>4, <1>5, <1>6

\* The first round starts with all of |x|.
LEMMA StraySetup ==
    ASSUME Setup, Stray, x \in Patterns, y \in Patterns
    PROVE  /\ Aligned(0, w') /\ -NextLargest <= adx' /\ adx' <= NextLargest /\ Nearest(adx') = adx'
           /\ adx' >= 0
<1>1. /\ Larger /\ ~Far /\ adx' = ax /\ w' = ay * pow2[Bits * quo']
      /\ quo' = IF fn = "fmod" \/ diff_exp <= 0 THEN 0 ELSE diff_exp \div Bits
      /\ fn \in ResidueFunctions /\ Normal /\ Finite(x) /\ Magnitude(x) # EXPBITS - 1
  BY DEF Setup, Stray, Bounded, ResidueFunctions, Normal, Larger, Exceptional
<1>2. Aligned(ax, w')
  <2>1. Rest(ax, ay * pow2[Bits * quo'], quo')
    BY <1>1, SetupRest
  <2> QED
    BY <1>1, <2>1 DEF Rest
<1>3. Aligned(0, w')
  <2>1. PICK i \in 0 .. 2 * EXPBIAS - 1, f \in 0 .. 2 * IMPBIT - 1 : w' = f * pow2[i]
    BY <1>2 DEF Aligned
  <2>2. 0 = 0 * pow2[i]
    BY <2>1, Widths, Pow2Type
  <2> QED
    BY <2>1, <2>2, 0 \in Int DEF Aligned
<1>4. ax \in Nat /\ ax <= NextLargest /\ Nearest(ax) = ax
  <2>1. ax = Units(x) /\ ax \in Nat /\ ax <= NextLargest
    BY <1>1, UnitsBounds, UnitsBelowLargest DEF ax, NextLargest
  <2>2. Aligned(ax, ax)
    BY <1>1, <2>1, NumbersAligned
  <2>3. ax \in Int /\ AbsValue(ax) <= ax
    BY <2>1 DEF AbsValue
  <2> QED
    BY <2>1, <2>2, <2>3, AlignedExact
<1> QED
  BY <1>1, <1>3, <1>4, LargestIs

\* In contracting builds of remquo no product overflows unless |x| is the largest number.
THEOREM SpecStrayInv == Spec => []StrayInv
<1>1. Init => StrayInv
  BY DEF Init, StrayInv
<1>2. DivisionInv /\ CallInv /\ StrayInv /\ [Next]_vars => StrayInv'
  <2>1. SUFFICES ASSUME DivisionInv, CallInv, StrayInv, [Next]_vars, pc' \in {"reduce", "last"}, Stray'
                 PROVE  StrayInv'
    BY DEF StrayInv
  <2>2. CASE UNCHANGED vars
    BY <2>1, <2>2 DEF StrayInv, Stray, Bounded, vars, residueVars
  <2>3. CASE Setup \/ Reduce
    <3>1. UNCHANGED <<fn, x, y, contracted>> /\ Stray /\ x \in Patterns /\ y \in Patterns
      <4>1. UNCHANGED <<fn, x, y, contracted>>
        BY <2>3 DEF Setup, Reduce
      <4>2. Stray
        BY <2>1, <4>1 DEF Stray, Bounded
      <4> QED
        BY <2>1, <4>1, <4>2 DEF DivisionInv, CallInv, Stray, ResidueFunctions
    <3> QED
      BY <2>1, <2>3, <3>1, StraySetup, StrayReduce DEF StrayInv
  <2>4. ASSUME ~UNCHANGED vars, ~Setup, ~Reduce PROVE FALSE
    BY <2>1, <2>4 DEF Next, ResidueCall, ResidueNext, PassNaN, Undefined, Equal, Smaller, FarApart,
           ProductOverflows, LastFmod, LastRemainder, LastRemquo, Return, RoundingCall, ComparisonCall,
           ElementaryCall, PowerCall, LaneCall, Call, Elsewhere, OnResult, OnNext, Agreeing, Exchanged,
           Opposite, Second
  <2> QED
    BY <2>2, <2>3, <2>4
<1> QED
  BY <1>1, <1>2, SpecDivisionInv, SpecCallInv, PTL DEF Spec

-----------------------------------------------------------------------------
(* What the last round makes of the rest.                                  *)

\* What is returned is no NaN.
LEMMA NeverNaN ==
    ASSUME NEW v \in Int
    PROVE  ~IsNaN(Pattern(v)) /\ ~IsNaN(ZeroMinus(v)) /\ ~IsNaN(Flipped(v))
<1>1. ASSUME NEW n \in Int PROVE ~IsNaN(Pattern(n)) /\ Pattern(n) \in Patterns
  <2>1. Magnitude(Pattern(n)) \in 0 .. EXPBITS /\ Pattern(n) \in Patterns
    BY RoundedInType DEF Pattern
  <2> QED
    BY <2>1, Format DEF IsNaN
<1>2. ~IsNaN(Negated(Pattern(v)))
  BY <1>1, NegatedIs DEF IsNaN
<1>3. -v \in Int
  OBVIOUS
<1> QED
  BY <1>1, <1>2, <1>3 DEF ZeroMinus, Flipped

\* v with the sign of x.
LikeX(v) == IF Negative(x) THEN -v ELSE v

\* A rest on the grid of the divisor is returned as it is.
LEMMA AnswersExact ==
    ASSUME NEW v \in Int, NEW d \in Nat, Aligned(v, d), -d <= v, v <= d
    PROVE  Value(ZeroMinus(v)) = LikeX(v) /\ Value(Flipped(v)) = LikeX(v)
<1>1. AbsValue(v) <= d /\ AbsValue(-v) <= d
  BY DEF AbsValue
<1>2. Value(Pattern(v)) = v /\ Pattern(v) \in Patterns
  BY <1>1, AlignedExact DEF Pattern
<1>3. Value(Pattern(-v)) = -v
  <2>1. Aligned(0 * d - v, d)
    <3>1. Aligned(v, d) /\ 0 \in Int /\ v \in Int /\ d \in Nat
      OBVIOUS
    <3> QED
      BY ONLY <3>1, AlignedLeft
  <2>2. 0 * d - v = -v /\ -v \in Int
    OBVIOUS
  <2> QED
    BY <1>1, <2>1, <2>2, AlignedExact DEF Pattern
<1>4. Value(Negated(Pattern(v))) = -v
  BY <1>2, ValueIs
<1> QED
  BY <1>2, <1>3, <1>4 DEF ZeroMinus, Flipped, LikeX

\* The last round: what is left of |x| and what its multiple makes of it.
LEMMA LastLeaves ==
    ASSUME DivisionInv, RestInv, y \in Patterns, pc = "last", Sharp
    PROVE  /\ w = ay /\ ay \in Nat \ {0} /\ ax \in Nat
           /\ \E k \in Nat : ax = adx + k * (ay * pow2[Bits])
<1>1. ~Exceptional /\ quo = 0 /\ w = ay * pow2[Bits * quo] /\ ax > ay
  BY DEF DivisionInv
<1>2. ay \in Nat \ {0} /\ Bits \in Nat \ {0}
  BY <1>1, DivisorIs, RoundTypes
<1>3. w = ay
  <2>1. Bits * quo = 0 /\ pow2[0] = 1
    BY <1>1, <1>2, Pow2Next
  <2> QED
    BY <1>1, <1>2, <2>1
<1>4. ax \in Nat
  <2>1. x \in Patterns
    BY DEF DivisionInv
  <2> QED
    BY <2>1, MagnitudeIs, UnitsBounds DEF ax
<1>5. \E k \in Nat : ax = adx + k * (w * pow2[Bits])
  BY DEF RestInv, Rest
<1> QED
  BY <1>2, <1>3, <1>4, <1>5

\* Half of a divisor is a number.
LEMMA HalvedIs ==
    ASSUME y \in Patterns, Finite(y), Clear, fn \in ResidueFunctions \ {"fmod"}
    PROVE  Halved(ay) = ay
<1>1. CASE InFloat
  BY <1>1 DEF Halved
<1>2. CASE ~InFloat
  <2>1. fn \in {"remainder", "remquo"}
    BY <1>2 DEF InFloat, ResidueFunctions
  <2> DEFINE u == Magnitude(y)
  <2>2. u \in Patterns /\ Finite(u) /\ ExponentField(u) > 1
    BY <2>1, MagnitudeIs DEF Clear, Finite
  <2>3. 2 * Units(Rounded(Units(u), 2)) = Units(u)
    BY <2>2, HalfExact
  <2> QED
    BY <1>2, <2>3 DEF Halved, ay
<1> QED
  BY <1>1, <1>2

\* The quotient of |x| and what the rounds left of it.
LEMMA QuotientOfX ==
    ASSUME DivisionInv, RestInv, y \in Patterns, pc = "last", Sharp, NEW t \in Nat, NEW l \in Int,
           l = adx - t * w
    PROVE  /\ \E k \in Nat : ax = (t + k * pow2[Bits]) * ay + l /\ t + k * pow2[Bits] \in Nat
           /\ Finite(y) /\ Remainder = ax - Multiple * ay
<1>1. w = ay /\ ay \in Nat \ {0} /\ ax \in Nat /\ adx \in Int
  BY LastLeaves DEF DivisionInv
<1>2. PICK k \in Nat : ax = adx + k * (ay * pow2[Bits])
  BY LastLeaves
<1> DEFINE p == pow2[Bits]
           a == ay
           c == k * p
<1>3. p \in Nat
  BY RoundTypes, Pow2Type
<1> HIDE DEF p
<1>4. c \in Nat /\ k * (a * p) = c * a
  BY <1>1, <1>3
<1>5. ax = adx + c * a /\ l = adx - t * a /\ t * a \in Nat /\ c * a \in Nat /\ a \in Nat
  <2>1. c * a \in Nat /\ t * a \in Nat /\ a \in Nat
    BY <1>1, <1>4
  <2>2. ax = adx + k * (a * p)
    BY <1>2 DEF p
  <2> QED
    BY <1>1, <1>4, <2>1, <2>2
<1> HIDE DEF c, a
<1>6. ax = (t + c) * a + l /\ t + c \in Nat
  <2>1. (t + c) * a = t * a + c * a
    BY <1>4, <1>5
  <2> QED
    BY <1>1, <1>4, <1>5, <2>1
<1>7. Finite(y)
  <2>1. ~Exceptional /\ ax > ay /\ x \in Patterns
    BY DEF DivisionInv
  <2> QED
    BY <2>1, LargerIs
<1>8. ~IsInf(y)
  <2>1. Magnitude(y) \in Nat /\ EXPBITS \in Nat
    BY MagnitudeIs, Format DEF Patterns
  <2> QED
    BY <1>7, <2>1 DEF IsInf, Finite
<1> QED
  BY <1>6, <1>7, <1>8 DEF Remainder, p, a, c

\* fmod and fmodf give what is left.
LEMMA LastFmodIs ==
    ASSUME DivisionInv, RestInv, y \in Patterns, pc = "last", fn \in {"fmod", "fmodf"},
           NEW l, l = adx - TruncatedQuotient(Precision, adx, w) * w
    PROVE  Value(ZeroMinus(IF fn = "fmod" /\ l < 0 THEN Nearest(l + ay) ELSE l)) = LikeX(Remainder)
<1> DEFINE t == TruncatedQuotient(Precision, adx, w)
<1>1. Sharp
  BY DEF Sharp, Normal
<1>2. w = ay /\ ay \in Nat \ {0} /\ ax \in Nat /\ adx \in Int
  BY <1>1, LastLeaves DEF DivisionInv
<1>3. Aligned(adx, w) /\ adx >= 0
  <2>1. Rest(adx, w, quo)
    BY <1>1 DEF RestInv
  <2> QED
    BY <2>1 DEF Rest
<1>4. /\ t \in Nat /\ l \in -w .. w - 1 /\ Aligned(l, w)
      /\ InFloat => l = adx % w
      /\ l \in {adx % w, (adx % w) - w}
  BY <1>1, <1>3, RoundLeaves
<1>5. PICK k \in Nat : ax = k * ay + l
  <2>1. l \in Int /\ l = adx - t * w
    BY <1>2, <1>4
  <2> HIDE DEF t
  <2> QED
    BY <1>1, <1>4, <2>1, QuotientOfX
<1>6. Remainder = ax - (ax \div ay) * ay
  <2>1. Multiple = ax \div ay
    BY DEF Multiple
  <2>2. 0 \in Nat /\ adx - 0 * w \in Int
    BY <1>2
  <2> QED
    BY <1>1, <2>1, <2>2, QuotientOfX
<1> DEFINE r == adx % w
<1>7. r \in 0 .. w - 1
  <2>1. adx \in Int /\ adx >= 0 /\ w \in Nat \ {0}
    BY <1>2, <1>3
  <2> QED
    BY ONLY <2>1, Division
<1>8. r = l \/ r = l + w
  BY <1>2, <1>4, <1>7
<1> HIDE DEF r, t
<1>9. Remainder = r
  <2> DEFINE a == ay
             j == IF r = l THEN k ELSE k - 1
  <2>1. a \in Nat \ {0} /\ a = w /\ j \in Int /\ ax = k * a + l
    BY <1>2, <1>5
  <2>2. ax = a * j + r
    <3> HIDE DEF a
    <3>1. CASE r = l
      BY <1>4, <1>5, <2>1, <3>1
    <3>2. CASE r # l
      <4>1. a * (k - 1) = k * a - a /\ r = l + a /\ k * a \in Nat
        BY <1>5, <1>8, <2>1, <3>2
      <4> QED
        BY <1>4, <1>5, <2>1, <3>2, <4>1
    <3> QED
      BY <3>1, <3>2
  <2> HIDE DEF j
  <2>3. ax \in Int /\ r \in 0 .. a - 1
    BY <1>2, <1>7
  <2>4. ax \div a = j
    BY ONLY <2>1, <2>2, <2>3, DivisionUnique
  <2>5. Remainder = ax - j * a
    BY <1>6, <2>4
  <2> HIDE DEF a
  <2>6. j * a = a * j /\ a * j \in Int
    BY <2>1
  <2> QED
    BY <1>7, <2>2, <2>3, <2>5, <2>6
<1>10. Aligned(r, w)
  <2>1. CASE r = l
    BY <1>4, <2>1
  <2>2. CASE r = l + w
    <3>1. Aligned(l - (-1) * w, w)
      BY <1>2, <1>4, AlignedLeft
    <3>2. l - (-1) * w = r
      BY <1>2, <1>4, <2>2
    <3> QED
      BY <3>1, <3>2
  <2> QED
    BY <1>8, <2>1, <2>2
<1>11. (IF fn = "fmod" /\ l < 0 THEN Nearest(l + ay) ELSE l) = r
  <2>1. CASE l < 0
    <3>1. r = l + w /\ l + ay = r /\ ~InFloat
      BY <1>2, <1>4, <1>7, <1>8, <2>1 DEF r
    <3>2. AbsValue(r) <= w /\ r \in Int /\ w \in Nat
      BY <1>2, <1>7 DEF AbsValue
    <3>3. Nearest(r) = r
      BY <1>10, <3>2, AlignedExact
    <3>4. fn = "fmod"
      BY <3>1 DEF InFloat
    <3> QED
      BY <2>1, <3>1, <3>3, <3>4
  <2>2. CASE ~(l < 0)
    BY <1>2, <1>4, <1>7, <1>8, <2>2
  <2> QED
    BY <2>1, <2>2
<1>12. Value(ZeroMinus(r)) = LikeX(r)
  BY <1>2, <1>7, <1>10, AnswersExact
<1> QED
  BY <1>9, <1>11, <1>12

\* The nearest multiple, told by a quotient and what it leaves.
LEMMA NearestRest ==
    ASSUME ax \in Nat, ay \in Nat \ {0}, fn \in ResidueFunctions \ {"fmod", "fmodf"},
           Remainder = ax - Multiple * ay,
           NEW k \in Nat, NEW l \in Int, ax = k * ay + l, l < ay, 2 * l > -ay
    PROVE  LET up == 2 * l > ay \/ (2 * l = ay /\ k % 2 = 1)
           IN  /\ Multiple = IF up THEN k + 1 ELSE k
               /\ Remainder = IF up THEN l - ay ELSE l
<1> DEFINE a == ay
           n == NearestInteger(ax, ay)
           up == 2 * l > ay \/ (2 * l = ay /\ k % 2 = 1)
<1>1. Multiple = n /\ Remainder = ax - n * a
  <2>1. Multiple = n
    BY DEF Multiple, ResidueFunctions
  <2> QED
    BY <2>1
<1>2. n = IF up THEN k + 1 ELSE k
  <2> DEFINE s == ax
  <2>0. s \in Nat /\ a \in Nat \ {0} /\ k \in Int /\ l \in Int /\ s = k * a + l /\ l < a /\ 2 * l > -a
    OBVIOUS
  <2> HIDE DEF s, a
  <2>1. CASE l >= 0
    <3>1. NearestInteger(s, a) = IF 2 * l > a \/ (2 * l = a /\ k % 2 = 1) THEN k + 1 ELSE k
      BY ONLY <2>0, <2>1, NearestMultiple
    <3> QED
      BY <3>1 DEF s, a
  <2>2. CASE l < 0
    <3>1. 2 * l >= -a /\ 2 * l # -a
      BY <2>0
    <3>2. n = k
      <4>1. NearestInteger(s, a) = k
        BY ONLY <2>0, <2>2, <3>1, NearestMultiple
      <4> QED
        BY <4>1 DEF s, a
    <3>3. ~up
      BY <2>0, <2>2 DEF a
    <3> QED
      BY <3>2, <3>3
  <2> QED
    BY <2>1, <2>2
<1> HIDE DEF n, up
<1>3. (k + 1) * a = k * a + a /\ k * a \in Nat /\ a \in Nat /\ ax = k * a + l
  OBVIOUS
<1> HIDE DEF a
<1>4. Remainder = IF up THEN l - a ELSE l
  BY <1>1, <1>2, <1>3
<1> QED
  BY <1>1, <1>2, <1>4 DEF a, up

\* In the middle of two multiples the rounded quotient tells the parity.
LEMMA ParityTold ==
    ASSUME ax \in Nat, ay \in Nat \ {0}, x \in Patterns, NEW k \in Nat, 2 * ax = (2 * k + 1) * ay
    PROVE  TruncatedQuotient(Precision, ax, ay) = k
<1> DEFINE p == Precision
           o == 2 * k + 1
<1>1. p \in Nat /\ p >= M + 1 /\ M \in Nat
  BY SizeAssumption, ResidueAssumption DEF Precision
<1>2. o < pow2[M + 1]
  <2>1. Short(M + 1, ax)
    <3>1. Magnitude(x) \in Patterns
      BY MagnitudeIs
    <3> QED
      BY <3>1, UnitsShort DEF ax
  <2> QED
    BY <2>1, MiddleIsShort
<1>3. pow2[M + 1] <= pow2[p] /\ pow2[M + 1] \in Nat /\ pow2[p] \in Nat
  BY <1>1, Pow2Grows, Pow2Type
<1>4. o < pow2[p] /\ p > 0
  BY <1>1, <1>2, <1>3
<1>5. QuotientOf(p, ax, ay) = k
  <2> DEFINE n == ax
             d == ay
  <2>1. n \in Nat /\ d \in Nat \ {0} /\ 2 * n = (2 * k + 1) * d /\ 2 * k + 1 < pow2[p] /\ k \in Nat
    BY <1>4
  <2> HIDE DEF n, d, p
  <2>2. QuotientOf(p, n, d) = k
    BY <1>1, <1>4, <2>1, QuotientMiddle
  <2> QED
    BY <2>2 DEF n, d
<1> QED
  BY <1>5 DEF TruncatedQuotient

\* remainder and remainderf give the nearest multiple's rest, of two the even one's.
LEMMA LastRemainderIs ==
    ASSUME DivisionInv, RestInv, y \in Patterns, pc = "last", fn \in {"remainder", "remainderf"},
           Clear, NEW l, l = adx - TruncatedQuotient(Precision, adx, w) * w
    PROVE  LET todd == TruncatedQuotient(Precision, ax, w) % 2 = 1
               down == ~(todd /\ Halved(w) = 2 * l) /\ Halved(w) >= 2 * l
           IN  Value(ZeroMinus(IF down THEN l ELSE l - w)) = LikeX(Remainder)
<1> DEFINE t == TruncatedQuotient(Precision, adx, w)
           todd == TruncatedQuotient(Precision, ax, w) % 2 = 1
           down == ~(todd /\ Halved(w) = 2 * l) /\ Halved(w) >= 2 * l
           p == pow2[Bits]
<1>1. Sharp
  BY ClearIsSharp
<1>2. w = ay /\ ay \in Nat \ {0} /\ ax \in Nat /\ adx \in Int /\ p \in Nat /\ x \in Patterns
  <2>1. p \in Nat
    BY RoundTypes, Pow2Type
  <2>2. x \in Patterns
    BY DEF DivisionInv
  <2> QED
    BY <1>1, <2>1, <2>2, LastLeaves DEF DivisionInv
<1>3. t \in Nat /\ l \in -w .. w - 1 /\ Aligned(l, w) /\ 2 * l > -ay
  <2>1. /\ t \in Nat /\ l \in -w .. w - 1 /\ Aligned(l, w)
        /\ fn = "remainder" => 2 * l > -ay
        /\ InFloat => l = adx % w
    BY <1>1, RoundLeaves
  <2>2. CASE fn = "remainder"
    BY <2>1, <2>2
  <2>3. CASE fn = "remainderf"
    <3>1. adx \in Int /\ adx >= 0 /\ w \in Nat \ {0}
      <4>1. Rest(adx, w, quo)
        BY <1>1 DEF RestInv
      <4> QED
        BY <1>2, <2>3, <4>1 DEF Rest
    <3>2. adx % w >= 0
      BY ONLY <3>1, Division
    <3>3. l >= 0
      BY <2>1, <2>3, <3>2 DEF InFloat
    <3> QED
      BY <1>2, <2>1, <3>3
  <2> QED
    BY <2>1, <2>2, <2>3
<1>4. PICK k \in Nat : ax = k * ay + l
  <2>1. l \in Int /\ l = adx - t * w /\ t \in Nat
    BY <1>2, <1>3
  <2> HIDE DEF t
  <2>2. PICK i \in Nat : ax = (t + i * pow2[Bits]) * ay + l /\ t + i * pow2[Bits] \in Nat
    BY <1>1, <2>1, QuotientOfX
  <2> QED
    BY <2>2
<1>5. Finite(y) /\ Remainder = ax - Multiple * ay
  <2>1. 0 \in Nat /\ adx - 0 * w \in Int
    BY <1>2
  <2> QED
    BY <1>1, <2>1, QuotientOfX
<1> DEFINE up == 2 * l > ay \/ (2 * l = ay /\ k % 2 = 1)
<1>6. Remainder = IF up THEN l - ay ELSE l
  <2>1. l \in Int /\ l < ay /\ 2 * l > -ay
    BY <1>2, <1>3
  <2>2. fn \in ResidueFunctions \ {"fmod", "fmodf"}
    BY DEF ResidueFunctions
  <2> QED
    BY <1>2, <1>4, <1>5, <2>1, <2>2, NearestRest
<1>7. down <=> ~up
  <2>1. Halved(w) = ay
    BY <1>2, <1>5, HalvedIs DEF ResidueFunctions
  <2>2. CASE 2 * l = ay
    <3>1. 2 * ax = (2 * k + 1) * ay
      <4> DEFINE a == ay
      <4>1. a \in Nat /\ 2 * l = a /\ ax = k * a + l
        BY <1>2, <1>4, <2>2
      <4> HIDE DEF a
      <4>2. (2 * k + 1) * a = 2 * (k * a) + a /\ k * a \in Nat
        BY <4>1
      <4>3. 2 * ax = (2 * k + 1) * a
        <5> DEFINE m == k * a
        <5>1. m \in Nat /\ ax = m + l /\ (2 * k + 1) * a = 2 * m + a /\ l \in Int
          BY <1>2, <1>3, <4>1, <4>2
        <5> HIDE DEF m
        <5>2. 2 * l = a
          BY <4>1
        <5>3. 2 * ax = 2 * m + a
          BY ONLY <5>1, <5>2
        <5> QED
          BY <5>1, <5>3
      <4> QED
        BY <4>3 DEF a
    <3>2. TruncatedQuotient(Precision, ax, w) = k
      BY <1>2, <3>1, ParityTold
    <3> QED
      BY <1>2, <1>3, <2>1, <2>2, <3>2
  <2>3. CASE 2 * l # ay
    BY <1>2, <1>3, <2>1, <2>3
  <2> QED
    BY <2>2, <2>3
<1> HIDE DEF t, down, up
<1>8. Value(ZeroMinus(l)) = LikeX(l)
  BY <1>2, <1>3, AnswersExact
<1>9. up => Value(ZeroMinus(l - w)) = LikeX(l - w)
  <2>1. ASSUME up PROVE l >= 0
    BY <1>2, <1>3, <2>1 DEF up
  <2>2. l \in Int /\ w \in Nat /\ 1 \in Int /\ Aligned(l, w)
    BY <1>2, <1>3
  <2>3. Aligned(l - 1 * w, w)
    BY ONLY <2>2, AlignedLeft
  <2>4. l - 1 * w = l - w
    BY <2>2
  <2> QED
    BY <1>2, <1>3, <2>1, <2>3, <2>4, AnswersExact
<1> QED
  BY <1>2, <1>6, <1>7, <1>8, <1>9 DEF down

\* What is stored: a quotient that is not too large for the bits that are kept.
LEMMA StoredIs ==
    ASSUME NEW z \in 0 .. pow2[QUOBITS - 1]
    PROVE  LET v == ToInt(ToInt(z) * qsgn)
           IN  v # -pow2[QUOBITS - 1] => v * qsgn = z
<1> DEFINE q == pow2[QUOBITS - 1]
<1>1. q \in Nat \ {0} /\ pow2[QUOBITS] = 2 * q
  <2>1. QUOBITS - 1 \in Nat /\ (QUOBITS - 1) + 1 = QUOBITS
    BY ResidueAssumption
  <2> QED
    BY <2>1, Pow2Next, Pow2Type
<1> HIDE DEF q
<1>2. ASSUME NEW i \in Int, -q < i, i < q PROVE ToInt(i) = i
  <2>1. (i + q) % (2 * q) = i + q
    <3>1. i + q = (2 * q) * 0 + (i + q) /\ i + q \in 0 .. 2 * q - 1 /\ 2 * q \in Nat \ {0}
          /\ i + q \in Int /\ 0 \in Int
      BY <1>1, <1>2
    <3> QED
      BY ONLY <3>1, DivisionUnique
  <2> QED
    BY <1>1, <1>2, <2>1 DEF ToInt, q
<1>3. ASSUME NEW i \in {q, -q} PROVE ToInt(i) = -q
  <2>1. PICK j \in {0, 1} : i + q = (2 * q) * j
    BY <1>1
  <2>2. (i + q) % (2 * q) = 0
    <3>1. i + q = (2 * q) * j + 0 /\ 0 \in 0 .. 2 * q - 1 /\ 2 * q \in Nat \ {0}
          /\ i + q \in Int /\ j \in Int
      BY <1>1, <2>1
    <3> QED
      BY ONLY <3>1, DivisionUnique
  <2> QED
    BY <1>1, <2>2 DEF ToInt, q
<1>4. qsgn \in {1, -1}
  BY DEF qsgn
<1>5. z \in 0 .. q
  BY DEF q
<1> DEFINE s == qsgn
<1> HIDE DEF s
<1>6. s \in {1, -1}
  BY <1>4 DEF s
<1>7. CASE z < q
  <2>1. ToInt(z) = z
    BY <1>1, <1>2, <1>5, <1>7
  <2>2. z * s \in Int /\ -q < z * s /\ z * s < q /\ (z * s) * s = z
    BY <1>1, <1>5, <1>6, <1>7
  <2>3. ToInt(z * s) = z * s
    BY <1>2, <2>2
  <2> QED
    BY <2>1, <2>2, <2>3 DEF s
<1>8. CASE z = q
  <2>1. ToInt(z) = -q
    BY <1>3, <1>8
  <2>2. (-q) * s \in {q, -q}
    BY <1>1, <1>6
  <2>3. ToInt((-q) * s) = -q
    BY <1>3, <2>2
  <2> QED
    BY <2>1, <2>3 DEF s, q
<1> QED
  BY <1>1, <1>5, <1>7, <1>8

\* remquo gives the nearest multiple's rest, and stores the multiple's lowest bits.
LEMMA LastRemquoIs ==
    ASSUME DivisionInv, RestInv, y \in Patterns, pc = "last", fn = "remquo", Clear,
           NEW temp, temp = TruncatedQuotient(Precision, adx, w), NEW left, left = adx - temp * w
    PROVE  LET half == IF Magnitude(y) < (BIASEDEMAX - 1) * IMPBIT THEN w ELSE Halved(w)
               back == left < 0
               dx   == IF back THEN Nearest(left + w) ELSE left
               todd == (temp % 2 = 1) # back
               low  == (temp % pow2[QUOBITS - 1]) - (IF back THEN 1 ELSE 0)
               up   == 2 * dx > half \/ (todd /\ 2 * dx = half)
               v    == ToInt(ToInt(IF up THEN low + 1 ELSE low) * qsgn)
           IN  /\ Value(Flipped(IF up THEN dx - w ELSE dx)) = LikeX(Remainder)
               /\ v # -pow2[QUOBITS - 1] => (v * qsgn) % 8 = Multiple % 8 /\ v * qsgn >= 0
<1> DEFINE half == IF Magnitude(y) < (BIASEDEMAX - 1) * IMPBIT THEN w ELSE Halved(w)
           back == left < 0
           dx   == IF back THEN Nearest(left + w) ELSE left
           todd == (temp % 2 = 1) # back
           e    == pow2[QUOBITS - 1]
           low  == (temp % e) - (IF back THEN 1 ELSE 0)
           up   == 2 * dx > half \/ (todd /\ 2 * dx = half)
           z    == IF up THEN low + 1 ELSE low
           v    == ToInt(ToInt(z) * qsgn)
           p == pow2[Bits]
           a == ay
           q == adx \div w
           r == adx % w
<1>1. Sharp /\ Rest(adx, w, quo)
  BY ClearIsSharp DEF RestInv
<1>2. /\ w = a /\ a \in Nat \ {0} /\ ax \in Nat /\ adx \in Int /\ adx >= 0 /\ Aligned(adx, w)
      /\ \E k \in Nat : ax = adx + k * (a * p)
  <2>1. w = ay /\ ay \in Nat \ {0} /\ ax \in Nat /\ adx \in Int
    BY <1>1, LastLeaves DEF DivisionInv
  <2>2. adx >= 0 /\ Aligned(adx, w)
    BY <1>1 DEF Rest
  <2>3. \E k \in Nat : ax = adx + k * (ay * pow2[Bits])
    BY <1>1, LastLeaves
  <2> QED
    BY <2>1, <2>2, <2>3
<1>3. /\ temp \in Nat /\ temp \in {q, q + 1} /\ left \in {r, r - w} /\ 2 * left > -w
      /\ left \in -w .. w - 1
  <2>1. /\ TruncatedQuotient(Precision, adx, w) \in Nat
        /\ TruncatedQuotient(Precision, adx, w) \in {adx \div w, adx \div w + 1}
        /\ adx - TruncatedQuotient(Precision, adx, w) * w \in {adx % w, (adx % w) - w}
        /\ 2 * (adx - TruncatedQuotient(Precision, adx, w) * w) > -w
        /\ adx - TruncatedQuotient(Precision, adx, w) * w \in -w .. w - 1
    BY <1>1, <1>2, RoundLeaves
  <2> QED
    BY <2>1
<1>4. q \in Nat /\ r \in 0 .. w - 1 /\ adx = w * q + r
  <2>1. adx \in Int /\ adx >= 0 /\ w \in Nat \ {0}
    BY <1>2
  <2> QED
    BY ONLY <2>1, Division
<1>todd. ~back => (todd <=> temp % 2 = 1)
  OBVIOUS
<1> HIDE DEF q, r, a
<1>5. /\ back => temp = q + 1 /\ left = r - w /\ 2 * r > w
      /\ ~back => temp = q /\ left = r
  <2>1. temp * w \in Nat /\ left = adx - temp * w /\ w \in Nat \ {0} /\ w * q \in Nat
    BY <1>2, <1>3, <1>4
  <2>2. CASE temp = q
    <3>1. temp * w = w * q
      BY <1>2, <1>4, <2>2
    <3>2. left = r
      BY <1>2, <1>4, <2>1, <3>1
    <3> QED
      BY <1>4, <2>1, <2>2, <3>2
  <2>3. CASE temp = q + 1
    <3>1. temp * w = w * q + w
      BY <1>2, <1>4, <2>3
    <3>2. left = r - w
      BY <1>2, <1>4, <2>1, <3>1
    <3> QED
      BY <1>2, <1>3, <1>4, <2>1, <2>3, <3>2
  <2> QED
    BY <1>3, <2>2, <2>3
<1>6. Aligned(r, w)
  <2>1. Aligned(adx - q * w, w)
    <3>1. adx \in Int /\ w \in Nat /\ q \in Int /\ Aligned(adx, w)
      BY <1>2, <1>4
    <3> QED
      BY ONLY <3>1, AlignedLeft
  <2>2. adx - q * w = r
    <3>1. q * w = w * q /\ w * q \in Nat
      BY <1>2, <1>4
    <3> QED
      BY <1>2, <1>4, <3>1
  <2> QED
    BY <2>1, <2>2
<1>7. dx = r
  <2>1. AbsValue(r) <= w /\ r \in Int /\ w \in Nat
    BY <1>2, <1>4 DEF AbsValue
  <2>2. Nearest(r) = r
    BY <1>6, <2>1, AlignedExact
  <2>3. back => left + w = r
    BY <1>2, <1>4, <1>5
  <2> QED
    BY <1>5, <2>2, <2>3
<1>8. PICK k \in Nat : ax = adx + k * (a * p)
  BY <1>2
<1>9. p \in Nat /\ (\E c \in Nat : p = 8 * c) /\ e \in Nat \ {0} /\ (\E c \in Nat : e = 8 * c)
  <2>1. Bits = M /\ M \in Nat /\ M >= 3 /\ QUOBITS - 1 \in Nat /\ QUOBITS - 1 >= 3
    BY SizeAssumption, ResidueAssumption DEF Bits, InFloat
  <2> QED
    BY <2>1, EightDivides, Pow2Type
<1> HIDE DEF p, e, back, dx, todd
<1> DEFINE n == q + k * p
<1>10. n \in Nat /\ ax = n * a + r /\ n = q + p * k
  <2>1. p * k = k * p /\ k * p \in Nat /\ k * (a * p) = (k * p) * a /\ a \in Nat
    BY <1>2, <1>9
  <2> DEFINE m == k * p
  <2>2. m \in Nat /\ ax = adx + m * a /\ n = q + m
    BY <1>8, <2>1
  <2> HIDE DEF m, n
  <2>3. n * a = q * a + m * a /\ q * a = w * q /\ q * a \in Nat /\ m * a \in Nat
    BY <1>2, <1>4, <2>1, <2>2
  <2>4. ax = n * a + r
    BY <1>2, <1>4, <2>1, <2>2, <2>3
  <2>5. n = q + p * k /\ n \in Nat
    BY <1>4, <2>1, <2>2 DEF m
  <2> QED
    BY <2>4, <2>5 DEF n
<1> HIDE DEF n
<1>11. Finite(y) /\ Remainder = ax - Multiple * ay
  <2>1. 0 \in Nat /\ adx - 0 * w \in Int
    BY <1>2
  <2> QED
    BY <1>1, <2>1, QuotientOfX
<1> DEFINE above == 2 * r > a \/ (2 * r = a /\ n % 2 = 1)
<1>12. Multiple = (IF above THEN n + 1 ELSE n) /\ Remainder = (IF above THEN r - w ELSE r)
  <2>1. r \in Int /\ r < ay /\ 2 * r > -ay /\ ax = n * ay + r /\ ay \in Nat \ {0}
    BY <1>2, <1>4, <1>10 DEF a
  <2>2. fn \in ResidueFunctions \ {"fmod", "fmodf"}
    BY DEF ResidueFunctions
  <2> QED
    BY <1>2, <1>10, <1>11, <2>1, <2>2, NearestRest DEF a
<1>13. half = a
  <2>1. Halved(w) = w
    BY <1>2, <1>11, HalvedIs DEF a, ResidueFunctions
  <2> QED
    BY <1>2, <2>1
<1>14. up <=> above
  <2>1. CASE 2 * r = a
    <3>1. ~back
      BY <1>2, <1>5, <2>1
    <3>2. n % 2 = q % 2
      <4>1. PICK c \in Nat : p = 8 * c
        BY <1>9
      <4>2. n = q + 2 * (4 * (c * k)) /\ c * k \in Nat
        BY <1>4, <1>10, <4>1
      <4> DEFINE j == 4 * (c * k)
      <4>3. j \in Nat /\ n = q + 2 * j
        BY <4>2
      <4> HIDE DEF j
      <4> QED
        BY <1>4, <4>3, RestOfSum
    <3> QED
      BY <1>5, <1>7, <1>13, <1>todd, <2>1, <3>1, <3>2
  <2>2. CASE 2 * r # a
    BY <1>2, <1>4, <1>7, <1>13, <2>2
  <2> QED
    BY <2>1, <2>2
<1>15. back => above
  BY <1>2, <1>5
<1> HIDE DEF up, above
<1>16. Value(Flipped(IF up THEN dx - w ELSE dx)) = LikeX(Remainder)
  <2>1. Value(Flipped(r)) = LikeX(r)
    BY <1>2, <1>4, <1>6, AnswersExact
  <2>2. Value(Flipped(r - w)) = LikeX(r - w)
    <3>1. Aligned(r - 1 * w, w)
      <4>1. r \in Int /\ w \in Nat /\ 1 \in Int /\ Aligned(r, w)
        BY <1>2, <1>4, <1>6
      <4> QED
        BY ONLY <4>1, AlignedLeft
    <3>2. r - 1 * w = r - w
      BY <1>2, <1>4
    <3> QED
      BY <1>2, <1>4, <3>1, <3>2, AnswersExact
  <2> QED
    BY <1>7, <1>12, <1>14, <2>1, <2>2
<1>17. z \in 0 .. e /\ \E c \in Nat : Multiple = z + 8 * c
  <2> DEFINE b == IF back THEN 1 ELSE 0
             u == IF up THEN 1 ELSE 0
             d == temp \div e
             s == temp % e
  <2>1. d \in Nat /\ s \in 0 .. e - 1 /\ temp = e * d + s
    <3>1. temp \in Int /\ temp >= 0 /\ e \in Nat \ {0}
      BY <1>3, <1>9
    <3> QED
      BY ONLY <3>1, Division
  <2>2. b \in {0, 1} /\ u \in {0, 1} /\ b <= u /\ temp = q + b /\ Multiple = n + u
    BY <1>4, <1>5, <1>10, <1>12, <1>14, <1>15
  <2>3. z = s - b + u
    BY <2>1, <2>2
  <2> HIDE DEF b, u, d, s
  <2>4. PICK c1 \in Nat : p = 8 * c1
    BY <1>9
  <2>5. PICK c2 \in Nat : e = 8 * c2
    BY <1>9
  <2>6. p * k = 8 * (c1 * k) /\ e * d = 8 * (c2 * d) /\ c1 * k \in Nat /\ c2 * d \in Nat
    BY <2>1, <2>4, <2>5
  <2> DEFINE i == c1 * k
             j == c2 * d
  <2>7. i \in Nat /\ j \in Nat /\ n = q + 8 * i /\ temp = 8 * j + s
    BY <1>10, <2>1, <2>6
  <2> HIDE DEF i, j, z
  <2>8. z \in 0 .. e
    BY <1>9, <2>1, <2>2, <2>3
  <2>9. Multiple = z + 8 * (i + j) /\ i + j \in Nat
    BY <1>4, <1>10, <2>1, <2>2, <2>3, <2>7
  <2> QED
    BY <2>8, <2>9
<1>18. z % 8 = Multiple % 8
  <2>1. PICK c \in Nat : Multiple = z + 8 * c
    BY <1>17
  <2>2. z \in Nat
    BY <1>9, <1>17
  <2> HIDE DEF z
  <2> QED
    BY <2>1, <2>2, RestOfSum
<1> HIDE DEF z
<1>19. v # -pow2[QUOBITS - 1] => v * qsgn = z
  BY <1>17, StoredIs DEF e
<1>20. z >= 0
  BY <1>9, <1>17
<1> HIDE DEF v
<1>21. v # -pow2[QUOBITS - 1] => (v * qsgn) % 8 = Multiple % 8 /\ v * qsgn >= 0
  BY <1>18, <1>19, <1>20
<1> QED
  BY <1>16, <1>21 DEF back, dx, e, todd, up, z, v

-----------------------------------------------------------------------------
(* What each action of a division gives.                                   *)

\* The exceptional arguments are those that have no remainder.
LEMMA ExceptionalIs == ASSUME x \in Patterns, y \in Patterns PROVE Exceptional <=> Undefinable
<1>1. Magnitude(x) \in Nat /\ Magnitude(y) \in Nat /\ EXPBITS \in Nat
  BY Fields, Format
<1> DEFINE m == Magnitude(x)
<1>2. ~(m < EXPBITS) <=> m > EXPBITS \/ m = EXPBITS
  BY <1>1
<1>3. ~Finite(x) <=> IsNaN(x) \/ IsInf(x)
  BY <1>2 DEF Finite, IsNaN, IsInf
<1> QED
  BY <1>3 DEF Exceptional, Undefinable

\* What the functions are defined by is at most half the divisor, or below it.
LEMMA RemainderBounds ==
    ASSUME ax \in Nat, ay \in Nat \ {0}, Remainder = ax - Multiple * ay
    PROVE  /\ Multiple \in Nat /\ Remainder \in -ay .. ay
           /\ IF fn \in {"fmod", "fmodf"} THEN Remainder = ax % ay /\ Remainder \in 0 .. ay - 1
              ELSE -ay <= 2 * Remainder /\ 2 * Remainder <= ay
<1> DEFINE d == ay
           a == ax
           q == a \div d
           r == a % d
           n == IF 2 * r > d \/ (2 * r = d /\ q % 2 = 1) THEN q + 1 ELSE q
<1>1. a \in Nat /\ d \in Nat \ {0}
  OBVIOUS
<1>2. a = d * q + r /\ q \in Nat /\ r \in 0 .. d - 1
  <2>1. a \in Int /\ a >= 0 /\ d \in Nat \ {0}
    BY <1>1
  <2> HIDE DEF a, d
  <2> QED
    BY ONLY <2>1, Division
<1>3. Multiple = IF fn \in {"fmod", "fmodf"} THEN q ELSE n
  BY DEF Multiple, NearestInteger
<1>4. Remainder = a - Multiple * d
  OBVIOUS
<1> HIDE DEF a, d, q, r
<1>5. CASE Multiple = q
  <2>1. q * d = d * q /\ d * q \in Nat
    BY <1>1, <1>2
  <2>2. Remainder = r
    BY <1>1, <1>2, <1>4, <1>5, <2>1
  <2>3. CASE fn \in {"fmod", "fmodf"}
    <3>1. Remainder \in 0 .. d - 1 /\ Remainder \in -d .. d /\ Multiple \in Nat
      BY ONLY <1>1, <1>2, <1>5, <2>2
    <3>2. Remainder = ax % ay
      BY <2>2 DEF a, d, r
    <3> QED
      BY <2>3, <3>1, <3>2 DEF d
  <2>4. CASE fn \notin {"fmod", "fmodf"}
    <3>1. ~(2 * r > d)
      BY <1>1, <1>2, <1>3, <1>5, <2>4
    <3> QED
      BY <1>1, <1>2, <1>5, <2>2, <2>4, <3>1 DEF d
  <2> QED
    BY <2>3, <2>4
<1>6. CASE Multiple # q
  <2>1. fn \notin {"fmod", "fmodf"} /\ Multiple = q + 1 /\ 2 * r >= d
    BY <1>1, <1>2, <1>3, <1>6
  <2>2. (q + 1) * d = d * q + d /\ d * q \in Nat
    BY <1>1, <1>2
  <2>3. Remainder = r - d
    BY <1>1, <1>2, <1>4, <2>1, <2>2
  <2>4. -d <= 2 * Remainder /\ 2 * Remainder <= d /\ Multiple \in Nat /\ Remainder \in -d .. d
    BY ONLY <1>1, <1>2, <2>1, <2>3
  <2> QED
    BY <2>1, <2>4 DEF d
<1> QED
  BY <1>5, <1>6

\* The arguments of a division that is not exceptional.
LEMMA NumbersAre ==
    ASSUME x \in Patterns, y \in Patterns, ~Exceptional
    PROVE  /\ Finite(x) /\ ~IsNaN(x) /\ ax \in Nat /\ ay \in Nat \ {0}
           /\ Value(x) = LikeX(ax) /\ Units(x) = ax /\ Units(y) = ay
           /\ ~IsInf(y) => Finite(y) /\ Remainder = ax - Multiple * ay
           /\ IsInf(y) => ax < ay /\ Remainder = ax
           /\ IsZero(x) <=> ax = 0
<1>1. Magnitude(x) \in Nat /\ Magnitude(y) \in Nat /\ EXPBITS \in Nat
  BY Fields, Format
<1>2. Finite(x) /\ ~IsNaN(y) /\ ~IsZero(y)
  BY DEF Exceptional
<1>3. ~IsNaN(x) /\ (~IsInf(y) => Finite(y))
  <2> DEFINE m == Magnitude(x)
             n == Magnitude(y)
  <2>1. m < EXPBITS /\ ~(n > EXPBITS) /\ m \in Nat /\ n \in Nat
    BY <1>1, <1>2 DEF Finite, IsNaN
  <2> HIDE DEF m, n
  <2>2. ~(m > EXPBITS) /\ (n # EXPBITS => n < EXPBITS)
    BY <1>1, <2>1
  <2> QED
    BY <2>2 DEF m, n, Finite, IsNaN, IsInf
<1>4. /\ Units(x) \in Nat /\ Units(Magnitude(x)) = Units(x)
      /\ Value(x) = IF Negative(x) THEN -Units(x) ELSE Units(x)
      /\ Value(x) = 0 <=> IsZero(x)
  BY ValueIs
<1>5. ay \in Nat \ {0}
  BY DivisorIs
<1>6. Units(Magnitude(y)) = Units(y)
  BY ValueIs
<1>7. ax = Units(x) /\ ay = Units(y) /\ ax \in Nat /\ Value(x) = LikeX(ax)
  BY <1>4, <1>6 DEF ax, ay, LikeX
<1>8. IsInf(y) => ax < ay /\ Remainder = ax
  <2>1. SUFFICES ASSUME IsInf(y) PROVE ax < ay
    BY DEF Remainder
  <2>2. Magnitude(x) < Magnitude(y)
    BY <1>2, <2>1 DEF Finite, IsInf
  <2>3. Units(x) < Units(y)
    BY <2>2, UnitsOrder
  <2> QED
    BY <1>7, <2>3
<1>9. IsZero(x) <=> ax = 0
  <2> DEFINE n == Units(x)
  <2>1. n \in Nat /\ Value(x) = (IF Negative(x) THEN -n ELSE n) /\ (Value(x) = 0 <=> IsZero(x))
    BY <1>4
  <2>2. ax = n
    BY <1>7
  <2> HIDE DEF n
  <2> QED
    BY <2>1, <2>2
<1>10. ~IsInf(y) => Remainder = ax - Multiple * ay
  BY DEF Remainder
<1> QED
  BY <1>2, <1>3, <1>5, <1>7, <1>8, <1>9, <1>10

\* What is nearer to the divisor than to zero, or not, is the remainder of a smaller number.
LEMMA SmallerIs ==
    ASSUME x \in Patterns, y \in Patterns, ~Exceptional, ax < ay, fn \in ResidueFunctions
    PROVE  LET above == ~IsInf(y) /\ 2 * ax > Halved(ay)
               v     == IF above THEN ax - ay ELSE ax
           IN  /\ v \in Int
               /\ fn \in {"fmod", "fmodf"} => Remainder = ax
               /\ fn \notin {"fmod", "fmodf"} /\ Clear =>
                     /\ Remainder = v /\ Value(ZeroMinus(v)) = LikeX(v) /\ Value(Flipped(v)) = LikeX(v)
                     /\ ~IsInf(y) => Multiple = IF above THEN 1 ELSE 0
                     /\ ax = 0 => v = 0
<1> DEFINE above == ~IsInf(y) /\ 2 * ax > Halved(ay)
           v     == IF above THEN ax - ay ELSE ax
           a == ax
           d == ay
<1>1. /\ Finite(x) /\ a \in Nat /\ d \in Nat \ {0} /\ a < d /\ Units(x) = a /\ Units(y) = d
      /\ ~IsInf(y) => Finite(y) /\ Remainder = ax - Multiple * ay
      /\ IsInf(y) => Remainder = a
  BY NumbersAre
<1>2. a \div d = 0 /\ a % d = a
  <2>1. a \in Int /\ a = d * 0 + a /\ a \in 0 .. d - 1 /\ d \in Nat \ {0} /\ 0 \in Int
    BY <1>1
  <2> HIDE DEF a, d
  <2> QED
    BY ONLY <2>1, DivisionUnique
<1>3. fn \in {"fmod", "fmodf"} => Remainder = ax
  <2>1. SUFFICES ASSUME fn \in {"fmod", "fmodf"}, ~IsInf(y) PROVE Remainder = ax
    BY <1>1
  <2>2. Multiple = 0
    BY <1>2, <2>1 DEF Multiple
  <2>3. 0 * ay = 0
    BY <1>1
  <2> QED
    BY <1>1, <2>1, <2>2, <2>3
<1>4. v \in Int
  BY <1>1
<1>5. ASSUME fn \notin {"fmod", "fmodf"}, Clear
      PROVE  /\ Remainder = v /\ Value(ZeroMinus(v)) = LikeX(v) /\ Value(Flipped(v)) = LikeX(v)
             /\ ~IsInf(y) => Multiple = IF above THEN 1 ELSE 0
             /\ ax = 0 => v = 0
  <2>1. Aligned(a, a)
    <3>1. Units(x) <= Units(x)
      BY <1>1
    <3> QED
      BY <1>1, <3>1, NumbersAligned
  <2>2. CASE IsInf(y)
    <3>1. v = a /\ Remainder = a
      BY <1>1, <2>2
    <3>2. Value(ZeroMinus(a)) = LikeX(a) /\ Value(Flipped(a)) = LikeX(a)
      BY <1>1, <2>1, AnswersExact
    <3> QED
      BY <2>2, <3>1, <3>2
  <2>3. CASE ~IsInf(y)
    <3>1. above <=> 2 * a > d
      <4>1. Halved(ay) = ay
        BY <1>1, <1>5, <2>3, HalvedIs
      <4> QED
        BY <2>3, <4>1
    <3>2. Multiple = NearestInteger(a, d)
      BY <1>5 DEF Multiple
    <3>3. NearestInteger(a, d) = IF 2 * a > d THEN 1 ELSE 0
      <4>1. 0 % 2 = 0
        OBVIOUS
      <4>2. NearestInteger(a, d) = IF 2 * (a % d) > d \/ (2 * (a % d) = d /\ (a \div d) % 2 = 1)
                                   THEN (a \div d) + 1 ELSE a \div d
        BY DEF NearestInteger
      <4> QED
        BY <1>2, <4>1, <4>2
    <3>4. Multiple = IF above THEN 1 ELSE 0
      BY <3>1, <3>2, <3>3
    <3>5. 1 * d = d /\ 0 * d = 0
      BY <1>1
    <3>6. Remainder = v
      BY <1>1, <2>3, <3>4, <3>5
    <3>7. Value(ZeroMinus(v)) = LikeX(v) /\ Value(Flipped(v)) = LikeX(v)
      <4>1. CASE above
        <5>1. Aligned(d, a)
          <6>1. Units(x) <= Units(y) /\ Finite(y)
            BY <1>1, <2>3
          <6> QED
            BY <1>1, <6>1, NumbersAligned
        <5>2. Aligned(1 * a - d, a)
          <6>1. d \in Int /\ a \in Nat /\ 1 \in Int /\ Aligned(d, a)
            BY <1>1, <5>1
          <6> HIDE DEF a, d
          <6> QED
            BY ONLY <6>1, AlignedLeft
        <5>3. 1 * a - d = v /\ -a <= v /\ v <= a /\ 2 * a > d
          BY <1>1, <3>1, <4>1
        <5> HIDE DEF v, a, d, above
        <5> QED
          BY <1>1, <1>4, <5>2, <5>3, AnswersExact
      <4>2. CASE ~above
        <5>1. v = a
          BY <4>2
        <5>2. Value(ZeroMinus(a)) = LikeX(a) /\ Value(Flipped(a)) = LikeX(a)
          BY <1>1, <2>1, AnswersExact
        <5> QED
          BY <5>1, <5>2
      <4> QED
        BY <4>1, <4>2
    <3>8. ax = 0 => v = 0
      BY <1>1, <3>1
    <3> QED
      BY <3>4, <3>6, <3>7, <3>8
  <2> QED
    BY <2>2, <2>3
<1> QED
  BY <1>3, <1>4, <1>5

\* A number that equals the divisor leaves nothing.
LEMMA EqualIs ==
    ASSUME x \in Patterns, y \in Patterns, ~Exceptional, ax = ay
    PROVE  Remainder = 0 /\ Multiple = 1
<1>1. ax \in Nat /\ ay \in Nat \ {0} /\ Remainder = ax - Multiple * ay
  <2>1. ~(ax < ay)
    BY NumbersAre
  <2> QED
    BY <2>1, NumbersAre
<1> DEFINE a == ax
           d == ay
<1>2. a \div d = 1 /\ a % d = 0
  <2>1. a \in Int /\ a = d * 1 + 0 /\ 0 \in 0 .. d - 1 /\ d \in Nat \ {0} /\ 1 \in Int
    BY <1>1
  <2> HIDE DEF a, d
  <2> QED
    BY ONLY <2>1, DivisionUnique
<1>3. NearestInteger(ax, ay) = 1
  <2>1. ax \in Nat /\ ay \in Nat \ {0} /\ ax % ay = 0
    BY <1>1, <1>2
  <2> QED
    BY <1>2, <2>1, NearestIs
<1>4. Multiple = 1
  BY <1>2, <1>3 DEF Multiple
<1>5. 1 * ay = ay
  BY <1>1
<1> QED
  BY <1>1, <1>4, <1>5

\* The remainder of numbers that are far apart is a number, and it is returned.
LEMMA FarApartIs ==
    ASSUME x \in Patterns, y \in Patterns, Larger, fn \in {"fmod", "remainder"}
    PROVE  LET v == IF fn = "fmod" THEN fprem(ax, ay) ELSE fprem1(ax, ay)
           IN  v \in Int /\ Value(Flipped(v)) = LikeX(Remainder)
<1>1. /\ Finite(x) /\ Finite(y) /\ ax \in Nat /\ ay \in Nat \ {0} /\ ax > ay /\ ~Exceptional
      /\ Units(x) = ax /\ Units(y) = ay /\ Remainder = ax - Multiple * ay
  <2>1. ~Exceptional /\ ax > ay
    BY DEF Larger
  <2>2. Finite(x) /\ Finite(y) /\ ax \in Nat /\ ay \in Nat \ {0}
    BY <2>1, LargerIs
  <2>3. ~(ax < ay)
    BY <2>1, <2>2
  <2> QED
    BY <2>1, <2>2, <2>3, NumbersAre
<1>2. Multiple \in Nat /\ Remainder \in -ay .. ay /\ (fn = "fmod" => Remainder = ax % ay)
  BY <1>1, RemainderBounds
<1> DEFINE v == IF fn = "fmod" THEN fprem(ax, ay) ELSE fprem1(ax, ay)
           a == ax
           d == ay
           n == Multiple
<1>3. v = Remainder
  <2>1. CASE fn = "fmod"
    BY <1>2, <2>1 DEF fprem
  <2>2. CASE fn # "fmod"
    <3>1. v = a - d * n
      BY <2>2 DEF fprem1, Multiple
    <3>2. a \in Nat /\ d \in Nat /\ n \in Nat /\ Remainder = a - n * d
      BY <1>1, <1>2
    <3> HIDE DEF v, a, d, n
    <3> QED
      BY <3>1, <3>2
  <2> QED
    BY <2>1, <2>2
<1>4. Aligned(a, d)
  <2>1. Units(y) <= Units(x)
    BY <1>1
  <2> QED
    BY <1>1, <2>1, NumbersAligned
<1>5. Aligned(a - n * d, d)
  <2>1. a \in Int /\ d \in Nat /\ n \in Int /\ Aligned(a, d)
    BY <1>1, <1>2, <1>4
  <2> HIDE DEF a, d, n
  <2> QED
    BY ONLY <2>1, AlignedLeft
<1>6. Value(Flipped(Remainder)) = LikeX(Remainder)
  <2>1. Aligned(Remainder, ay) /\ ay \in Nat /\ Remainder \in Int /\ -ay <= Remainder /\ Remainder <= ay
    BY <1>1, <1>2, <1>5
  <2> QED
    BY <2>1, AnswersExact
<1>7. Remainder \in Int
  BY <1>1, <1>2
<1> QED
  BY <1>3, <1>6, <1>7

\* remquo's lowest bits of the quotient, if the bits that it keeps can hold them.
LowestBits(s) == s # -pow2[QUOBITS - 1] => (s * qsgn) % 8 = Multiple % 8 /\ s * qsgn >= 0

\* What a division has given: r with the exceptions f, and s through the pointer.
Outcome(r, f, s) ==
    /\ Undefinable => IsNaN(r) /\ (IsNaN(x) \/ IsNaN(y) \/ "invalid" \in f)
    /\ ~Undefinable /\ Bounded => ~IsNaN(r) /\ f = {}
    /\ ~Undefinable /\ Clear /\ ~IsNaN(r) => Value(r) = LikeX(Remainder)
    /\ ~Undefinable /\ Clear /\ Bounded /\ fn = "remquo" => LowestBits(s)

\* A division of numbers that gives a number.
LEMMA NumberGiven ==
    ASSUME x \in Patterns, y \in Patterns, ~Exceptional, NEW r, NEW s, ~IsNaN(r),
           Clear => Value(r) = LikeX(Remainder), Clear /\ fn = "remquo" => LowestBits(s)
    PROVE  Outcome(r, {}, s)
<1>1. ~Undefinable
  BY ExceptionalIs
<1> QED
  BY <1>1 DEF Outcome

\* A NaN is passed on as one.
LEMMA PassNaNGives ==
    ASSUME x \in Patterns, y \in Patterns, fn \in ResidueFunctions, PassNaN
    PROVE  Outcome(ret', flags', stored')
<1>1. Undefinable
  BY ExceptionalIs DEF PassNaN
<1>2. IsNaN(x) \/ IsNaN(y)
  BY DEF PassNaN, PassesNaN, ResidueFunctions
<1>3. ret' = Quieted(IF IsNaN(x) THEN x ELSE y)
  BY DEF PassNaN, Return
<1>4. \A u \in Patterns : IsNaN(u) => IsNaN(Quieted(u))
  BY Format DEF Quieted, IsQuiet, IsNaN, Patterns, Magnitude, Negative
<1>5. IsNaN(ret')
  BY <1>2, <1>3, <1>4
<1> QED
  BY <1>1, <1>2, <1>5 DEF Outcome

\* Where there is no remainder the result is a NaN, and numbers raise invalid.
LEMMA UndefinedGives ==
    ASSUME x \in Patterns, y \in Patterns, fn \in ResidueFunctions, Undefined
    PROVE  Outcome(ret', flags', stored')
<1>1. Undefinable
  BY ExceptionalIs DEF Undefined
<1>2. IsNaN(NewNaN)
  BY Format DEF NewNaN, IsNaN, Magnitude, Negative
<1>3. IsNaN(ret') /\ (IsNaN(x) \/ flags' = {"invalid"})
  BY <1>2 DEF Undefined, Return
<1> QED
  BY <1>1, <1>3 DEF Outcome

\* The product of two signs.
LEMMA SignsProduct == /\ qsgn * qsgn = 1 /\ 1 % 8 = 1 /\ 0 * qsgn = 0 /\ 0 % 8 = 0
<1>1. qsgn \in {-1, 1}
  BY DEF qsgn
<1> DEFINE q == qsgn
<1>2. q \in {-1, 1}
  BY <1>1
<1> HIDE DEF q
<1>3. q * q = 1 /\ 0 * q = 0 /\ 1 % 8 = 1 /\ 0 % 8 = 0
  BY <1>2
<1> QED
  BY <1>3 DEF q

\* Zeros are numbers, of the value zero.
LEMMA ZerosAre ==
    ASSUME x \in Patterns
    PROVE  ~IsNaN(0) /\ Value(0) = 0 /\ ~IsNaN(SignOf(x)) /\ Value(SignOf(x)) = 0
<1>1. 0 \in Patterns /\ SignOf(x) \in Patterns
  BY PatternTypes
<1>2. Magnitude(0) = 0 /\ Magnitude(SignOf(x)) = 0
  BY Format DEF Magnitude, Negative, SignOf
<1>3. IsZero(0) /\ IsZero(SignOf(x))
  BY <1>2 DEF IsZero
<1> QED
  BY <1>1, <1>2, <1>3, ValueIs, Format DEF IsNaN

\* Equal magnitudes leave a zero.
LEMMA EqualGives ==
    ASSUME x \in Patterns, y \in Patterns, fn \in ResidueFunctions, Equal
    PROVE  Outcome(ret', flags', stored')
<1>1. ~Exceptional /\ ax = ay /\ flags' = {} /\ ret' \in {0, SignOf(x)} /\ (fn = "remquo" => stored' = qsgn)
  BY DEF Equal, Return, Stores
<1>2. Remainder = 0 /\ Multiple = 1
  BY <1>1, EqualIs
<1>3. ~IsNaN(ret') /\ Value(ret') = 0
  BY <1>1, ZerosAre
<1>4. LikeX(Remainder) = 0
  <2> DEFINE r == Remainder
  <2>1. r \in Int /\ r = 0 /\ LikeX(r) = IF Negative(x) THEN -r ELSE r
    BY <1>2 DEF LikeX
  <2> HIDE DEF r
  <2>2. -r = 0
    <3>1. r \in Int /\ r >= 0 /\ r <= 0
      BY <2>1
    <3> QED
      BY ONLY <3>1
  <2>3. LikeX(r) = 0
    BY <2>1, <2>2
  <2> QED
    BY <2>3 DEF r
<1>5. LowestBits(qsgn)
  BY <1>2, SignsProduct DEF LowestBits
<1> QED
  BY <1>1, <1>3, <1>4, <1>5, NumberGiven

\* A smaller number is its own remainder, or what it lacks of the divisor.
LEMMA SmallerGives ==
    ASSUME x \in Patterns, y \in Patterns, fn \in ResidueFunctions, Smaller
    PROVE  Outcome(ret', flags', stored')
<1> DEFINE above == ~IsInf(y) /\ 2 * ax > Halved(ay)
           v     == IF above THEN ax - ay ELSE ax
<1>1. /\ ~Exceptional /\ ax < ay /\ flags' = {}
      /\ ret' = CASE fn \in {"fmod", "fmodf"} -> x
                  [] fn = "remainder"         -> ZeroMinus(v)
                  [] fn = "remainderf"        -> IF IsZero(x) THEN x ELSE ZeroMinus(v)
                  [] fn = "remquo"            -> IF IsZero(x) THEN x ELSE Flipped(v)
      /\ fn = "remquo" => stored' = IF above THEN qsgn ELSE 0
  BY DEF Smaller, Return, Stores
<1>2. /\ v \in Int
      /\ fn \in {"fmod", "fmodf"} => Remainder = ax
      /\ fn \notin {"fmod", "fmodf"} /\ Clear =>
            /\ Remainder = v /\ Value(ZeroMinus(v)) = LikeX(v) /\ Value(Flipped(v)) = LikeX(v)
            /\ ~IsInf(y) => Multiple = IF above THEN 1 ELSE 0
            /\ ax = 0 => v = 0
  BY <1>1, SmallerIs
<1>3. ~IsNaN(x) /\ Value(x) = LikeX(ax) /\ (IsZero(x) <=> ax = 0)
  BY <1>1, NumbersAre
<1>4. ~IsNaN(ZeroMinus(v)) /\ ~IsNaN(Flipped(v))
  BY <1>2, NeverNaN
<1> HIDE DEF above, v
<1>5. ~IsNaN(ret')
  BY <1>1, <1>3, <1>4 DEF ResidueFunctions
<1>6. Clear => Value(ret') = LikeX(Remainder)
  <2>1. SUFFICES ASSUME Clear PROVE Value(ret') = LikeX(Remainder)
    OBVIOUS
  <2>2. CASE fn \in {"fmod", "fmodf"}
    BY <1>1, <1>2, <1>3, <2>2
  <2>3. CASE fn \notin {"fmod", "fmodf"}
    <3>1. /\ Remainder = v /\ Value(ZeroMinus(v)) = LikeX(v) /\ Value(Flipped(v)) = LikeX(v)
          /\ IsZero(x) => Value(x) = LikeX(v)
      BY <1>2, <1>3, <2>1, <2>3
    <3> QED
      BY <1>1, <2>3, <3>1 DEF ResidueFunctions
  <2> QED
    BY <2>2, <2>3
<1>7. Clear /\ fn = "remquo" => LowestBits(stored')
  <2>1. SUFFICES ASSUME Clear, fn = "remquo" PROVE LowestBits(stored')
    OBVIOUS
  <2>2. ~IsInf(y)
    BY <1>1, <2>1 DEF Exceptional
  <2>3. /\ Multiple = IF above THEN 1 ELSE 0
        /\ stored' = IF above THEN qsgn ELSE 0
    BY <1>1, <1>2, <2>1, <2>2
  <2> QED
    BY <2>3, SignsProduct DEF LowestBits
<1> QED
  BY <1>1, <1>5, <1>6, <1>7, NumberGiven

\* The processor's instructions give the remainder of numbers that are far apart.
LEMMA FarApartGives ==
    ASSUME x \in Patterns, y \in Patterns, fn \in ResidueFunctions, FarApart
    PROVE  Outcome(ret', flags', stored')
<1> DEFINE v == IF fn = "fmod" THEN fprem(ax, ay) ELSE fprem1(ax, ay)
<1>1. /\ Larger /\ fn \in {"fmod", "remainder"} /\ ~Exceptional
      /\ ret' = Flipped(v) /\ flags' = {}
  BY DEF FarApart, Far, Larger, Return
<1>2. v \in Int /\ Value(Flipped(v)) = LikeX(Remainder)
  BY <1>1, FarApartIs
<1> HIDE DEF v
<1>3. ~IsNaN(Flipped(v))
  BY <1>2, NeverNaN
<1> QED
  BY <1>1, <1>2, <1>3, NumberGiven

\* A product overflows only for the largest number, and leaves no number.
LEMMA ProductOverflowsGives ==
    ASSUME DivisionInv, RestInv, StrayInv, x \in Patterns, y \in Patterns, ProductOverflows
    PROVE  Outcome(ret', flags', stored')
<1>1. pc \in {"reduce", "last"} /\ Overflowing
  BY DEF ProductOverflows
<1>2. ~Exceptional /\ fn \in {"fmod", "remquo"}
  BY <1>1 DEF DivisionInv, Overflowing
<1>3. ~Undefinable
  BY <1>2, ExceptionalIs
<1>4. CASE fn = "remquo" /\ contracted
  BY <1>1, <1>3, <1>4, StrayRound DEF Outcome, Clear, Stray
<1>5. CASE ~(fn = "remquo" /\ contracted)
  <2>1. Sharp
    BY <1>2, <1>5 DEF Sharp, Normal
  <2>2. ~Bounded
    BY <1>1, <2>1, NotOverflowing
  <2>3. IsNaN(NewNaN)
    BY Format DEF NewNaN, IsNaN, Magnitude, Negative
  <2>4. IsNaN(ret')
    BY <1>5, <2>3 DEF ProductOverflows, Return
  <2> QED
    BY <1>3, <2>2, <2>4 DEF Outcome
<1> QED
  BY <1>4, <1>5

\* The last round starts with two numbers.
LEMMA LastNumbers ==
    ASSUME DivisionInv, RestInv, CallInv, pc = "last"
    PROVE  /\ x \in Patterns /\ y \in Patterns /\ ~Exceptional /\ fn \in ResidueFunctions
           /\ w \in Nat \ {0} /\ ay \in Nat \ {0} /\ adx \in Int
           /\ TruncatedQuotient(Precision, adx, w) \in Int
           /\ Subtracted(TruncatedQuotient(Precision, adx, w)) \in Int
<1>1. x \in Patterns /\ y \in Patterns /\ ~Exceptional /\ fn \in ResidueFunctions /\ adx \in Int
  BY DEF DivisionInv, CallInv
<1>2. w \in Nat \ {0}
  BY <1>1, MultipleType
<1>3. ay \in Nat \ {0}
  BY <1>1, DivisorIs
<1>4. /\ TruncatedQuotient(Precision, adx, w) \in Int
      /\ Subtracted(TruncatedQuotient(Precision, adx, w)) \in Int
  BY <1>1, LeftType
<1> QED
  BY <1>1, <1>2, <1>3, <1>4

\* fmod and fmodf give what the last round left.
LEMMA LastFmodGives ==
    ASSUME DivisionInv, RestInv, CallInv, LastFmod
    PROVE  Outcome(ret', flags', stored')
<1> DEFINE t == TruncatedQuotient(Precision, adx, w)
           left == Subtracted(t)
           v == IF fn = "fmod" /\ left < 0 THEN Nearest(left + ay) ELSE left
<1>1. /\ pc = "last" /\ fn \in {"fmod", "fmodf"} /\ ~Overflowing
      /\ ret' = ZeroMinus(v) /\ flags' = {}
  BY DEF LastFmod, Return
<1>2. /\ x \in Patterns /\ y \in Patterns /\ ~Exceptional /\ ay \in Nat /\ left \in Int
  BY <1>1, LastNumbers
<1>3. Sharp
  BY <1>1 DEF Sharp, Normal
<1>4. left = adx - t * w
  BY <1>1, <1>2, <1>3, SubtractedIs
<1>5. Value(ZeroMinus(v)) = LikeX(Remainder)
  <2> HIDE DEF left
  <2> QED
    BY <1>1, <1>2, <1>4, LastFmodIs
<1>6. v \in Int
  <2> HIDE DEF left
  <2>1. left + ay \in Int
    BY <1>2
  <2> QED
    BY <1>2, <2>1, NearestType
<1> HIDE DEF v
<1>7. ~IsNaN(ret')
  BY <1>1, <1>6, NeverNaN
<1>8. fn # "remquo"
  BY <1>1
<1> QED
  BY <1>1, <1>2, <1>5, <1>7, <1>8, NumberGiven

\* remainder and remainderf give the rest of the nearest multiple.
LEMMA LastRemainderGives ==
    ASSUME DivisionInv, RestInv, CallInv, LastRemainder
    PROVE  Outcome(ret', flags', stored')
<1> DEFINE t == TruncatedQuotient(Precision, adx, w)
           left == Subtracted(t)
           todd == TruncatedQuotient(Precision, ax, w) % 2 = 1
           down == ~(todd /\ Halved(w) = 2 * left) /\ Halved(w) >= 2 * left
           v == IF down THEN left ELSE left - w
<1>1. /\ pc = "last" /\ fn \in {"remainder", "remainderf"}
      /\ ret' = ZeroMinus(v) /\ flags' = {}
  BY DEF LastRemainder, Return
<1>2. /\ x \in Patterns /\ y \in Patterns /\ ~Exceptional /\ w \in Nat /\ left \in Int
  BY <1>1, LastNumbers
<1>3. ~Overflowing
  BY <1>1 DEF Overflowing
<1>4. Clear => Value(ZeroMinus(v)) = LikeX(Remainder)
  <2>1. SUFFICES ASSUME Clear PROVE Value(ZeroMinus(v)) = LikeX(Remainder)
    OBVIOUS
  <2>2. Sharp
    BY <1>2, <2>1, ClearIsSharp
  <2>3. left = adx - t * w
    BY <1>1, <1>2, <1>3, <2>2, SubtractedIs
  <2> HIDE DEF left
  <2> QED
    BY <1>1, <1>2, <2>1, <2>3, LastRemainderIs
<1>5. v \in Int
  <2> HIDE DEF left, down
  <2> QED
    BY <1>2
<1> HIDE DEF v
<1>6. ~IsNaN(ret')
  BY <1>1, <1>5, NeverNaN
<1>7. fn # "remquo"
  BY <1>1
<1> QED
  BY <1>1, <1>2, <1>4, <1>6, <1>7, NumberGiven

\* remquo gives it too, and stores the lowest bits of the multiple.
LEMMA LastRemquoGives ==
    ASSUME DivisionInv, RestInv, CallInv, LastRemquo
    PROVE  Outcome(ret', flags', stored')
<1> DEFINE temp == TruncatedQuotient(Precision, adx, w)
           half == IF Magnitude(y) < (BIASEDEMAX - 1) * IMPBIT THEN w ELSE Halved(w)
           left == Subtracted(temp)
           back == left < 0
           dx   == IF back THEN Nearest(left + w) ELSE left
           todd == (temp % 2 = 1) # back
           low  == (temp % pow2[QUOBITS - 1]) - (IF back THEN 1 ELSE 0)
           up   == 2 * dx > half \/ (todd /\ 2 * dx = half)
           v    == IF up THEN dx - w ELSE dx
           s    == ToInt(ToInt(IF up THEN low + 1 ELSE low) * qsgn)
<1>1. /\ pc = "last" /\ fn = "remquo" /\ ~Overflowing
      /\ ret' = Flipped(v) /\ flags' = {} /\ stored' = s
  BY DEF LastRemquo, Return
<1>2. /\ x \in Patterns /\ y \in Patterns /\ ~Exceptional /\ w \in Nat /\ left \in Int
  BY <1>1, LastNumbers
<1>3. Clear => Value(Flipped(v)) = LikeX(Remainder) /\ LowestBits(s)
  <2>1. SUFFICES ASSUME Clear PROVE Value(Flipped(v)) = LikeX(Remainder) /\ LowestBits(s)
    OBVIOUS
  <2>2. Sharp
    BY <1>2, <2>1, ClearIsSharp
  <2>3. left = adx - temp * w
    BY <1>1, <1>2, <2>2, SubtractedIs
  <2> HIDE DEF left
  <2>4. /\ Value(Flipped(v)) = LikeX(Remainder)
        /\ s # -pow2[QUOBITS - 1] => (s * qsgn) % 8 = Multiple % 8 /\ s * qsgn >= 0
    BY <1>1, <1>2, <2>1, <2>3, LastRemquoIs
  <2> HIDE DEF s
  <2> QED
    BY <2>4 DEF LowestBits
<1>4. v \in Int
  <2> HIDE DEF left, up
  <2>1. dx \in Int
    <3>1. left + w \in Int
      BY <1>2
    <3> QED
      BY <1>2, <3>1, NearestType
  <2> HIDE DEF dx
  <2> QED
    BY <1>2, <2>1
<1> HIDE DEF v, s
<1>5. ~IsNaN(ret')
  BY <1>1, <1>4, NeverNaN
<1> QED
  BY <1>1, <1>2, <1>3, <1>5, NumberGiven

\* A division of what the same division gave has a number that is small enough.
Repeated ==
    relation = "onResult" /\ fn \in ResidueFunctions /\ Clear /\ Finite(x) =>
        /\ ~Undefinable
        /\ IsInf(y) \/ IF fn \in {"fmod", "fmodf"} THEN ax < ay ELSE 2 * ax <= ay

\* What the divisions have given.
AnswerInv == Repeated /\ (Done(ResidueFunctions) => Outcome(ret, flags, stored))

\* What a division gave is small enough.
LEMMA SmallResult ==
    ASSUME x \in Patterns, y \in Patterns, ret \in Patterns, fn \in ResidueFunctions,
           Outcome(ret, flags, stored), Clear, Finite(ret)
    PROVE  /\ ~Undefinable
           /\ IsInf(y) \/ IF fn \in {"fmod", "fmodf"} THEN Units(Magnitude(ret)) < ay
                          ELSE 2 * Units(Magnitude(ret)) <= ay
<1>1. ~IsNaN(ret)
  <2>1. Magnitude(ret) \in Nat /\ EXPBITS \in Nat
    BY Fields, Format
  <2> QED
    BY <2>1 DEF IsNaN, Finite
<1>2. ~Undefinable /\ Value(ret) = LikeX(Remainder)
  BY <1>1 DEF Outcome
<1>3. ~Exceptional
  BY <1>2, ExceptionalIs
<1> DEFINE n == Units(Magnitude(ret))
           r == Remainder
           d == ay
<1>4. n \in Nat /\ LikeX(r) = (IF Negative(ret) THEN -n ELSE n)
  <2>1. Units(ret) \in Nat /\ Units(Magnitude(ret)) = Units(ret)
        /\ Value(ret) = IF Negative(ret) THEN -Units(ret) ELSE Units(ret)
    BY ValueIs
  <2> QED
    BY <1>2, <2>1
<1>5. ASSUME ~IsInf(y)
      PROVE  IF fn \in {"fmod", "fmodf"} THEN n < d ELSE 2 * n <= d
  <2>1. ax \in Nat /\ d \in Nat \ {0} /\ Remainder = ax - Multiple * ay
    BY <1>3, <1>5, NumbersAre
  <2>2. /\ r \in Int
        /\ IF fn \in {"fmod", "fmodf"} THEN r \in 0 .. d - 1 ELSE -d <= 2 * r /\ 2 * r <= d
    BY <2>1, RemainderBounds
  <2>3. LikeX(r) = IF Negative(x) THEN -r ELSE r
    BY DEF LikeX
  <2> HIDE DEF n, r, d
  <2>4. n = r \/ n = -r
    BY <1>4, <2>2, <2>3
  <2> QED
    BY <1>4, <2>1, <2>2, <2>4
<1> QED
  BY <1>2, <1>5

\* As long as the arguments are the same an outcome is the same.
LEMMA SameOutcome ==
    ASSUME UNCHANGED <<fn, x, y, contracted>>
    PROVE  /\ Outcome(ret', flags', stored') <=> Outcome(ret, flags, stored)'
           /\ relation' = relation => (Repeated' <=> Repeated)
<1>1. /\ Undefinable' = Undefinable /\ Bounded' = Bounded /\ Clear' = Clear
      /\ Remainder' = Remainder /\ Multiple' = Multiple /\ qsgn' = qsgn /\ ax' = ax /\ ay' = ay
      /\ ResidueFunctions' = ResidueFunctions
  BY DEF Undefinable, Bounded, Clear, Remainder, Multiple, qsgn, ax, ay, ResidueFunctions
<1>2. LikeX(Remainder)' = LikeX(Remainder)
  BY <1>1 DEF LikeX
<1>3. LowestBits(stored)' <=> LowestBits(stored')
  BY <1>1 DEF LowestBits
<1>4. Outcome(ret', flags', stored') <=> Outcome(ret, flags, stored)'
  BY <1>1, <1>2, <1>3 DEF Outcome
<1> QED
  BY <1>1, <1>4 DEF Repeated

\* Each division gives what it should.
LEMMA AnswerInvResidue ==
    ASSUME DivisionInv, RestInv, StrayInv, CallInv, AnswerInv, ResidueCall
    PROVE  AnswerInv'
<1>1. /\ fn \in ResidueFunctions /\ UNCHANGED <<fn, x, y, contracted, relation>> /\ y \in Patterns
      /\ x \in Patterns
  BY DEF ResidueCall, ResidueNext, DivisionInv, CallInv, PassNaN, Undefined, Equal, Smaller, FarApart,
         Setup, ProductOverflows, Reduce, LastFmod, LastRemainder, LastRemquo, Unstored
<1>2. Repeated'
  BY <1>1, SameOutcome DEF AnswerInv
<1>3. CASE Setup \/ Reduce
  <2>1. pc' # "done"
    BY <1>3 DEF Setup, Reduce
  <2> QED
    BY <1>2, <2>1 DEF AnswerInv, Done
<1>4. CASE PassNaN \/ Undefined \/ Equal \/ Smaller \/ FarApart \/ ProductOverflows \/ LastFmod
               \/ LastRemainder \/ LastRemquo
  <2>1. Outcome(ret', flags', stored')
    BY <1>1, <1>4, PassNaNGives, UndefinedGives, EqualGives, SmallerGives, FarApartGives,
       ProductOverflowsGives, LastFmodGives, LastRemainderGives, LastRemquoGives
  <2> QED
    BY <1>1, <1>2, <2>1, SameOutcome DEF AnswerInv
<1> QED
  BY <1>3, <1>4 DEF ResidueCall, ResidueNext

\* The other calls divide nothing, and a second division is one of what the first one gave.
LEMMA AnswerInvOthers ==
    ASSUME DivisionInv, CallInv, AnswerInv,
           \/ RoundingCall \/ ComparisonCall \/ ElementaryCall \/ PowerCall \/ LaneCall
           \/ Elsewhere \/ OnResult \/ OnNext \/ Agreeing \/ Exchanged \/ Opposite
    PROVE  AnswerInv'
<1>0. ResidueFunctions' = ResidueFunctions
  BY DEF ResidueFunctions
<1>1. CASE RoundingCall \/ ComparisonCall \/ ElementaryCall \/ PowerCall \/ LaneCall
  <2>1. fn' = fn /\ fn \notin ResidueFunctions
    BY <1>1, GroupsDiffer, RoundingGroups
       DEF RoundingCall, ComparisonCall, ElementaryCall, PowerCall, LaneCall, Call, RoundingFunctions,
           IntegralValued, LongValued, ResidueFunctions, callVars
  <2> QED
    BY <1>0, <2>1 DEF AnswerInv, Repeated, Done
<1>2. CASE Elsewhere \/ OnNext \/ Agreeing \/ Exchanged \/ Opposite
  <2>1. pc' = "call" /\ relation' # "onResult"
    BY <1>2 DEF Elsewhere, OnNext, Agreeing, Exchanged, Opposite, Second
  <2> QED
    BY <2>1 DEF AnswerInv, Repeated, Done
<1>3. CASE OnResult
  <2>1. pc' = "call" /\ pc = "done"
    BY <1>3 DEF OnResult, Second
  <2>2. CASE fn \notin ResidueFunctions
    <3>1. fn' \in IntegralValued
      BY <1>3, <2>2 DEF OnResult, Second
    <3>2. fn' \notin ResidueFunctions
      BY <3>1 DEF IntegralValued, ResidueFunctions
    <3> QED
      BY <1>0, <2>1, <3>2 DEF AnswerInv, Repeated, Done
  <2>3. CASE fn \in ResidueFunctions
    <3>1. /\ fn' = fn /\ x' = ret /\ y' = y /\ contracted' = contracted
          /\ Outcome(ret, flags, stored) /\ x \in Patterns /\ y \in Patterns /\ ret \in Patterns
      <4>1. fn \notin IntegralValued
        BY <2>3 DEF IntegralValued, ResidueFunctions
      <4>2. fn' = fn /\ x' = ret /\ y' = y /\ contracted' = contracted
        BY <1>3, <4>1 DEF OnResult, Second
      <4> QED
        BY <2>1, <2>3, <4>2 DEF AnswerInv, Done, DivisionInv, CallInv
    <3>2. /\ Clear' = Clear /\ ax' = Units(Magnitude(ret)) /\ ay' = ay
      BY <3>1 DEF Clear, ax, ay
    <3>3. ASSUME Clear, Finite(ret)
          PROVE  /\ ~Undefinable'
                 /\ IsInf(y) \/ IF fn \in {"fmod", "fmodf"} THEN ax' < ay ELSE 2 * ax' <= ay
      <4>1. ~Undefinable
        BY <2>3, <3>1, <3>3, SmallResult
      <4>2. IsInf(y) \/ IF fn \in {"fmod", "fmodf"} THEN ax' < ay ELSE 2 * ax' <= ay
        BY <2>3, <3>1, <3>2, <3>3, SmallResult
      <4>3. ~IsNaN(ret) /\ ~IsInf(ret)
        <5>1. Magnitude(ret) \in Nat /\ EXPBITS \in Nat
          BY <3>1, Fields, Format
        <5> QED
          BY <3>3, <5>1 DEF IsNaN, IsInf, Finite
      <4> QED
        BY <3>1, <4>1, <4>2, <4>3 DEF Undefinable
    <3> QED
      BY <2>1, <3>1, <3>2, <3>3 DEF AnswerInv, Repeated, Done
  <2> QED
    BY <2>2, <2>3
<1> QED
  BY <1>1, <1>2, <1>3

\* Each division with remainder gives what it is defined by, and is not changed by
\* another one.
THEOREM SpecAnswerInv == Spec => []AnswerInv
<1>1. Init => AnswerInv
  BY DEF Init, AnswerInv, Repeated, Done
<1>2. DivisionInv /\ RestInv /\ StrayInv /\ CallInv /\ AnswerInv /\ [Next]_vars => AnswerInv'
  <2>1. CASE UNCHANGED vars
    <3>1. UNCHANGED <<fn, x, y, contracted, pc, relation, ret, flags, stored>>
      BY <2>1 DEF vars, residueVars
    <3>2. Outcome(ret, flags, stored) => Outcome(ret, flags, stored)'
      BY <3>1, SameOutcome
    <3> QED
      BY <3>1, <3>2, SameOutcome DEF AnswerInv, Done, ResidueFunctions
  <2> QED
    BY <2>1, AnswerInvResidue, AnswerInvOthers DEF Next
<1> QED
  BY <1>1, <1>2, SpecDivisionInv, SpecRestInv, SpecStrayInv, SpecCallInv, PTL DEF Spec

\* The result is x minus the multiple of y that the function is defined by, it is a NaN
\* exactly where there is none, and the remainder of a remainder is itself.
THEOREM SpecIsRemainder == Spec => []IsRemainder
<1>1. ASSUME DivisionInv, CallInv, AnswerInv PROVE IsRemainder
  <2>1. SUFFICES ASSUME Done(ResidueFunctions)
                 PROVE  /\ ~Undefinable /\ Exact =>
                              Value(ret) = IF Negative(x) THEN -Remainder ELSE Remainder
                        /\ Bounded => (IsNaN(ret) <=> Undefinable)
                        /\ Bounded /\ ~(IsNaN(x) \/ IsNaN(y)) =>
                              (("invalid" \in flags) <=> Undefinable)
                        /\ relation = "onResult" /\ Finite(x) /\ Exact =>
                              Value(ret) = Value(x) /\ flags = {}
    BY DEF IsRemainder
  <2>2. Outcome(ret, flags, stored) /\ Repeated /\ x \in Patterns /\ y \in Patterns
        /\ fn \in ResidueFunctions
    BY <1>1, <2>1 DEF AnswerInv, DivisionInv, CallInv, Done
  <2>3. ~Undefinable /\ Bounded => ~IsNaN(ret) /\ flags = {}
    BY <1>1, <2>2 DEF Outcome
  <2>4. ~Undefinable /\ Exact => Value(ret) = LikeX(Remainder)
    BY <2>2, <2>3, ClearIsSharp DEF Outcome
  <2>5. Undefinable => IsNaN(ret) /\ (IsNaN(x) \/ IsNaN(y) \/ "invalid" \in flags)
    BY <2>2 DEF Outcome
  <2>6. ASSUME relation = "onResult", Finite(x), Exact
        PROVE  Value(ret) = Value(x) /\ flags = {}
    <3>1. Clear /\ Bounded
      BY <2>6, ClearIsSharp
    <3>2. ~Undefinable /\ (IsInf(y) \/ IF fn \in {"fmod", "fmodf"} THEN ax < ay ELSE 2 * ax <= ay)
      BY <2>2, <2>6, <3>1 DEF Repeated
    <3>3. ~Exceptional
      BY <2>2, <3>2, ExceptionalIs
    <3>4. /\ ax \in Nat /\ ay \in Nat \ {0} /\ Value(x) = LikeX(ax)
          /\ ~IsInf(y) => Finite(y)
          /\ IsInf(y) => ax < ay /\ Remainder = ax
      BY <2>2, <3>3, NumbersAre
    <3>5. ax < ay
      BY <3>2, <3>4
    <3>6. Remainder = ax
      <4>1. SUFFICES ASSUME ~IsInf(y), fn \notin {"fmod", "fmodf"} PROVE Remainder = ax
        BY <2>2, <3>3, <3>4, <3>5, SmallerIs
      <4>2. Halved(ay) = ay
        BY <2>2, <3>1, <3>4, <4>1, HalvedIs
      <4>3. ~(2 * ax > Halved(ay))
        BY <3>2, <3>4, <4>1, <4>2
      <4> QED
        BY <2>2, <3>1, <3>3, <3>5, <4>1, <4>3, SmallerIs
    <3> QED
      BY <2>3, <2>4, <2>6, <3>1, <3>2, <3>4, <3>6
  <2> QED
    BY <2>3, <2>4, <2>5, <2>6 DEF LikeX
<1> QED
  BY <1>1, SpecDivisionInv, SpecCallInv, SpecAnswerInv, PTL

\* remquo stores the sign and the lowest three bits of the multiple.
THEOREM SpecQuotientStored == Spec => []QuotientStored
<1>1. ASSUME DivisionInv, CallInv, AnswerInv PROVE QuotientStored
  <2>1. SUFFICES ASSUME Done({"remquo"}), ~Undefinable, Exact, stored # -pow2[QUOBITS - 1]
                 PROVE  (stored * qsgn) % 8 = Multiple % 8 /\ stored * qsgn >= 0
    BY DEF QuotientStored
  <2>2. fn = "remquo" /\ Outcome(ret, flags, stored)
    BY <1>1, <2>1 DEF AnswerInv, Done, ResidueFunctions
  <2>3. LowestBits(stored)
    BY <2>1, <2>2, ClearIsSharp DEF Outcome
  <2> QED
    BY <2>1, <2>3 DEF LowestBits
<1> QED
  BY <1>1, SpecDivisionInv, SpecCallInv, SpecAnswerInv, PTL
=============================================================================
