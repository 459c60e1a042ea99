-------------------------- MODULE NeighbourProofs --------------------------
(* What Neighbour promises, for every division of a word into sign,        *)
(* exponent and fraction.                                                  *)
EXTENDS Neighbour, TLAPS

\* Incrementing the bit pattern of a finite number other than zero moves it one
\* place away from zero, decrementing it one place toward zero.
LEMMA PatternStep ==
    ASSUME NEW u \in Patterns, ~IsNaN(u), ~IsZero(u)
    PROVE  /\ Finite(u) => /\ Increment(u) \in Patterns
                           /\ Magnitude(Increment(u)) = Magnitude(u) + 1
                           /\ Negative(Increment(u)) = Negative(u)
           /\ Decrement(u) \in Patterns
           /\ Magnitude(Decrement(u)) = Magnitude(u) - 1
           /\ Negative(Decrement(u)) = Negative(u)
<1>1. /\ SIGNBIT \in Nat /\ EXPBITS \in Nat /\ EXPBITS < SIGNBIT /\ 0 < EXPBITS
      /\ u \in Int /\ 0 <= u /\ u < 2 * SIGNBIT
  BY FormatAssumption DEF Patterns
<1>2. 0 < u
  BY <1>1 DEF IsZero, Magnitude, Negative
<1>3. Decrement(u) = u - 1
  BY <1>1, <1>2 DEF Decrement
<1>4. Finite(u) => u + 1 < 2 * SIGNBIT
  BY <1>1 DEF Finite, Magnitude, Negative
<1>5. Finite(u) => Increment(u) = u + 1
  BY <1>1, <1>4 DEF Increment
<1> QED
  BY <1>1, <1>2, <1>3, <1>4, <1>5
     DEF Patterns, Magnitude, Negative, Finite, IsNaN, IsZero

\* The order of patterns and the order of numbers.
LEMMA OrdinalOfMagnitude ==
    ASSUME NEW u \in Patterns
    PROVE  /\ Magnitude(u) \in Nat
           /\ Ordinal(u) \in Int
           /\ ~Negative(u) => Ordinal(u) = Magnitude(u)
           /\ Negative(u)  => Ordinal(u) = -Magnitude(u)
BY FormatAssumption DEF Patterns, Magnitude, Ordinal, Negative

\* Zeros, finite numbers and NaNs are told by where they stand.
LEMMA OrdinalDecides ==
    ASSUME NEW u \in Patterns
    PROVE  /\ IsZero(u) <=> Ordinal(u) = 0
           /\ Finite(u) <=> Ordinal(u) \in -(EXPBITS - 1) .. EXPBITS - 1
           /\ IsNaN(u)  <=> Ordinal(u) \notin -EXPBITS .. EXPBITS
<1>1. EXPBITS \in Nat
  BY FormatAssumption
<1> QED
  BY <1>1, OrdinalOfMagnitude DEF IsZero, Finite, IsNaN

\* Every target of a call has its place on the walk.
LEMMA TargetRange ==
    ASSUME NEW f \in Functions, NEW t \in Targets(f), LegalTarget(t), Number(t)
    PROVE  /\ TargetPosition(t) \in -Position(EXPBITS) .. Position(EXPBITS)
           /\ t.bits \in Patterns /\ Position(t.bits) \in Int
           /\ f = "nextafter" => TargetPosition(t) = Position(t.bits)
<1>1. /\ t.bits \in Patterns
      /\ t.above \in BOOLEAN
      /\ f = "nextafter" => ~t.above
  BY DEF Targets, Functions
<1>2. EXPBITS \in Nat /\ 0 < EXPBITS /\ EXPBITS < SIGNBIT /\ SIGNBIT \in Nat
  BY FormatAssumption
<1>3. /\ Ordinal(t.bits) \in -EXPBITS .. EXPBITS
      /\ t.above => Ordinal(t.bits) \in -(EXPBITS - 1) .. EXPBITS - 1
  BY <1>1, <1>2, OrdinalOfMagnitude, OrdinalDecides DEF Number, LegalTarget
<1>4. Ordinal(EXPBITS) = EXPBITS
  BY <1>2 DEF Ordinal, Negative
<1> QED
  BY <1>1, <1>2, <1>3, <1>4 DEF TargetPosition, Position

\* Away from zero, the code's choice between ++ and -- goes to the neighbour.
LEMMA SteppedIsAdjacent ==
    ASSUME NEW f \in Functions, NEW t \in Targets(f), LegalTarget(t), Number(t),
           NEW u \in Patterns, ~IsNaN(u), ~IsZero(u), ~Equal(u, t)
    PROVE  /\ Stepped(u, t) \in Patterns
           /\ ~IsNaN(Stepped(u, t))
           /\ Ordinal(Stepped(u, t)) = Ordinal(u) + Toward(t, u)
<1> DEFINE T == TargetPosition(t)
<1>1. EXPBITS \in Nat /\ 0 < EXPBITS /\ Ordinal(EXPBITS) = EXPBITS
  BY FormatAssumption DEF Ordinal, Negative
<1>2. T \in Int /\ -2 * EXPBITS <= T /\ T <= 2 * EXPBITS
  BY <1>1, TargetRange DEF Position
<1>3. /\ Ordinal(u) \in Int /\ Ordinal(u) # 0
      /\ -EXPBITS <= Ordinal(u) /\ Ordinal(u) <= EXPBITS
  BY <1>1, OrdinalDecides, OrdinalOfMagnitude
<1>4. T # 2 * Ordinal(u) /\ (Greater(t, u) <=> T > 2 * Ordinal(u))
  BY <1>2, <1>3 DEF Equal, Greater, Position
<1>5. Ordinal(u) > 0 <=> ~Negative(u)
  BY <1>3, OrdinalOfMagnitude
<1>6. Finite(u) <=> Ordinal(u) \in -(EXPBITS - 1) .. EXPBITS - 1
  BY OrdinalDecides
<1>7. Greater(t, u) \in BOOLEAN
  BY DEF Greater
<1>8. CASE (Ordinal(u) > 0) = Greater(t, u)
  <2>1. Toward(t, u) = (IF Ordinal(u) > 0 THEN 1 ELSE -1) /\ Finite(u)
    BY <1>1, <1>2, <1>3, <1>4, <1>6, <1>8, <1>7 DEF Toward
  <2>2. /\ Increment(u) \in Patterns
        /\ Magnitude(Increment(u)) = Magnitude(u) + 1
        /\ Negative(Increment(u)) <=> Negative(u)
    BY <2>1, PatternStep
  <2>3. Ordinal(Increment(u)) = Ordinal(u) + Toward(t, u)
    BY <1>3, <1>5, <2>1, <2>2, OrdinalOfMagnitude
  <2>4. Ordinal(Increment(u)) \in -EXPBITS .. EXPBITS
    BY <1>1, <1>3, <1>6, <2>1, <2>3
  <2> QED
    BY <1>8, <2>2, <2>3, <2>4, OrdinalDecides DEF Stepped
<1>9. CASE (Ordinal(u) > 0) # Greater(t, u)
  <2>1. /\ Decrement(u) \in Patterns
        /\ Magnitude(Decrement(u)) = Magnitude(u) - 1
        /\ Negative(Decrement(u)) <=> Negative(u)
    BY PatternStep
  <2>2. Toward(t, u) = (IF Ordinal(u) > 0 THEN -1 ELSE 1)
    BY <1>9, <1>7 DEF Toward
  <2>3. Ordinal(Decrement(u)) = Ordinal(u) + Toward(t, u)
    BY <1>3, <1>5, <2>1, <2>2, OrdinalOfMagnitude
  <2>4. Ordinal(Decrement(u)) \in -EXPBITS .. EXPBITS
    BY <1>1, <1>3, <2>2, <2>3
  <2> QED
    BY <1>9, <2>1, <2>3, <2>4, OrdinalDecides DEF Stepped
<1> QED
  BY <1>8, <1>9

-----------------------------------------------------------------------------
\* The state is well formed, whatever is called: also on a NaN, at infinity and
\* when the step leaves the finite numbers.
THEOREM TypeCorrect == Spec => []TypeOK
<1>1. Init => TypeOK
  BY DEF Init, TypeOK
<1>2. TypeOK /\ [Next]_vars => TypeOK'
  <2> SUFFICES ASSUME TypeOK, Next PROVE TypeOK'
    BY DEF vars, TypeOK
  <2>1. /\ fn \in Functions /\ x \in Patterns /\ y \in Targets(fn) /\ LegalTarget(y)
        /\ y.bits \in Patterns
    BY DEF TypeOK, Targets
  <2>2. ASSUME NEW u \in Patterns
        PROVE  /\ Negated(u) \in Patterns
               /\ Increment(u) \in Patterns /\ Decrement(u) \in Patterns
               /\ Magnitude(u) >= EXPBITS => Quieted(u) \in Patterns
    BY FormatAssumption
       DEF Patterns, Negated, Negative, Increment, Decrement, Quieted, IsQuiet, Magnitude
  <2>3. Stepped(x, y) \in Patterns
    BY <2>1, <2>2 DEF Stepped
  <2>4. {1, Negated(1), EXPBITS} \subseteq Patterns
    BY <2>2, FormatAssumption DEF Patterns
  <2>5. CASE Nextafter
    <3>1. nextafter(x, y) \in [bits : Patterns,
                               flags : SUBSET {"invalid", "inexact", "overflow", "underflow"}]
      BY <2>1, <2>2, <2>3, <2>4
         DEF nextafter, NextafterNaN, NextafterZero, NextafterOverflow, Outcome
    <3> QED
      BY <2>1, <2>5, <3>1 DEF Nextafter, Returns, TypeOK
  <2>6. CASE Nexttoward
    <3>1. IsNaN(x) => Quieted(x) \in Patterns
      BY <2>1, <2>2, FormatAssumption DEF IsNaN, Magnitude, Negative, Patterns
    <3>2. ~Finite(Stepped(x, y)) => Quieted(Stepped(x, y)) \in Patterns
      BY <2>2, <2>3, FormatAssumption DEF Finite, Magnitude, Negative, Patterns
    <3>3. nexttoward(x, y) \in [bits : Patterns,
                                flags : SUBSET {"invalid", "inexact", "overflow", "underflow"}]
      BY <2>1, <2>3, <2>4, <3>1, <3>2 DEF nexttoward, Outcome, Equal
    <3> QED
      BY <2>1, <2>6, <3>3 DEF Nexttoward, Returns, TypeOK
  <2> QED
    BY <2>5, <2>6 DEF Next
<1> QED
  BY <1>1, <1>2, PTL DEF Spec

\* A sound call from one number to another steps to the neighbour and signals
\* overflow exactly when that is an infinity.
LEMMA SoundCall ==
    ASSUME TypeOK, Sound, Next
    PROVE  StepsOne /\ ("overflow" \in flags' <=> Finite(x) /\ ~Finite(x'))
<1>1. /\ fn \in Functions /\ x \in Patterns /\ y \in Targets(fn) /\ LegalTarget(y)
      /\ ~IsNaN(x) /\ Number(y) /\ y.bits \in Patterns
  BY DEF TypeOK, Sound, Numbers, Targets
<1>2. EXPBITS \in Nat /\ 1 < EXPBITS /\ EXPBITS < SIGNBIT /\ SIGNBIT \in Nat
  BY FormatAssumption
<1>3. /\ Ordinal(x) \in -EXPBITS .. EXPBITS
      /\ Ordinal(y.bits) \in -EXPBITS .. EXPBITS
      /\ Finite(x) <=> Ordinal(x) \in -(EXPBITS - 1) .. EXPBITS - 1
      /\ Finite(y.bits) <=> Ordinal(y.bits) \in -(EXPBITS - 1) .. EXPBITS - 1
      /\ Ordinal(EXPBITS) = EXPBITS /\ Ordinal(EXPBITS - 1) = EXPBITS - 1
      /\ Ordinal(1) = 1 /\ Ordinal(Negated(1)) = -1
  <2>1. Ordinal(EXPBITS) = EXPBITS /\ Ordinal(EXPBITS - 1) = EXPBITS - 1
    BY <1>2 DEF Ordinal, Negative
  <2>2. Ordinal(1) = 1 /\ Ordinal(Negated(1)) = -1
    BY <1>2 DEF Ordinal, Negative, Negated
  <2> QED
    BY <1>1, <2>1, <2>2, OrdinalDecides DEF Number
<1>4. /\ TargetPosition(y) \in Int
      /\ fn = "nextafter" => TargetPosition(y) = 2 * Ordinal(y.bits)
      /\ fn = "nexttoward" => /\ -2 * (EXPBITS - 1) <= TargetPosition(y)
                              /\ TargetPosition(y) <= 2 * (EXPBITS - 1)
  <2>1. InRange(y) => /\ -2 * (EXPBITS - 1) <= TargetPosition(y)
                      /\ TargetPosition(y) <= 2 * (EXPBITS - 1)
    BY <1>1, <1>2, <1>3 DEF InRange, Position
  <2> QED
    BY <1>1, <1>2, <1>3, <2>1, TargetRange DEF Sound, Position
<1>5. CASE Equal(x, y)
  <2>1. x' = y.bits /\ flags' = {}
    BY <1>1, <1>5 DEF Next, Nextafter, Nexttoward, Returns, nextafter, nexttoward, Outcome
  <2>2. 2 * Ordinal(x) = TargetPosition(y)
    BY <1>5 DEF Equal, Position
  <2>3. TargetPosition(y) = 2 * Ordinal(y.bits)
    BY <1>1, <1>3, <2>2 DEF TargetPosition, Position, Targets
  <2>4. Ordinal(x) = Ordinal(y.bits)
    BY <1>3, <2>2, <2>3
  <2> QED
    BY <1>3, <1>5, <2>1, <2>4 DEF StepsOne
<1>6. CASE ~Equal(x, y) /\ IsZero(x)
  <2>1. fn = "nexttoward" /\ Ordinal(x) = 0 /\ Finite(x)
    BY <1>1, <1>2, <1>3, <1>6, OrdinalDecides DEF Sound, Functions
  <2>2. x' = (IF Greater(y, x) THEN 1 ELSE Negated(1)) /\ flags' = {}
    BY <1>1, <1>6, <2>1 DEF Next, Nextafter, Nexttoward, Returns, nexttoward, Outcome
  <2>3. x' \in Patterns
    BY <1>2, <2>2 DEF Patterns, Negated, Negative
  <2>4. Ordinal(x') = Ordinal(x) + Toward(y, x)
    BY <1>3, <2>1, <2>2 DEF Toward
  <2>5. Finite(x') /\ ~IsNaN(x')
    BY <1>2, <2>1, <2>3, <2>4, OrdinalDecides DEF Toward
  <2> QED
    BY <2>2, <2>4, <2>5 DEF StepsOne
<1>7. CASE ~Equal(x, y) /\ ~IsZero(x)
  <2> DEFINE s == Stepped(x, y)
  <2>1. /\ s \in Patterns /\ ~IsNaN(s)
        /\ Ordinal(s) = Ordinal(x) + Toward(y, x)
    BY <1>1, <1>7, SteppedIsAdjacent
  <2>2. Finite(s) <=> Ordinal(s) \in -(EXPBITS - 1) .. EXPBITS - 1
    BY <2>1, OrdinalDecides
  <2>3. /\ Toward(y, x) = 1  => TargetPosition(y) > 2 * Ordinal(x)
        /\ Toward(y, x) = -1 => TargetPosition(y) < 2 * Ordinal(x)
        /\ Toward(y, x) \in {1, -1}
    BY <1>1, <1>3, <1>4, <1>7 DEF Toward, Greater, Equal, Position
  <2>4. CASE Finite(s)
    <3>1. x' = s /\ flags' = {}
      BY <1>1, <1>7, <2>4
         DEF Next, Nextafter, Nexttoward, Returns, nextafter, nexttoward, Outcome
    <3> QED
      BY <2>1, <2>4, <3>1 DEF StepsOne
  <2>5. CASE ~Finite(s)
    <3>1. Finite(x) /\ (Ordinal(s) = EXPBITS \/ Ordinal(s) = -EXPBITS)
      BY <1>2, <1>3, <1>4, <1>1, <2>1, <2>2, <2>3, <2>5 DEF Functions
    <3>2. fn = "nextafter"
      BY <1>1, <1>2, <1>3, <1>4, <2>1, <2>3, <3>1 DEF Functions
    <3>3. Ordinal(y.bits) # -EXPBITS
      BY <1>1, <1>2, <3>2, OrdinalOfMagnitude
         DEF Sound, Negated, Negative, Magnitude, Ordinal, Patterns
    <3>4. Ordinal(s) = EXPBITS
      BY <1>2, <1>3, <1>4, <2>1, <2>3, <3>1, <3>2, <3>3
    <3>5. x' = EXPBITS /\ flags' = {"overflow", "inexact"}
      BY <1>1, <1>7, <2>5, <3>2
         DEF Next, Nextafter, Nexttoward, Returns, nextafter, NextafterOverflow, Outcome
    <3>6. EXPBITS \in Patterns /\ ~Finite(EXPBITS) /\ ~IsNaN(EXPBITS)
      BY <1>2 DEF Patterns, Finite, IsNaN, Magnitude, Negative
    <3> QED
      BY <1>3, <2>1, <3>1, <3>4, <3>5, <3>6 DEF StepsOne
  <2> QED
    BY <2>4, <2>5
<1> QED
  BY <1>5, <1>6, <1>7

\* Every sound call steps to the neighbour of x on the side of y.
THEOREM StepsToNeighbour == Spec => Adjacent
<1>1. TypeOK /\ [Next]_vars => [Sound => StepsOne]_vars
  BY SoundCall
<1> QED
  BY <1>1, TypeCorrect, PTL DEF Spec, Adjacent

\* The overflow exception tells the caller that the walk has left the finite
\* numbers, at that step and at no other.
THEOREM OverflowIsSignalled == Spec => OverflowSignalled
<1>1. TypeOK /\ [Next]_vars
      => [Sound => ("overflow" \in flags' <=> Finite(x) /\ ~Finite(x'))]_vars
  BY SoundCall
<1> QED
  BY <1>1, TypeCorrect, PTL DEF Spec, OverflowSignalled
============================================================================
