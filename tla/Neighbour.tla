----------------------------- MODULE Neighbour -----------------------------
(***************************************************************************)
(* nextafter and nexttoward (src/ref), called again and again on their own *)
(* result: a walk over the floats from x toward y.  The single-precision   *)
(* functions have the same branches.                                       *)
(*                                                                         *)
(* The target of nexttoward is a long double, which may lie strictly       *)
(* between two doubles; its target is therefore a double and whether the   *)
(* value is above it in magnitude, short of the next one.                  *)
(***************************************************************************)
EXTENDS FloatBits

VARIABLES
    fn,     \* the function called
    x,      \* its first argument, then its result
    y,      \* its second argument
    flags   \* the exceptions raised by the last call

vars == <<fn, x, y, flags>>

Functions == {"nextafter", "nexttoward"}

Targets(f) == [bits : Patterns, above : IF f = "nexttoward" THEN BOOLEAN ELSE {FALSE}]

LegalTarget(t) == t.above => Finite(t.bits)

-----------------------------------------------------------------------------
(* Comparisons.  Doubling the ordinals leaves room between two doubles.    *)

Position(u) == 2 * Ordinal(u)

TargetPosition(t) ==
    IF ~t.above THEN Position(t.bits)
    ELSE IF Negative(t.bits) THEN Position(t.bits) - 1 ELSE Position(t.bits) + 1

Number(t) == ~IsNaN(t.bits)

Equal(u, t)   == ~IsNaN(u) /\ Number(t) /\ Position(u) = TargetPosition(t)
Greater(t, u) == ~IsNaN(u) /\ Number(t) /\ TargetPosition(t) > Position(u)

-----------------------------------------------------------------------------
(* What the functions return, with the exceptions they raise.              *)

Outcome(bits, raised) == [bits |-> bits, flags |-> raised]

Increment(u) == IF u = 2 * SIGNBIT - 1 THEN 0 ELSE u + 1
Decrement(u) == IF u = 0 THEN 2 * SIGNBIT - 1 ELSE u - 1

\* Slip: the sign of x is forgotten.
SteppedUnsigned(u, t) == IF Greater(t, u) THEN Increment(u) ELSE Decrement(u)

\* "if(((x>0.0) ^ (dy>x)) == 0) checkbits++; else checkbits--;"
Stepped(u, t) ==
    IF (Ordinal(u) > 0) = Greater(t, u) THEN Increment(u) ELSE Decrement(u)

\* alm_nextafter_special: whatever it computes, it returns its argument.
NextafterNaN(u) == Outcome(u, IF IsQuiet(u) THEN {} ELSE {"invalid"})

NextafterZero(u, t) ==
    Outcome(IF TargetPosition(t) > 0 THEN u ELSE Negated(u), {"inexact", "underflow"})

\* Slip: no exception.
NextafterOverflowSilent == Outcome(EXPBITS, {})

NextafterOverflow == Outcome(EXPBITS, {"overflow", "inexact"})

nextafter(u, t) ==
    CASE IsNaN(u)                                 -> NextafterNaN(u)
      [] ~IsNaN(u) /\ ~Number(t)                  -> NextafterNaN(t.bits)
      [] ~IsNaN(u) /\ Number(t) /\ Equal(u, t)    -> Outcome(t.bits, {})
      [] ~IsNaN(u) /\ Number(t) /\ ~Equal(u, t) ->
           IF IsZero(u) THEN NextafterZero(u, t)
           ELSE IF Finite(Stepped(u, t)) THEN Outcome(Stepped(u, t), {})
           ELSE NextafterOverflow

\* Slip: the bit is set by addition, in a quiet NaN too.
nexttowardAdds(u, t) ==
    IF IsNaN(u) THEN Outcome(u + QNAN_MASK, {}) ELSE Outcome(Stepped(u, t), {})

\* Slip: zero steps like any other number.
nexttowardFromZero(u, t) ==
    CASE IsNaN(u)     -> Outcome(Quieted(u), {})
      [] Equal(u, t)  -> Outcome(t.bits, {})
      [] ~IsNaN(u) /\ ~Equal(u, t) -> Outcome(Stepped(u, t), {})

\* A NaN as the target is not looked for: every comparison with it is false.
nexttoward(u, t) ==
    CASE IsNaN(u)     -> Outcome(Quieted(u), IF IsQuiet(u) THEN {} ELSE {"invalid"})
      [] Equal(u, t)  -> Outcome(t.bits, {})
      [] ~IsNaN(u) /\ ~Equal(u, t) ->
           IF IsZero(u)
           THEN Outcome(IF Greater(t, u) THEN 1 ELSE Negated(1), {})
           ELSE IF Finite(Stepped(u, t)) THEN Outcome(Stepped(u, t), {})
           ELSE Outcome(Quieted(Stepped(u, t)), {})

-----------------------------------------------------------------------------
Init == /\ fn \in Functions
        /\ x \in Patterns
        /\ y \in {t \in Targets(fn) : LegalTarget(t)}
        /\ flags = {}

Returns(o) == /\ x' = o.bits
              /\ flags' = o.flags
              /\ UNCHANGED <<fn, y>>

Nextafter  == fn = "nextafter"  /\ Returns(nextafter(x, y))
Nexttoward == fn = "nexttoward" /\ Returns(nexttoward(x, y))

Next == Nextafter \/ Nexttoward

\* The caller goes on with its walk.
Spec == Init /\ [][Next]_vars /\ WF_vars(Next)

-----------------------------------------------------------------------------
(* Properties.                                                             *)

TypeOK == /\ fn \in Functions
          /\ x \in Patterns
          /\ y \in Targets(fn) /\ LegalTarget(y)
          /\ flags \subseteq {"invalid", "inexact", "overflow", "underflow"}

Numbers == ~IsNaN(x) /\ Number(y)

\* No larger than the largest finite float.
InRange(t) == TargetPosition(t) \in -Position(EXPBITS - 1) .. Position(EXPBITS - 1)

\* The calls for which the functions keep their promise: numbers; no step of
\* nextafter from zero or to -infinity; no step of nexttoward out of range.
Sound == /\ Numbers
         /\ fn = "nextafter"  => ~IsZero(x) /\ y.bits # Negated(EXPBITS)
         /\ fn = "nexttoward" => InRange(y)

\* A walk that stays within them: that of nextafter does not cross zero.
ClearPath == /\ Sound
             /\ fn = "nextafter" => IsZero(y.bits) \/ Negative(x) = Negative(y.bits)

Toward(t, u) == IF Greater(t, u) THEN 1 ELSE -1

\* x' is the float next to x on the side of y.
StepsOne == ~Equal(x, y) => ~IsNaN(x') /\ Ordinal(x') = Ordinal(x) + Toward(y, x)

Beside == TargetPosition(y) - Position(x) \in -1 .. 1

\* "The next representable double after x in the direction of y": the increment
\* or decrement of the bit pattern is the neighbour on the real axis, on either
\* side of zero and across it, and for a target between two floats.
Adjacent == [][Sound => StepsOne]_vars

\* The overflow exception is raised by the step from the largest finite number
\* to infinity and by no other.
OverflowSignalled ==
    [][Sound => ("overflow" \in flags' <=> Finite(x) /\ ~Finite(x'))]_vars

\* A walk gets to its target, or beside it if that is no float, however many
\* calls it takes: it is not caught at a sign change or at a subnormal.
Arrives == ClearPath ~> Numbers /\ Beside

\* amdlibm.h promises the next value in the direction of y for every x: also
\* from zero, where nextafter returns its argument.
NextafterLeavesZero == [][fn = "nextafter" /\ Numbers /\ IsZero(x) => StepsOne]_vars
============================================================================
