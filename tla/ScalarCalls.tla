---------------------------- MODULE ScalarCalls ----------------------------
(***************************************************************************)
(* A caller of the scalar functions, and of vector functions as seen from  *)
(* one lane.  A behaviour is a call and then a second one that is related   *)
(* to it: on its result, on the next larger argument, of the function that  *)
(* must agree with it, with the arguments exchanged, with the sign of one  *)
(* turned round, or in a lane with other neighbours.                       *)
(***************************************************************************)
EXTENDS Rounding, Residue, Comparison, ElementaryRules, Power, VectorLanes

CONSTANTS Divisors,   \* the second arguments
          LaneArguments, Neighbours   \* of lanes: in the lane and in the others

ASSUME ArgumentsAssumption ==
    Divisors \subseteq Patterns /\ LaneArguments \subseteq Patterns /\ Neighbours \subseteq Patterns

VARIABLES mode,       \* the rounding direction
          relation,   \* of this call to the one before
          before      \* what that call was given and returned

callVars == <<fn, x, y, mode, relation, before>>
vars == <<fn, x, y, pc, ret, flags, residueVars, mode, relation, before>>

ASSUME ElementaryAssumption == Thresholds
ASSUME PowerAssumption == ExponentThresholds
ASSUME LanesAssumption == LaneThresholds

IntegralValued == {"ceil", "floor", "trunc", "round", "rint", "nearbyint",
                   "vrd2_round", "vrs4_roundf"}
LongValued     == {"lrint", "lround", "lroundf"}
RoundingFunctions   == IntegralValued \cup LongValued \cup {"modf"}
ComparisonFunctions == {"fmax", "fmin", "vrda_fmax", "vrda_fmin", "fdim"}

PowerFunctions == {"pow", "powf"}
LaneFunctions  == DOMAIN VectorFunctions
Functions == RoundingFunctions \cup ResidueFunctions \cup ComparisonFunctions
                 \cup ElementaryFunctions \cup PowerFunctions \cup LaneFunctions

OfOneArgument == RoundingFunctions \cup ElementaryFunctions

Init == /\ fn \in Functions
        /\ x \in IF fn \in LaneFunctions THEN LaneArguments ELSE Patterns
        /\ y \in IF fn \in OfOneArgument THEN {0}
                 ELSE IF fn \in LaneFunctions THEN Neighbours ELSE Divisors
        /\ mode \in IF fn \in RoundingFunctions THEN Modes ELSE {"nearest"}
        /\ pc = "call" /\ ret = 0 /\ flags = {}
        /\ relation = "first" /\ before = [fn |-> fn, x |-> x, ret |-> 0, flags |-> {}]
        /\ ResidueInit

-----------------------------------------------------------------------------
(* fdim                                                                    *)

fdim(u, v, direction) ==
    IF IsNaN(u) \/ IsNaN(v) THEN Quiet(IF IsNaN(u) THEN u ELSE v)
    ELSE IF Ordinal(u) <= Ordinal(v) THEN Answer(0, {})
    ELSE IF IsInf(u) \/ IsInf(v) THEN Answer(EXPBITS, {})
    ELSE Answer(Difference(direction, u, v), Raised(~SumExact(direction, u, Negated(v))))

-----------------------------------------------------------------------------
Call(name, answer) ==
    /\ pc = "call" /\ fn = name
    /\ Return(answer.ret, answer.flags)
    /\ UNCHANGED <<callVars, residueVars>>

RoundingCall ==
    \/ Call("ceil", ceil(x, mode))
    \/ Call("floor", floor(x, mode))
    \/ Call("trunc", trunc(x, mode))
    \/ Call("round", round(x, mode))
    \/ Call("rint", rint(x, mode))
    \/ Call("nearbyint", nearbyint(x, mode))
    \/ Call("modf", modf(x, mode))
    \/ Call("vrd2_round", vrd2_round(x))
    \/ Call("vrs4_roundf", vrs4_roundf(x))
    \/ Call("lrint", lrint(x, mode))
    \/ Call("lround", lround(x, mode))
    \/ Call("lroundf", lroundf(x, mode))

ComparisonCall ==
    \/ Call("fmax", fmax(x, y))
    \/ Call("fmin", fmin(x, y))
    \/ Call("vrda_fmax", vrda_fmax(x, y))
    \/ Call("vrda_fmin", vrda_fmin(x, y))
    \/ Call("fdim", fdim(x, y, mode))

\* The kernels are left out, so their results are the names Kernel, MinusKernel.
ElementaryCall == fn \in ElementaryFunctions /\ Call(fn, Answered(fn, x))

LaneCall == fn \in LaneFunctions /\ Call(fn, LaneAnswer(fn, x, y))

PowerCall == Call("pow", pow(x, y)) \/ Call("powf", powf(x, y))

-----------------------------------------------------------------------------
(* The second call.                                                        *)

Counterpart ==
    [f \in {"lrint", "lround", "lroundf", "modf", "pow"} \cup DOMAIN FloatOf |->
        CASE f = "lrint"                -> "rint"
          [] f \in {"lround", "lroundf"} -> "round"
          [] f = "modf"                 -> "trunc"
          [] f = "pow"                  -> "powf"
          [] OTHER                      -> FloatOf[f]]

\* The float after u; from the largest number it is an infinity.
NextFloat(u) == CASE IsZero(u)   -> 1
                  [] Negative(u) -> u - 1
                  [] OTHER       -> u + 1

Second(r, f, a, b) ==
    /\ pc = "done" /\ relation = "first"
    /\ relation' = r /\ before' = [fn |-> fn, x |-> x, ret |-> ret, flags |-> flags]
    /\ fn' = f /\ x' = a /\ y' = b
    /\ pc' = "call" /\ ret' = 0 /\ flags' = {}
    /\ adx' = 0 /\ w' = 0 /\ quo' = 0 /\ stored' = 0
    /\ UNCHANGED contracted

OnResult ==
    \/ /\ fn \in IntegralValued
       /\ \E f \in IntegralValued, m \in Modes : Second("onResult", f, ret, y) /\ mode' = m
    \/ fn \in ResidueFunctions /\ Second("onResult", fn, ret, y) /\ UNCHANGED mode

OnNext == /\ fn \in IntegralValued \cup LongValued /\ Finite(x)
          /\ Second("onNext", fn, NextFloat(x), y)
          /\ UNCHANGED mode

Agreeing == /\ fn \in DOMAIN Counterpart
            /\ Second("agreeing", Counterpart[fn], x, y)
            /\ UNCHANGED mode

Opposite == \/ /\ fn \in ElementaryFunctions
               /\ Second("opposite", fn, Negated(x), y) /\ UNCHANGED mode
            \/ /\ fn \in PowerFunctions
               /\ Second("opposite", fn, x, Negated(y)) /\ UNCHANGED mode

Exchanged == /\ fn \in ComparisonFunctions
             /\ Second("exchanged", fn, y, x)
             /\ UNCHANGED mode

Elsewhere == /\ fn \in LaneFunctions
             /\ \E v \in Neighbours \ {y} : Second("elsewhere", fn, x, v)
             /\ UNCHANGED mode

ResidueCall == fn \in ResidueFunctions /\ ResidueNext /\ UNCHANGED <<mode, relation, before>>

Next == RoundingCall \/ ComparisonCall \/ ResidueCall \/ ElementaryCall \/ PowerCall
            \/ LaneCall \/ Elsewhere \/ OnResult \/ OnNext \/ Agreeing \/ Exchanged \/ Opposite

Spec == Init /\ [][Next]_vars

-----------------------------------------------------------------------------
Longs == LONG_MIN .. -LONG_MIN - 1

\* The types of the state.
TypeOK ==
    /\ fn \in Functions /\ x \in Patterns /\ y \in Patterns /\ mode \in Modes
    /\ pc \in {"call", "reduce", "last", "done"}
    /\ flags \subseteq {"invalid", "divbyzero", "overflow", "underflow", "inexact"}
    /\ ret \in CASE fn \in LongValued          -> Longs
                 [] fn \in ElementaryFunctions -> Patterns \cup {Kernel}
                 [] fn \in PowerFunctions      -> Patterns \cup {Kernel, MinusKernel}
                 [] fn \in LaneFunctions       -> Patterns \cup {Kernel, Poly}
                 [] OTHER                      -> Patterns
    /\ contracted \in BOOLEAN /\ quo \in Nat /\ w \in Nat /\ adx \in Int
    /\ stored \in -pow2[QUOBITS - 1] .. pow2[QUOBITS - 1] - 1
    /\ relation \in {"first", "onResult", "onNext", "agreeing", "exchanged", "opposite",
                    "elsewhere"}

Done(functions) == pc = "done" /\ fn \in functions

-----------------------------------------------------------------------------
(* Rounding                                                                *)

one == UnitsOfOne

FloorOf(v)   == v \div one
CeilingOf(v) == -((-v) \div one)
Ties(v, n)   == 2 * (v - n * one) = one

\* The integer that a direction gives for v units.
IntegerIn(direction, v) ==
    CASE direction = "downward"   -> FloorOf(v)
      [] direction = "upward"     -> CeilingOf(v)
      [] direction = "towardzero" -> IF v < 0 THEN CeilingOf(v) ELSE FloorOf(v)
      [] direction = "away"       -> IF v < 0 THEN -FloorOf(-v + one \div 2)
                                     ELSE FloorOf(v + one \div 2)
      [] direction = "nearest"    ->
            LET n == FloorOf(v)
            IN  IF 2 * (v - n * one) < one \/ (Ties(v, n) /\ n % 2 = 0) THEN n ELSE n + 1

Direction == CASE fn = "ceil" -> "upward"
               [] fn = "floor" -> "downward"
               [] fn = "trunc" -> "towardzero"
               [] fn \in {"round", "lround", "lroundf", "vrd2_round", "vrs4_roundf"} -> "away"
               [] OTHER -> mode

\* The functions that return a float give, for every finite number and in every
\* direction of the caller, the integer their definition asks for, with the sign
\* of the argument even if it is zero; only nearbyint turns a small positive
\* number into -0 when the caller rounds downward.
RoundsInDirection ==
    (Done(IntegralValued) /\ Finite(x)) =>
        /\ Value(ret) = IntegerIn(Direction, Value(x)) * one
        /\ SignOf(ret) = SignOf(x) \/ (fn = "nearbyint" /\ mode = "downward" /\ ret = NEG_ZERO)

\* rint, lrint and the float lanes raise inexact for every number that is not an
\* integer, in every direction.  No function raises it for an integer, and ceil,
\* floor, trunc, round and the double lanes never do; whether nearbyint does for
\* other numbers is left open.
InexactWhenRounded ==
    (Done(IntegralValued \cup {"lrint"}) /\ Finite(x)) =>
        /\ fn \in {"rint", "lrint", "vrs4_roundf"} /\ Value(x) % one # 0 => "inexact" \in flags
        /\ "inexact" \in flags => /\ fn \in {"rint", "nearbyint", "lrint", "vrs4_roundf"}
                                  /\ Value(x) % one # 0

Fits(n) == n \in Longs \ {LONG_MIN}

\* The integer functions return the same integer as their counterpart that returns
\* a float, and modf splits its argument: the two parts add up and share its sign,
\* except that a fraction of zero may become -0 when rounding downward.
Agrees ==
    (Done(IntegralValued) /\ relation = "agreeing" /\ Finite(x)) =>
        IF before.fn = "modf"
        THEN /\ Value(before.ret) + Value(iptr(x)) = Value(x) /\ iptr(x) = ret
             /\ \/ SignOf(before.ret) = SignOf(x)
                \/ mode = "downward" /\ before.ret = NEG_ZERO
        ELSE Fits(Value(ret) \div one) => before.ret * one = Value(ret)

-----------------------------------------------------------------------------
(* Division with remainder                                                 *)

Undefinable == IsNaN(x) \/ IsNaN(y) \/ IsInf(x) \/ IsZero(y) \/ (fn = "remquo" /\ IsInf(y))

\* A product w * t can overflow only if x is the largest number.
Bounded == fn \in {"fmod", "remquo"} => Magnitude(x) # EXPBITS - 1

\* The builds and arguments for which a function computes exactly.  Contraction
\* breaks the product of remquo, and 0.5 * y rounds if it is subnormal.
Exact == /\ Bounded
         /\ fn = "remquo" => ~contracted
         /\ fn \in {"remainder", "remquo"} => ExponentField(Magnitude(y)) > 1

Multiple == IF fn \in {"fmod", "fmodf"} THEN ax \div ay ELSE NearestInteger(ax, ay)

Remainder == IF IsInf(y) THEN ax ELSE ax - Multiple * ay

\* The result is x minus the multiple of y that the function is defined by, the
\* truncated or the nearest (even) one, however far the exponents are apart.  It is
\* a NaN exactly if an argument is one or there is no such multiple, and numbers
\* raise invalid exactly then, unless a product overflowed.  The remainder of a
\* remainder is itself.
IsRemainder ==
    Done(ResidueFunctions) =>
        /\ ~Undefinable /\ Exact =>
              Value(ret) = IF Negative(x) THEN -Remainder ELSE Remainder
        /\ Bounded => (IsNaN(ret) <=> Undefinable)
        /\ Bounded /\ ~(IsNaN(x) \/ IsNaN(y)) => (("invalid" \in flags) <=> Undefinable)
        /\ relation = "onResult" /\ Finite(x) /\ Exact =>
              Value(ret) = Value(x) /\ flags = {}

\* What the header promises of fmod and remquo: a remainder of x divided by y.
RemainderIsNumber ==
    (Done({"fmod", "remquo"}) /\ ~Undefinable /\ ~(fn = "remquo" /\ contracted)) => ~IsNaN(ret)

\* Between the rounds what is left is congruent to |x| modulo y and below the
\* multiples that the rounds to come can take away.  A quotient that was rounded
\* up leaves a negative rest: never more than half of y, so it stays the result.
PartialRemainder ==
    (pc \in {"reduce", "last"} /\ Exact) =>
        /\ (ax - adx) % ay = 0
        /\ w = ay * pow2[Bits * quo]
        /\ 2 * adx >= -ay
        /\ fn # "fmod" => adx < w * pow2[Bits + 1]

\* remquo stores the sign and the lowest three bits of the multiple, unless the
\* bits it keeps were all ones before it rounded up.
QuotientStored ==
    (Done({"remquo"}) /\ ~Undefinable /\ Exact /\ stored # -pow2[QUOBITS - 1]) =>
        (stored * qsgn) % 8 = Multiple % 8 /\ stored * qsgn >= 0

Order(v, u) == Value(v) <= Value(u)

\* Rounding a number once more, in whatever direction and by whatever function, changes
\* nothing, and rounding is monotone: the next larger argument does not give a smaller
\* integer, up to the largest that a long int holds.
SecondCallFits ==
    /\ (Done(IntegralValued) /\ relation = "onResult" /\ Finite(before.ret)) =>
            Value(ret) = Value(before.ret) /\ flags = {}
    /\ (Done(IntegralValued) /\ relation = "onNext" /\ Finite(x)) => Order(before.ret, ret)
    /\ (Done(LongValued) /\ relation = "onNext" /\ Finite(x)) =>
            (Fits(IntegerIn(Direction, Value(x))) /\ Fits(IntegerIn(Direction, Value(before.x)))
                => before.ret <= ret)

-----------------------------------------------------------------------------
(* Comparison                                                              *)

TheNaN == IsNaN(x) /\ IsNaN(y)

\* fmax and fmin give the larger or smaller of two numbers, the number if the
\* other argument is a NaN, and the same value when the arguments are exchanged;
\* a lane of the array functions agrees unless its second argument is a NaN.
\* Of fdim(x, y) and fdim(y, x) one is +0, and the other is so only for x = y.
ExtremumOfNumbers ==
    /\ Done({"fmax", "fmin"}) =>
        /\ IsNaN(ret) <=> TheNaN
        /\ IsNaN(x) # IsNaN(y) => ret \in {x, y}
        /\ ~IsNaN(x) /\ ~IsNaN(y) =>
              /\ ret \in {x, y}
              /\ fn = "fmax" => Ordinal(ret) >= Ordinal(x) /\ Ordinal(ret) >= Ordinal(y)
              /\ fn = "fmin" => Ordinal(ret) <= Ordinal(x) /\ Ordinal(ret) <= Ordinal(y)
        /\ relation = "exchanged" /\ ~TheNaN => Ordinal(ret) = Ordinal(before.ret)
    /\ Done({"vrda_fmax", "vrda_fmin"}) =>
        IF IsNaN(y) THEN ret = y
        ELSE Ordinal(ret) = Ordinal(IF fn = "vrda_fmax" THEN fmax(x, y).ret
                                    ELSE fmin(x, y).ret)
    /\ (Done({"fdim"}) /\ relation = "exchanged" /\ ~IsNaN(x) /\ ~IsNaN(y)) =>
        /\ ret = 0 \/ before.ret = 0
        /\ ~Negative(ret) /\ (ret = 0 /\ before.ret = 0 => Ordinal(x) = Ordinal(y))

-----------------------------------------------------------------------------
(* Elementary functions                                                    *)

answer == [ret |-> ret, flags |-> flags]

\* The elementary functions give a NaN, and raise invalid, where they have no value;
\* their infinities are told apart by the exceptions, and so are their small results.
ElementarySpecialValues ==
    Done(ElementaryFunctions) => /\ NaNRule(fn, x, answer)
                                 /\ PoleRule(fn, x, answer)
                                 /\ RangeRule(fn, x, answer)

\* x and -x are treated alike, and so is x by the double and the float version.
ElementaryPairs ==
    Done(ElementaryFunctions) =>
        /\ relation = "opposite" => SymmetryRule(fn, before.x, before, answer)
        /\ relation = "agreeing" => TwinRule(before.fn, x, before, answer)

\* The special values of pow and powf are those of the standard.
PowerSpecialValues ==
    Done(PowerFunctions) => /\ PowerNaNRule(x, y, answer)
                            /\ PowerSignRule(x, y, answer)
                            /\ PowerRangeRule(x, y, answer)

\* They fit together for y and -y, and in double and float.
PowerPairs ==
    Done(PowerFunctions) =>
        /\ relation = "opposite" => ReciprocalRule(before, answer)
        /\ relation = "agreeing" => PowerTwinRule(before, answer)

-----------------------------------------------------------------------------
(* Lanes of vector functions                                               *)

\* Special results and arguments are treated in a lane as the scalar function
\* treats them, whatever the polynomial would make of them.
LaneIsScalar == Done(LaneFunctions) => LaneRule(fn, x, y, answer)

\* An element has one value, wherever in an array it stands: array functions
\* compute the last elements twice, beside other neighbours, and rely on it.
LanesIndependent ==
    (Done(LaneFunctions) /\ relation = "elsewhere") =>
        NeighbourRule(fn, [ret |-> before.ret, flags |-> before.flags], answer)

\* Lanes without an element, which hold zero, are harmless beside the logarithms.
PaddingIsQuiet == (Done(LaneFunctions) /\ x = 0 /\ y = 0) => PaddingRule(fn, answer)
============================================================================
