------------------------------ MODULE Scaling ------------------------------
(***************************************************************************)
(* The functions on the exponent: ldexp, scalbn, scalbln, frexp (src/ref)  *)
(* and logb, ilogb (src/optimized), in double precision and, where the code*)
(* of the single-precision function differs, ldexpf and ilogbf.  A behaviour*)
(* is one call; a caller may go on to undo it with a second one.           *)
(***************************************************************************)
EXTENDS SmallFloat

CONSTANTS INTBITS, LONGBITS     \* the widths of int and of long int

\* 2^MULTIPLIER is a number of the format and its reciprocal is a normal one.
ASSUME WidthAssumption ==
    /\ INTBITS \in Nat \ {0} /\ LONGBITS \in Nat /\ INTBITS < LONGBITS
    /\ pow2[INTBITS - 1] > pow2[E] + 2 * MULTIPLIER
    /\ MULTIPLIER < EXPBIAS

VARIABLES
    fn,      \* the function called
    x, n,    \* its arguments
    pc,      \* where it is: "call", "denormal", "normal", "shift" or "done"
    val,     \* the pattern it works on
    exponent,
    ret,     \* what it returned
    flags,   \* the exceptions it raised
    undone   \* the argument of the call that this one undoes, or None

vars == <<fn, x, n, pc, val, exponent, ret, flags, undone>>

INT_MAX == pow2[INTBITS - 1] - 1
INT_MIN == -pow2[INTBITS - 1]
Ints    == INT_MIN .. INT_MAX
Longs   == -pow2[LONGBITS - 1] .. pow2[LONGBITS - 1] - 1

None == -1

ScaleFunctions == {"ldexp", "ldexpf", "scalbn", "scalbln"}
LogFunctions   == {"logb", "ilogb", "ilogbf"}

\* (int)v of a long.
ToInt(v) == ((v - INT_MIN) % pow2[INTBITS]) + INT_MIN

\* An int sum out of range is undefined in C: builds wrap, or compute further.
IntSum(v) == {v, ToInt(v)}

-----------------------------------------------------------------------------
Init == /\ fn \in ScaleFunctions \cup LogFunctions \cup {"frexp"}
        /\ x \in Patterns
        /\ n \in CASE fn = "scalbln"                 -> Longs
                   [] fn \in ScaleFunctions \ {"scalbln"} -> Ints
                   [] fn \notin ScaleFunctions       -> {0}
        /\ pc = "call"
        /\ val = 0 /\ exponent = 0 /\ ret = 0 /\ flags = {}
        /\ undone = None

Return(bits, raised) == /\ pc' = "done"
                        /\ ret' = bits
                        /\ flags' = raised

-----------------------------------------------------------------------------
(* ldexp, scalbn, scalbln                                                  *)

Scaling == fn \in ScaleFunctions

Signalling == IsNaN(x) /\ ~IsQuiet(x)

ScaleSpecial ==
    /\ pc = "call" /\ Scaling
    /\ \/ Signalling /\ Return(Quieted(x), {"invalid"})
       \/ ~Signalling /\ (~Finite(x) \/ IsZero(x) \/ n = 0) /\ Return(x, {})
    /\ UNCHANGED <<fn, x, n, val, exponent, undone>>

Ordinary == Finite(x) /\ ~IsZero(x) /\ n # 0

\* x is multiplied into the normal range; scalbln adds in long and truncates.
ScaleDenormal ==
    /\ pc = "call" /\ Scaling /\ Ordinary /\ IsSubnormal(x)
    /\ val' = Scaled(Magnitude(x), MULTIPLIER)
    /\ LET sum == ExponentField(val') + n - MULTIPLIER
       IN  exponent' \in IF fn = "scalbln" THEN {ToInt(sum)} ELSE IntSum(sum)
    /\ pc' = "denormal"
    /\ UNCHANGED <<fn, x, n, ret, flags, undone>>

\* The check that only ldexp makes before it adds; its infinity has no sign.
LdexpGuard == fn = "ldexp" /\ n >= 0 /\ ExponentField(x) > INT_MAX - n

ScaleGuard ==
    /\ pc = "call" /\ Scaling /\ Ordinary /\ ~IsSubnormal(x) /\ LdexpGuard
    /\ Return(EXPBITS, {"inexact", "overflow"})
    /\ UNCHANGED <<fn, x, n, val, exponent, undone>>

ScaleNormal ==
    /\ pc = "call" /\ Scaling /\ Ordinary /\ ~IsSubnormal(x) /\ ~LdexpGuard
    /\ val' = Magnitude(x)
    /\ exponent' \in IntSum(ExponentField(x) + (IF fn = "scalbln" THEN ToInt(n) ELSE n))
    /\ pc' = "normal"
    /\ UNCHANGED <<fn, x, n, ret, flags, undone>>

\* Slips: the bound for zero two too high, that for infinity one.
UnderflowEarly == exponent <= 1 - MULTIPLIER
OverflowLate   == exponent > BIASEDEMAX + 1

Underflow == exponent < -MULTIPLIER
Overflow  == exponent > BIASEDEMAX

\* Slip: addition in place of "|".
PackedAdded(e) == SignOf(x) + e * IMPBIT + Fraction(val)

\* sign | exponent << M | fraction: an exponent that needs one bit more than its
\* field has sets the sign.
Packed(e) == IF e < pow2[E] THEN SignOf(x) + e * IMPBIT + Fraction(val)
             ELSE SIGNBIT + (e - pow2[E]) * IMPBIT + Fraction(val)

\* Multiplication by 2^-MULTIPLIER, and what it raises.
Lowered(u) ==
    CASE IsNaN(u)  -> [bits |-> Quieted(u), flags |-> IF IsQuiet(u) THEN {} ELSE {"invalid"}]
      [] IsInf(u)  -> [bits |-> u, flags |-> {}]
      [] Finite(u) -> [bits |-> Scaled(u, -MULTIPLIER),
                       flags |-> IF ScalesExact(u, -MULTIPLIER) THEN {}
                                 ELSE {"inexact", "underflow"}]

ScaleUnderflow ==
    /\ pc \in {"denormal", "normal"} /\ Underflow
    /\ Return(SignOf(x), {"inexact", "underflow"})
    /\ UNCHANGED <<fn, x, n, val, exponent, undone>>

ScaleOverflow ==
    /\ pc \in {"denormal", "normal"} /\ Overflow
    /\ Return(SignOf(x) + EXPBITS, {"inexact", "overflow"})
    /\ UNCHANGED <<fn, x, n, val, exponent, undone>>

\* Every result of a denormal, and of a normal number that becomes one, is built
\* too large and multiplied down.
ScaleLower ==
    /\ ~Underflow /\ ~Overflow
    /\ (pc = "denormal" \/ (pc = "normal" /\ exponent < 1))
    /\ exponent' = exponent + MULTIPLIER
    /\ LET o == Lowered(Packed(exponent')) IN Return(o.bits, o.flags)
    /\ UNCHANGED <<fn, x, n, val, undone>>

ScalePack ==
    /\ pc = "normal" /\ exponent >= 1 /\ ~Overflow
    /\ Return(Packed(exponent), {})
    /\ UNCHANGED <<fn, x, n, val, exponent, undone>>

-----------------------------------------------------------------------------
(* frexp                                                                   *)

FrexpSpecial ==
    /\ pc = "call" /\ fn = "frexp"
    /\ (~Finite(x) \/ IsZero(x))
    /\ exponent' = 0
    /\ IF IsNaN(x) THEN Return(Quieted(x), IF Signalling THEN {"invalid"} ELSE {})
                   ELSE Return(x, {})
    /\ UNCHANGED <<fn, x, n, val, undone>>

\* Slip: the multiplication of a subnormal is not taken back.
FrexpForgets ==
    /\ pc = "call" /\ fn = "frexp" /\ Finite(x) /\ ~IsZero(x)
    /\ val' = IF IsSubnormal(x) THEN Scaled(Magnitude(x), MULTIPLIER) ELSE Magnitude(x)
    /\ exponent' = ExponentField(val') - (EXPBIAS - 1)
    /\ Return(SignOf(x) + (EXPBIAS - 1) * IMPBIT + Fraction(val'), {})
    /\ UNCHANGED <<fn, x, n, undone>>

Frexp ==
    /\ pc = "call" /\ fn = "frexp" /\ Finite(x) /\ ~IsZero(x)
    /\ val' = IF IsSubnormal(x) THEN Scaled(Magnitude(x), MULTIPLIER) ELSE Magnitude(x)
    /\ exponent' = ExponentField(val') - (IF IsSubnormal(x) THEN MULTIPLIER ELSE 0)
                       - (EXPBIAS - 1)
    /\ Return(SignOf(x) + (EXPBIAS - 1) * IMPBIT + Fraction(val'), {})
    /\ UNCHANGED <<fn, x, n, undone>>

-----------------------------------------------------------------------------
(* logb, ilogb: the result is left in exponent when it is a number; logb    *)
(* returns a double, whose special values are in ret.                      *)

LogSpecial ==
    /\ pc = "call" /\ (~Finite(x) \/ IsZero(x))
    /\ \/ /\ fn = "logb"
          /\ exponent' = 0
          /\ CASE IsZero(x) -> Return(Negated(EXPBITS), {"divbyzero"})
               [] IsInf(x)  -> Return(EXPBITS, {})
               [] IsNaN(x)  -> Return(Quieted(x), IF Signalling THEN {"invalid"} ELSE {})
       \/ /\ fn \in {"ilogb", "ilogbf"}
          /\ exponent' = IF IsInf(x) THEN INT_MAX ELSE INT_MIN
          /\ Return(0, IF fn = "ilogbf" /\ IsZero(x) THEN {"divbyzero"} ELSE {"invalid"})
    /\ UNCHANGED <<fn, x, n, val, undone>>

LogNormal ==
    /\ pc = "call" /\ fn \in LogFunctions /\ Finite(x) /\ ~IsZero(x) /\ ~IsSubnormal(x)
    /\ exponent' = ExponentField(x) - EXPBIAS
    /\ Return(0, {})
    /\ UNCHANGED <<fn, x, n, val, undone>>

LogDenormal ==
    /\ pc = "call" /\ fn \in LogFunctions /\ IsSubnormal(x)
    /\ val' = Fraction(x)
    /\ exponent' = EMIN
    /\ pc' = "shift"
    /\ UNCHANGED <<fn, x, n, ret, flags, undone>>

\* Slips: one shift too many; the bit that is looked for is masked off.
LogShiftLate ==
    /\ pc = "shift"
    /\ IF val <= IMPBIT
       THEN /\ val' = 2 * val
            /\ exponent' = ToInt(exponent - 1)
            /\ UNCHANGED <<pc, ret, flags>>
       ELSE Return(0, {}) /\ UNCHANGED <<val, exponent>>
    /\ UNCHANGED <<fn, x, n, undone>>

LogShiftMasked ==
    /\ pc = "shift"
    /\ IF val < IMPBIT
       THEN /\ val' = (2 * val) % IMPBIT
            /\ exponent' = ToInt(exponent - 1)
            /\ UNCHANGED <<pc, ret, flags>>
       ELSE Return(0, {}) /\ UNCHANGED <<val, exponent>>
    /\ UNCHANGED <<fn, x, n, undone>>

\* "while (ux < IMPBIT_DP64) { ux <<= 1; u--; }"
LogShift ==
    /\ pc = "shift"
    /\ IF val < IMPBIT
       THEN /\ val' = 2 * val
            /\ exponent' = ToInt(exponent - 1)
            /\ UNCHANGED <<pc, ret, flags>>
       ELSE Return(0, {}) /\ UNCHANGED <<val, exponent>>
    /\ UNCHANGED <<fn, x, n, undone>>

-----------------------------------------------------------------------------
(* The caller's second call: ldexp of the parts that frexp returned, or     *)
(* scalbn by minus the exponent that logb or ilogb returned.               *)

CallAgain(f, u, k) ==
    /\ fn' = f /\ x' = u /\ n' = k
    /\ pc' = "call" /\ undone' = x
    /\ val' = 0 /\ exponent' = 0 /\ ret' = 0 /\ flags' = {}

Undo == /\ pc = "done" /\ Finite(x) /\ ~IsZero(x)
        /\ \/ fn = "frexp" /\ CallAgain("ldexp", ret, exponent)
           \/ fn \in LogFunctions /\ CallAgain("scalbn", x, -exponent)

-----------------------------------------------------------------------------
Step == \/ ScaleSpecial \/ ScaleDenormal \/ ScaleGuard \/ ScaleNormal
        \/ ScaleUnderflow \/ ScaleOverflow \/ ScaleLower \/ ScalePack
        \/ FrexpSpecial \/ Frexp
        \/ LogSpecial \/ LogNormal \/ LogDenormal \/ LogShift

Next == Step \/ Undo

\* A call runs to its end; whether a second one follows is the caller's choice.
Spec == Init /\ [][Next]_vars /\ WF_vars(Step)

-----------------------------------------------------------------------------
(* Properties.                                                             *)

TypeOK ==
    /\ fn \in ScaleFunctions \cup LogFunctions \cup {"frexp"}
    /\ x \in Patterns /\ n \in Longs
    /\ pc \in {"call", "denormal", "normal", "shift", "done"}
    /\ val \in Patterns /\ exponent \in Longs
    /\ ret \in Patterns
    /\ flags \subseteq {"invalid", "divbyzero", "inexact", "overflow", "underflow"}
    /\ undone \in Patterns \cup {None}

\* x * 2^k rounded once; far out of range on either side the result is known.
Product(u, k) ==
    CASE ExponentField(u) + k > BIASEDEMAX + MULTIPLIER   -> SignOf(u) + EXPBITS
      [] ExponentField(u) + k < -(M + 2)                  -> SignOf(u)
      [] OTHER                                            -> Scaled(u, k)

ProductExact(u, k) ==
    /\ ExponentField(u) + k \in -(M + 2) .. BIASEDEMAX + MULTIPLIER
    /\ Finite(Scaled(u, k)) /\ ScalesExact(u, k)

Scaled2n == pc = "done" /\ Scaling /\ Finite(x) /\ ~IsZero(x)

RightProduct == ret = Product(x, n)

\* The exponent field that the leading bit of u would have without a lower bound.
Lead(u) == IF IsSubnormal(u)
           THEN ExponentField(Scaled(Magnitude(u), MULTIPLIER)) - MULTIPLIER
           ELSE ExponentField(u)

\* The calls that scale as documented: the count is an int, no sum leaves the
\* ints, and a subnormal is not scaled into the topmost binades.
FitsInt    == {n, ExponentField(x) + n, n - MULTIPLIER} \subseteq Ints
TopBinades == BIASEDEMAX + 1 - MULTIPLIER .. BIASEDEMAX
SoundScale == FitsInt /\ (IsSubnormal(x) => Lead(x) + n \notin TopBinades)

\* A quarter of the smallest subnormal: packed with exponent field 0, its only
\* bit is lost, and the code takes it for an exact zero.
LostBit == Lead(x) + n = -MULTIPLIER /\ \E k \in 0 .. E + M + pow2[E] : Units(x) = pow2[k]

\* "x * 2^n": the exponent surgery, the detour of subnormals through the normal
\* range and the two ways down give the product, rounded once, with its sign.
ScalesAsProduct == Scaled2n /\ SoundScale => RightProduct

\* The exceptions tell the caller what happened: overflow an infinite result,
\* inexact any result that is not the product, underflow an inexact tiny one.
FlagsTell ==
    Scaled2n /\ SoundScale /\ ~LostBit =>
        /\ "overflow" \in flags <=> IsInf(ret)
        /\ "inexact" \in flags <=> ~ProductExact(x, n)
        /\ "underflow" \in flags <=> ~ProductExact(x, n) /\ ~IsInf(ret)
        /\ flags \cap {"invalid", "divbyzero"} = {}

\* logb and ilogb: 2^exponent <= |x| < 2^(exponent + 1), also where the leading
\* bit of a subnormal has to be searched.
ExponentIsFloorLog ==
    pc = "done" /\ fn \in LogFunctions /\ Finite(x) /\ ~IsZero(x) =>
        /\ exponent >= EMIN - M
        /\ Units(x) \div pow2[exponent - EMIN + M] = 1

\* The second call undoes the first: ldexp rebuilds what frexp took apart, and
\* scalbn by minus the logarithm leaves a number from 1 to 2, with its sign.
SecondCallUndoes ==
    pc = "done" /\ undone # None =>
        /\ fn = "ldexp"  => ret = undone
        /\ fn = "scalbn" => /\ ExponentField(ret) = EXPBIAS
                            /\ Negative(ret) = Negative(undone)
        /\ "inexact" \notin flags

\* Every call returns: the search for the leading bit of a subnormal ends.
CallsReturn == pc # "done" ~> pc = "done"

\* amdlibm.h gives "x * 2^exp" without condition.  A subnormal scaled into one of
\* the topmost binades comes back as an infinity, a NaN or with a wrong sign.
SubnormalsScale == Scaled2n /\ FitsInt /\ IsSubnormal(x) => RightProduct
============================================================================
