------------------------------ MODULE Residue ------------------------------
(***************************************************************************)
(* The division with remainder: fmod, fmodf, remainder, remainderf          *)
(* (src/optimized) and remquo (src/ref).  The quotient may have more bits   *)
(* than a number holds, so multiples of y * 2^k are taken away in rounds.   *)
(* The values adx and w are in units.  A compiler may contract a * b + c    *)
(* into one rounding, and the results depend on whether it did.             *)
(***************************************************************************)
EXTENDS FloatArithmetic

CONSTANTS CHUNK,      \* the quotient bits of a round of remainder: 24 of 53
          SPLIT,      \* the bits that Dekker's split clears, half of them: 27
          QUOBITS,    \* the width of the int that remquo stores
          WIDE        \* the precision that the float functions compute in: 53

ASSUME ResidueAssumption ==
    /\ CHUNK \in 1 .. M /\ M > 2 /\ QUOBITS \in Nat /\ QUOBITS > 3
    /\ SPLIT \in Nat /\ 2 * SPLIT \in {M + 1, M + 2}
    /\ WIDE \in Nat /\ WIDE > 2 * M + 2

VARIABLES fn, x, y,
          contracted,  \* was the function compiled with contraction?
          pc,          \* "call", "reduce", "last" or "done"
          adx,         \* what is left of |x|
          w,           \* |y| * 2^k
          quo,         \* the rounds to go; ntimes in remquo
          stored,      \* what remquo stores through its pointer
          ret, flags

residueVars == <<contracted, adx, w, quo, stored>>

ResidueFunctions == {"fmod", "fmodf", "remainder", "remainderf", "remquo"}
InFloat          == fn \in {"fmodf", "remainderf"}

ResidueInit ==
    /\ contracted \in IF fn = "remquo" THEN BOOLEAN ELSE {TRUE}
    /\ adx = 0 /\ w = 0 /\ quo = 0 /\ stored = 0

-----------------------------------------------------------------------------
(* The float functions compute in double precision, where all that they do *)
(* to floats is exact except the quotient.                                 *)

Precision == IF InFloat THEN WIDE ELSE M + 1

\* The quotient bits of a round: those of a float, or part of a double's.
Bits == CASE InFloat -> M + 1 [] fn = "remquo" -> M [] OTHER -> CHUNK

ax == Units(Magnitude(x))
ay == Units(Magnitude(y))

\* The exponent field, of a subnormal the one it would have.
Normalized(u) == CHOOSE e \in 1 - M .. pow2[E] - 1 :
                     IF ExponentField(u) > 0 THEN e = ExponentField(u)
                     ELSE e < 1 /\ Fraction(u) * pow2[1 - e] \in IMPBIT .. 2 * IMPBIT - 1

Field(u) == IF InFloat \/ fn = "remquo" THEN Normalized(Magnitude(u))
            ELSE ExponentField(Magnitude(u))

diff_exp == Field(x) - Field(y)

\* Twice 0.5 * n: only a subnormal double is rounded when it is halved.
Halved(n) == IF InFloat THEN n ELSE 2 * Units(Rounded(n, 2))

Pattern(v) == RoundedIn("nearest", v, 1)

\* v with the sign of x, where 0.0 - 0.0 is +0 and -0.0 is -0.
ZeroMinus(v) == Pattern(IF Negative(x) THEN -v ELSE v)
Flipped(v)   == IF Negative(x) THEN Negated(Pattern(v)) ELSE Pattern(v)

-----------------------------------------------------------------------------
Return(bits, raised) == pc' = "done" /\ ret' = bits /\ flags' = raised

Unstored == UNCHANGED <<fn, x, y, contracted, adx, w, quo, stored>>

NewNaN == EXPBITS + QNAN_MASK      \* the payloads of new NaNs are left out

Exceptional == ~Finite(x) \/ IsNaN(y) \/ IsZero(y) \/ (fn = "remquo" /\ IsInf(y))

\* Does the function pass a NaN on by x + x, y + y or x * y?
PassesNaN == CASE fn = "fmod"      -> IsNaN(y)
               [] fn = "fmodf"     -> IsNaN(y) \/ (IsNaN(x) /\ ~IsZero(y))
               [] fn = "remainder" -> FALSE
               [] fn = "remainderf" -> IsNaN(x) /\ IsZero(y)
               [] fn = "remquo"    -> IsNaN(x) \/ (IsNaN(y) /\ ~IsInf(x))

PassNaN ==
    /\ pc = "call" /\ Exceptional /\ PassesNaN
    /\ Return(Quieted(IF IsNaN(x) THEN x ELSE y),
              IF IsSignalling(x) \/ IsSignalling(y) THEN {"invalid"} ELSE {})
    /\ Unstored

\* fmod gives a NaN x back as it is; remainder raises invalid for every NaN.
Undefined ==
    /\ pc = "call" /\ Exceptional /\ ~PassesNaN
    /\ IF fn = "fmod" /\ IsNaN(x) /\ ~IsZero(y) THEN Return(x, {})
       ELSE Return(NewNaN, {"invalid"})
    /\ Unstored

-----------------------------------------------------------------------------
Stores(v) == stored' = IF fn = "remquo" THEN v ELSE stored

\* Slip: the increment of the largest int is taken for a larger number.
ToIntUnbounded(v) == v

\* An increment of the largest int is undefined; builds wrap.
ToInt(v) == ((v + pow2[QUOBITS - 1]) % pow2[QUOBITS]) - pow2[QUOBITS - 1]

qsgn == IF Negative(x) = Negative(y) THEN 1 ELSE -1

Equal ==
    /\ pc = "call" /\ ~Exceptional /\ ax = ay
    /\ Return(IF fn \in {"fmod", "remainder"} THEN 0 ELSE SignOf(x), {})
    /\ Stores(qsgn)
    /\ UNCHANGED <<fn, x, y, contracted, adx, w, quo>>

\* Slip: the quotient is stored without its sign.
SmallerUnsigned ==
    /\ pc = "call" /\ ~Exceptional /\ ax < ay
    /\ LET above == ~IsInf(y) /\ 2 * ax > Halved(ay)
           v     == IF above THEN ax - ay ELSE ax
       IN  /\ Return(CASE fn \in {"fmod", "fmodf"} -> x
                       [] fn = "remainder"         -> ZeroMinus(v)
                       [] fn = "remainderf"        -> IF IsZero(x) THEN x ELSE ZeroMinus(v)
                       [] fn = "remquo"            -> IF IsZero(x) THEN x ELSE Flipped(v), {})
           /\ Stores(IF above THEN 1 ELSE 0)
    /\ UNCHANGED <<fn, x, y, contracted, adx, w, quo>>

\* |x| < |y|: of the remainders the one of the smaller magnitude.
Smaller ==
    /\ pc = "call" /\ ~Exceptional /\ ax < ay
    /\ LET above == ~IsInf(y) /\ 2 * ax > Halved(ay)
           v     == IF above THEN ax - ay ELSE ax
       IN  /\ Return(CASE fn \in {"fmod", "fmodf"} -> x
                       [] fn = "remainder"         -> ZeroMinus(v)
                       [] fn = "remainderf"        -> IF IsZero(x) THEN x ELSE ZeroMinus(v)
                       [] fn = "remquo"            -> IF IsZero(x) THEN x ELSE Flipped(v), {})
           /\ Stores(IF above THEN qsgn ELSE 0)
    /\ UNCHANGED <<fn, x, y, contracted, adx, w, quo>>

Larger == pc = "call" /\ ~Exceptional /\ ax > ay

\* __amd_bas64_fmod and __amd_bas64_remainder, which use fprem and fprem1.
Far == \/ fn = "fmod" /\ (Field(x) = 0 \/ Field(y) = 0 \/ diff_exp > M)
       \/ fn = "remainder" /\ diff_exp > 0 /\ (Field(y) = 0 \/ diff_exp > M)

fprem(v, d)  == v % d
fprem1(v, d) == v - d * NearestInteger(v, d)

FarApart ==
    /\ Larger /\ Far
    /\ Return(Flipped(IF fn = "fmod" THEN fprem(ax, ay) ELSE fprem1(ax, ay)), {})
    /\ Unstored

Setup ==
    /\ Larger /\ ~Far
    /\ quo' = IF fn = "fmod" \/ diff_exp <= 0 THEN 0 ELSE diff_exp \div Bits
    /\ adx' = ax
    /\ w' = ay * pow2[Bits * quo']
    /\ pc' = IF quo' = 0 THEN "last" ELSE "reduce"
    /\ UNCHANGED <<fn, x, y, contracted, stored, ret, flags>>

-----------------------------------------------------------------------------
(* Subtracting a product.  dekker_mul12 splits both factors into heads and *)
(* tails, so that the four products are exact and cc is the error of c.    *)

Head(u)    == Units(u - (u % pow2[SPLIT]))
IntHead(t) == LET k == CHOOSE j \in 0 .. AbsValue(t) :
                           /\ t < pow2[M + 1 - SPLIT + j]
                           /\ j > 0 => t >= pow2[M - SPLIT + j]
              IN  t - (t % pow2[k])

Product(a, b, c) == IF contracted THEN Nearest(a * b + c) ELSE Nearest(Nearest(a * b) + c)

Error(u, t, c) ==
    LET h  == Head(u)
        ht == IntHead(t)
        l  == Units(u) - h
        lt == t - ht
    IN  Product(l, lt, Product(l, ht, Product(h, lt, c)))

\* remquo: GCC contracts the uses of c = w * t as well.
Dekker(a, u, t) ==
    LET c  == Nearest(Units(u) * t)
        cc == Error(u, t, IF contracted
                          THEN Nearest(Head(u) * IntHead(t) - Units(u) * t)
                          ELSE Nearest(Head(u) * IntHead(t) - c))
        Less(v) == IF contracted THEN Nearest(v - Units(u) * t) ELSE Nearest(v - c)
        v  == Less(a)
    IN  Nearest(v + Nearest(Less(Nearest(a - v)) - cc))

\* fmod: the same product, but c is used as it was rounded.
FmodSubtract(a, u, t) ==
    LET c  == Nearest(Units(u) * t)
        cc == Error(u, t, Nearest(Head(u) * IntHead(t) - c))
        v  == Nearest(a - c)
    IN  Nearest(Nearest(Nearest(Nearest(a - v) - c) - cc) + v)

\* adx - t * w
Subtracted(t) ==
    CASE InFloat          -> adx - t * w
      [] fn = "remainder" -> Product(-t, w, adx)
      [] fn = "fmod"      -> FmodSubtract(adx, Pattern(w), t)
      [] fn = "remquo"    -> Dekker(adx, Pattern(w), t)

-----------------------------------------------------------------------------
(* A quotient that was rounded up takes away more than there is: from the  *)
(* largest number perhaps as much as overflows.  A NaN then stays one in   *)
(* the rounds to come, and its conversion to an integer is undefined.      *)

Overflow(v) == Rounded(AbsValue(v), 1) = EXPBITS

\* c = w * t, or in a contracted build the difference adx - v that stands for it.
Overflowing ==
    LET t == TruncatedQuotient(Precision, adx, w)
    IN  \/ (fn = "fmod" \/ (fn = "remquo" /\ ~contracted)) /\ Overflow(w * t)
        \/ fn = "remquo" /\ contracted /\ Overflow(adx - Nearest(adx - w * t))

\* infinity - infinity, unless the second one was contracted away.
ProductOverflows ==
    /\ pc \in {"reduce", "last"} /\ Overflowing
    /\ LET infinite == pc = "last" /\ fn = "remquo" /\ contracted
           low == TruncatedQuotient(Precision, adx, w) % pow2[QUOBITS - 1]
       IN  /\ IF infinite THEN Return(SignOf(x) + EXPBITS, {"overflow"})
              ELSE Return(NewNaN, {"overflow", "invalid"})
           /\ \E q \in CASE infinite    -> {low + 1}
                         [] pc = "last" -> {low}
                         [] OTHER       -> {0, pow2[QUOBITS - 1] - 1} :
                  Stores(ToInt(ToInt(q) * qsgn))
    /\ UNCHANGED <<fn, x, y, contracted, adx, w, quo>>

\* Slip: a negative rest is not repaired.
ReduceUnrepaired ==
    /\ pc = "reduce" /\ ~Overflowing
    /\ adx' = Subtracted(TruncatedQuotient(Precision, adx, w))
    /\ w' = w \div pow2[Bits]
    /\ quo' = quo - 1
    /\ pc' = IF quo' = 0 THEN "last" ELSE "reduce"
    /\ UNCHANGED <<fn, x, y, contracted, stored, ret, flags>>

Reduce ==
    /\ pc = "reduce" /\ ~Overflowing
    /\ \E left \in {Subtracted(TruncatedQuotient(Precision, adx, w))} :
           adx' = IF fn = "remquo" /\ left < 0 THEN Nearest(left + w) ELSE left
    /\ w' = w \div pow2[Bits]
    /\ quo' = quo - 1
    /\ pc' = IF quo' = 0 THEN "last" ELSE "reduce"
    /\ UNCHANGED <<fn, x, y, contracted, stored, ret, flags>>

-----------------------------------------------------------------------------
(* The last round.                                                         *)

LastFmod ==
    /\ pc = "last" /\ fn \in {"fmod", "fmodf"} /\ ~Overflowing
    /\ \E left \in {Subtracted(TruncatedQuotient(Precision, adx, w))} :
           Return(ZeroMinus(IF fn = "fmod" /\ left < 0 THEN Nearest(left + ay) ELSE left), {})
    /\ Unstored

\* Slip: a tie goes up whatever the parity of the quotient.
LastRemainderTiesUp ==
    /\ pc = "last" /\ fn \in {"remainder", "remainderf"}
    /\ \E left \in {Subtracted(TruncatedQuotient(Precision, adx, w))} :
           Return(ZeroMinus(IF Halved(w) > 2 * left THEN left ELSE left - w), {})
    /\ Unstored

\* A tie goes to the even quotient, whose parity is that of (int64_t)(x / w).
LastRemainder ==
    /\ pc = "last" /\ fn \in {"remainder", "remainderf"}
    /\ \E left \in {Subtracted(TruncatedQuotient(Precision, adx, w))} :
           LET todd == TruncatedQuotient(Precision, ax, w) % 2 = 1
               down == ~(todd /\ Halved(w) = 2 * left) /\ Halved(w) >= 2 * left
           IN  Return(ZeroMinus(IF down THEN left ELSE left - w), {})
    /\ Unstored

LastRemquo ==
    /\ pc = "last" /\ fn = "remquo" /\ ~Overflowing
    /\ LET temp == TruncatedQuotient(Precision, adx, w)
           half == IF Magnitude(y) < (BIASEDEMAX - 1) * IMPBIT THEN w ELSE Halved(w)
       IN  \E left \in {Subtracted(temp)} :
              LET back == left < 0                      \* temp was one too large
                  dx   == IF back THEN Nearest(left + w) ELSE left
                  todd == (temp % 2 = 1) # back
                  low  == (temp % pow2[QUOBITS - 1]) - (IF back THEN 1 ELSE 0)
                  up   == 2 * dx > half \/ (todd /\ 2 * dx = half)
              IN  /\ Return(Flipped(IF up THEN dx - w ELSE dx), {})
                  /\ stored' = ToInt(ToInt(IF up THEN low + 1 ELSE low) * qsgn)
    /\ UNCHANGED <<fn, x, y, contracted, adx, w, quo>>

ResidueNext == \/ PassNaN \/ Undefined \/ Equal \/ Smaller \/ FarApart
               \/ Setup \/ ProductOverflows \/ Reduce \/ LastFmod \/ LastRemainder \/ LastRemquo
============================================================================
