# AOCL-LibM in TLA+

A verification project for AMD's math library (AOCL-LibM): TLA+ modules of the
parts of it that have control worth modelling, TLC configurations that check
them on small instances, and TLAPS proofs of their main properties for every
instance.  Paths below are relative to the repository.

## 1. Inventory

AOCL-LibM is a C and assembly library of elementary functions.  A program links
`libalm.so` and calls `amd_<f>` (or `<f>`, an alias): scalar functions in single
and double precision, vector functions of 2 to 16 lanes, and array functions.

| part | code | state | operations |
|---|---|---|---|
| dispatcher | `src/iface.c`, `src/entry_pt.c`, `src/entry_pt_map.c`, `src/entry_pt_macros.h` | one function pointer (*slot*) per public function; `arch_ver` | the constructor `init_map_entry_points`, `libm_iface_init`, `alm_iface_fixup`, `alm_iface_fixup_one`, `alm_get_uach`; the trampolines `amd_<f>` that jump through the slots |
| interface tables | `src/iface/*.c` | constant: per function and variant, one implementation for each micro-architecture or NULL | `libm_iface_amd_<f>`: calls `alm_iface_fixup` with its table |
| array functions | `src/optimized/vec`, `src/optimized/vectormath`, some of `src/arch/zen4` and `zen5` | the caller's arrays, loop counter, saved tail registers | loop over chunks of *w* lanes, tail with saved registers or with a mask |
| strided array functions | `src/optimized/vec/vr?a_*i.c` | the caller's arrays, loop counter | loop over `dst[i*inc_res] = lhs[i*inc_a] op rhs[i*inc_b]` |
| linearfrac | `src/optimized/vectormath` | none | `(scalea*a + shifta)/(scaleb*b + shiftb)` with a shortcut |
| error and exception handling | `src/alm_special.c` | the processor's status flags | one handler per function: error code to result and flags |
| exponent and neighbour functions | `src/ref`, `src/optimized` | the processor's status flags | `ldexp`, `scalbn`, `scalbln`, `frexp`, `logb`, `ilogb`, `nextafter`, `nexttoward` on the bits of a number |
| rounding, remainder and comparison functions | `src/ref`, `src/optimized` | the processor's rounding direction and flags | `ceil`, `rint`, `lround`, `modf`, `fmod`, `remainder`, `remquo`, `fmax`, `fdim`, ... on the bits of a number |
| elementary and power functions | `src/optimized` | the status flags | 46 functions of one argument, `pow`, `powf`: special arguments first, a polynomial for the rest |
| vector functions | `src/optimized/vec` | the status flags | a polynomial in all lanes; lanes (or all of them) that it is not made for are given to the scalar function |
| polynomial and table kernels | `src/optimized`, `src/kern`, `src/fast`, `src/isa` | none | polynomials and tables |
| architecture wrappers | `src/arch` | none | include an optimized source under another prefix |
| glibc aliases, stand-alone start | `src/compat`, `src/alm_main.c` | none | call a trampoline; print the version |
| tests, benchmarks, scripts, build files | `gtests`, `almbench`, `scripts`, `tools`, `CMake` | | |

**How they interact.**  The dynamic loader runs the constructor; it walks
`entry_pt_initializers` and calls one `libm_iface_amd_<f>` after the other;
each hands its table to `alm_iface_fixup`, which asks AOCL-Utils for the
processor and stores pointers in the slots.  From then on, and on other threads
even before, public calls jump through the slots.  Array functions call vector
functions through the internal name of their architecture, vector and scalar
functions call the handlers of `alm_special.c` for results that must raise a
status flag.

**What is hard.**  There is no lock in the library.  The hard behaviours are:
calls that overlap with the constructor; the downward search over rows whose
order is not the order of instruction sets; what a processor claims against
what it has; tables written by hand for 80 functions; arrays that coincide
(in-place use), whose tails are computed out of order; lengths around multiples
of the lane count and 0; int arithmetic on subscripts; shortcuts that are right
for numbers and wrong for NaN and infinity; error codes from three enumerations
that share one parameter; exponents packed into bit fields that they may outgrow,
and single- and double-precision twins that differ in a guard or a flag;
special cases whose order decides what a NaN returns and raises; reduction loops
whose truncated quotient may be one too large; lanes whose result depends on
what stands beside them.

**What makes each part correct.**

- *Dispatcher*: a slot only ever holds code that the processor can execute; it is
  bound once; after the constructor every public function has code; a call
  faults only if it was made too early; the constructor ends.
- *Tables*: they satisfy what the dispatcher assumes of them.
- *Array functions*: the result is the function of the elements as they were at
  the call, however the arrays coincide; no access leaves the arrays; they return.
- *Strided functions*: each prefix of the result is final, no other cell changes.
- *linearfrac*: the shortcut cannot be told from the quotient.
- *Handlers*: every code a caller passes is one the handler lists, with the value
  and the flags of IEEE 754.
- *Exponent and neighbour functions*: products by powers of two are rounded once,
  logarithms are exact, each function is undone by its counterpart, flags tell
  what happened; a walk by `nextafter` steps from float to float and arrives.
- *Rounding, remainder and comparison functions*: equal to their mathematical
  definition on every bit pattern, in each rounding direction; related calls fit
  together (rounding is idempotent and monotone, `modf` splits, `lrint` agrees
  with `rint`).
- *Elementary and power functions*: NaNs come of NaNs and of numbers outside the
  domain, infinities and zeros are told by flags, symmetry and the twins hold for
  the special arguments too.
- *Vector functions*: a lane is special exactly if the scalar function is, and has
  one value wherever in an array its element stands.

## 2. Modules

| module | models | role |
|---|---|---|
| `Iface` | `include/libm/iface.h`; compiler flags | enumerations of variants and rows, what instruction sets an implementation needs |
| `IfaceTables` | `src/iface/*.c`, `entry_pt_initializers` | the 80 tables |
| `Dispatch` | `src/iface.c`, `src/entry_pt*.c/.h` | the constructor and the calls |
| `EntryPoints` | | abstract: slots are bound once, all of them before publication |
| `DispatchProofs` | | proofs about `Dispatch` |
| `MCDispatch` | | instances of `Dispatch` |
| `VecArray` | the control of the array drivers | one machine for all of them |
| `ArrayDrivers` | 77 drivers | lanes, tail treatment, mask and arguments of each |
| `ElementwiseMap` | | abstract: outputs become the function of the inputs at the call |
| `VecArrayProofs`, `MCVecArray` | | proofs; instances, with the elements of linearfrac |
| `StridedArray`, `StridedArrayProofs`, `MCStridedArray` | the 12 strided drivers | machine with properties, proofs, instance |
| `LinearFrac`, `LinearFracProofs` | the element operation of linearfrac | operators on classes of values, proof |
| `FloatBits` | `asuint64` and the masks of `libm_util_amd.h` | bit patterns, by three constants |
| `Neighbour`, `NeighbourProofs`, `MCNeighbour` | `nextafter`, `nexttoward` and their single-precision twins | walks over the floats, proofs, instance |
| `SmallFloat`, `SmallFloatProofs` | | the format with E and M bits: an instance of `FloatBits` with values and rounding; lemmas on powers of two, patterns and rounding |
| `Scaling`, `ScalingProofs`, `MCScaling` | `ldexp`, `ldexpf`, `scalbn`, `scalbln`, `frexp`, `logb`, `ilogb`, `ilogbf` | machine over one call and the call that undoes it, proofs, instance |
| `FloatArithmetic` | `+`, `-`, `/`, conversions in the four rounding directions | operators on `SmallFloat` |
| `Rounding` | `ceil`, `floor`, `trunc`, `round`, `rint`, `nearbyint`, `lrint`, `lround`, `lroundf`, `modf`, lanes of `vrd2_round` ... `vrs16_roundf` | one operator per function |
| `Residue` | `fmod`, `fmodf`, `remainder`, `remainderf`, `remquo` | machine: one action per branch and per round of the loop |
| `Comparison` | `fmax`, `fmin`, their handlers, lanes of `vrda_fmax`, `vrda_fmin` | operators |
| `ErrorHandling` | the handlers of `src/alm_special.c` and `cbrt` | operators: result and code to result and flags |
| `Elementary` | what 46 scalar functions take aside before the polynomial | one operator per function, `Answered` for all |
| `ElementaryRules` | | rules of Annex F about an answer, with the exceptions of the code by name |
| `Power` | `pow`, `powf` | operators by group of arguments, and rules |
| `VectorLanes` | the guards of 82 vector functions | a table of functions, one operator per kind of guard, rules |
| `ScalarCalls`, `ScalarCallsProofs`, `MCScalarCalls` | | composition: a caller of all of these and a second, related call; proofs, instance |
| `Conformance`, `MCConformance` | rows of the data in `gtests/*/test_*_data.h`; the loop of `gtest_accu.cc` | what the tests and comments promise where the code does otherwise |

Definitions named `...Short`, `...Stuck`, `...Overrun` and the like, marked
"Slip" in a comment, are not part of the models: each is a plausible mistake in
the definition below it, and replacing one by the other makes TLC refute the
property that is there to catch it.

### 2.1 Dispatch

`phase`, `i`, `v` and `arch_ver` are the program counter and the variables of
the constructor.  `InitMapEntryPoints` enters `libm_iface_init`; its loop is
`SkipInitializer` (an entry without `epi_init`), `CallInitializer` (which enters
`alm_iface_fixup` and asks for the micro-architecture) and `InitReturn`;
the loop of `alm_iface_fixup` is `FixupSlot`, one slot per step, and
`FixupReturn`.  `alm_iface_fixup_one` is an operator: `StartRow` is its range
check with the wrap-round of unsigned arithmetic, `SearchDown` its loop.
`Call(e)` is a trampoline: any thread, at any time, a jump that is not checked.
Each slot store is one step because it is one aligned pointer store.

`Cpus` are processors as AOCL-Utils reports them: a family and the extensions
AVX2, AVX512F, AVX512DQ.  `Needs` says what an implementation executes: the
DEFAULT, ZEN, ZN2 and ZN3 objects are compiled for AVX2, AVX512, ZN4 and ZN5
objects for AVX-512 too.  In `CpuAssumption` Zen 4 and Zen 5 have AVX512F and
AVX512DQ together or (hidden by firmware) neither, since the code asks only for
the former there.
A static build for AVX512 starts from the AVX512 row and never takes the ZEN5 code
that `docs/CMakeBuildSystem.md:468` names for it; both run on the same processors.

The assumptions on the tables (`TableAssumption`) are checked by TLC on the
real tables, and the proofs use nothing else of them.

### 2.2 Array drivers

All drivers have the same few shapes, so they are one machine, `VecArray`,
with a record per driver in `ArrayDrivers`: lanes `w`, `tail`
(`saved`: the last *w* inputs are loaded before the loop and the last chunk
overlaps; `masked`: the rest is loaded and stored under a mask), `mask` (the
tables of `libm_util_amd.h`, an exact 512-bit mask, or a scalar loop for short
arrays) and the pointer arguments.  `Chunk`, `TailSaved`, `TailMasked`,
`SmallMasked`, `SmallScalar` are the places where memory changes.  The vector
functions are lane-wise and stay uninterpreted (`F`).  Arrays of the caller are
identical or disjoint: an output may be any input array, but two outputs differ.
Arrays that overlap with an offset are not modelled, the documentation
describes in-place use only.

`touched` collects the indices that loads and stores access; lanes that a mask
switches off access nothing, which is how the hardware defines masked moves.

### 2.3 Strided drivers

An `int` product that leaves its range is undefined in C; the model lets it wrap
or not.  `LegalCall` states the caller's duties that the code silently relies
on: the products fit, each result has a cell of its own, and on one array the
writes do not overtake the reads.  `PrefixFinal` shows that these are enough.

### 2.4 linearfrac

Values are classes (sign and one of 0, 1, other finite, infinite; NaN), and
the arithmetic of `_mm256_fmadd_pd` and `_mm256_div_pd` maps classes to sets of
classes.  On the branch that matters (a zero times a finite number plus 1) the
sets have one element, so the check is exact there.  A call takes one branch for
all its elements and keeps nothing from one to the next, so `element` is one of
them and `linearfrac` its result; `MCVecArray` chooses it with the call of a driver.

### 2.5 nextafter and nexttoward

A number is the unsigned integer that `asuint64` makes of it, and the format is
three masks, so that the proofs hold for double, float and any other.  Each
function is one operator with the branches of the code; `Nextafter` and
`Nexttoward` are calls, each on the result of the one before, as a program
walks.  The target of `nexttoward` is a long double: a double and whether the
value lies strictly between it and the next.  `Ordinal` is the place of a float on
the real axis and stands for the comparisons of the processor.

`Sound` names the calls that keep the promise of `amdlibm.h` ("the next
representable double after x in the direction of y"), `ClearPath` the walks made of
them.  What they leave out:

- `nextafter(0, y)` returns a zero: the run `nextafter_zero`;
- `nextafter(-DBL_MAX, -INFINITY)` returns +infinity (`NextafterOverflow` has no sign);
- `nexttoward(DBL_MAX, INFINITY)` returns a NaN (`Quieted` in `nexttoward`);
- `nexttoward(x, NAN)` returns the float below `x`: the code does not look for a
  NaN as the target, and no document says what it should do.

### 2.6 The functions on the exponent

`Scaling` has one action per branch of the code.  `pc` is "denormal" or "normal"
after the exponent has been computed; `ScaleUnderflow`, `ScaleOverflow`,
`ScaleLower` and `ScalePack` are the returns.  Multiplications by
2^53 and 2^-53 (2^24 for float) are the only operations of the processor; they are
`Scaled`, a single rounding to nearest even of an integer number of units of the
smallest subnormal.  `ldexp`, `scalbn` and `scalbln` differ in how they add the
count: `LdexpGuard` is the check that only `ldexp` has, `ToInt` the truncation
of `scalbln`, `IntSum` an int sum that is undefined when out of range, for which the
model takes the wrapped and the unbounded result.  `ldexpf` stands for `scalbnf`
as well, they are the same code and it is that of `scalbn`; `scalbln` also
stands for `scalblnf`.  The loop of `logb` and `ilogb` is `LogShift`, one shift per
step.  `Undo` is the caller's second call.

The properties of values speak of `SoundScale` calls.  What those leave out:

- a subnormal scaled into one of the topmost binades: the run `scaling_subnormals`;
- `ldexp(-1, INT_MAX)` is +infinity (`ScaleGuard` has no sign);
- `scalbn(1, INT_MAX)` is 0, like `scalbnf` and `ldexpf`: the sum wraps, and only
  `ldexp` has a check before it;
- `scalbln(1, 1L << 32)` is 1: the count is truncated to an int.

Apart from the values, `ilogbf(0)` raises divide-by-zero where its comment (and
`ilogb`) say invalid.  `FlagsTell` leaves out one more case, `LostBit`: a power of two scaled to a
quarter of the smallest subnormal is packed with an empty exponent field and an
empty fraction, which is zero, so that no exception is raised (`ldexp(1, -1076)`).
The value is right and no document speaks of the flags, so it is no finding.

### 2.7 Rounding, remainders, comparison

`Rounding` has the functions as they work on bits: clearing the fraction below a
computed position (`Cleared`), adding one in the caller's rounding direction (`Sum`),
adding and subtracting 2^52 (`rint`).  The value of a number is an integer
number of units of the smallest subnormal, so the reference definitions
(`IntegerIn` in `ScalarCalls`) are integer arithmetic.  `long int` is `LONGBITS` wide; a
conversion that does not fit gives its smallest value, as the processor does.

`Residue` keeps the control of the reduction loops: `pc` is "reduce" while
multiples of `w` = |y| * 2^k are taken away and "last" for the final round and the
choice of the nearest multiple.  Each round divides, truncates the rounded
quotient, subtracts the product and repairs a quotient that was one too
large.  The product is exact by Dekker's split unless the compiler contracts
`a * b + c`, so `contracted` is a choice of the build for `remquo`.

The product of a quotient that was rounded up may be larger than |x|, and if x is
the largest number it overflows (`ProductOverflows`): `fmod.c:140` and
`remquo.c:50` then compute infinity - infinity.  For example
`fmod(DBL_MAX, 0x1.5555555555555p+1022)`, which is 0x1.5555555555554p+1022, is a
NaN; a contracted `remquo` returns an infinity.  `RemainderIsNumber` is the
property that this violates; the others except the largest number by name
(`Bounded`).

What they leave unlike the standard, excepted by name in the properties:

- `remquo` in contracted builds: against the exactness that the comments of
  `remquo.c:33` assume;
- the halves of a subnormal divisor round, so `remainder` and `remquo` may choose
  the other multiple there (`Exact`);
- `modf` and `nearbyint` turn a +0 result into -0 when the caller rounds downward;
- `nearbyint` raises inexact like `rint`, against its test data: the properties
  leave that open and `Conformance` shows it;
- `trunc` raises invalid for quiet NaNs too and gives signalling ones back; the float
  lanes of `round` raise inexact, `lround` may raise it for an integer;
- `lround` returns 0 for a number that is too large, where the comment at
  `lround.c:84` says LONG_MIN;
- `fmax` of the array functions gives the second argument whenever one is a NaN.

### 2.8 Elementary functions and powers

The operators of `Elementary` are the branches of the functions in their order,
with the handler and the code each passes; where a test is a comparison that a
NaN fails and that raises invalid, it is `Ordered`, where it is `==`, `Equated`.
Everything that goes on to the polynomial is `Kernel`: which value that is, and what
it raises, is left out.  Functions of a family share the thresholds; only their
order matters (`Thresholds`).  The rules are those of Annex F; where the code does
otherwise `ElementaryRules` names the functions:

- signalling NaNs given back as they are: `PassOn`;
- overflow for large arguments of `atanf` and large negative ones of `log10f`;
- `erfc` underflows without an exception: the compiler folds the product meant
  to raise it; `cbrt` hands its handler codes of another enumeration.

Where a comment or a test of the repository says otherwise too, the rules claim
nothing in either direction, and `Conformance` (2.11) shows what happens:

- invalid for quiet NaNs: `MayRaiseForQuietNaN`;
- overflow for an infinite argument: `OverflowAtInfinity`;
- the sign of zero: `expm1f(-0)` (`TwinRule`), `cbrt(-0)`, `cbrtf(-0)` (`SymmetryRule`).

`Power` splits `pow` and `powf` by group of arguments.  `checkint` (0, 1, 2 for no
integer, odd, even) is the bit test of the code: the place of the units bit follows
from the exponent field.  What the code relies on, among it that zero is no odd
integer, is the lemma `ParitiesHold`.

### 2.9 Vector functions

A vector function is seen from one lane, `x`, while every other lane holds `y`:
that is all a guard can tell, since it asks for each lane by itself or whether
any lane (or all of them) has a property.  `VectorFunctions` gives each function
its scalar function and its guard.  Answers are scalar calls, masked constants, or
`Poly`.  `LaneRule` leaves two kinds of lanes open, which `Conformance` (2.11) is about:

- 0 and +infinity in `vrd2_log`, `vrd4_log` and `vrs8_logf`, which only look for
  patterns above +infinity, so that these get a number from the polynomial;
- NaNs in `vrd2_erf`, `vrd4_erf`, `vrd8_erf`, which return 1 or -1 if all lanes are
  beyond the last bound.

`LooksAround` names what a caller would not expect:

- `acos` and `acosf` by halves, `asin`, `erf` and `erfc` choose a lane's formula by
  its neighbours; the array functions compute their last elements twice, beside other
  neighbours, and store the second result.

Outside the table: `vrs8_erff` and its relatives, where the maximum over lanes loses
a NaN (see the hazards), and vector `pow` and `powf`, whose guard is on the computed
y*log(x), so that `pow(-2, 0.1)` is a number.

### 2.10 Calls

`ScalarCalls` composes them.  A behaviour is a call, for each function and each
argument, and a second one related to the first: `OnResult`, `OnNext`, `Agreeing` (the
counterpart in another type or precision), `Exchanged`, `Opposite`, and `Elsewhere` (the
same lane beside other neighbours).  The properties that name `before` relate the two.

### 2.11 Conformance

The rules of the modules above are what holds.  `Conformance` is what the repository
says ought to: the rows of its conformance data for zeros, infinities and quiet NaNs, and
of `nearbyint` for numbers between two integers, each with a result and exceptions.
`RunTest` puts the table of one function to the model of it, as the fixtures of
`gtest_accu.cc` do, and `differing` collects the rows that come out otherwise.
`AsDocumented`, that there are none, is violated; the last state of the trace has
all of them:

- `nearbyint` raises inexact for every number that is no integer
  (`test_nearbyint_data.h:123-182` expects nothing);
- `expm1`, `expm1f`, `log1p`, `exp2`, `asinf`, `acosh` and `cbrt` raise invalid for quiet NaNs,
  `log10f` for negative ones (`test_expm1_data.h:50-51,122-123` and others; the
  comment at `log10f.c:53-54` has invalid for signalling NaNs only);
- `expm1f(-0)` is +0 (`expm1f.c:49-50`, `test_expm1_data.h:39`), `cbrt(-0)` too
  (`test_cbrt_data.h:350`);
- `expm1`, `expm1f`, `exp2`, `coshf` and `atanf` raise overflow for an infinity, `tanhf`
  inexact;
- `vrd2_log`, `vrd4_log` and `vrs8_logf` return a number of the polynomial for 0 and
  +infinity (`vrd2_log.c:173-175`, `test_log_data.h:36,40`);
- `vrd2_erf` and `vrd4_erf` return 1 or -1 for NaNs (`test_erf_data.h:76-77`).

The rows of `log`, `erf`, `vrd8_log` and `vrs4_logf` come out as expected.  The
repository's own tests do not fail on the scalar rows: `ConfVerifyFlt` and
`ConfVerifyDbl` (`almtest.h:587`, `:807`) only look for exceptions that are missing, and
compare results in ulps, to which a zero has no sign.  The fixtures of arrays do not
look at exceptions, and neither does `AsExpected` for vector functions.

The data is not of one mind.  For signalling NaNs some tables expect invalid and
others nothing, and `gtests/exp/test_exp_data.h:363,412` expects invalid for quiet NaNs of
the double `exp`, as its handler raises; such rows are left out.  So is
`test_exp2_data.h:539`, which has +infinity for `exp2(-INFINITY)`.

## 3. Runs

| run | instance | shows |
|---|---|---|
| `dispatch` | all distinct tables of the 80 functions; 10 processors, 7 builds, calls of three functions at any time | `RunnableSlots`, `NeverSigill`, `OnlyEarlyCallsFault`, `BindsOnce` (refinement of `EntryPoints`), `EventuallyReady` |
| `exports_callable` | adds the two exported slots without initializer | **violated**: `amd_remainder_piby2` jumps to NULL |
| `vec_array` | 77 drivers, lengths 0 to 2w+1, three arrays; elements of linearfrac: all classes, finite `b` | `InBounds`, `MapsElementwise` (refinement of `ElementwiseMap`), `Returns`; `AgreesWithFormula` |
| `vec_array_empty` | length 0 for all drivers | **violated**: `InBounds` |
| `strided_array` | ints of 4 bits, strides -4..4, up to 4 elements, three arrays | `PrefixFinal`, `AllComputed` |
| `neighbour` | all 128 patterns of a 7-bit format, every target | `Adjacent`, `OverflowSignalled`, `Arrives` |
| `nextafter_zero` | | **violated**: from zero `nextafter` returns its argument |
| `scaling` | all 256 patterns of an 8-bit format, every count of 6 bits (7 for a long) | `ScalesAsProduct`, `FlagsTell`, `ExponentIsFloorLog`, `SecondCallUndoes`, `CallsReturn` |
| `scaling_subnormals` | | **violated**: a subnormal scaled into the topmost binades is an infinity, a NaN or has the wrong sign |
| `scalar_calls` | all 512 patterns of a 9-bit format, 4 rounding directions, 150 second arguments; lanes on both sides of each bound | rounding: `RoundsInDirection`, `InexactWhenRounded`, `Agrees`, `SecondCallFits`; remainders: `IsRemainder`, `PartialRemainder`, `QuotientStored`; `ExtremumOfNumbers`; `ElementarySpecialValues`, `ElementaryPairs`; `PowerSpecialValues`, `PowerPairs`; `LaneIsScalar`, `LanesIndependent`, `PaddingIsQuiet` |
| `remainder_overflow` | | **violated**: a quotient that was rounded up multiplies back to an infinity, and `fmod` and `remquo` return a NaN |
| `documented_results` | 21 functions, the format of `scalar_calls` | **violated**: `AsDocumented`, the disagreements of 2.11 |

**Bounds.**  In `dispatch` a table is all that tells two functions apart, so of equal
tables only the last is filled and the others are entries without an initializer,
which the loop skips.  The first function, one in the middle and the last are
called.  Lengths up
to 2w+1 take a driver through no, one and two full chunks and every remainder;
two chunks are needed for the overlap of the last chunk with one that is
already stored.  Three arrays allow every coincidence of two inputs and an
output or an input and two outputs.  With 4-bit ints, strides and lengths reach
both ends of the int range.

The small formats have everything that the code tells apart: both zeros, subnormals,
normal numbers, infinities, quiet and signalling NaNs.  In `scaling` the format
must be wide enough for the code to make sense, as double and float are: a
subnormal multiplied by 2^MULTIPLIER is a normal number, and the count and an
exponent field both fit an int with room for sums out of range at each end.  E = 4,
M = 3 and ints of 6 bits (`WidthAssumption`) are that.  Results with a biased exponent in the
last MULTIPLIER binades are 4 of 14 there, so that both sides of each bound
are reached.

In `scalar_calls` E = 4 and M = 4: exponents are up to 14 binades apart while a
round of `remainder` takes two bits (`CHUNK`), so that the loops run up to seven
times, and `long int` (7 bits) is narrower than the format reaches.  The divisors are
all numbers of the two lowest binades, of one in the middle and of the highest, with
infinities, NaNs, and odd, even and non-integral exponents for `pow`.  The
thresholds of the elementary functions stand for those of the sources in their
order; arguments are every pattern, so each side of each is reached.

**Fairness.**  Weak fairness of the constructor (the loader runs it to its end),
of a driver's next step and of the steps of a scalar call (sequential code on its
thread).  `neighbour` assumes a caller that goes on walking: `Arrives` is about
such a caller.  Otherwise nothing is assumed
about callers: liveness of the constructor is "ready, or the process died of an
early call".

**Deadlock** is not checked where constructors, drivers, calls and tests end; it is in
`neighbour` and its variants, where a call is always possible.

## 4. Proofs

`DispatchProofs` (for all tables, processors, builds and calls that satisfy the
named assumptions of `Dispatch`):
`TypeCorrect`, `InductiveInvariant`, `SlotsAreRunnable`, `NoIllegalInstruction`,
`ReadyCallsAreSafe`, `DispatchBindsOnce`.  `TypeOK` alone is not enough for any of
the others: the inductive invariant adds that the slots which `i` and `v` have
passed hold exactly what the search finds for this processor and the others are
NULL.  That each implementation found is runnable is a lemma about the rows
(the AVX512 row is never reached from a Zen row without AVX-512 since the ZEN row
stops the search).

`VecArrayProofs` (for every width, length, set of drivers and arrays, provided no
driver that masks by table is given an empty array): `TypeCorrect`,
`AccessesInBounds`, `DriversMapElementwise`.  The inductive invariant says which
prefix is final at `j`, that cells from `j` on hold the inputs of the call, and
that `saved` holds the last *w* of them; the overlapping tail then rewrites final
cells with the same values, a stutter or a `Fill` of `ElementwiseMap`.

`LinearFracProofs`: `ShortcutIsInvisible`, for every element, from two lemmas on the arithmetic (the
denominator is exactly 1; a division by 1 returns its dividend).  It assumes a
finite `b`: with `scaleb` = 0 and `shiftb` = 1 the shortcut gives a number where
the quotient is a NaN if `b` is infinite or a NaN.

`NeighbourProofs` (for every division of a word into sign, exponent and
fraction): `TypeCorrect`, `StepsToNeighbour`, `OverflowIsSignalled`.  The argument is
about one call: patterns of one sign are ordered like magnitudes (`PatternStep`,
`OrdinalOfMagnitude`), so the choice between `++` and `--` by two comparisons is
the neighbour (`SteppedIsAdjacent`), and with the zero branch of `nexttoward`
every sound call is (`SoundCall`).

`StridedArrayProofs` (for ints of every width, every length, legal strides and
coinciding arrays): `TypeCorrect`, `ElementsFinal`.  The inductive invariant adds
`LegalCall`.  If the last product of a stride fits an int the earlier ones do
(`EarlierFits`), so that wrapping changes no subscript (`WrapFits`); writes stay
behind the reads on one array (`WritesStayBehind`) and cells of different elements
differ (`CellsDiffer`), so each operand still holds what it held at the call
(`OperandUntouched`).

`SmallFloatProofs` (for every E >= 3 and M >= 2) has no theorem about a
behaviour.  It holds what the others rest on: `pow2` is a recursive function, so its
rules (sums of exponents, order, parity) come by induction, which is stated for sets
since an operator cannot be instantiated; the parts of a pattern and the value they
stand for; the monotony of `Units`; and what `Rounded` returns for the quotient of
two integers: a number exactly if it is one, else one of the two neighbours
(`RoundedParts`).  A truncated quotient is an integer, of 0 or more for a dividend of 0 or
more (`QuotientType`); if the quotient has no more bits than its precision, the rounding
can only carry it to the next integer (`QuotientNear`), and then the rest it leaves is
at most a fraction of the divisor below zero (`RestIsSmall`).  A number that is a multiple of a power of
two (`Aligned`, `OnGrid`) and has at most M + 1 bits (`Short`) is not rounded
(`AlignedExact`, `GridExact`), and a product that is not too large for the format does
not round to an infinity (`BelowOverflow`).  Where nothing is exact, bounds remain: a
rounding moves a number by at most one part of it in 2^(M+1) (`NearestClose`), a sixteenth
(`NearestWithin`); the error that Dekker's product computes in a contracted build is at
most a third of the product (`ErrorBound`), so what a round leaves there is no larger
than what there was (`LeftBound`, `RoundLeavesLess`).

`ScalingProofs` (for every format and every width of int and long int with
`WidthAssumption`): `SpecTypeOK`, `SpecExponentIsFloorLog`, `SpecScalesAsProduct`,
`SpecFlagsTell`, `SpecSecondCallUndoes`.  There are two inductive invariants.

- `ScalingInv` adds to `TypeOK` what the loop of `logb` has shifted so far
  (`Shifting`: the shifted fraction is below the implicit bit, and the count and its
  leading bit give the exponent of the argument) and that counts computed from a number are small
  (`CountsFit`): without them neither the loop is bounded nor the sums of the
  second call fit an int.
- `ProductInv` adds how `e` and the pattern in hand relate to the argument
  (`Working`), the parts that `frexp` returned (`FrexpParts`) and what the second call
  was given (`Undoing`).  Every number is Mantissa * 2^(Lead - 1) units, also a subnormal
  after its multiplication by 2^MULTIPLIER.  Then a product is packed exactly
  (`ProductByLead`), or is too small, and packing it MULTIPLIER binades too
  high and multiplying it down rounds it once (`LoweredIs`); the case `LostBit` is
  the only one whose flags do not tell.  `PartsRejoin` and `LogIsLead` are the second call.

`ScalarCallsProofs` has every property of `ScalarCalls` as a theorem `Spec => []P`, so for
every format, thresholds in their order, width of long int and pair of calls.

- The elementary functions, `pow` and the lanes are proved function by function about
  the operators (`AnswersObeyRules`, `OppositesAgree`, `TwinsAgree`; `PowObeysRules`,
  `PowfObeysRules`, `ReciprocalsAgree`, `PowersAgree`; `NeighboursDoNotMatter`,
  `LanesFollowScalars`, `EmptyLanesAreQuiet`), from what the handlers raise for a code
  (`FlagsOfCodes`, `CodesDiffer`), the parity of the exponent (`ParitiesHold`) and what
  the scalar functions give where a vector computes (`ScalarIsPlain`).  `CallInv` carries
  them to behaviours: an answer is what its function gives for its arguments
  (`Gives`), and if there are two calls the second is one that `Second` makes of the first (`Related`).
- The rounding functions are proved from the bits.  A number has `one` units to
  1; a * one + r is its value.  The functions that clear a fraction leave a * one
  (`ClearedIs`); those that add 1 stay exact since integers up to 2^(M+1) are numbers
  (`IntegersExact`); adding and subtracting 2^M leaves a or a + 1 as the direction says
  (`ShiftUp`, `ShiftedIs`); so each gives `Ones`, the integer of its direction
  (`CeilIs`, ..., `LaneIs`), and `modf` the exact rest (`RestExact`).  `lround`
  adds one half to the significand first (`HalfAdded`).  `RoundingInv` adds to
  `CallInv` which answers the pair of calls has; idempotence and monotony
  (`OnesGrow`) then relate the two.
- `SpecExtremumOfNumbers` needs only the order of numbers and that a positive
  difference does not round below zero.
- `SpecTypeOK` is not inductive: an answer is a pattern because each group of functions
  gives one (`AnswerTypes`), and the rounds of a division go on with a state that
  `DivisionInv` describes: two numbers are divided, the divisor is not zero, w is
  ay * 2^(Bits * quo), and what is left is an integer, since products, differences and
  truncated quotients are.
- `SpecPartialRemainder`, `SpecIsRemainder` and `SpecQuotientStored` are about the values.
  `DivisionInv` is too weak: it does not say that what is left is computed without
  rounding.  `RestInv` adds that the rest `adx` differs from |x| by a multiple of the current
  `w`, and of the next larger one, that it is on the grid of `w` (`Aligned`), has at most
  M + 1 bits (`Short`), is below the multiples that the rounds to come can take
  away and, in `remainder`, at most half of y below zero (`Rest`).  One round keeps
  that (`RestInvReduce`): the truncated quotient t is the integer quotient or, if it was
  rounded up, one more, and so the rest is short again (`RoundLeaves`, `NextRest`); the
  product t * w is exact, by fused operations, in double precision or by Dekker's
  split, all of whose partial products and sums are on one grid and fit (`DekkerExact`,
  `TakenExactly`), even where the leading product itself is rounded; and it does
  not overflow unless |x| is the largest number (`NotOverflowing`).  The divisor of the next
  round is the same number with a smaller exponent (`LowerMultiple`).
- In a contracted build of `remquo` the rests are rounded, and none of this holds of them.
  `StrayInv` says what still does: what is left is a number no larger in magnitude than the
  next-largest one, and not negative where w is the largest.  A round leaves no more than
  there was (`StrayRound`, `StrayReduce`), and it begins with |x|, which is not the largest
  number (`StraySetup`).  Hence in this build too no product
  overflows unless |x| is the largest number, and the result is a NaN, with invalid,
  exactly where there is no remainder.
- The last round then yields the truncated or nearest multiple, ties to even by the
  parity that was kept (`LastFmodIs`, `LastRemainderIs`, `LastRemquoIs`, `ParityTold`,
  `StoredIs`), and the early returns (equal, smaller or exceptional arguments, exponents
  too far apart) give what the definition asks for (`EqualGives`, `SmallerGives`,
  `FarApartGives`, `UndefinedGives`).  `AnswerInv` states this of whatever has been
  returned, in terms of `ret`, `flags` and `stored`, and of the pair of calls that the first
  result is small enough not to change again (`Repeated`), which `IsRemainder` does not say.

The assumptions are named where the constants are: `SizeAssumption` (E, M),
`WidthAssumption` (an int holds the largest exponent and twice the binades by which
`scalbn` lifts a small number, which are fewer than the bias), `LongAssumption` (a long int
is more than two bits wider than a fraction), `RangeAssumption`, `ResidueAssumption`, `Thresholds`,
`ExponentThresholds`, `LaneThresholds` (order).  TLC evaluates them in the runs; double
and float satisfy them.  Two parts of `ResidueAssumption` matter to the remainders only:
M > 2, since `remquo` tells three bits of the quotient, and WIDE > 2M + 2, the precision in
which `fmodf` and `remainderf` compute (53 bits for M = 23); a double format takes any
such WIDE, which no double function uses.

Only model-checked:

- liveness (`EventuallyReady`, `Returns`, `AllComputed`, `Arrives`, `CallsReturn`), which
  needs fairness;
- that the tables of the library satisfy `TableAssumption`.

## 5. Plan

The order of the work, all of it done: dispatcher and tables; array drivers; strided
drivers; linearfrac; the functions on the exponent, `nextafter` and `nexttoward`;
rounding, remainders and comparison; the handlers with the special cases of the
elementary functions and of `pow`; the lanes of the vector functions; the proofs; the
conformance data.

What would come next: the guards of vector `pow` and `powf` with an abstract
y*log(x); `vrs8_erff` and `vrs16_erff`, whose formula depends on the maximum and
minimum over lanes, with one state per lane.

## 6. Not modelled

Rounding errors of the transcendental kernels: a statement about reals, and the
exceptions that a polynomial raises on its way.  Vector `pow`, `powf`, `vrs8_erff`,
`vrs16_erff`, and the vector `cdfnorm`, `erfinv`, `erfcinv` (their guards need the computed values),
vector `fabs`, `sqrt` and `copysign` (one instruction).  The tables of constants in
`pow_data.c` and the kernels under `src/isa` are data.  The assembly in `src/isa`, for the same reason.  The wrappers of `src/arch`, of
which only the existence matters (it is what the tables record).  Windows
builds.  AOCL-Utils: outside the repository, its answers are the constant
`Cpus`.  Benchmarks, accuracy tests, examples, scripts: they use the library.
