------------------------------- MODULE Iface -------------------------------
(***************************************************************************)
(* The vocabulary of the dispatch layer of AOCL-LibM: the two enumerations *)
(* of include/libm/iface.h, whose ORDER the dispatcher relies on, the      *)
(* builds in which an implementation is compiled and the instruction sets  *)
(* each build needs.                                                       *)
(***************************************************************************)
EXTENDS Integers

-----------------------------------------------------------------------------
(* enum ALM_FUNC_VARIANTS: one entry point slot of a function per variant. *)

SCAL_SP       == 0
SCAL_DP       == 1
VECT_SP_4     == 2
VECT_SP_8     == 3
VECT_DP_2     == 4
VECT_DP_4     == 5
VECT_SP_ARR   == 6
VECT_DP_ARR   == 7
VECT_SP_16    == 12
VECT_DP_8     == 13
SCAL_SP_CMPLX == 14
SCAL_DP_CMPLX == 15
ALM_FUNC_VAR_MAX == 16

Variants == 0 .. ALM_FUNC_VAR_MAX - 1

\* The variants whose arguments travel in 512-bit registers: a program that
\* calls one has AVX-512 instructions of its own.
Wide == {VECT_SP_16, VECT_DP_8}

-----------------------------------------------------------------------------
(* enum ALM_UARCH_VERSIONS: the rows of a function's table, searched       *)
(* downwards from the processor's own row.  The AVX-512 row for other      *)
(* vendors lies BELOW the Zen rows.                                        *)

ALM_UARCH_VER_DEFAULT == 0
ALM_UARCH_VER_BASE64  == 1
ALM_UARCH_VER_FMA3    == 2
ALM_UARCH_VER_AVX512  == 3
ALM_UARCH_VER_ZEN     == 4
ALM_UARCH_VER_ZEN2    == 5
ALM_UARCH_VER_ZEN3    == 6
ALM_UARCH_VER_ZEN4    == 7
ALM_UARCH_VER_ZEN5    == 8
ALM_UARCH_MAX         == 9

UarchVersions == 0 .. ALM_UARCH_MAX - 1

-----------------------------------------------------------------------------
(* A function pointer is named by the build its object file comes from.    *)

NULL == "NULL"

Impl == {"REF", "OPT", "FMA3", "AVX2", "AVX512", "ZN", "ZN2", "ZN3", "ZN4", "ZN5"}

Extensions == {"avx2", "avx512f", "avx512dq"}

\* The instruction sets a build's compiler flags allow its code to use.
\* "avx2" stands for -mavx2 -mfma, which every build is given, directly or
\* through -march=znver1 and later.
Needs(f) == IF f \in {"AVX512", "ZN4", "ZN5"} THEN Extensions ELSE {"avx2"}

=============================================================================
