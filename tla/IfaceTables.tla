---------------------------- MODULE IfaceTables ----------------------------
(***************************************************************************)
(* The interface tables of src/iface/*.c: for every function, the variants *)
(* it exports (g_ep) and, per micro-architecture row, the build that       *)
(* implements each.  A row entry of a variant that is not exported cannot  *)
(* reach a slot and is left out, and so is what "#if 0" removes.           *)
(* A definition is named after the initializer that uses the table.        *)
(***************************************************************************)
EXTENDS Iface, Sequences

Scalars   == {SCAL_SP, SCAL_DP}
Vectors   == {VECT_SP_4, VECT_SP_8, VECT_DP_2, VECT_DP_4}
Arrays    == {VECT_SP_ARR, VECT_DP_ARR}
Complexes == {SCAL_SP_CMPLX, SCAL_DP_CMPLX}

-----------------------------------------------------------------------------
(* The columns found in the tables.                                        *)

Empty == [r \in UarchVersions |-> NULL]

\* Only the default row names the function.
Only(f) == [Empty EXCEPT ![ALM_UARCH_VER_DEFAULT] = f]

\* Every row that a processor can select names the same function.
Every(f) == [r \in UarchVersions |->
                IF r \in {ALM_UARCH_VER_BASE64, ALM_UARCH_VER_FMA3} THEN NULL ELSE f]

\* Every row names the build for its own micro-architecture.
Tuned == [Only("AVX2") EXCEPT
            ![ALM_UARCH_VER_AVX512] = "AVX512", ![ALM_UARCH_VER_ZEN]  = "ZN",
            ![ALM_UARCH_VER_ZEN2]   = "ZN2",    ![ALM_UARCH_VER_ZEN3] = "ZN3",
            ![ALM_UARCH_VER_ZEN4]   = "ZN4",    ![ALM_UARCH_VER_ZEN5] = "ZN5"]

\* A 512-bit variant has no build without AVX-512: rows without one borrow ZN4's.
TunedWide == [Every("ZN4") EXCEPT
                ![ALM_UARCH_VER_AVX512] = "AVX512", ![ALM_UARCH_VER_ZEN5] = "ZN5"]

-----------------------------------------------------------------------------
UniformTable(variants, column) ==
    [def_arch |-> ALM_UARCH_VER_DEFAULT, g_ep |-> variants,
     funcs |-> [w \in Variants |-> IF w \in variants THEN column ELSE Empty]]

WithRows(t, variants, column) ==
    [t EXCEPT !.g_ep  = @ \cup variants,
              !.funcs = [w \in Variants |-> IF w \in variants THEN column ELSE @[w]]]

TunedTable(narrow, wide) == WithRows(UniformTable(narrow, Tuned), wide, TunedWide)

-----------------------------------------------------------------------------
libm_iface_amd_acos ==
    TunedTable(Scalars \cup Vectors \cup Arrays, {VECT_SP_16})

libm_iface_amd_acosh == TunedTable(Scalars, {})

libm_iface_amd_asin == TunedTable(Scalars \cup Vectors \cup Arrays, Wide)

libm_iface_amd_asinh == TunedTable(Scalars, {})

libm_iface_amd_atan2 ==
    WithRows(TunedTable({SCAL_DP}, {}), {SCAL_SP}, Only("REF"))

libm_iface_amd_atan == TunedTable(Scalars \cup Vectors \cup Arrays, Wide)

libm_iface_amd_atanh == TunedTable(Scalars, {})

libm_iface_amd_cbrt ==
    WithRows(TunedTable(Scalars \cup Arrays, {}), {VECT_SP_4, VECT_DP_2}, Only("FMA3"))

libm_iface_amd_ceil == TunedTable(Scalars, {})

libm_iface_amd_copysign == TunedTable(Scalars, {})

libm_iface_amd_cos == TunedTable(Scalars \cup Vectors \cup Arrays, Wide)

libm_iface_amd_cosh ==
    WithRows(TunedTable(Scalars \cup Arrays \cup {VECT_SP_4, VECT_SP_8}, {}), {VECT_DP_2}, Only("REF"))

libm_iface_amd_cospi == UniformTable(Scalars, Only("REF"))

libm_iface_amd_exp10 ==
    WithRows(TunedTable(Scalars \cup Arrays, {}), {VECT_SP_4, VECT_DP_2}, Every("FMA3"))

libm_iface_amd_exp2 == TunedTable(Scalars \cup Vectors \cup Arrays, Wide)

libm_iface_amd_exp == TunedTable(Scalars \cup Vectors \cup Arrays, Wide)

libm_iface_amd_expm1 ==
    WithRows(TunedTable(Scalars \cup Arrays, {}), {VECT_SP_4}, Only("FMA3"))

libm_iface_amd_fabs == TunedTable(Scalars \cup Vectors \cup Arrays, {})

libm_iface_amd_fdim == UniformTable(Scalars, Only("OPT"))

libm_iface_amd_floor == TunedTable(Scalars, {})

libm_iface_amd_fma == UniformTable(Scalars, Only("FMA3"))

libm_iface_amd_fmax == TunedTable(Scalars \cup Arrays, {})

libm_iface_amd_fmin == TunedTable(Scalars \cup Arrays, {})

libm_iface_amd_fmod == TunedTable(Scalars, {})

libm_iface_amd_frexp == UniformTable(Scalars, Only("REF"))

libm_iface_amd_hypot == TunedTable(Scalars, {})

libm_iface_amd_ldexp == UniformTable(Scalars, Only("REF"))

libm_iface_amd_log10 ==
    WithRows(TunedTable(Scalars \cup Arrays \cup {VECT_SP_4, VECT_SP_8}, {VECT_SP_16}), {VECT_DP_2}, Only("FMA3"))

libm_iface_amd_log1p ==
    WithRows(TunedTable(Scalars \cup Arrays, {}), {VECT_SP_4, VECT_DP_2}, Only("FMA3"))

libm_iface_amd_log2 == TunedTable(Scalars \cup Vectors \cup Arrays, Wide)

libm_iface_amd_logb == TunedTable(Scalars, {})

libm_iface_amd_log == TunedTable(Scalars \cup Vectors \cup Arrays, Wide)

libm_iface_amd_modf == UniformTable(Scalars, Only("REF"))

libm_iface_amd_nan == UniformTable(Scalars, Only("REF"))

libm_iface_amd_nearbyint == UniformTable(Scalars, Every("OPT"))

libm_iface_amd_nextafter == UniformTable(Scalars, Only("REF"))

libm_iface_amd_nexttoward == UniformTable(Scalars, Only("REF"))

libm_iface_amd_pow == TunedTable(Scalars \cup Vectors \cup Arrays, Wide)

libm_iface_amd_powx == TunedTable(Vectors \cup Arrays, Wide)

libm_iface_amd_remainder == TunedTable(Scalars, {})

libm_iface_amd_remquo == UniformTable(Scalars, Only("REF"))

libm_iface_amd_rint == UniformTable(Scalars, Only("REF"))

libm_iface_amd_round == TunedTable(Scalars \cup Vectors \cup Arrays, Wide)

libm_iface_amd_scalbln == UniformTable(Scalars, Only("REF"))

libm_iface_amd_scalbn == UniformTable(Scalars, Only("REF"))

libm_iface_amd_sin == TunedTable(Scalars \cup Vectors \cup Arrays, Wide)

libm_iface_amd_sinh == TunedTable(Scalars, {})

libm_iface_amd_sinpi == UniformTable(Scalars, Only("REF"))

libm_iface_amd_sqrt ==
    WithRows(TunedTable(Vectors \cup Arrays, Wide), Scalars, Every("OPT"))

libm_iface_amd_tan ==
    WithRows(TunedTable(Vectors \cup Arrays \cup {SCAL_SP}, Wide), {SCAL_DP}, [Tuned EXCEPT ![ALM_UARCH_VER_DEFAULT] = "REF"])

libm_iface_amd_tanh ==
    TunedTable(Scalars \cup {VECT_SP_4, VECT_SP_8, VECT_SP_ARR}, {VECT_SP_16})

libm_iface_amd_tanpi == UniformTable(Scalars, Only("REF"))

libm_iface_amd_trunc == TunedTable(Scalars, {})

libm_iface_amd_erf == TunedTable(Scalars \cup Vectors \cup Arrays, Wide)

libm_iface_amd_erfc == TunedTable(Scalars \cup Vectors \cup Arrays, Wide)

libm_iface_amd_erfinv ==
    TunedTable({SCAL_DP, VECT_DP_2, VECT_DP_4, VECT_DP_ARR}, {VECT_DP_8})

libm_iface_amd_erfcinv ==
    TunedTable({SCAL_DP, VECT_DP_2, VECT_DP_4, VECT_DP_ARR}, {VECT_DP_8})

libm_iface_amd_sincos == TunedTable(Scalars \cup Vectors \cup Arrays, Wide)

libm_iface_amd_add == TunedTable(Arrays, {})

libm_iface_amd_sub == TunedTable(Arrays, {})

libm_iface_amd_mul == TunedTable(Arrays, {})

libm_iface_amd_div == TunedTable(Arrays, {})

libm_iface_amd_addi == TunedTable(Arrays, {})

libm_iface_amd_subi == TunedTable(Arrays, {})

libm_iface_amd_muli == TunedTable(Arrays, {})

libm_iface_amd_divi == TunedTable(Arrays, {})

libm_iface_amd_fmaxi == TunedTable(Arrays, {})

libm_iface_amd_fmini == TunedTable(Arrays, {})

libm_iface_amd_linearfrac == TunedTable(Vectors \cup Arrays, Wide)

libm_iface_amd_cdfnorm ==
    TunedTable({SCAL_DP, VECT_DP_2, VECT_DP_4, VECT_DP_ARR}, {VECT_DP_8})

libm_iface_amd_cdfnorminv ==
    TunedTable({SCAL_DP, VECT_DP_2, VECT_DP_4, VECT_DP_ARR}, {VECT_DP_8})

libm_iface_amd_finite == UniformTable(Scalars, Only("REF"))

libm_iface_amd_ilogb == TunedTable(Scalars, {})

libm_iface_amd_lrint == UniformTable(Scalars, Only("REF"))

libm_iface_amd_lround ==
    WithRows(TunedTable({SCAL_DP}, {}), {SCAL_SP}, Every("REF"))

libm_iface_amd_llrint == UniformTable(Scalars, Only("REF"))

libm_iface_amd_llround == UniformTable(Scalars, Only("REF"))

libm_iface_amd_cexp == TunedTable(Complexes, {})

libm_iface_amd_cpow == TunedTable(Complexes, {})

libm_iface_amd_clog == TunedTable(Complexes, {})

-----------------------------------------------------------------------------
(* entry_pt_initializers, in the order of the C_AMD_* enumeration.         *)

InitializerSeq == <<
    libm_iface_amd_acos, libm_iface_amd_acosh, libm_iface_amd_asin,
    libm_iface_amd_asinh, libm_iface_amd_atan2, libm_iface_amd_atan,
    libm_iface_amd_atanh, libm_iface_amd_cbrt, libm_iface_amd_ceil,
    libm_iface_amd_copysign, libm_iface_amd_cos, libm_iface_amd_cosh,
    libm_iface_amd_cospi, libm_iface_amd_exp10, libm_iface_amd_exp2,
    libm_iface_amd_exp, libm_iface_amd_expm1, libm_iface_amd_fabs,
    libm_iface_amd_fdim, libm_iface_amd_floor, libm_iface_amd_fma,
    libm_iface_amd_fmax, libm_iface_amd_fmin, libm_iface_amd_fmod,
    libm_iface_amd_frexp, libm_iface_amd_hypot, libm_iface_amd_ldexp,
    libm_iface_amd_log10, libm_iface_amd_log1p, libm_iface_amd_log2,
    libm_iface_amd_logb, libm_iface_amd_log, libm_iface_amd_modf,
    libm_iface_amd_nan, libm_iface_amd_nearbyint, libm_iface_amd_nextafter,
    libm_iface_amd_nexttoward, libm_iface_amd_pow, libm_iface_amd_powx,
    libm_iface_amd_remainder, libm_iface_amd_remquo, libm_iface_amd_rint,
    libm_iface_amd_round, libm_iface_amd_scalbln, libm_iface_amd_scalbn,
    libm_iface_amd_sin, libm_iface_amd_sinh, libm_iface_amd_sinpi,
    libm_iface_amd_sqrt, libm_iface_amd_tan, libm_iface_amd_tanh,
    libm_iface_amd_tanpi, libm_iface_amd_trunc, libm_iface_amd_erf,
    libm_iface_amd_erfc, libm_iface_amd_erfinv, libm_iface_amd_erfcinv,
    libm_iface_amd_sincos, libm_iface_amd_add, libm_iface_amd_sub,
    libm_iface_amd_mul, libm_iface_amd_div, libm_iface_amd_addi,
    libm_iface_amd_subi, libm_iface_amd_muli, libm_iface_amd_divi,
    libm_iface_amd_fmaxi, libm_iface_amd_fmini, libm_iface_amd_linearfrac,
    libm_iface_amd_cdfnorm, libm_iface_amd_cdfnorminv, libm_iface_amd_finite,
    libm_iface_amd_ilogb, libm_iface_amd_lrint, libm_iface_amd_lround,
    libm_iface_amd_llrint, libm_iface_amd_llround, libm_iface_amd_cexp,
    libm_iface_amd_cpow, libm_iface_amd_clog >>

=============================================================================
