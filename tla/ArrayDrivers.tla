---------------------------- MODULE ArrayDrivers ----------------------------
(***************************************************************************)
(* The array drivers of src/optimized/vec, src/optimized/vectormath and,   *)
(* with the suffix of the architecture, src/arch/zen4 and src/arch/zen5:   *)
(* what VecArray has to know of each.  The names of pointer arguments are  *)
(* unified to x, x2 and r, r2.  The special case of linearfrac (scaleb is  *)
(* 0 and shiftb is 1) does not read its second array.                      *)
(***************************************************************************)
EXTENDS Integers

Unary      == [in |-> {"x"}, out |-> {"r"}]
Binary     == [in |-> {"x", "x2"}, out |-> {"r"}]
TwoResults == [in |-> {"x"}, out |-> {"r", "r2"}]

Saved(w, mask, args)  == [w |-> w, tail |-> "saved", mask |-> mask, in |-> args.in, out |-> args.out]
Masked(w, mask, args) == [w |-> w, tail |-> "masked", mask |-> mask, in |-> args.in, out |-> args.out]

\* A loop over single elements is a loop of one-lane chunks that never has a
\* remainder.
ScalarLoop(args) == Masked(1, "exact", args)

-----------------------------------------------------------------------------
vrda_acos                == Masked(4, "table", Unary)
vrda_add                 == ScalarLoop(Binary)
vrda_asin                == Masked(4, "table", Unary)
vrda_atan                == Masked(4, "table", Unary)
vrda_cbrt                == ScalarLoop(Unary)
vrda_cdfnorm             == Saved(4, "table", Unary)
vrda_cdfnorminv          == Masked(4, "table", Unary)
vrda_cos                 == Saved(4, "table", Unary)
vrda_cosh                == Masked(2, "exact", Unary)
vrda_div                 == ScalarLoop(Binary)
vrda_erf                 == Masked(4, "table", Unary)
vrda_erfc                == Masked(4, "table", Unary)
vrda_erfcinv             == Masked(4, "table", Unary)
vrda_erfinv              == Saved(4, "table", Unary)
vrda_exp                 == Saved(4, "table", Unary)
vrda_exp10               == ScalarLoop(Unary)
vrda_exp2                == Saved(4, "table", Unary)
vrda_expm1               == ScalarLoop(Unary)
vrda_fabs                == Saved(4, "table", Unary)
vrda_fmax                == ScalarLoop(Binary)
vrda_fmin                == ScalarLoop(Binary)
vrda_log                 == Saved(4, "table", Unary)
vrda_log10               == ScalarLoop(Unary)
vrda_log1p               == ScalarLoop(Unary)
vrda_log2                == Saved(4, "table", Unary)
vrda_mul                 == ScalarLoop(Binary)
vrda_pow                 == Saved(4, "table", Binary)
vrda_round               == Saved(4, "table", Unary)
vrda_sin                 == Saved(4, "table", Unary)
vrda_sincos              == Masked(4, "table", TwoResults)
vrda_sqrt                == Saved(4, "table", Unary)
vrda_sub                 == ScalarLoop(Binary)
vrda_tan                 == Masked(4, "table", Unary)
vrsa_acosf               == Masked(8, "table", Unary)
vrsa_addf                == ScalarLoop(Binary)
vrsa_asinf               == Masked(8, "table", Unary)
vrsa_atanf               == Masked(8, "table", Unary)
vrsa_cbrtf               == Saved(4, "scalar", Unary)
vrsa_cosf                == Saved(8, "table", Unary)
vrsa_coshf               == Masked(8, "table", Unary)
vrsa_divf                == ScalarLoop(Binary)
vrsa_erfcf               == Masked(8, "table", Unary)
vrsa_erff                == Masked(8, "table", Unary)
vrsa_exp10f              == Saved(4, "scalar", Unary)
vrsa_exp2f               == Saved(8, "table", Unary)
vrsa_expf                == Saved(8, "table", Unary)
vrsa_expm1f              == Saved(4, "scalar", Unary)
vrsa_fabsf               == Saved(8, "table", Unary)
vrsa_fmaxf               == ScalarLoop(Binary)
vrsa_fminf               == ScalarLoop(Binary)
vrsa_log10f              == Saved(8, "table", Unary)
vrsa_log1pf              == Saved(4, "scalar", Unary)
vrsa_log2f               == Saved(8, "table", Unary)
vrsa_logf                == Saved(8, "table", Unary)
vrsa_mulf                == ScalarLoop(Binary)
vrsa_powf                == Saved(8, "table", Binary)
vrsa_roundf              == Saved(8, "table", Unary)
vrsa_sincosf             == Masked(8, "table", TwoResults)
vrsa_sinf                == Saved(8, "table", Unary)
vrsa_sqrtf               == Saved(8, "table", Unary)
vrsa_subf                == ScalarLoop(Binary)
vrsa_tanf                == Masked(8, "table", Unary)
vrsa_tanhf               == Masked(8, "table", Unary)
vrda_linearfrac_special  == Saved(4, "table", Unary)
vrda_linearfrac          == Saved(4, "table", Binary)
vrda_powx                == Masked(4, "table", Unary)
vrsa_linearfracf_special == Masked(8, "table", Unary)
vrsa_linearfracf         == Masked(8, "table", Binary)
vrsa_powxf               == Masked(8, "table", Unary)
vrda_round_ZN4           == Saved(8, "exact", Unary)
vrsa_roundf_ZN4          == Saved(16, "exact", Unary)
vrda_powx_ZN5            == Masked(8, "exact", Unary)
vrda_round_ZN5           == Saved(8, "exact", Unary)
vrda_sincos_ZN5          == Masked(8, "exact", TwoResults)
vrsa_powxf_ZN5           == Masked(16, "exact", Unary)
vrsa_roundf_ZN5          == Saved(16, "exact", Unary)
vrsa_sincosf_ZN5         == Masked(16, "exact", TwoResults)

AllDrivers == {
    vrda_acos, vrda_add, vrda_asin, vrda_atan, vrda_cbrt, vrda_cdfnorm,
    vrda_cdfnorminv, vrda_cos, vrda_cosh, vrda_div, vrda_erf, vrda_erfc,
    vrda_erfcinv, vrda_erfinv, vrda_exp, vrda_exp10, vrda_exp2, vrda_expm1,
    vrda_fabs, vrda_fmax, vrda_fmin, vrda_log, vrda_log10, vrda_log1p,
    vrda_log2, vrda_mul, vrda_pow, vrda_round, vrda_sin, vrda_sincos,
    vrda_sqrt, vrda_sub, vrda_tan, vrsa_acosf, vrsa_addf, vrsa_asinf,
    vrsa_atanf, vrsa_cbrtf, vrsa_cosf, vrsa_coshf, vrsa_divf, vrsa_erfcf,
    vrsa_erff, vrsa_exp10f, vrsa_exp2f, vrsa_expf, vrsa_expm1f, vrsa_fabsf,
    vrsa_fmaxf, vrsa_fminf, vrsa_log10f, vrsa_log1pf, vrsa_log2f, vrsa_logf,
    vrsa_mulf, vrsa_powf, vrsa_roundf, vrsa_sincosf, vrsa_sinf, vrsa_sqrtf,
    vrsa_subf, vrsa_tanf, vrsa_tanhf, vrda_linearfrac_special,
    vrda_linearfrac, vrda_powx, vrsa_linearfracf_special, vrsa_linearfracf,
    vrsa_powxf, vrda_round_ZN4, vrsa_roundf_ZN4, vrda_powx_ZN5,
    vrda_round_ZN5, vrda_sincos_ZN5, vrsa_powxf_ZN5, vrsa_roundf_ZN5,
    vrsa_sincosf_ZN5 }

=============================================================================
