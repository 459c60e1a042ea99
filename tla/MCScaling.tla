----------------------------- MODULE MCScaling -----------------------------
(* Scaling over a format of four exponent bits and three fraction bits (256 *)
(* patterns, 14 of them subnormal), ints of 6 bits and longs of 7 bits.     *)
EXTENDS Scaling

MCE == 4
MCM == 3
MCINTBITS  == 6
MCLONGBITS == 7
============================================================================
