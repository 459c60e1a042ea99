---------------------------- MODULE MCNeighbour ----------------------------
(* Neighbour over a format of one sign bit, three exponent bits and three  *)
(* fraction bits: 128 patterns, subnormals, two infinities, NaNs of both   *)
(* kinds, and six binades.                                                 *)
EXTENDS Neighbour

MCSIGNBIT   == 64
MCEXPBITS   == 7 * 8
MCQNAN_MASK == 4
============================================================================
