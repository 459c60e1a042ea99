--------------------------- MODULE MCConformance ---------------------------
(* The conformance tests in the format of MCScalarCalls: four exponent bits *)
(* and four fraction bits.                                                 *)
EXTENDS Conformance

MCE == 4
MCM == 4
MCLONGBITS == 7

\* The order of these is all that the special cases depend on.
MCTINY       == 48
MCOVERARG    == 160
MCDENORMARG  == 168
MCSATURATION == 176
MCUNDERARG   == 180
MCHUGE       == EXPBITS - IMPBIT
MCLANEMAX    == 150
MCErfcBounds == {POS_ONE - 3, POS_ONE + 4, MCOVERARG + 1}
============================================================================
