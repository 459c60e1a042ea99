--------------------------- MODULE MCScalarCalls ---------------------------
(* Scalar calls over a format of four exponent bits and four fraction bits *)
(* (512 patterns).  The divisors are subnormal, of the two lowest binades,  *)
(* of one in the middle and of the highest, infinite and NaN.              *)
EXTENDS ScalarCalls

MCE == 4
MCM == 4
MCLONGBITS == 7
MCCHUNK    == 2
MCSPLIT    == 3
MCQUOBITS  == 5
MCWIDE     == 11

\* The order of these is all that the special cases depend on.
MCTINY       == 48
MCOVERARG    == 160
MCDENORMARG  == 168
MCSATURATION == 176
MCUNDERARG   == 180
MCHUGE       == EXPBITS - IMPBIT
MCLANEMAX    == 150
MCErfcBounds == {POS_ONE - 3, POS_ONE + 4, MCOVERARG + 1}
MCYSMALL     == 2 * IMPBIT
MCYLARGE     == (EXPBIAS + M + 1) * IMPBIT

\* The last row is 1, 2, 3 and 2.5, odd and even integers and none, and a number
\* of which the largest is almost the triple.
MCDivisors == {u \in 0 .. SIGNBIT - 1 : ExponentField(u) \in {0, 1, 2, 6, 14, 15}}
                  \cup {SIGNBIT, SIGNBIT + 1, SIGNBIT + POS_ONE, SIGNBIT + EXPBITS}
                  \cup {POS_ONE, 128, 136, 132, 213}
\* Both sides of every bound of the vector functions, with both signs.
Magnitudes == {0, 1, IMPBIT - 1, IMPBIT, MCTINY - 1, MCTINY, MCTINY + 1, HALF, HALF + 1,
               POS_ONE - 1, POS_ONE, POS_ONE + 1, MCLANEMAX, MCLANEMAX + 1,
               MCOVERARG, MCOVERARG + 1, MCDENORMARG, MCSATURATION, MCSATURATION + 1,
               MCUNDERARG, MCUNDERARG + 1, EXPBITS - 1, EXPBITS, EXPBITS + 1,
               EXPBITS + QNAN_MASK}

MCLaneArguments == Magnitudes \cup {SIGNBIT + u : u \in Magnitudes}

MCNeighbours == {0, IMPBIT, HALF + 1, POS_ONE, MCLANEMAX + 1, EXPBITS, EXPBITS + QNAN_MASK,
                 SIGNBIT + MCSATURATION + 1, SIGNBIT + EXPBITS}
============================================================================
