SPECIFICATION Spec
CONSTANTS
    E <- MCE
    M <- MCM
    LONGBITS <- MCLONGBITS
    HUGE <- MCHUGE
    TINY <- MCTINY
    OVERARG <- MCOVERARG
    DENORMARG <- MCDENORMARG
    UNDERARG <- MCUNDERARG
    SATURATION <- MCSATURATION
    LANEMAX <- MCLANEMAX
    ErfcBounds <- MCErfcBounds
\* Nothing follows the last test.
CHECK_DEADLOCK FALSE
INVARIANT AsDocumented
