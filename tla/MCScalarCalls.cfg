SPECIFICATION Spec
CONSTANTS
    E <- MCE
    M <- MCM
    LONGBITS <- MCLONGBITS
    CHUNK <- MCCHUNK
    SPLIT <- MCSPLIT
    QUOBITS <- MCQUOBITS
    WIDE <- MCWIDE
    Divisors <- MCDivisors
    HUGE <- MCHUGE
    TINY <- MCTINY
    OVERARG <- MCOVERARG
    DENORMARG <- MCDENORMARG
    UNDERARG <- MCUNDERARG
    SATURATION <- MCSATURATION
    LaneArguments <- MCLaneArguments
    Neighbours <- MCNeighbours
    LANEMAX <- MCLANEMAX
    ErfcBounds <- MCErfcBounds
    YSMALL <- MCYSMALL
    YLARGE <- MCYLARGE
\* Nothing follows the second call.
CHECK_DEADLOCK FALSE
INVARIANTS
    TypeOK
    RoundsInDirection
    InexactWhenRounded
    Agrees
    SecondCallFits
    IsRemainder
    PartialRemainder
    QuotientStored
    ExtremumOfNumbers
    ElementarySpecialValues
    ElementaryPairs
    PowerSpecialValues
    PowerPairs
    LaneIsScalar
    LanesIndependent
    PaddingIsQuiet
