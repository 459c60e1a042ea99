SPECIFICATION Spec
CONSTANTS
    E <- MCE
    M <- MCM
    INTBITS <- MCINTBITS
    LONGBITS <- MCLONGBITS
CHECK_DEADLOCK FALSE
INVARIANTS
    TypeOK
    ScalesAsProduct
    FlagsTell
    ExponentIsFloorLog
    SecondCallUndoes
PROPERTY CallsReturn
