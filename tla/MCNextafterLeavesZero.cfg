SPECIFICATION Spec
CONSTANTS
    SIGNBIT <- MCSIGNBIT
    EXPBITS <- MCEXPBITS
    QNAN_MASK <- MCQNAN_MASK
PROPERTY NextafterLeavesZero
