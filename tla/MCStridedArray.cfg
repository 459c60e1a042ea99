SPECIFICATION Spec

CONSTANTS
    Buffers = {"A", "B", "C"}
    INT_MAX = 7
    MaxLen = 4
    Strides <- MCStrides
    Mem0 <- SymbolicMem
    F <- SymbolicF

INVARIANTS
    TypeOK
    PrefixFinal

PROPERTY
    AllComputed

\* A loop that has ended does nothing more.
CHECK_DEADLOCK FALSE
