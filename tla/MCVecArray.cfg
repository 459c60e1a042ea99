SPECIFICATION MCSpec

CONSTANTS
    Streams <- MCStreams
    Buffers = {"A", "B", "C"}
    Calls <- MCCalls
    MaxLen <- MCMaxLen
    MaxWidth <- MCMaxWidth
    Mem0 <- SymbolicMem
    F <- SymbolicF

INVARIANTS
    TypeOK
    InBounds
    AgreesWithFormula

PROPERTIES
    MapsElementwise
    Returns

\* A driver that has returned does nothing more.
CHECK_DEADLOCK FALSE
