SPECIFICATION MCSpec

CONSTANTS
    Streams <- MCStreams
    Buffers = {"A", "B", "C"}
    Calls <- AllCalls
    MaxLen <- MCMaxLen
    MaxWidth <- MCMaxWidth
    Mem0 <- SymbolicMem
    F <- SymbolicF

INVARIANT InBounds

\* A driver that has returned does nothing more.
CHECK_DEADLOCK FALSE
