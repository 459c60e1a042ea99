SPECIFICATION Spec

CONSTANTS
    C_AMD_LAST_ENTRY <- ShapeEntries
    entry_pt_initializers <- ShapeInitializers
    Orphans <- PiBy2Slots
    Called <- CalledSlots
    Cpus <- AllCpus
    Builds <- AllBuilds

INVARIANTS
    TypeOK
    RunnableSlots
    NeverSigill

PROPERTIES
    OnlyEarlyCallsFault
    BindsOnce
    EventuallyReady

\* A loaded library, and a process that died, have nothing left to do.
CHECK_DEADLOCK FALSE
