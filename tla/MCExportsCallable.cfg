SPECIFICATION Spec

CONSTANTS
    C_AMD_LAST_ENTRY <- ShapeEntries
    entry_pt_initializers <- ShapeInitializers
    Orphans <- PiBy2Slots
    Called = {}
    Cpus <- AllCpus
    Builds <- AllBuilds

INVARIANT ExportsCallable

\* A loaded library has nothing left to do.
CHECK_DEADLOCK FALSE
