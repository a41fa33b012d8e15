CONSTANTS
    VecTotal = 8192
    Builds <- MCBuilds
    Modes <- MCModes
    Calls <- MCCalls
SPECIFICATION Spec
INVARIANTS
    TypeOK
    StructReturned
    WideAligned
    CleanupExact
PROPERTIES
    BoundStays
    RoundTrip
