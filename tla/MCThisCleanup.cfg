CONSTANTS
    VecTotal = 8192
    Builds = {"x86"}
    Modes <- MCModes
    Calls <- MCCalls
SPECIFICATION Spec
INVARIANT ThisCleanupExact
