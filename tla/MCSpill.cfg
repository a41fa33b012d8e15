CONSTANTS
    VecTotal = 8192
    Builds = {"armhf", "mips_eabi"}
    Modes <- MCModes
    Calls <- MCSpilled
SPECIFICATION Spec
INVARIANT TakesOwn
