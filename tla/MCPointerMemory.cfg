SPECIFICATION Spec
CONSTANTS
    Null = Null
    Undef = Undef
    Blocks = {b1, b2, b3, b4}
    PVars = {v1, v2, v3, v4}
SYMMETRY Symmetry
INVARIANTS TypeOK OneHolder NoStaleUse NoOrphan
CHECK_DEADLOCK FALSE
