SPECIFICATION Spec
CONSTANTS
    None = None
    Libs = {l1, l2}
    Objs = {o1, o2}
    Subs = {s1, s2}
    Vars = {v1}
    MaxRefs = 3
    MaxGen = 2
SYMMETRY Symmetry
INVARIANTS TypeOK Accounting AddressesMapped
CHECK_DEADLOCK FALSE
