SPECIFICATION Spec
CONSTANTS
    Base = {1, 4, 8}
    ByteAlign = 8
    MaxTypes = 2
    MaxFields = 2
    Native <- MCNative
    SizeofBool = 4
    SizeofLongLong = 8
INVARIANT OffsetofFromBeginning
CHECK_DEADLOCK FALSE
