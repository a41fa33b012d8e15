SPECIFICATION Spec
CONSTANTS
    Base = {1, 4, 8}
    ByteAlign = 8
    MaxTypes = 3
    MaxFields = 2
    Native <- MCNative
    SizeofBool = 4
    SizeofLongLong = 8
INVARIANTS TypeOK LeavesApart LeavesAligned AsCompiled OffsetofNear 
CHECK_DEADLOCK FALSE
