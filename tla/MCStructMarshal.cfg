SPECIFICATION MSpec
CONSTANTS
    Base = {1, 4, 8}
    ByteAlign = 8
    MaxTypes = 2
    MaxFields = 2
    LeafKind <- Kinds
    MaxMany = 4
INVARIANTS GivenReadBack OverrunOnlyForward OnlyMembersWritten
CHECK_DEADLOCK FALSE
