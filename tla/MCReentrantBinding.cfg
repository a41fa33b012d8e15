SPECIFICATION Spec
CONSTANTS
    NIntRegs = 2
    NFloatRegs = 1
    StackCap = 2
    MemWords = 2
    NoFic = NoFic
    NoSig = NoSig
    Fics <- MCFics
    Sig <- MCSig
    Ret <- MCRet
    Cb <- MCCb
    ArgLists <- MCArgLists
    MaxDepth = 3
    MaxCalls = 2
INVARIANT AllArguments
CHECK_DEADLOCK FALSE
