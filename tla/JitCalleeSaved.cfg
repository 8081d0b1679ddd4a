\* An expression deep enough to need RBX.
SPECIFICATION JitSpec
CONSTANTS
    MaxInstrs = 8
    ParamCounts = {1}
    MaxArgs = 3
    Classes = {FALSE}
    Forms = {"read"}
    BinaryOps = {"add"}
    UnaryOps = {}
    IntRegs = {0, 1, 2, 3, 6, 7, 12, 13, 14, 15}
    XmmRegs = {0, 1, 2, 3, 4, 5, 6, 7}
    ActiveMax = 32
    MaxVregs = 8
    ArgRegs <- SysVArgRegs
    CalleeSaved <- SysVCalleeSaved
    MaxWords = 20
INVARIANT CalleeSavedRestored
CHECK_DEADLOCK FALSE
