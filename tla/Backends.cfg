\* Every form, with three registers for the JIT and two for Windows, and one
\* argument register, so that short functions spill and pass stack arguments.
SPECIFICATION BackendsSpec
CONSTANTS
    MaxInstrs = 6
    ParamCounts = {1}
    MaxArgs = 2
    Classes = {FALSE}
    Forms = {"let", "read", "assign", "address", "postfix", "deref", "assign_deref", "call"}
    BinaryOps = {"add", "mod", "shl"}
    UnaryOps = {"neg", "sext"}
    IntRegs = {0, 3, 7}
    XmmRegs = {0, 1, 2, 3, 4, 5, 6, 7}
    ActiveMax = 32
    MaxVregs = 8
    ArgRegs <- OneArgReg
    PeArgRegs <- OneWinArgReg
    PeRegs = {0, 1}
    CalleeSaved <- BothCalleeSaved
    MaxWords = 20
PROPERTIES
    
    SafeHomesSurvive
    CallsPassTheirArguments
CHECK_DEADLOCK FALSE
