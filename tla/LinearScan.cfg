\* The allocator on every function of at most MaxInstrs instructions, with a
\* register file small enough to run dry.
SPECIFICATION Spec
CONSTANTS
    MaxInstrs = 7
    ParamCounts = {0, 1, 2}
    MaxArgs = 3
    Classes = {FALSE, TRUE}
    Forms = {"let", "read", "assign", "assign_deref"}
    BinaryOps = {"add"}
    UnaryOps = {}
    IntRegs = {0, 3}
    XmmRegs = {0}
    ActiveMax = 3
    MaxVregs = 5
INVARIANTS
    TypeOK
    RegistersAccounted
    NoOverlap
    
CHECK_DEADLOCK FALSE
