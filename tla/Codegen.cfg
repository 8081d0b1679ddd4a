SPECIFICATION Spec
CONSTANTS
    Names = {x}
    LoopNames = {i}
    MaxStmts = 4
    MaxLocals = 4
    MaxDefers = 4
    MaxLoops = 4
INVARIANTS
    TypeOK
    LabelsDefinedOnce
    LoopJumpsReachInnermost
    
    DefersRunOnce
CHECK_DEADLOCK FALSE
