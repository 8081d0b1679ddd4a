\* The AOT compiler's use of the assembler.
SPECIFICATION Spec
CONSTANTS
    FreshTables = FALSE
    Align = 16
    InitCap = 64
    Slack = 64
    LabelCap = 64
    MaxLabels = 1
    MaxItems = 2
    MaxFuncs = 2
    FrameSizes = {24}
INVARIANTS
    JumpsReachOwnLabels
CHECK_DEADLOCK FALSE
