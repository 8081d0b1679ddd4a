\* The JIT's use of the assembler.
SPECIFICATION Spec
CONSTANTS
    FreshTables = TRUE
    Align = 1
    InitCap = 13
    Slack = 3
    LabelCap = 2
    MaxLabels = 3
    MaxItems = 5
    MaxFuncs = 2
    FrameSizes = {24}
INVARIANTS
    TypeOK
    JumpsReachOwnLabels
    FramesPatched
PROPERTIES
    EmittedBytesStay
CHECK_DEADLOCK FALSE
