\* Modules of up to three functions, written in every format, with tables of a
\* few entries.
SPECIFICATION WritersSpec
CONSTANTS
    FuncNames = {"f", "main", "fibonacci_iterative"}
    ExternNames = {"puts", "printf"}
    NameLen <- Lens
    StrCap = 8
    ExternCap = 2
    FuncCap = 2
    MaxSyms = 5
    MaxRelocs = 3
    Lengths = {1, 4070}
    ParamCounts = {7}
    MaxItems = 2
    ExportCap = 2
    SymBuf = 72
    SymStrBuf = 24
    PeTextCap = 5000
    PeLengths = {1, 513, 4096, 9999}
INVARIANTS
    AotTypeOK
    
    
    TablesInBounds
    ParamsArrive
    HeadersDescribeFile
    SegmentsLoadable
    
    
    CallsCanBeLinked
CHECK_DEADLOCK FALSE
