\* Every command line of these options, every step failing or not.
SPECIFICATION Spec
CONSTANTS
    InputExts = {".o", ".elf"}
    OutputExts = {"", ".o", ".so", ".exe", ".iso"}
    Returns = {0, 1, 256}
INVARIANTS
    TypeOK
    FaultsReported
    OutputIsWhole
    NothingLeftBehind
    SourceReleased
    
CHECK_DEADLOCK FALSE
