\* An arena of small chunks, in an address space that has room for three.
SPECIFICATION Spec
CONSTANTS
    Places = {16, 32, 48, 64}
    Header = 3
    DefaultCap = 5
    ChunkSize = 8
    Sizes = {1, 7}
    Aligns = {1, 8}
    MaxChunks = 3
    MaxBlocks = 4
    MaxMarks = 2
INVARIANTS
    TypeOK
    BlocksInChunks
PROPERTIES
    KeepsPromise
CHECK_DEADLOCK FALSE
