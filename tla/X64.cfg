SPECIFICATION Spec
CONSTANTS
    Regs = {0, 4, 5, 6, 8, 12, 13}
    Sizes = {1, 2, 4, 8}
    Disps <- MCDisps
    Wides <- MCWides
INVARIANT EncodingsDecode
CHECK_DEADLOCK FALSE
