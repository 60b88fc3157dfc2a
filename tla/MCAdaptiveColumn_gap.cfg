CONSTANTS
    Ints <- MCInts
    Reals <- MCReals
    Texts <- MCNone
    Blobs <- MCNone
    Exact = 4
    EmptyRanges = TRUE
    MaxRows = 3
    MaxRanges = 3
SPECIFICATION Spec
CHECK_DEADLOCK FALSE
INVARIANT DirectIsOrdered
