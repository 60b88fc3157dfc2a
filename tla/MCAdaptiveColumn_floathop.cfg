CONSTANTS
    Ints <- MCBigInts
    Reals <- MCReals
    Texts <- MCTexts
    Blobs <- MCNone
    Exact = 4
    EmptyRanges = FALSE
    MaxRows = 3
    MaxRanges = 3
SPECIFICATION Spec
CHECK_DEADLOCK FALSE
INVARIANT MergeMatchesSerial
