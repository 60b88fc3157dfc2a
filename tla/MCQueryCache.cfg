CONSTANTS
    k1 = k1
    k2 = k2
    k3 = k3
    k4 = k4
    NoInsert = NoInsert
    Keys <- MCKeys
    Buffers <- MCBuffers
    Length <- MCLength
    MaxEntries = 3
    MaxTotalBytes = 6
    MaxResultBytes = 5
SPECIFICATION Spec
INVARIANTS TypeOK OrderAgreesWithMap TotalIsSum WithinLimits
