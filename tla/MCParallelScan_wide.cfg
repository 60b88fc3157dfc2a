CONSTANTS
    Settings <- MCMemoryOnly
    SignBit = 8
    Rowids <- MCExtremes
    Threads = 2
    ParallelMinSpan = 3
    MaxWrites = 0
    MaxScans = 1
    NoTxn = NoTxn
    NoAnswer = NoAnswer
    Unread = Unread
    Failed = Failed
SPECIFICATION Spec
INVARIANT IndistinguishableFromSerial
