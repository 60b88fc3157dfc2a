CONSTANTS
    Settings <- MCSharedOnly
    SignBit = 8
    Rowids <- MCFewRowids
    Threads = 2
    ParallelMinSpan = 3
    MaxWrites = 2
    MaxScans = 1
    NoTxn = NoTxn
    NoAnswer = NoAnswer
    Unread = Unread
    Failed = Failed
SPECIFICATION Spec
INVARIANT IndistinguishableFromSerial
