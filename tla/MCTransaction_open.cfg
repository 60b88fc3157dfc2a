CONSTANTS
    Callers = {c1}
    Bindings <- MCLeaving
    Servers <- MCSqlite
    Faults <- MCLeavingFaults
    MaxContent = 2
    MaxNesting = 2
    MaxStack = 9
SPECIFICATION Spec
INVARIANT NothingLeftOpen
