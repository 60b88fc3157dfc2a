CONSTANTS
    Callers = {c1, c2}
    Bindings <- MCNode
    Servers <- MCSqlite
    Faults <- MCNoFaults
    MaxContent = 2
    MaxNesting = 2
    MaxStack = 9
SPECIFICATION Spec
INVARIANT DepthReturns
