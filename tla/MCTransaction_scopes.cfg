CONSTANTS
    Callers = {c1}
    Bindings <- MCAllBindings
    Servers <- MCAllServers
    Faults <- MCAllFaults
    MaxContent = 3
    MaxNesting = 3
    MaxStack = 5
SPECIFICATION Spec
INVARIANTS Lockstep ScopesEndClean
PROPERTIES ImplementsNesting
