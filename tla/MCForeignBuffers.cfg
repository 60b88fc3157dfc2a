CONSTANTS
    Tasks = {k1, k2}
    Threads = {t1, t2}
    Addresses = {a1, a2}
    Abis = {"c", "jni"}
    MaxBuffers = 3
    MaxCalls = 4
    None = None
SPECIFICATION Spec
SYMMETRY MCSymmetry
INVARIANTS PointersStayValid FreedAsOftenAsHandedOut
PROPERTY ErrorIsOwn
