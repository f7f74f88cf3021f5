CONSTANTS
    Callers = {c1, c2, c3}
    Keys = {k1, k2, k3}
    Sizes = {4}
    Capacity = 10
    Ops = {"Put", "Get"}
    StoreMayFail = TRUE
    Unlocked = Unlocked
    NoKey = NoKey
    MaxSize = 4
SPECIFICATION Spec
SYMMETRY Symmetry
INVARIANTS
    TypeOK
    MutexFree
