CONSTANTS
    Callers = {c1, c2}
    Keys = {k1, k2, k3}
    Sizes = {5, 12}
    Capacity = 10
    Ops = {"Put", "Get", "Del"}
    StoreMayFail = TRUE
    Unlocked = Unlocked
    NoKey = NoKey
    MaxSize = 12
SPECIFICATION Spec
SYMMETRY Symmetry
INVARIANTS
    ListMatchesItems
    Accounting
PROPERTIES
    OverrunOnlyByLateGet
    LostSightOnlyByLatePut
CHECK_DEADLOCK FALSE
