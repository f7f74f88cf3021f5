CONSTANTS
    Callers = {c1}
    Keys = {k1, k2, k3}
    Sizes = {3, 6, 11}
    Capacity = 10
    Ops = {"Put", "Get", "Del"}
    StoreMayFail = FALSE
    Unlocked = Unlocked
    NoKey = NoKey
SPECIFICATION OrderSpec
INVARIANTS
    QuietTracksStore
    QuietOrderIsRecency
PROPERTIES
    KeepsRecencyCache
    CallsReturn
