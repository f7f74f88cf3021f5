CONSTANTS
    Callers = {c1, c2}
    Keys = {k1, k2}
    Sizes = {10}
    Capacity = 10
    Ops = {"Put"}
    StoreMayFail = FALSE
    Unlocked = Unlocked
    NoKey = NoKey
    MaxSize = 10
SPECIFICATION Spec
INVARIANT LockReleased
