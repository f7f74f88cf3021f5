CONSTANTS
    Requests = {r1, r2}
    MaxVersion = 1
    StoreKeys = {"original", "variant"}
    Blobs = {1}
    Kinds = {"fetch", "get", "delete"}
    Faults = {"db"}
    MayEvict = TRUE
    LowMayFail = TRUE
    LowIsS3 = FALSE
    MaxTasks = 2
    NoBlob = NoBlob
    NoImage = NoImage
SPECIFICATION HistorySpec
SYMMETRY RequestSymmetry
INVARIANTS
    CleanFetchSucceeds
    DeletedNotServed
