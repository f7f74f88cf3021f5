CONSTANTS
    Requests = {r1, r2}
    MaxVersion = 1
    StoreKeys = {"original", "variant"}
    Blobs = {1}
    Kinds = {"fetch", "get", "add"}
    Faults = {"db", "origin", "engine"}
    MayEvict = TRUE
    LowMayFail = FALSE
    LowIsS3 = TRUE
    MaxTasks = 2
    NoBlob = NoBlob
    NoImage = NoImage
SPECIFICATION FairServingSpec
INVARIANTS
    TypeOK
    IndexedIsReachable
PROPERTIES
    EventuallyPersisted
