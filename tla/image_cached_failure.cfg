CONSTANTS
    Requests = {r1}
    MaxVersion = 1
    StoreKeys = {"original", "variant"}
    Blobs = {1}
    Kinds = {"fetch"}
    Faults = {"origin"}
    MayEvict = FALSE
    LowMayFail = FALSE
    LowIsS3 = TRUE
    MaxTasks = 3
    NoBlob = NoBlob
    NoImage = NoImage
SPECIFICATION AnswersSpec
INVARIANT OnlyInvalidInputCached
