CONSTANTS
    Requests = {r1, r2}
    MaxVersion = 2
    StoreKeys = {"original", "variant"}
    Blobs = {1, 2}
    Kinds = {"get", "add"}
    Faults = {}
    MayEvict = TRUE
    LowMayFail = TRUE
    LowIsS3 = TRUE
    MaxTasks = 2
    NoBlob = NoBlob
    NoImage = NoImage
SPECIFICATION CoherenceSpec
SYMMETRY RequestSymmetry
PROPERTIES
    AnswersCoherent
