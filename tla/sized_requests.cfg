CONSTANTS
    Queries <- MCQueries
    Sources <- MCSources
    MaxSaved = 1
SPECIFICATION Spec
INVARIANTS
    TypeOK
    CoverFills
    ContainFits
    FittedOnCanvas
    FoundIsOwn
PROPERTIES
    SavedIsFound
