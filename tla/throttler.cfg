CONSTANTS
    Requests = {r1, r2, r3}
    Limit = 1
    BacklogLimit = 1
    BacklogTimeout = 1
    RequestTimeout = 1
SPECIFICATION FairSpec
INVARIANTS
    TypeOK
    TokensConserved
PROPERTIES
    RejectedOnlyWhenFull
    RequestsAnswered
