CONSTANTS
    MaxUrls = 3
    Images = {1, 2, 3}
    Statuses = {200, 404}
SPECIFICATION FairSpec
INVARIANTS
    TypeOK
    UrlsIndependent
    KeptRefusalIsOfOne
    WandsReturned
PROPERTIES
    RequestAnswered
CHECK_DEADLOCK FALSE
