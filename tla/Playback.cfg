CONSTANTS
    u1 = u1
    u2 = u2
    Users = {u1, u2}
    None = None
    Empty = Empty
    Urls <- MCUrls
    Master = "master"
    Children <- MCChildren
    MaxRetries = 1
    Threshold = 2
    MaxRequests = 2
    CacheTTL = 2
    LinkLife = 1
SPECIFICATION FairPlaybackSpec
INVARIANTS LinkLifetime SourceAge
PROPERTIES EventuallyAnswered BreakerRecovers
