SPECIFICATION FairSpec
CONSTANTS
    Clients = {c1}
    Requests = {r1, r2}
    Statuses = {s1, s2}
    Nil = Nil
    Paths <- MCPaths
    PathLimit <- MCPathLimit
    RequestsPerMinute = 1
    Burst = 1
    BanThreshold = 2
    BanDuration = 2
    Minute = 1
    MaxTime = 3
    MaxRequests = 4
INVARIANT TypeOK
INVARIANT MutualExclusion
PROPERTY QuotaRespected
PROPERTY BanEarned
PROPERTY NeverRegresses
PROPERTY JudgedOneByOne
PROPERTY EveryRequestAnswered
