SPECIFICATION Spec
CONSTANTS
    Clients = {c1}
    Requests = {r1, r2}
    Statuses = {s1, s2}
    Nil = Nil
    Paths <- MCPaths
    PathLimit <- MCPathLimit
    RequestsPerMinute = 1
    Burst = 1
    BanThreshold = 1
    BanDuration = 2
    Minute = 1
    MaxTime = 4
    MaxRequests = 4
PROPERTY BannedClientsStay
