SPECIFICATION MCSpec
CONSTANTS
    Clients = {c1}
    Slots = {r1, r2}
    Attempts = {o1, o2, o3}
    Nil = Nil
    Limit = 2
    Window = 3
    MaxTime = 6
    MaxRequests = 5
    Tabs = {t1, t2}
    Tokens = {k1, k2, k3, k4, k5}
    NoToken = NoToken
    Outputs = {f1, f2}
    Sizes = {1, 2, 5}
    ReadLimit = 5
    PageSize = 2
    Viewers = {v1}
    MaxEntries = 3
    MaxReloads = 2
    MaxCuts = 1
    MaxStarts = 1
SYMMETRY MCSymmetry
INVARIANTS TypeOK TenBetweenLogins TokenTypeOK NoPostRefusedOnceSettled LogTypeOK CutsCostOne ShowsTheLatest
PROPERTIES  LockEarned
