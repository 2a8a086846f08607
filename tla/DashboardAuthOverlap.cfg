SPECIFICATION Spec
CONSTANTS
    Clients = {c1}
    Slots = {r1, r2}
    Attempts = {o1, o2, o3}
    Nil = Nil
    Limit = 2
    Window = 3
    MaxTime = 1
    MaxRequests = 3
SYMMETRY MCSymmetry
INVARIANT TenAttempts
