SPECIFICATION Spec
CONSTANTS
    Admins = {a1, a2}
    Objects = {o1, o2, o3}
    Nil = Nil
    Empty = Empty
    Torn = Torn
    Lists = {"blacklist"}
    IPs = {ip1}
    Settings <- MCSettings
    Defaulted <- MCDefaulted
    Posted <- MCPosted
    Entered <- MCSettings
    Routable <- MCSettings
    Watched <- MCSettings
    Cuts <- MCCuts
    Verdict <- MCVerdict
    Logged <- MCLogged
    Secrets <- MCSecrets
    NoOne = NoOne
    Typed <- MCNothing
    Initial <- MCStored
    MaxPosts = 3
    MaxFaults = 2
    pw = pw
    typedPw = typedPw
SYMMETRY MCSymmetry
INVARIANT LiveConfigLoads
INVARIANT EngineLogOpen
