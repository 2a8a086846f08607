SPECIFICATION Spec
CONSTANTS
    Admins = {a1}
    Objects = {o1, o2}
    Nil = Nil
    Empty = Empty
    Torn = Torn
    Lists = {"blacklist"}
    IPs = {ip1}
    Settings <- MCSettings
    Defaulted <- MCDefaulted
    Posted <- MCPosted
    Entered <- MCGood
    Routable <- MCSettings
    Watched <- MCSettings
    Cuts <- MCCuts
    Verdict <- MCVerdict
    Logged <- MCLogged
    Secrets <- MCSecrets
    NoOne = NoOne
    Typed <- MCNothing
    Initial <- MCHashed
    MaxPosts = 2
    MaxFaults = 0
    pw = pw
    typedPw = typedPw
SYMMETRY MCSymmetry
INVARIANT ServedByLiveConfig
