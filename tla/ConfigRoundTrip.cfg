SPECIFICATION RoundTripSpec
CONSTANTS
    Admins = {a1}
    Objects = {o1, o2}
    Nil = Nil
    Empty = Empty
    Torn = Torn
    Lists = {"blacklist"}
    IPs = {ip1}
    Settings <- MCSettings
    Defaulted <- LoadConfig
    Posted <- BuildConfig
    Entered <- MCEntered
    Routable <- MCRoutable
    Watched <- MCWatched
    Cuts <- Beginnings
    Verdict <- NewEngineVerdict
    Logged <- MCLogged
    Secrets <- MCSecrets
    NoOne = NoOne
    Typed <- MCTyped
    Initial <- MCInitial
    MaxPosts = 3
    MaxFaults = 2
    pw = pw
    typedPw = typedPw
SYMMETRY MCSymmetry
INVARIANT TypeOK
INVARIANT RestartKeepsSaved
INVARIANT OneLogOpen
PROPERTY SavedMeansLoaded
PROPERTY PlaintextNeverWritten
