SPECIFICATION MCSpec
CONSTANTS
    Slots = {r1, r2}
    Inputs <- MCInputs
    Configs <- MCConfigs
    MaxRequests = 3
    MaxReloads = 1
    Codes <- MCCodes
    UpstreamCSPs <- MCUpstreamCSPs
    Refusals <- MCRefusals
    Denials <- MCDenials
    MaxHints = 2
    MaxChunks = 2
SYMMETRY MCSymmetry
INVARIANTS TypeOK StatsAddUp HoneypotHolds 
INVARIANTS WriterTypeOK OnePolicy BlockPageAlone
PROPERTY LoggedAsSent
