SPECIFICATION Spec
CONSTANTS
    Slots = {r1}
    Inputs <- MCInputs
    Configs <- MCAll
    MaxRequests = 1
    MaxReloads = 0
SYMMETRY MCSymmetry
INVARIANT VerifiedBotsCrawlFaster
