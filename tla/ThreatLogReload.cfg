SPECIFICATION LogSpec
CONSTANTS
    Outputs = {f1}
    Sizes = {1, 2}
    ReadLimit = 5
    PageSize = 2
    Viewers = {v1}
    MaxEntries = 2
    MaxReloads = 1
    MaxCuts = 0
    MaxStarts = 0
PROPERTY AllRequestsLogged
