SPECIFICATION WriterSpec
CONSTANTS
    Codes <- MCCodes
    UpstreamCSPs <- MCUpstreamCSPs
    Refusals <- MCRefusals
    Denials <- MCDenials
    MaxHints = 2
    MaxChunks = 2
INVARIANT BlockPageDelivered
