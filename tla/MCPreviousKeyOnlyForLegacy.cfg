CONSTANTS
    Replicas = {a, b}
    Issuers = {goshorty}
    NoIssuer = NoIssuer
    TTLs = {1}
    MaxTTL = 1
    ClockSkew = 1
    MaxTime = 3
    MaxKey = 2
    MaxTokens = 1
SPECIFICATION Spec
SYMMETRY Symmetry
INVARIANTS
    PreviousKeyOnlyForLegacy
