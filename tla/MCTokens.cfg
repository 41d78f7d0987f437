CONSTANTS
    Replicas = {a, b}
    Issuers = {goshorty}
    NoIssuer = NoIssuer
    TTLs = {0, 1, 2}
    MaxTTL = 2
    ClockSkew = 1
    MaxTime = 6
    MaxKey = 3
    MaxTokens = 1
SPECIFICATION Spec
SYMMETRY Symmetry
INVARIANTS
    TypeOK
    SessionsSurviveRotation
    EmergencyEndsSessions
PROPERTIES
    NoRevival
