CONSTANTS
    ShortCodes = {s1}
    LongCodes = {l1}
    Users = {u1, u2}
    Admins = {}
    TTLs = {1}
    ClockSkew = 1
    Requests = {r1, r2}
    MaxAttempts = 2
    BatchSize = 1
    NoLink = NoLink
    NoCode = NoCode
    MaxLinks = 2
    MaxTime = 2
    MaxVisits = 1
SPECIFICATION Spec
PROPERTIES
    OnlyOwnerDeletes
