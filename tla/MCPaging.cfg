CONSTANTS
    Codes = {1, 2, 3}
    Users = {u1, u2}
    Admins = {u2}
    TTLs = {1}
    Requests = {r1}
    Limit = 1
    NoRow = NoRow
    Account = Account
    NoCursor = NoCursor
    MaxTime = 3
SPECIFICATION Spec
INVARIANTS
    TypeOK
    PagesDescend
    SteadyLinksShown
