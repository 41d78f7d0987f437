CONSTANTS
    UserIds = {i1, i2, i3}
    Usernames = {admin, bob}
    Passwords = {p1}
    DefaultAdmin = admin
    Unused = Unused
    Deleted = Deleted
    Calls = {c1, c2}
    None = None
    NoRow = NoRow
    MaxVersion = 1
SPECIFICATION FairSpec
INVARIANTS
    TypeOK
    AdminExists
    CheckedStillHolds
    NoLeakedLock
PROPERTIES
    ImplementsUserStore
    CallsReturn
