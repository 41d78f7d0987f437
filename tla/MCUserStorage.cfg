CONSTANTS
    UserIds = {i1, i2, i3, i4}
    Usernames = {admin, bob, carol}
    Passwords = {p1, p2}
    DefaultAdmin = admin
    Unused = Unused
    Deleted = Deleted
    NoUser = NoUser
    MaxVersion = 1
SPECIFICATION Spec
SYMMETRY Symmetry
INVARIANTS
    TypeOK
    MapsAgree
    AdminExists
PROPERTIES
    ImplementsUserStore
