CONSTANTS
    UserIds = {i1, i2, i3}
    Usernames = {admin, bob}
    Passwords = {p1, p2}
    DefaultAdmin = admin
    Unused = Unused
    Deleted = Deleted
    Requests = {r1, r2}
    MaxVersion = 2
SPECIFICATION AuthSpec
PROPERTIES
    LoginUsesCurrentPassword
