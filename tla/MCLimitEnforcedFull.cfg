CONSTANTS
    short = short
    long = long
    Keys <- MCKeys
    LimitOf <- MCLimitOf
    WindowOf <- MCWindowOf
    Capacity = 1
    Requests = {r1, r2}
    None = None
    MaxTime = 5
    MaxCount = 3
SPECIFICATION Spec
SYMMETRY Symmetry
INVARIANTS
    LimitEnforced
