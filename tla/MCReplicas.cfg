CONSTANTS
    old = old
    new = new
    edited = edited
    first = first
    second = second
    other = other
    Replicas = {r1, r2}
    Releases = {old, new, edited}
    Contents = {first, second, other}
    Files <- SomeFiles
    LegacyContent = first
    Absent = Absent
    NoChecksum = NoChecksum
    Nobody = Nobody
    DeadSession = DeadSession
    MaxInflight = 1
    MaxFailures = 2
SPECIFICATION FairSpec
INVARIANTS
    TypeOK
    LedgerTellsTheTruth
    ServesOwnSchema
    RefusedOnlyForDrift
    CleanExitCutsNobody
PROPERTIES
    NeitherStartNorStopHangs
