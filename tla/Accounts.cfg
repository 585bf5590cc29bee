SPECIFICATION Spec
CONSTANTS
    MaxCrashes = 1
    Registrations = {"first", "second"}
    Logins = {"login"}
    Email <- MCEmail
    Password <- MCPassword
    Calls = {c1}
    None = None
    TTL = 1
    MaxTime = 2
CHECK_DEADLOCK FALSE
INVARIANTS
    TypeOK
    VersionTruth
    ServesItsTables
    OneAccountPerEmail
    CallsProven
    DeactivationTakesHold
    NoOrphans
    VerdictsAgree
PROPERTIES
    NeverAdopted
    ComesUp
