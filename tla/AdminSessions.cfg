\* Logins of every kind, visits and logouts, with instants one tick late, under fair scheduling.
SPECIFICATION FairSpec
CONSTANTS
    c1 = c1
    c2 = c2
    c3 = c3
    c4 = c4
    c5 = c5
    NULL = NULL
    Calls = {c1, c2}
    Kinds = {"right", "misnamed", "wrong", "overlong"}
    Configured = TRUE
    Window = 1
    MaxAttempts = 1
    SessionLife = 2
    MaxDelay = 1
    MaxTime = 3
INVARIANTS
    AdminTypeOK
    OneVerification
    SessionEarned
PROPERTIES
    SessionEndsRightly
    ImplementsSession
    PermitReturns
    LoginEnds
CHECK_DEADLOCK TRUE
