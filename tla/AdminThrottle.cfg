\* Five logins against a limit of two in every window of two ticks.
SPECIFICATION Spec
CONSTANTS
    c1 = c1
    c2 = c2
    c3 = c3
    c4 = c4
    c5 = c5
    NULL = NULL
    Calls = {c1, c2, c3, c4, c5}
    Kinds = {"overlong"}
    Configured = TRUE
    Window = 2
    MaxAttempts = 2
    SessionLife = 1
    MaxDelay = 0
    MaxTime = 4
SYMMETRY Symmetry
INVARIANTS
    ThrottleHolds
PROPERTIES
    ThrottledWithCause
CHECK_DEADLOCK TRUE
