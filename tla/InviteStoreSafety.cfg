\* Two invitations through every order of create, consume, revoke and cleanup, with a fair retention task.
SPECIFICATION FairSpec
CONSTANTS
    i1 = i1
    i2 = i2
    u1 = u1
    u2 = u2
    g1 = g1
    NULL = NULL
    Invites = {i1, i2}
    Users = {u1, u2}
    GroupLists <- SomeGroups
    Lifetimes <- SomeHours
    Retention = 1
    MaxDelay = 1
    MaxTime = 4
    Year10000 = 100
INVARIANTS
    TypeOK
    RowsCoherent
    HistoryMatches
    JudgedAlike
PROPERTIES
    SettledForGood
    CleanupSpares
    ImplementsLifecycle
    StaleRowsAreSwept
CHECK_DEADLOCK TRUE
