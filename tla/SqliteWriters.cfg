\* Three calls and the retention task on one invitation, statement by statement.
SPECIFICATION SqliteFairSpec
CONSTANTS
    i1 = i1
    c1 = c1
    c2 = c2
    c3 = c3
    g1 = g1
    NULL = NULL
    Task = Task
    Calls = {c1, c2, c3}
    Users = {c1, c2, c3}
    Connections = 2
    Invites = {i1}
    GroupLists <- SomeGroups
    Lifetimes = {1}
    Retention = 0
    MaxDelay = 1
    MaxTime = 1
    Year10000 = 100
INVARIANTS
    SqliteTypeOK
    AnswersTrue
PROPERTIES
    ImplementsStore
    LockFreed
    CallsAnswered
CHECK_DEADLOCK TRUE
