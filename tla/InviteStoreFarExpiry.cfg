\* An expiry after the year 9999: its text starts with '+'.
SPECIFICATION Spec
CONSTANTS
    i1 = i1
    i2 = i2
    u1 = u1
    u2 = u2
    g1 = g1
    NULL = NULL
    Invites = {i1}
    Users = {u1}
    GroupLists <- SomeGroups
    Lifetimes <- LongHours
    Retention = 1
    MaxDelay = 0
    MaxTime = 4
    Year10000 = 8
PROPERTIES
    ActiveInvitesSurviveCleanup
CHECK_DEADLOCK TRUE
