\* Two sign-ins and two requests with every cookie, form and header, beside the
\* retention task; one of the two lifetimes ends beyond the year 9999.
SPECIFICATION RoutesSpec
CONSTANTS
    c1 = c1
    c2 = c2
    r1 = r1
    r2 = r2
    i1 = i1
    u1 = u1
    g1 = g1
    here = here
    elsewhere = elsewhere
    NULL = NULL
    Calls = {c1, c2}
    Requests = {r1, r2}
    Headers <- SomeHeaders
    Origin = here
    NoOrigin = ""
    Limit = 20
    MaxChallenges = 1
    SessionLife = 1
    Faults = {}
    Invites = {i1}
    Users = {u1}
    GroupLists <- SomeGroups
    Lifetimes = {1, 2}
    Retention = 0
    MaxDelay = 1
    MaxTime = 1
    Year10000 = 2
SYMMETRY Symmetry
INVARIANTS
    RoutesTypeOK
    OnlyForLiveSessions
    SignedOutForGood
    DisabledIsUseless
    PagesAgeWell
CHECK_DEADLOCK TRUE
