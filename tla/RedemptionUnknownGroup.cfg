\* A group the directory does not know, and no failure at all.
SPECIFICATION RedemptionSpec
CONSTANTS
    i1 = i1
    i2 = i2
    u1 = u1
    u2 = u2
    u3 = u3
    r1 = r1
    r2 = r2
    m1 = m1
    m2 = m2
    g1 = g1
    g2 = g2
    g3 = g3
    NULL = NULL
    Invites = {i1}
    Users = {u1}
    Requests = {r1, r2}
    Mails = {m1, m2}
    Groups = {g1, g2, g3}
    GroupLists <- MixedLists
    KnownGroups = {g1, g2}
    Forms <- AllForms
    Residents = {}
    Faults = {}
    Lifetimes = {1}
    Retention = 0
    MaxDelay = 0
    MaxTime = 1
    Year10000 = 100
INVARIANTS
    NotCreatedMeansNoAccount
CHECK_DEADLOCK TRUE
