\* Every failure at every step except a silent one, one invitation, two free names and a taken one; fair calls.
SPECIFICATION RedemptionFairSpec
CONSTANTS
    i1 = i1
    i2 = i2
    u1 = u1
    u2 = u2
    u3 = u3
    r1 = r1
    r2 = r2
    m1 = m1
    m2 = m2
    g1 = g1
    g2 = g2
    g3 = g3
    NULL = NULL
    Invites = {i1}
    Users = {u1, u2, u3}
    Requests = {r1, r2}
    Mails = {m1, m2}
    Groups = {g1, g2, g3}
    GroupLists <- MixedLists
    KnownGroups = {g1, g2}
    Forms <- AllForms
    Residents <- Resident
    Faults <- OutrightFaults
    Lifetimes = {1}
    Retention = 0
    MaxDelay = 0
    MaxTime = 2
    Year10000 = 100
INVARIANTS
    RedemptionTypeOK
    RedeemedAccountStands
PROPERTIES
    ForeignAccountsUntouched
    ImplementsExchange
    SubmissionEnds
CHECK_DEADLOCK TRUE
