\* Failures that the handler is told of; two invitations, names and addresses crossed, a resident.
SPECIFICATION RedemptionSpec
CONSTANTS
    i1 = i1
    i2 = i2
    u1 = u1
    u2 = u2
    u3 = u3
    r1 = r1
    r2 = r2
    m1 = m1
    m2 = m2
    g1 = g1
    g2 = g2
    g3 = g3
    NULL = NULL
    Invites = {i1, i2}
    Users = {u1, u2, u3}
    Requests = {r1, r2}
    Mails = {m1, m2}
    Groups = {g1, g2, g3}
    GroupLists <- OneList
    KnownGroups = {g1, g2}
    Forms <- CrossedForms
    Residents <- Resident
    Faults <- ToldFaults
    Lifetimes = {1}
    Retention = 0
    MaxDelay = 0
    MaxTime = 1
    Year10000 = 100
INVARIANTS
    AccountsExplained
PROPERTIES
    AddressStaysOnes
CHECK_DEADLOCK TRUE
