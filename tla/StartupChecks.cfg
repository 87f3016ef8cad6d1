\* Two launches on one data directory, edits of every kind between the steps, a process that dies.
SPECIFICATION StartupFairSpec
CONSTANTS
    p1 = p1
    p2 = p2
    Empty = Empty
    Garbage = Garbage
    NULL = NULL
    Procs = {p1, p2}
    Files <- SomeFiles
    Environments <- SomeEnvironments
    Passwords = {15, 16, 1024, 1025}
    MaxEdits = 2
    MaxFaults = 1
INVARIANTS
    StartupTypeOK
    ServesReady
    PrintedHashWorks
PROPERTIES
    GoodStartServes
CHECK_DEADLOCK FALSE
