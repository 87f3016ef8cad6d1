--------------------------- MODULE MCInviteStore ---------------------------
\* Small instances of InviteStore for TLC.
EXTENDS InviteStore

CONSTANTS i1, i2, u1, u2, g1

\* The empty list and zero hours are what the form handler must refuse.
SomeGroups == {<< >>, <<g1>>}
SomeHours == {0, 1, 2}

\* A lifetime that ends after the year 9999.
LongHours == {1, 9}
===========================================================================
