-------------------------- MODULE MCSqliteInvites --------------------------
\* Small instances of SqliteInvites for TLC.
EXTENDS SqliteInvites

CONSTANTS i1, c1, c2, c3, g1

SomeGroups == {<<g1>>}
===========================================================================
