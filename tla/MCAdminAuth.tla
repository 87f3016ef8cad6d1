---------------------------- MODULE MCAdminAuth ----------------------------
\* Small instances of AdminAuth for TLC.
EXTENDS AdminAuth, TLC

CONSTANTS c1, c2, c3, c4, c5

Symmetry == Permutations(Calls)
===========================================================================
