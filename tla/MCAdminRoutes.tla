--------------------------- MODULE MCAdminRoutes ---------------------------
\* Small instances of AdminRoutes for TLC.
EXTENDS AdminRoutes, TLC

CONSTANTS c1, c2, r1, r2, i1, u1, g1, here, elsewhere

SomeGroups == {<<g1>>}

\* The configured origin from one of its own pages, the same from another
\* site, and another origin.
SomeHeaders ==
    {[origin |-> here, site |-> "absent"],
     [origin |-> here, site |-> "cross-site"],
     [origin |-> elsewhere, site |-> "same-origin"]}

Symmetry == Permutations(Calls) \cup Permutations(Requests)
===========================================================================
