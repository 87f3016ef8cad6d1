---------------------------- MODULE MCRedemption ----------------------------
\* Small instances of Redemption for TLC.
EXTENDS Redemption

CONSTANTS i1, i2, u1, u2, u3, r1, r2, m1, m2, g1, g2, g3

\* Two groups to join, or a group the directory does not know.
MixedLists == {<<g1, g2>>, <<g3>>}
OneList == {<<g1>>}

\* Every code under every name, with one address.
AllForms == {[code |-> i, name |-> u, mail |-> m1] : i \in Invites, u \in Users}

\* Two addresses, and one code each for the names, one for both.
CrossedForms ==
    {[code |-> i1, name |-> u1, mail |-> m1], [code |-> i1, name |-> u3, mail |-> m2],
     [code |-> i2, name |-> u1, mail |-> m2], [code |-> i2, name |-> u3, mail |-> m1]}

\* A resident who owns the name u2 and the address m2.
Resident == {[name |-> u2, mail |-> m2]}

\* Without ok: false, which may cost a redeemed account a group.
OutrightFaults == Fault \ {"ignored"}

\* Failures that leave the handler in charge and do not pass for "not taken".
ToldFaults == {"database", "refused", "ignored"}
===========================================================================
