-------------------------- MODULE InviteLifecycle --------------------------
(***************************************************************************)
(* What the invite repository promises, without rows, clocks or history:  *)
(* an invitation is opened once, is redeemed at most once and by one user, *)
(* can be withdrawn instead, and only one that was not redeemed may ever   *)
(* be forgotten.  A forgotten invitation never comes back.                 *)
(***************************************************************************)
CONSTANTS Invites, Users, Nobody

VARIABLES
    phase,      \* [Invites -> Phase]
    redeemer    \* [Invites -> Users \cup {Nobody}], who redeemed it

vars == <<phase, redeemer>>

Phase == {"unborn", "open", "redeemed", "revoked", "purged"}

TypeOK ==
    /\ phase \in [Invites -> Phase]
    /\ redeemer \in [Invites -> Users \cup {Nobody}]

Init ==
    /\ phase = [i \in Invites |-> "unborn"]
    /\ redeemer = [i \in Invites |-> Nobody]

\* An administrator creates the invitation.
Open(i) ==
    /\ phase[i] = "unborn"
    /\ phase' = [phase EXCEPT ![i] = "open"]
    /\ UNCHANGED redeemer

\* A user takes it.
Redeem(i, u) ==
    /\ phase[i] = "open"
    /\ phase' = [phase EXCEPT ![i] = "redeemed"]
    /\ redeemer' = [redeemer EXCEPT ![i] = u]

\* An administrator takes it back.
Revoke(i) ==
    /\ phase[i] = "open"
    /\ phase' = [phase EXCEPT ![i] = "revoked"]
    /\ UNCHANGED redeemer

\* Retention forgets some invitations at once, never a redeemed one.
Purge(S) ==
    /\ \A i \in S : phase[i] \in {"open", "revoked"}
    /\ phase' = [i \in Invites |-> IF i \in S THEN "purged" ELSE phase[i]]
    /\ UNCHANGED redeemer

Next ==
    \/ \E i \in Invites : Open(i)
    \/ \E i \in Invites, u \in Users : Redeem(i, u)
    \/ \E i \in Invites : Revoke(i)
    \/ \E S \in SUBSET Invites : Purge(S)

Spec == Init /\ [][Next]_vars
===========================================================================
