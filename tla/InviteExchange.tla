--------------------------- MODULE InviteExchange ---------------------------
(***************************************************************************)
(* What redemption promises, without its awaits, faults, passwords and     *)
(* groups: an invitation is exchanged once, for one account, and the       *)
(* request that made the account is told so - it and no other, and only if *)
(* it is cut off that moment not even it.  A name that is taken stays with *)
(* its owner; an account may be discarded by who made it until it was      *)
(* exchanged, and by nobody afterwards.  Who was cut off does nothing more.*)
(***************************************************************************)
CONSTANTS Invites, Users, Requests, Nobody,
    Stranger        \* the owner of accounts that no request made

VARIABLES
    owner,          \* of the names that are taken: who made the account
    holder,         \* [Invites -> Users \cup {Nobody}], the account it was exchanged for
    told,           \* [Requests -> Invites \cup {Nobody}], what it was told it redeemed
    gone            \* requests that were cut off

vars == <<owner, holder, told, gone>>

Taken == DOMAIN owner
Exchanged(u) == \E i \in Invites : holder[i] = u

Init ==
    /\ \E S \in SUBSET Users : owner = [u \in S |-> Stranger]
    /\ holder = [i \in Invites |-> Nobody]
    /\ told = [r \in Requests |-> Nobody]
    /\ gone = {}

\* A request takes a free name.
Make(r, u) ==
    /\ r \notin gone
    /\ u \notin Taken
    /\ owner' = [v \in Taken \cup {u} |-> IF v = u THEN r ELSE owner[v]]
    /\ UNCHANGED <<holder, told, gone>>

\* It gives the name back, as long as the account is good for nothing yet.
Discard(r, u) ==
    /\ r \notin gone
    /\ u \in Taken
    /\ owner[u] = r
    /\ ~Exchanged(u)
    /\ owner' = [v \in Taken \ {u} |-> owner[v]]
    /\ UNCHANGED <<holder, told, gone>>

\* The invitation is spent on the account, and the request is told, unless it is
\* cut off that moment.
Exchange(r, i, u) ==
    /\ r \notin gone
    /\ holder[i] = Nobody
    /\ u \in Taken
    /\ owner[u] = r
    /\ ~Exchanged(u)
    /\ told[r] = Nobody
    /\ holder' = [holder EXCEPT ![i] = u]
    /\ \/ told' = [told EXCEPT ![r] = i] /\ UNCHANGED gone
       \/ gone' = gone \cup {r} /\ UNCHANGED told
    /\ UNCHANGED owner

Leave(S) ==
    /\ S # {}
    /\ gone' = gone \cup S
    /\ UNCHANGED <<owner, holder, told>>

Next ==
    \/ \E r \in Requests, u \in Users :
        \/ Make(r, u)
        \/ Discard(r, u)
        \/ \E i \in Invites : Exchange(r, i, u)
    \/ \E S \in SUBSET (Requests \ gone) : Leave(S)

Spec == Init /\ [][Next]_vars
===========================================================================
