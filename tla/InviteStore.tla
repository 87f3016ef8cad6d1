---------------------------- MODULE InviteStore ----------------------------
(***************************************************************************)
(* The invite repository (src/invite_storage.rs) with the two admin       *)
(* handlers that write to it (src/routes.rs) and the retention task        *)
(* (src/main.rs).                                                          *)
(*                                                                         *)
(* Each repository call that writes runs in one SQLite transaction, and    *)
(* SQLite has one writer at a time, so a committed call is one action; a   *)
(* call that fails or is rolled back changes nothing and is no step.       *)
(*                                                                         *)
(*  - An invitation's id and token are drawn together at random and never *)
(*    again; one name in Invites stands for the pair.                     *)
(*  - Callers sample the time BEFORE they wait for the database, so the    *)
(*    stamp of a write may be older than the write.  MaxDelay bounds by    *)
(*    how much.                                                            *)
(*  - A database row keeps text; Timestamps says how text compares.        *)
(***************************************************************************)
EXTENDS Timestamps, FiniteSets, Sequences

CONSTANTS
    Invites,        \* names of (id, token) pairs
    Users,          \* usernames an invitation can be redeemed by
    GroupLists,     \* what the groups field of the admin form can parse to
    Lifetimes,      \* what the expiration_hours field can hold
    Retention,      \* STALE_INVITE_RETENTION_DAYS, in ticks
    MaxDelay,       \* bound: how old a stamp can be when it is written
    MaxTime,        \* bound: the clock stops here
    NULL

VARIABLES
    clock,          \* Utc::now()
    invites,        \* table invites: [Invites -> Row \cup {NULL}]
    events,         \* table invite_events: a set of Event
    lastEvent,      \* sqlite_sequence of invite_events (AUTOINCREMENT)
    minted,         \* names that were drawn and stored at some time
    sweep           \* cutoff the retention task sampled for a running
                    \* cleanup_stale, or NULL

vars == <<clock, invites, events, lastEvent, minted, sweep>>

Row == [groups     : GroupLists,
        createdAt  : Nat,
        expiresAt  : Nat,
        consumedAt : Nat \cup {NULL},
        consumedBy : Users \cup {NULL},
        revokedAt  : Nat \cup {NULL}]

Event == [id     : Nat,
          invite : Invites,
          type   : {"created", "consumed", "revoked"},
          at     : Nat,
          actor  : Users \cup {NULL}]

ASSUME StoreAssumption ==
    /\ Lifetimes \subseteq Int
    /\ Retention \in Nat
    /\ MaxDelay \in Nat
    /\ MaxTime \in Nat
    /\ NULL \notin Int
    /\ NULL \notin Users
    /\ NULL \notin Row

TypeOK ==
    /\ clock \in Nat
    /\ invites \in [Invites -> Row \cup {NULL}]
    /\ events \subseteq Event
    /\ lastEvent \in Nat
    /\ \A e \in events : e.id \in 1..lastEvent
    /\ minted \subseteq Invites
    /\ sweep \in Int \cup {NULL}

Init ==
    /\ clock = 0
    /\ invites = [i \in Invites |-> NULL]
    /\ events = {}
    /\ lastEvent = 0
    /\ minted = {}
    /\ sweep = NULL

---------------------------------------------------------------------------
(* Reading a row.                                                          *)

\* Stamps a caller may hold now.
Stamps == {t \in 0..clock : clock <= t + MaxDelay}

\* routes.rs, on the parsed instant.
InviteIsActive(row, now) ==
    /\ row.revokedAt = NULL
    /\ row.consumedAt = NULL
    /\ row.expiresAt > now

\* What the admin page shows.  ("Invalid" is for unparsable text, which the
\* service never writes.)
InviteStatus(row, now) ==
    CASE row.revokedAt # NULL -> "Revoked"
      [] row.revokedAt = NULL /\ row.consumedAt # NULL -> "Used"
      [] row.revokedAt = NULL /\ row.consumedAt = NULL ->
            IF row.expiresAt <= now THEN "Expired" ELSE "Active"

\* Slips of Consumable: forgetting the revocation, and `>=` for `>`.
ConsumableThoughRevoked(row, at) ==
    row.consumedAt = NULL /\ TextBefore(at, row.expiresAt)
ConsumableAtExpiry(row, at) ==
    /\ row.consumedAt = NULL
    /\ row.revokedAt = NULL
    /\ ~TextBefore(row.expiresAt, at)

\* The WHERE clause of consume_invite.
Consumable(row, at) ==
    /\ row.consumedAt = NULL
    /\ row.revokedAt = NULL
    /\ TextBefore(at, row.expiresAt)

\* The WHERE clause of revoke_invite: no word about the expiry.
Revocable(row) ==
    row.consumedAt = NULL /\ row.revokedAt = NULL

\* Slips of IsStale: `<=` for `<`, and forgetting the revoked rows.
IsStaleAtCutoff(row, cutoff) ==
    \/ row.revokedAt # NULL /\ ~TextBefore(cutoff, row.revokedAt)
    \/ Revocable(row) /\ ~TextBefore(cutoff, row.expiresAt)
IsStaleUnlessRevoked(row, cutoff) ==
    Revocable(row) /\ TextBefore(row.expiresAt, cutoff)

\* The WHERE clause of both DELETEs of cleanup_stale.
IsStale(row, cutoff) ==
    \/ row.revokedAt # NULL /\ TextBefore(row.revokedAt, cutoff)
    \/ Revocable(row) /\ TextBefore(row.expiresAt, cutoff)

---------------------------------------------------------------------------
(* Writing.                                                                *)

\* Slip of InsertEvent: the sequence is not advanced, as without AUTOINCREMENT.
InsertEventSameId(i, type, at, actor) ==
    /\ events' = events \cup {[id |-> lastEvent + 1, invite |-> i, type |-> type,
                               at |-> at, actor |-> actor]}
    /\ UNCHANGED lastEvent

InsertEvent(i, type, at, actor) ==
    /\ lastEvent' = lastEvent + 1
    /\ events' = events \cup {[id |-> lastEvent', invite |-> i, type |-> type,
                               at |-> at, actor |-> actor]}

CreateInvite(i, groups, at, expires, actor) ==
    /\ i \notin minted
    /\ minted' = minted \cup {i}
    /\ invites' = [invites EXCEPT ![i] =
            [groups |-> groups, createdAt |-> at, expiresAt |-> expires,
             consumedAt |-> NULL, consumedBy |-> NULL, revokedAt |-> NULL]]
    /\ InsertEvent(i, "created", at, actor)
    /\ UNCHANGED <<clock, sweep>>

\* POST /admin/invites/generate: both checks of the form come before the draw.
GenerateInvite(i) ==
    \E groups \in GroupLists, hours \in Lifetimes, now \in Stamps :
        /\ groups # << >>
        /\ hours >= 1
        /\ CreateInvite(i, groups, now, now + hours, NULL)

ConsumeInvite(i, at, by) ==
    /\ invites[i] # NULL
    /\ Consumable(invites[i], at)
    /\ invites' = [invites EXCEPT ![i].consumedAt = at, ![i].consumedBy = by]
    /\ InsertEvent(i, "consumed", at, by)
    /\ UNCHANGED <<clock, minted, sweep>>

\* Slip of RevokeInvite: a used invitation can still be revoked.
RevokeUsedInvite(i) ==
    \E at \in Stamps :
        /\ invites[i] # NULL
        /\ invites[i].revokedAt = NULL
        /\ invites' = [invites EXCEPT ![i].revokedAt = at]
        /\ InsertEvent(i, "revoked", at, NULL)
        /\ UNCHANGED <<clock, minted, sweep>>

\* POST /admin/invites/revoke; its handler ignores the result.
RevokeInvite(i) ==
    \E at \in Stamps :
        /\ invites[i] # NULL
        /\ Revocable(invites[i])
        /\ invites' = [invites EXCEPT ![i].revokedAt = at]
        /\ InsertEvent(i, "revoked", at, NULL)
        /\ UNCHANGED <<clock, minted, sweep>>

StaleInvites(cutoff) ==
    {i \in Invites : invites[i] # NULL /\ IsStale(invites[i], cutoff)}

\* Slip of CleanupStale: the two WHERE clauses part, the first one does not ask
\* whether the invitation was used.
CleanupOfUsedHistory(cutoff) ==
    LET stale == StaleInvites(cutoff)
        used  == {i \in Invites : invites[i] # NULL /\ invites[i].consumedAt # NULL
                                    /\ TextBefore(invites[i].expiresAt, cutoff)}
    IN
        /\ events' = {e \in events : e.invite \notin stale \cup used}
        /\ invites' = [i \in Invites |-> IF i \in stale THEN NULL ELSE invites[i]]

\* Both DELETEs name the same rows, so that the events' ON DELETE CASCADE finds
\* nothing left to delete.
CleanupStale(cutoff) ==
    LET stale == StaleInvites(cutoff) IN
        /\ events' = {e \in events : e.invite \notin stale}
        /\ invites' = [i \in Invites |-> IF i \in stale THEN NULL ELSE invites[i]]

---------------------------------------------------------------------------
(* The retention task: a tick samples the cutoff, the transaction commits  *)
(* or fails later.  An error is printed and forgotten; the process may also *)
(* end in between and a new one start its own task.                         *)

SweepTick ==
    /\ sweep = NULL
    /\ sweep' = clock - Retention
    /\ UNCHANGED <<clock, invites, events, lastEvent, minted>>

SweepRun ==
    /\ sweep # NULL
    /\ CleanupStale(sweep)
    /\ sweep' = NULL
    /\ UNCHANGED <<clock, lastEvent, minted>>

SweepAborts ==
    /\ sweep # NULL
    /\ sweep' = NULL
    /\ UNCHANGED <<clock, invites, events, lastEvent, minted>>

PassTime ==
    /\ clock < MaxTime
    /\ clock' = clock + 1
    /\ UNCHANGED <<invites, events, lastEvent, minted, sweep>>

---------------------------------------------------------------------------
Consume(i) == \E at \in Stamps, by \in Users : ConsumeInvite(i, at, by)

Next ==
    \/ PassTime
    \/ \E i \in Invites : GenerateInvite(i) \/ Consume(i) \/ RevokeInvite(i)
    \/ SweepTick
    \/ SweepRun
    \/ SweepAborts

\* tokio's interval keeps ticking, and a cleanup that is tried again and
\* again is not refused by the database for ever.
Fairness == WF_vars(SweepTick) /\ SF_vars(SweepRun)

Spec == Init /\ [][Next]_vars

FairSpec == Spec /\ Fairness

---------------------------------------------------------------------------
(* Properties.                                                             *)

\* e is the entry that the row itself accounts for.
Attests(row, e) ==
    \/ /\ e.type = "created"
       /\ e.at = row.createdAt
       /\ e.actor = NULL
    \/ /\ e.type = "consumed"
       /\ row.consumedAt # NULL
       /\ e.at = row.consumedAt
       /\ e.actor = row.consumedBy
    \/ /\ e.type = "revoked"
       /\ row.revokedAt # NULL
       /\ e.at = row.revokedAt
       /\ e.actor = NULL

\* The types of entry the row must have.
Told(row) ==
    {"created"}
        \cup (IF row.consumedAt # NULL THEN {"consumed"} ELSE {})
        \cup (IF row.revokedAt # NULL THEN {"revoked"} ELSE {})

\* The two tables tell the same story (history() against the row): every
\* event belongs to a stored invitation and agrees with its row, every change
\* of the row has exactly one event, ids never repeat, and "created" comes
\* first.  Retention must therefore delete from both tables alike.
HistoryMatches ==
    /\ \A e \in events : invites[e.invite] # NULL /\ Attests(invites[e.invite], e)
    /\ \A i \in Invites : invites[i] # NULL =>
            \A type \in Told(invites[i]) : \E e \in events : e.invite = i /\ e.type = type
    /\ \A e, f \in events :
            /\ e.id = f.id => e = f
            /\ e.invite = f.invite /\ e.type = f.type => e = f
            /\ e.invite = f.invite /\ e.type = "created" => e.id <= f.id

\* A row is used or revoked, never both, and names its user exactly when used;
\* a name is stored only after it was drawn.
RowsCoherent ==
    \A i \in Invites : invites[i] # NULL =>
        /\ i \in minted
        /\ invites[i].consumedAt = NULL \/ invites[i].revokedAt = NULL
        /\ invites[i].consumedAt = NULL <=> invites[i].consumedBy = NULL

\* The three copies of "is this invitation usable" - the form handler's, the
\* admin page's and the SQL of consume_invite - agree at every instant, the
\* instant of expiry included.
JudgedAlike ==
    \A i \in Invites : invites[i] # NULL =>
        \A t \in 0..MaxTime :
            /\ InviteIsActive(invites[i], t) <=> Consumable(invites[i], t)
            /\ InviteIsActive(invites[i], t) <=> InviteStatus(invites[i], t) = "Active"

\* A used invitation stays exactly as it is, for ever; a revoked one stays so
\* until retention deletes it; a deleted one never returns.
SettledForGood ==
    [][\A i \in Invites :
        /\ invites[i] # NULL => \/ invites[i].consumedAt = NULL
                                \/ invites'[i] = invites[i]
        /\ invites[i] # NULL => \/ invites[i].revokedAt = NULL
                                \/ invites'[i] = invites[i]
                                \/ invites'[i] = NULL
        /\ i \in minted /\ invites[i] = NULL => invites'[i] = NULL]_vars

\* The row of i was revoked, or expired unused, more than Retention ago - by
\* the clock, not by the text.
Due(i) ==
    /\ invites[i] # NULL
    /\ IF invites[i].revokedAt # NULL
           THEN invites[i].revokedAt + Retention < clock
           ELSE /\ invites[i].consumedAt = NULL
                /\ invites[i].expiresAt + Retention < clock

\* Retention (main.rs and cleanup_stale) deletes nothing before its time.
CleanupSpares ==
    [][\A i \in Invites : invites[i] # NULL /\ invites'[i] = NULL => Due(i)]_vars

\* "Active and consumed invites are left untouched" (invite_storage.rs:216),
\* active as the rest of the service judges it.
ActiveInvitesSurviveCleanup ==
    [][\A i \in Invites :
        invites[i] # NULL /\ InviteIsActive(invites[i], clock) => invites'[i] # NULL]_vars

\* "append-only invite events" (README.md:13).
EventsAppendOnly == [][events \subseteq events']_vars

\* A row due for deletion is eventually deleted, unless it stops being due
\* (an expired invitation can still be revoked, which starts its retention
\* again).
StaleRowsAreSwept == \A i \in Invites : Due(i) ~> ~Due(i)

\* The repository implements the life cycle it promises.
Phase(i) ==
    IF invites[i] = NULL
        THEN IF i \in minted THEN "purged" ELSE "unborn"
        ELSE IF invites[i].consumedAt # NULL THEN "redeemed"
             ELSE IF invites[i].revokedAt # NULL THEN "revoked" ELSE "open"
Redeemer(i) == IF invites[i] = NULL THEN NULL ELSE invites[i].consumedBy

phase == [i \in Invites |-> Phase(i)]
redeemer == [i \in Invites |-> Redeemer(i)]
Lifecycle == INSTANCE InviteLifecycle WITH Nobody <- NULL
ImplementsLifecycle == Lifecycle!Spec
===========================================================================
