--------------------------- MODULE SqliteInvites ---------------------------
(***************************************************************************)
(* The writers of src/invite_storage.rs statement by statement, as sqlx    *)
(* runs them against SQLite.  InviteStore takes each of them for one       *)
(* atomic action; this module shows that the transactions make it so       *)
(* (ImplementsStore is InviteStore's Spec, over the same committed tables). *)
(*                                                                         *)
(* SQLite and sqlx are outside the repository; what is used of them:        *)
(*  - A transaction works on a draft that nobody else sees and that becomes *)
(*    the database when it commits (rollback journal, the default).         *)
(*  - One transaction at a time holds the write lock.  BEGIN IMMEDIATE      *)
(*    takes it, or else the first statement that writes.  A statement that  *)
(*    cannot have it waits, and gives up after the busy timeout.            *)
(*  - Any statement can fail, COMMIT included; `?` then returns the error   *)
(*    and drops the transaction, which queues a rollback that runs later.   *)
(*  - A dropped future leaves the statement it sent to run to its end: a    *)
(*    COMMIT on its way still commits, anything else is rolled back.        *)
(*  - The process can end anywhere; a draft does not survive it.            *)
(*                                                                         *)
(* A caller stands for one call of a repository function, and for the       *)
(* username it redeems under; Task stands for the retention task, which     *)
(* calls again and again.                                                   *)
(***************************************************************************)
EXTENDS InviteStore

CONSTANTS
    Calls,          \* calls of create_invite, consume_invite, revoke_invite
    Task,           \* the caller of cleanup_stale
    Connections     \* max_connections of the pool

VARIABLES
    pc,             \* the statement a caller has to run next
    call,           \* its arguments, NULL before the call
    answer,         \* what the call returned
    left,           \* callers whose future was dropped
    writer,         \* whose transaction holds the write lock, or NULL
    draft           \* the tables as that transaction sees them; without one,
                    \* as they are

sqlVars == <<pc, call, answer, left, writer, draft>>
sqlAllVars == <<vars, sqlVars>>

Callers == Calls \cup {Task}

Tables == [invites   : [Invites -> Row \cup {NULL}],
           events    : SUBSET Event,
           lastEvent : Nat]

Call == [kind : {"create", "consume", "revoke"}, invite : Invites, at : Nat,
         groups : GroupLists, expires : Nat]

\* Statements of an open transaction; "commit" and "return_false" end one.
Statements == {"begin", "select", "insert", "reread", "update", "event",
               "delete_events", "delete_rows", "commit", "return_false"}
Connected == {c \in Callers : pc[c] \in Statements \cup {"rollback"}}
Running == {c \in Calls : pc[c] \in Statements \cup {"connect"}}

ASSUME SqliteAssumption ==
    /\ Calls \subseteq Users
    /\ Task \notin Calls
    /\ NULL \notin Calls \cup {Task}
    /\ NULL \notin Call
    /\ Connections \in Nat \ {0}

SqliteTypeOK ==
    /\ TypeOK
    /\ pc \in [Callers -> Statements \cup {"idle", "connect", "rollback", "done"}]
    /\ call \in [Calls -> Call \cup {NULL}]
    /\ answer \in [Calls -> {"none", "true", "false", "error"}]
    /\ left \subseteq Callers
    /\ writer \in Callers \cup {NULL}
    /\ draft \in Tables

Committed == [invites |-> invites, events |-> events, lastEvent |-> lastEvent]

SqliteInit ==
    /\ Init
    /\ pc = [c \in Callers |-> "idle"]
    /\ call = [c \in Calls |-> NULL]
    /\ answer = [c \in Calls |-> "none"]
    /\ left = {}
    /\ writer = NULL
    /\ draft = Committed

---------------------------------------------------------------------------
(* The calls.                                                              *)

Goto(c, label) == pc' = [pc EXCEPT ![c] = label]

Start(c, kind, i, at, groups, expires) ==
    /\ pc[c] = "idle"
    /\ call' = [call EXCEPT ![c] = [kind |-> kind, invite |-> i, at |-> at,
                                    groups |-> groups, expires |-> expires]]
    /\ Goto(c, "connect")
    /\ UNCHANGED <<vars, answer, left, writer, draft>>

\* The generate handler, past its two checks; it draws a fresh name.
CallCreate(c) ==
    \E i \in Invites \ minted, groups \in GroupLists, hours \in Lifetimes :
        /\ \A d \in Calls : call[d] # NULL => call[d].invite # i
        /\ groups # << >>
        /\ hours >= 1
        /\ Start(c, "create", i, clock, groups, clock + hours)

\* The form handler and the revoke handler; a token or id is known only once
\* its invitation was stored, and may be out of date by now.
CallSettle(c) ==
    \E kind \in {"consume", "revoke"}, i \in minted, groups \in GroupLists :
        Start(c, kind, i, clock, groups, clock)

\* The retention task: SweepTick samples the cutoff of the call.
CallCleanup ==
    /\ pc[Task] = "idle"
    /\ SweepTick
    /\ Goto(Task, "connect")
    /\ UNCHANGED <<call, answer, left, writer, draft>>

\* The pool hands out a connection when it has one.
Connect(c) ==
    /\ pc[c] = "connect" /\ c \notin left
    /\ Cardinality(Connected) < Connections
    /\ Goto(c, "begin")
    /\ UNCHANGED <<vars, call, answer, left, writer, draft>>

---------------------------------------------------------------------------
(* The statements.                                                         *)

Kind(c) == IF c = Task THEN "cleanup" ELSE call[c].kind

\* c runs statement s in a transaction that may write.
Run(c, s) ==
    /\ pc[c] = s /\ c \notin left
    /\ writer \in {c, NULL}
    /\ writer' = c
    /\ UNCHANGED <<vars, call, answer, left>>

\* A plain BEGIN takes no lock.
BeginDeferred(c) ==
    /\ pc[c] = "begin" /\ c \notin left
    /\ Kind(c) \in {"create", "cleanup"}
    /\ Goto(c, IF c = Task THEN "delete_events" ELSE "insert")
    /\ UNCHANGED <<vars, call, answer, left, writer, draft>>

BeginImmediate(c) ==
    /\ Run(c, "begin")
    /\ Kind(c) \in {"consume", "revoke"}
    /\ UNCHANGED draft
    /\ Goto(c, "select")

\* Slip of Fits: the row is only looked up by its token or id.
FitsAnyRow(c, row) == row # NULL

\* The WHERE clauses of consume_invite and revoke_invite.
Fits(c, row) ==
    /\ row # NULL
    /\ \/ Kind(c) = "consume" /\ Consumable(row, call[c].at)
       \/ Kind(c) = "revoke" /\ Revocable(row)

Select(c) ==
    /\ Run(c, "select")
    /\ UNCHANGED draft
    /\ Goto(c, IF Fits(c, draft.invites[call[c].invite]) THEN "update" ELSE "return_false")

Insert(c) ==
    /\ Run(c, "insert")
    /\ draft' = [draft EXCEPT !.invites[call[c].invite] =
            [groups |-> call[c].groups, createdAt |-> call[c].at,
             expiresAt |-> call[c].expires,
             consumedAt |-> NULL, consumedBy |-> NULL, revokedAt |-> NULL]]
    /\ Goto(c, "event")

Updated(c, row) ==
    IF Kind(c) = "consume"
        THEN [row EXCEPT !.consumedAt = call[c].at, !.consumedBy = c]
        ELSE [row EXCEPT !.revokedAt = call[c].at]

\* Slip of Update: outside the transaction, it commits by itself.
UpdateAlone(c) ==
    LET i == call[c].invite IN
    /\ pc[c] = "update" /\ c \notin left /\ writer = c
    /\ draft' = [draft EXCEPT !.invites[i] = Updated(c, @)]
    /\ invites' = [invites EXCEPT ![i] = IF @ = NULL THEN NULL ELSE Updated(c, @)]
    /\ Goto(c, "event")
    /\ UNCHANGED <<clock, events, lastEvent, minted, sweep, call, answer, left, writer>>

Update(c) ==
    /\ Run(c, "update")
    /\ draft' = [draft EXCEPT !.invites[call[c].invite] = Updated(c, @)]
    /\ Goto(c, "event")

EventType == [create |-> "created", consume |-> "consumed", revoke |-> "revoked"]

\* Slip of AppendEvent: the sequence is not advanced.
AppendEventSameId(c) ==
    /\ Run(c, "event")
    /\ draft' = [draft EXCEPT
            !.events = @ \cup {[id |-> draft.lastEvent + 1, invite |-> call[c].invite,
                                type |-> EventType[call[c].kind], at |-> call[c].at,
                                actor |-> IF Kind(c) = "consume" THEN c ELSE NULL]}]
    /\ Goto(c, IF Kind(c) = "create" THEN "reread" ELSE "commit")

\* insert_event
AppendEvent(c) ==
    /\ Run(c, "event")
    /\ draft' = [draft EXCEPT
            !.lastEvent = @ + 1,
            !.events = @ \cup {[id |-> draft.lastEvent + 1, invite |-> call[c].invite,
                                type |-> EventType[call[c].kind], at |-> call[c].at,
                                actor |-> IF Kind(c) = "consume" THEN c ELSE NULL]}]
    /\ Goto(c, IF Kind(c) = "create" THEN "reread" ELSE "commit")

\* create_invite reads its row back.
Reread(c) ==
    /\ Run(c, "reread")
    /\ UNCHANGED draft
    /\ Goto(c, "commit")

StaleIn(rows) == {i \in Invites : rows[i] # NULL /\ IsStale(rows[i], sweep)}

DeleteEvents(c) ==
    /\ Run(c, "delete_events")
    /\ draft' = [draft EXCEPT
            !.events = {e \in @ : e.invite \notin StaleIn(draft.invites)}]
    /\ Goto(c, "delete_rows")

DeleteRows(c) ==
    /\ Run(c, "delete_rows")
    /\ draft' = [draft EXCEPT
            !.invites = [i \in Invites |-> IF i \in StaleIn(@) THEN NULL ELSE @[i]]]
    /\ Goto(c, "commit")

---------------------------------------------------------------------------
(* The ends of a call.                                                     *)

\* The caller is told, if it is still there; the task starts over.
Return(c, result) ==
    /\ answer' = IF c \in Calls /\ c \notin left
                     THEN [answer EXCEPT ![c] = result] ELSE answer
    /\ left' = left \ {Task}
    /\ UNCHANGED call

Last(c) == IF c = Task THEN "idle" ELSE "done"

\* A rollback: the draft is thrown away, the lock is free.
Release(c) ==
    IF writer = c THEN writer' = NULL /\ draft' = Committed
                  ELSE UNCHANGED <<writer, draft>>

Commit(c) ==
    /\ pc[c] = "commit"
    /\ writer = c
    /\ invites' = draft.invites
    /\ events' = draft.events
    /\ lastEvent' = draft.lastEvent
    /\ minted' = IF Kind(c) = "create" THEN minted \cup {call[c].invite} ELSE minted
    /\ sweep' = IF c = Task THEN NULL ELSE sweep
    /\ writer' = NULL
    /\ Goto(c, Last(c))
    /\ Return(c, "true")
    /\ UNCHANGED <<clock, draft>>

\* The explicit rollback of the branch without a row, then Ok(false).
ReturnFalse(c) ==
    /\ pc[c] = "return_false" /\ c \notin left
    /\ Release(c)
    /\ Goto(c, Last(c))
    /\ Return(c, "false")
    /\ UNCHANGED vars

\* Slip of Fail: the result of a failed commit is not looked at.
FailUnheard(c) ==
    /\ pc[c] \in Statements /\ c \notin left
    /\ sweep' = IF c = Task THEN NULL ELSE sweep
    /\ Goto(c, "rollback")
    /\ Return(c, IF pc[c] = "commit" THEN "true" ELSE "error")
    /\ UNCHANGED <<clock, invites, events, lastEvent, minted, writer, draft>>

\* Slip of Fail: a statement waits for the lock without end.
FailUnlessBlocked(c) ==
    /\ pc[c] \in Statements /\ c \notin left
    /\ writer \in {c, NULL}
    /\ sweep' = IF c = Task THEN NULL ELSE sweep
    /\ Goto(c, "rollback")
    /\ Return(c, "error")
    /\ UNCHANGED <<clock, invites, events, lastEvent, minted, writer, draft>>

\* A statement fails or waits for the lock too long.  The error is returned
\* before the rollback it queues has run; the task forgets its cutoff.
Fail(c) ==
    /\ pc[c] \in Statements /\ c \notin left
    /\ sweep' = IF c = Task THEN NULL ELSE sweep
    /\ Goto(c, "rollback")
    /\ Return(c, "error")
    /\ UNCHANGED <<clock, invites, events, lastEvent, minted, writer, draft>>

\* The pool has no connection for too long, or cannot open one.
FailToConnect(c) ==
    /\ pc[c] = "connect" /\ c \notin left
    /\ sweep' = IF c = Task THEN NULL ELSE sweep
    /\ Goto(c, Last(c))
    /\ Return(c, "error")
    /\ UNCHANGED <<clock, invites, events, lastEvent, minted, writer, draft>>

\* The future of a call is dropped where it awaits (the task is never).
Leave(c) ==
    /\ c \in Calls
    /\ pc[c] \in Statements \cup {"connect"} /\ c \notin left
    /\ left' = left \cup {c}
    /\ UNCHANGED <<vars, pc, call, answer, writer, draft>>

\* Slip of Rollback: a dropped transaction is put back into the pool open.
RollbackIfAnswered(c) ==
    /\ pc[c] = "rollback"
    /\ Release(c)
    /\ Goto(c, Last(c))
    /\ UNCHANGED <<vars, call, answer, left>>

\* The queued rollback of a failed or dropped call.
Rollback(c) ==
    /\ \/ pc[c] = "rollback"
       \/ c \in left /\ pc[c] \in Statements \cup {"connect"}
    /\ Release(c)
    /\ Goto(c, Last(c))
    /\ UNCHANGED <<vars, call, answer, left>>

Crash ==
    /\ \E c \in Callers : pc[c] \notin {"idle", "done"}
    /\ pc' = [c \in Callers |-> IF pc[c] = "idle" THEN "idle" ELSE Last(c)]
    /\ left' = left \cup Running
    /\ sweep' = NULL
    /\ writer' = NULL
    /\ draft' = Committed
    /\ UNCHANGED <<clock, invites, events, lastEvent, minted, call, answer>>

\* MaxDelay bounds the age of a stamp at its commit.
SqlitePassTime ==
    /\ \A c \in Running : clock < call[c].at + MaxDelay
    /\ PassTime
    /\ UNCHANGED sqlVars

---------------------------------------------------------------------------
Statement(c) ==
    \/ BeginDeferred(c) \/ BeginImmediate(c) \/ Select(c) \/ Insert(c) \/ Update(c)
    \/ AppendEvent(c) \/ Reread(c) \/ DeleteEvents(c) \/ DeleteRows(c)
    \/ Commit(c) \/ ReturnFalse(c)

SqliteNext ==
    \/ SqlitePassTime
    \/ \E c \in Calls : CallCreate(c) \/ CallSettle(c) \/ Leave(c)
    \/ CallCleanup
    \/ \E c \in Callers :
        \/ Connect(c) \/ Statement(c)
        \/ Fail(c) \/ FailToConnect(c) \/ Rollback(c)
    \/ Crash

SqliteSpec == SqliteInit /\ [][SqliteNext]_sqlAllVars

\* A statement ends, by its result, an error or the busy timeout, a wait for
\* the pool ends by its timeout, and a connection runs what is queued.
SqliteFairSpec ==
    /\ SqliteSpec
    /\ \A c \in Callers :
        /\ WF_sqlAllVars(Connect(c) \/ Statement(c) \/ Fail(c) \/ FailToConnect(c))
        /\ WF_sqlAllVars(Rollback(c))

---------------------------------------------------------------------------
(* Properties.                                                             *)

\* Every writer of invite_storage.rs is atomic: to everybody else it happens
\* at its commit, as the whole action of InviteStore or not at all, whatever
\* fails, leaves or crashes in between.
ImplementsStore == Spec

Redeemed(c) == \E i \in Invites : invites[i] # NULL /\ invites[i].consumedBy = c

\* What the answer of c says of its row.
AnswerTrue(c) ==
    LET i == call[c].invite
        row == invites[i]
    IN
    /\ call[c].kind = "consume" =>
        /\ answer[c] = "true" => row # NULL /\ row.consumedBy = c /\ row.consumedAt = call[c].at
        /\ answer[c] # "true" => ~Redeemed(c)
        /\ answer[c] = "false" => row = NULL \/ ~Consumable(row, call[c].at)
    /\ call[c].kind = "revoke" =>
        /\ answer[c] = "true" => row = NULL \/ row.revokedAt = call[c].at
        /\ answer[c] = "false" => row = NULL \/ ~Revocable(row)
    /\ call[c].kind = "create" => (i \in minted <=> answer[c] = "true")

\* A caller can rely on its answer for good.  After Ok(true) the row bears its
\* stamp, and its name if it is used; after Ok(false) its stamp will never do;
\* after an error nothing of it is in the database, or ever will be - which is
\* why the form handler may undo the account of a call that failed.
AnswersTrue == \A c \in Calls : answer[c] # "none" => AnswerTrue(c)

\* No transaction keeps the write lock, not one that failed, was dropped, or was
\* answered while its rollback was still queued: it is free again and again.
LockFreed == []<>(writer = NULL)

\* Every call that is not dropped is answered, with the pool exhausted and
\* the lock taken as well.
CallsAnswered ==
    \A c \in Calls : pc[c] = "connect" ~> answer[c] # "none" \/ c \in left

---------------------------------------------------------------------------
(* Why they hold: the inductive invariant.                                 *)

\* Statements that follow one that took the lock.
Locked == {"select", "update", "event", "reread", "delete_rows", "commit", "return_false"}

CallOf(c) ==
    /\ pc[c] = "idle" <=> call[c] = NULL
    /\ answer[c] # "none" => pc[c] \in {"rollback", "done"}
    /\ call[c] # NULL =>
        /\ call[c].at <= clock
        /\ pc[c] \in {"insert", "reread"} => Kind(c) = "create"
        /\ pc[c] \in {"select", "update", "return_false"} => Kind(c) # "create"
        /\ pc[c] \notin {"delete_events", "delete_rows"}
        /\ Kind(c) # "create" => call[c].invite \in minted

\* A call under way holds a stamp young enough; a create of its own name.
Timely(c) == c \in Running =>
    /\ clock <= call[c].at + MaxDelay
    /\ Kind(c) = "create" =>
        /\ call[c].invite \notin minted
        /\ call[c].groups # << >>
        /\ \E hours \in Lifetimes : hours >= 1 /\ call[c].expires = call[c].at + hours

NamesDrawnOnce ==
    /\ \A i \in Invites : invites[i] # NULL => i \in minted
    /\ \A c, d \in Calls :
        /\ call[c] # NULL /\ call[c].kind = "create"
        /\ call[d] # NULL /\ call[d].invite = call[c].invite
        => c = d \/ call[c].invite \in minted

NewRow(c) ==
    [groups |-> call[c].groups, createdAt |-> call[c].at, expiresAt |-> call[c].expires,
     consumedAt |-> NULL, consumedBy |-> NULL, revokedAt |-> NULL]
NewEvent(c) ==
    [id |-> lastEvent + 1, invite |-> call[c].invite, type |-> EventType[call[c].kind],
     at |-> call[c].at, actor |-> IF Kind(c) = "consume" THEN c ELSE NULL]

\* The draft is the database, changed by the statements that c has run.
Drafted(c) ==
    LET i == call[c].invite
        change == IF Kind(c) = "create" THEN NewRow(c) ELSE Updated(c, invites[i])
    IN
    /\ pc[c] \in {"select", "update", "return_false"} => draft = Committed
    /\ pc[c] \in {"update", "event", "commit"} /\ Kind(c) # "create" => Fits(c, invites[i])
    /\ pc[c] = "return_false" => ~Fits(c, invites[i])
    /\ pc[c] \in {"event", "reread", "commit"} =>
            draft.invites = [invites EXCEPT ![i] = change]
    /\ pc[c] = "event" => draft.events = events /\ draft.lastEvent = lastEvent
    /\ pc[c] \in {"reread", "commit"} =>
            /\ draft.events = events \cup {NewEvent(c)}
            /\ draft.lastEvent = lastEvent + 1

CleanupDrafted ==
    /\ pc[Task] \in {"delete_rows", "commit"} =>
            /\ draft.events = {e \in events : e.invite \notin StaleIn(invites)}
            /\ draft.lastEvent = lastEvent
    /\ pc[Task] = "delete_rows" => draft.invites = invites
    /\ pc[Task] = "commit" =>
            draft.invites = [i \in Invites |-> IF i \in StaleIn(invites) THEN NULL ELSE invites[i]]

LockInv ==
    /\ writer = NULL => draft = Committed
    /\ \A c \in Callers : pc[c] \in Locked => writer = c
    /\ \A c \in Callers : writer = c => pc[c] \in Locked \cup {"rollback"}

TaskInv ==
    /\ Task \notin left
    /\ pc[Task] \in {"idle", "connect", "begin", "delete_events", "delete_rows", "commit",
                    "rollback"}
    /\ pc[Task] \in Statements \cup {"connect"} => sweep # NULL

CallInv == \A c \in Calls : CallOf(c) /\ Timely(c)

DraftInv ==
    /\ \A c \in Calls : writer = c => Drafted(c)
    /\ writer = Task => CleanupDrafted

TransactionInv ==
    SqliteTypeOK /\ NamesDrawnOnce /\ LockInv /\ TaskInv /\ CallInv /\ DraftInv

\* Nothing of a call is in the database before it is answered or dropped.
Unheard ==
    \A c \in Calls : answer[c] = "none" /\ c \notin left =>
        /\ ~Redeemed(c)
        /\ call[c] # NULL /\ call[c].kind = "create" => call[c].invite \notin minted

AnswersInv == AnswersTrue /\ Unheard
===========================================================================
