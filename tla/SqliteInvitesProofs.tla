------------------------ MODULE SqliteInvitesProofs ------------------------
(* The statements of the repository's transactions add up to the actions of *)
(* InviteStore, for every number of callers, invitations and connections.   *)
EXTENDS SqliteInvites, InviteStoreProofs

---------------------------------------------------------------------------
(* Calls and rows.                                                         *)

LEMMA CallersApart == /\ NULL \notin Callers
                      /\ Task \notin Calls
                      /\ Calls \subseteq Users
                      /\ NULL \notin Call
BY SqliteAssumption DEF Callers

LEMMA CallFields ==
    ASSUME SqliteTypeOK, NEW c \in Calls, call[c] # NULL
    PROVE  /\ call[c] \in Call
           /\ call[c].kind \in {"create", "consume", "revoke"}
           /\ call[c].invite \in Invites
           /\ call[c].at \in Nat /\ call[c].expires \in Nat
           /\ call[c].groups \in GroupLists
           /\ Kind(c) = call[c].kind
BY CallersApart DEF SqliteTypeOK, Call, Kind

\* A call that is not idle has its arguments.
LEMMA CallGiven ==
    ASSUME CallInv, NEW c \in Calls, pc[c] # "idle"
    PROVE  call[c] # NULL
BY DEF CallInv, CallOf

LEMMA NewRowIsRow ==
    ASSUME SqliteTypeOK, NEW c \in Calls, call[c] # NULL
    PROVE  NewRow(c) \in Row
BY CallFields DEF NewRow, Row

LEMMA UpdatedIsRow ==
    ASSUME SqliteTypeOK, NEW c \in Calls, call[c] # NULL, NEW row \in Row
    PROVE  Updated(c, row) \in Row
<1>1. call[c].at \in Nat /\ c \in Users
    BY CallFields, CallersApart
<1>2. QED BY <1>1 DEF Updated, Row

LEMMA NewEventIsEvent ==
    ASSUME SqliteTypeOK, NEW c \in Calls, call[c] # NULL
    PROVE  /\ NewEvent(c) \in Event
           /\ NewEvent(c).id = lastEvent + 1
<1>1. lastEvent \in Nat
    BY DEF SqliteTypeOK, TypeOK
<1>2. /\ call[c].kind \in {"create", "consume", "revoke"}
      /\ call[c].invite \in Invites /\ call[c].at \in Nat /\ c \in Users
    BY CallFields, CallersApart
<1>3. EventType[call[c].kind] \in {"created", "consumed", "revoked"}
    BY <1>2 DEF EventType
<1>4. QED BY <1>1, <1>2, <1>3 DEF NewEvent, Event

LEMMA DraftFields ==
    ASSUME SqliteTypeOK
    PROVE  /\ draft.invites \in [Invites -> Row \cup {NULL}]
           /\ draft.events \subseteq Event
           /\ draft.lastEvent \in Nat
           /\ draft = [invites |-> draft.invites, events |-> draft.events,
                       lastEvent |-> draft.lastEvent]
BY DEF SqliteTypeOK, Tables

LEMMA CommittedIsTables == SqliteTypeOK => Committed \in Tables
BY DEF SqliteTypeOK, TypeOK, Committed, Tables

---------------------------------------------------------------------------
(* Types.                                                                  *)

\* What a commit makes of the three tables, for the calls and for the task.
LEMMA CommitTables ==
    ASSUME TransactionInv, NEW c \in Callers, Commit(c)
    PROVE  /\ invites' = draft.invites
           /\ events' = draft.events
           /\ lastEvent' = draft.lastEvent
           /\ \A e \in draft.events : e.id \in 1..draft.lastEvent
<1>1. writer = c /\ pc[c] = "commit"
    BY DEF Commit
<1>2. /\ lastEvent \in Nat
      /\ \A e \in events : e.id \in 1..lastEvent
    BY DEF TransactionInv, SqliteTypeOK, TypeOK
<1>3. CASE c = Task
    <2>1. /\ draft.events \subseteq events
          /\ draft.lastEvent = lastEvent
        BY <1>1, <1>3 DEF TransactionInv, DraftInv, CleanupDrafted
    <2>2. QED BY <1>2, <2>1 DEF Commit
<1>4. CASE c \in Calls
    <2>1. /\ draft.events = events \cup {NewEvent(c)}
          /\ draft.lastEvent = lastEvent + 1
        BY <1>1, <1>4 DEF TransactionInv, DraftInv, Drafted
    <2>2. call[c] # NULL
        BY <1>1, <1>4, CallGiven DEF TransactionInv
    <2>3. NewEvent(c).id = lastEvent + 1
        BY <1>4, <2>2, NewEventIsEvent DEF TransactionInv
    <2>4. \A e \in draft.events : e.id \in 1..draft.lastEvent
        BY <1>2, <2>1, <2>3
    <2>5. QED BY <2>4 DEF Commit
<1>5. QED BY <1>3, <1>4 DEF Callers

\* Writing one table of the draft.
LEMMA WriteInvites ==
    ASSUME draft \in Tables, NEW rows \in [Invites -> Row \cup {NULL}]
    PROVE  /\ [draft EXCEPT !.invites = rows] \in Tables
           /\ [draft EXCEPT !.invites = rows].invites = rows
           /\ [draft EXCEPT !.invites = rows].events = draft.events
           /\ [draft EXCEPT !.invites = rows].lastEvent = draft.lastEvent
BY DEF Tables

LEMMA WriteEvents ==
    ASSUME draft \in Tables, NEW told \in SUBSET Event, NEW last \in Nat
    PROVE  /\ [draft EXCEPT !.lastEvent = last, !.events = told] \in Tables
           /\ [draft EXCEPT !.lastEvent = last, !.events = told].invites = draft.invites
           /\ [draft EXCEPT !.lastEvent = last, !.events = told].events = told
           /\ [draft EXCEPT !.lastEvent = last, !.events = told].lastEvent = last
BY DEF Tables

\* The statements that write to the draft keep its type.
LEMMA DraftStep ==
    ASSUME TransactionInv, NEW c \in Callers,
           Insert(c) \/ Update(c) \/ AppendEvent(c) \/ DeleteEvents(c) \/ DeleteRows(c)
    PROVE  draft' \in Tables
<1> USE DEF TransactionInv
<1>1. /\ draft.invites \in [Invites -> Row \cup {NULL}]
      /\ draft.events \subseteq Event
      /\ draft.lastEvent \in Nat
      /\ draft \in Tables
    BY DraftFields DEF SqliteTypeOK
<1>2. (c \in Calls /\ call[c] # NULL) \/ c = Task
    BY CallGiven DEF Callers, CallInv, Insert, Update, AppendEvent, DeleteEvents, DeleteRows, Run
<1>3. CASE Insert(c)
    <2>1. c \in Calls
        BY <1>3 DEF Callers, TaskInv, Insert, Run
    <2>2. call[c] # NULL /\ NewRow(c) \in Row /\ call[c].invite \in Invites
        BY <1>2, <2>1, CallersApart, NewRowIsRow, CallFields
    <2>3. draft' = [draft EXCEPT !.invites = [draft.invites EXCEPT ![call[c].invite] = NewRow(c)]]
        BY <1>3 DEF Insert, NewRow
    <2>4. [draft.invites EXCEPT ![call[c].invite] = NewRow(c)] \in [Invites -> Row \cup {NULL}]
        BY <1>1, <2>2
    <2>5. QED BY <1>1, <2>3, <2>4, WriteInvites
<1>4. CASE Update(c)
    <2>1. c \in Calls
        BY <1>4 DEF Callers, TaskInv, Update, Run
    <2>2. call[c] # NULL /\ call[c].invite \in Invites
        BY <1>2, <2>1, CallersApart, CallFields
    <2>3. pc[c] = "update" /\ writer = c
        BY <1>4 DEF Update, Run, LockInv, Locked
    <2>4. draft.invites = invites /\ Fits(c, invites[call[c].invite])
        <3>1. Drafted(c) /\ Kind(c) # "create"
            BY <2>1, <2>2, <2>3 DEF DraftInv, CallInv, CallOf
        <3>2. draft = Committed /\ Fits(c, invites[call[c].invite])
            BY <2>3, <3>1 DEF Drafted
        <3>3. QED BY <3>2 DEF Committed
    <2>5. draft.invites[call[c].invite] \in Row
        BY <1>1, <2>2, <2>4 DEF Fits
    <2>6. Updated(c, draft.invites[call[c].invite]) \in Row
        BY <2>1, <2>2, <2>5, UpdatedIsRow
    <2>7. draft' = [draft EXCEPT !.invites =
            [draft.invites EXCEPT ![call[c].invite] = Updated(c, draft.invites[call[c].invite])]]
        BY <1>4 DEF Update
    <2>8. [draft.invites EXCEPT ![call[c].invite] = Updated(c, draft.invites[call[c].invite])]
                \in [Invites -> Row \cup {NULL}]
        BY <1>1, <2>2, <2>6
    <2>9. QED BY <1>1, <2>7, <2>8, WriteInvites
<1>5. CASE AppendEvent(c)
    <2>1. c \in Calls
        BY <1>5 DEF Callers, TaskInv, AppendEvent, Run
    <2>2. /\ call[c].kind \in {"create", "consume", "revoke"}
          /\ call[c].invite \in Invites /\ call[c].at \in Nat /\ c \in Users
        BY <1>2, <2>1, CallersApart, CallFields
    <2> DEFINE e == [id |-> draft.lastEvent + 1, invite |-> call[c].invite,
                     type |-> EventType[call[c].kind], at |-> call[c].at,
                     actor |-> IF Kind(c) = "consume" THEN c ELSE NULL]
    <2>3. e \in Event
        BY <1>1, <2>2 DEF EventType, Event
    <2>4. draft' = [draft EXCEPT !.lastEvent = draft.lastEvent + 1,
                                 !.events = draft.events \cup {e}]
        BY <1>5 DEF AppendEvent
    <2> HIDE DEF e
    <2>5. draft.events \cup {e} \in SUBSET Event /\ draft.lastEvent + 1 \in Nat
        BY <1>1, <2>3
    <2>6. QED BY <1>1, <2>4, <2>5, WriteEvents
<1>6. CASE DeleteEvents(c)
    BY <1>1, <1>6 DEF DeleteEvents, Tables
<1>7. CASE DeleteRows(c)
    <2>1. draft' = [draft EXCEPT !.invites =
            [i \in Invites |-> IF i \in StaleIn(draft.invites) THEN NULL ELSE draft.invites[i]]]
        BY <1>7 DEF DeleteRows
    <2>2. QED BY <1>1, <2>1 DEF Tables
<1>8. QED BY <1>3, <1>4, <1>5, <1>6, <1>7

---------------------------------------------------------------------------
(* Every step is a step of InviteStore, or changes nothing there.          *)

LEMMA CommitOfCall ==
    ASSUME TransactionInv, NEW c \in Calls, Commit(c)
    PROVE  GenerateInvite(call[c].invite) \/ Consume(call[c].invite) \/ RevokeInvite(call[c].invite)
<1> USE DEF TransactionInv
<1> DEFINE i == call[c].invite
<1>1. writer = c /\ pc[c] = "commit" /\ c # Task
    BY CallersApart DEF Commit
<1>2. call[c] # NULL
    BY <1>1, CallGiven
<1>3. /\ i \in Invites /\ c \in Users /\ Kind(c) = call[c].kind
      /\ call[c].kind \in {"create", "consume", "revoke"}
      /\ call[c].groups \in GroupLists
      /\ call[c].at \in Nat
    BY <1>2, CallFields, CallersApart
<1>4. call[c].at \in Stamps
    <2>1. call[c].at <= clock /\ clock <= call[c].at + MaxDelay
        BY <1>1, <1>2 DEF CallInv, CallOf, Timely, Running, Statements
    <2>2. QED BY <1>3, <2>1 DEF Stamps, SqliteTypeOK, TypeOK
<1>5. Drafted(c)
    BY <1>1 DEF DraftInv
<1>6. /\ events' = events \cup {NewEvent(c)}
      /\ lastEvent' = lastEvent + 1
      /\ clock' = clock /\ sweep' = sweep
    BY <1>1, <1>5 DEF Commit, Drafted
<1>7. CASE call[c].kind = "create"
    <2>1. /\ i \notin minted
          /\ call[c].groups # << >>
          /\ \E hours \in Lifetimes : hours >= 1 /\ call[c].expires = call[c].at + hours
        BY <1>1, <1>3, <1>7 DEF CallInv, Timely, Running, Statements
    <2>2. PICK hours \in Lifetimes : hours >= 1 /\ call[c].expires = call[c].at + hours
        BY <2>1
    <2>3. invites' = [invites EXCEPT ![i] = NewRow(c)]
        BY <1>1, <1>3, <1>5, <1>7 DEF Commit, Drafted
    <2>4. minted' = minted \cup {i}
        BY <1>1, <1>3, <1>7 DEF Commit
    <2>5. InsertEvent(i, "created", call[c].at, NULL)
        BY <1>3, <1>6, <1>7 DEF InsertEvent, NewEvent, EventType
    <2>6. CreateInvite(i, call[c].groups, call[c].at, call[c].at + hours, NULL)
        BY <1>6, <2>1, <2>2, <2>3, <2>4, <2>5 DEF CreateInvite, NewRow
    <2>7. QED BY <1>3, <1>4, <2>1, <2>2, <2>6 DEF GenerateInvite
<1>8. ASSUME call[c].kind # "create"
      PROVE  /\ invites[i] # NULL /\ Fits(c, invites[i])
             /\ invites' = [invites EXCEPT ![i] = Updated(c, invites[i])]
             /\ minted' = minted
    <2>1. Fits(c, invites[i]) /\ draft.invites = [invites EXCEPT ![i] = Updated(c, invites[i])]
        BY <1>1, <1>3, <1>5, <1>8 DEF Drafted
    <2>2. QED BY <1>1, <1>3, <1>8, <2>1 DEF Commit, Fits
<1>9. CASE call[c].kind = "consume"
    <2>1. Consumable(invites[i], call[c].at)
        BY <1>3, <1>8, <1>9 DEF Fits
    <2>2. invites' = [invites EXCEPT ![i].consumedAt = call[c].at, ![i].consumedBy = c]
        BY <1>3, <1>8, <1>9 DEF Updated, SqliteTypeOK, TypeOK
    <2>3. InsertEvent(i, "consumed", call[c].at, c)
        BY <1>3, <1>6, <1>9 DEF InsertEvent, NewEvent, EventType
    <2>4. ConsumeInvite(i, call[c].at, c)
        BY <1>6, <1>8, <1>9, <2>1, <2>2, <2>3 DEF ConsumeInvite
    <2>5. QED BY <1>3, <1>4, <2>4 DEF Consume
<1>10. CASE call[c].kind = "revoke"
    <2>1. Revocable(invites[i])
        BY <1>3, <1>8, <1>10 DEF Fits
    <2>2. invites' = [invites EXCEPT ![i].revokedAt = call[c].at]
        BY <1>3, <1>8, <1>10 DEF Updated, SqliteTypeOK, TypeOK
    <2>3. InsertEvent(i, "revoked", call[c].at, NULL)
        BY <1>3, <1>6, <1>10 DEF InsertEvent, NewEvent, EventType
    <2>4. QED BY <1>4, <1>6, <1>8, <1>10, <2>1, <2>2, <2>3 DEF RevokeInvite
<1>11. QED BY <1>3, <1>7, <1>9, <1>10

LEMMA CommitOfTask == ASSUME TransactionInv, Commit(Task) PROVE SweepRun
<1> USE DEF TransactionInv
<1>1. writer = Task /\ pc[Task] = "commit"
    BY DEF Commit
<1>2. sweep # NULL
    BY <1>1 DEF TaskInv, Statements
<1>3. CleanupDrafted
    BY <1>1 DEF DraftInv
<1>4. /\ invites' = [i \in Invites |-> IF i \in StaleIn(invites) THEN NULL ELSE invites[i]]
      /\ events' = {e \in events : e.invite \notin StaleIn(invites)}
      /\ lastEvent' = lastEvent /\ sweep' = NULL
      /\ clock' = clock /\ minted' = minted
    BY <1>1, <1>3 DEF Commit, CleanupDrafted, Kind
<1>5. QED BY <1>2, <1>4 DEF SweepRun, CleanupStale, StaleInvites, StaleIn

LEMMA StoreStep == TransactionInv /\ [SqliteNext]_sqlAllVars => [Next]_vars
<1> SUFFICES ASSUME TransactionInv, [SqliteNext]_sqlAllVars PROVE [Next]_vars
    OBVIOUS
<1> USE DEF TransactionInv
<1>1. CASE SqlitePassTime
    BY <1>1 DEF SqlitePassTime, Next
<1>2. ASSUME NEW c \in Calls, CallCreate(c) \/ CallSettle(c) \/ Leave(c) PROVE UNCHANGED vars
    BY <1>2 DEF CallCreate, CallSettle, Leave, Start
<1>3. CASE CallCleanup
    BY <1>3 DEF CallCleanup, Next
<1>4. ASSUME NEW c \in Callers, Statement(c), ~Commit(c) PROVE UNCHANGED vars
    BY <1>4 DEF Statement, BeginDeferred, BeginImmediate, Select, Insert, Update, AppendEvent,
                Reread, DeleteEvents, DeleteRows, ReturnFalse, Run
<1>5. ASSUME NEW c \in Callers, Commit(c) PROVE Next
    <2>1. CASE c \in Calls
        <3>1. call[c].invite \in Invites
            BY <1>5, <2>1, CallGiven, CallFields DEF Commit
        <3>2. QED BY <1>5, <2>1, <3>1, CommitOfCall DEF Next
    <2>2. CASE c = Task
        BY <1>5, <2>2, CommitOfTask DEF Next
    <2>3. QED BY <2>1, <2>2 DEF Callers
<1>6. ASSUME NEW c \in Callers, Connect(c) \/ Rollback(c) PROVE UNCHANGED vars
    BY <1>6 DEF Connect, Rollback
<1>7. ASSUME NEW c \in Callers, Fail(c) \/ FailToConnect(c) PROVE SweepAborts \/ UNCHANGED vars
    <2>1. CASE c = Task
        BY <1>7, <2>1 DEF Fail, FailToConnect, TaskInv, SweepAborts
    <2>2. CASE c # Task
        BY <1>7, <2>2 DEF Fail, FailToConnect, vars
    <2>3. QED BY <2>1, <2>2
<1>8. CASE Crash
    BY <1>8 DEF Crash, SweepAborts, Next, vars
<1>9. CASE UNCHANGED sqlAllVars
    BY <1>9 DEF sqlAllVars
<1>10. QED BY <1>1, <1>2, <1>3, <1>4, <1>5, <1>6, <1>7, <1>8, <1>9 DEF SqliteNext, Next

---------------------------------------------------------------------------
(* What a step of a caller leaves alone.                                   *)

CallerStep(c) ==
    Connect(c) \/ Statement(c) \/ Fail(c) \/ FailToConnect(c) \/ Rollback(c)

Labels == Statements \cup {"idle", "connect", "rollback", "done"}

LEMMA OnlyItsOwn ==
    ASSUME SqliteTypeOK, NEW c \in Callers, CallerStep(c)
    PROVE  /\ \E label \in Labels : pc' = [pc EXCEPT ![c] = label]
           /\ \A d \in Callers \ {c} : pc'[d] = pc[d]
           /\ call' = call
           /\ answer' \in [Calls -> {"none", "true", "false", "error"}]
           /\ \A d \in Calls \ {c} : answer'[d] = answer[d]
           /\ left' \in {left, left \ {Task}}
           /\ clock' = clock
<1> USE DEF Labels, Statements
<1>1. \E label \in Labels : pc' = [pc EXCEPT ![c] = label]
    BY DEF CallerStep, Statement, Connect, BeginDeferred, BeginImmediate, Select, Insert, Update,
           AppendEvent, Reread, DeleteEvents, DeleteRows, Commit, ReturnFalse, Fail,
           FailToConnect, Rollback, Goto, Last
<1>2. /\ \/ UNCHANGED <<answer, left>>
         \/ \E result \in {"true", "false", "error"} : Return(c, result)
      /\ call' = call
      /\ clock' = clock
    BY DEF CallerStep, Statement, Connect, BeginDeferred, BeginImmediate, Select, Insert, Update,
           AppendEvent, Reread, DeleteEvents, DeleteRows, Commit, ReturnFalse, Fail,
           FailToConnect, Rollback, Return, Run, vars
<1>3. /\ answer' \in [Calls -> {"none", "true", "false", "error"}]
      /\ \A d \in Calls \ {c} : answer'[d] = answer[d]
      /\ left' \in {left, left \ {Task}}
    BY <1>2 DEF Return, SqliteTypeOK
<1>4. \A d \in Callers \ {c} : pc'[d] = pc[d]
    BY <1>1 DEF SqliteTypeOK
<1>5. QED BY <1>1, <1>2, <1>3, <1>4

\* What a new call is.
LEMMA StartIsCall ==
    ASSUME TransactionInv, NEW c \in Calls, CallCreate(c) \/ CallSettle(c)
    PROVE  \E new \in Call :
           /\ pc[c] = "idle"
           /\ call' = [call EXCEPT ![c] = new]
           /\ pc' = [pc EXCEPT ![c] = "connect"]
           /\ new.at = clock
           /\ \/ /\ new.kind = "create"
                 /\ new.invite \notin minted
                 /\ \A d \in Calls : call[d] # NULL => call[d].invite # new.invite
                 /\ new.groups # << >>
                 /\ \E hours \in Lifetimes : hours >= 1 /\ new.expires = new.at + hours
              \/ new.kind # "create" /\ new.invite \in minted
           /\ UNCHANGED <<vars, answer, left, writer, draft>>
<1>1. clock \in Nat /\ minted \subseteq Invites
    BY DEF TransactionInv, SqliteTypeOK, TypeOK
<1>2. CASE CallCreate(c)
    <2>1. PICK i \in Invites \ minted, groups \in GroupLists, hours \in Lifetimes :
            /\ \A d \in Calls : call[d] # NULL => call[d].invite # i
            /\ groups # << >>
            /\ hours >= 1
            /\ Start(c, "create", i, clock, groups, clock + hours)
        BY <1>2 DEF CallCreate
    <2> DEFINE new == [kind |-> "create", invite |-> i, at |-> clock,
                       groups |-> groups, expires |-> clock + hours]
    <2>2. clock + hours \in Nat
        BY <1>1, <2>1, StoreAssumption
    <2>3. new \in Call
        BY <1>1, <2>1, <2>2 DEF Call
    <2>4. /\ pc[c] = "idle"
          /\ call' = [call EXCEPT ![c] = new]
          /\ pc' = [pc EXCEPT ![c] = "connect"]
          /\ UNCHANGED <<vars, answer, left, writer, draft>>
        BY <2>1 DEF Start, Goto
    <2>5. QED BY <2>1, <2>3, <2>4
<1>3. CASE CallSettle(c)
    <2>1. PICK kind \in {"consume", "revoke"}, i \in minted, groups \in GroupLists :
            Start(c, kind, i, clock, groups, clock)
        BY <1>3 DEF CallSettle
    <2> DEFINE new == [kind |-> kind, invite |-> i, at |-> clock,
                       groups |-> groups, expires |-> clock]
    <2>2. new \in Call
        BY <1>1 DEF Call
    <2>3. /\ pc[c] = "idle"
          /\ call' = [call EXCEPT ![c] = new]
          /\ pc' = [pc EXCEPT ![c] = "connect"]
          /\ UNCHANGED <<vars, answer, left, writer, draft>>
        BY <2>1 DEF Start, Goto
    <2>4. new.kind # "create"
        OBVIOUS
    <2>5. QED BY <2>2, <2>3, <2>4
<1>4. QED BY <1>2, <1>3

LEMMA SqliteTypeStep == TransactionInv /\ [SqliteNext]_sqlAllVars => SqliteTypeOK'
<1> SUFFICES ASSUME TransactionInv, [SqliteNext]_sqlAllVars PROVE SqliteTypeOK'
    OBVIOUS
<1>1. SqliteTypeOK /\ TypeOK'
    BY StoreStep, NextIsMove, TypeStep DEF TransactionInv, SqliteTypeOK
<1>2. CASE SqlitePassTime \/ CallCleanup \/ UNCHANGED sqlAllVars
    BY <1>1, <1>2 DEF SqlitePassTime, CallCleanup, Goto, sqlVars, sqlAllVars, SqliteTypeOK
<1>3. ASSUME NEW c \in Calls, CallCreate(c) \/ CallSettle(c) PROVE SqliteTypeOK'
    <2>1. PICK new \in Call :
           /\ call' = [call EXCEPT ![c] = new]
           /\ pc' = [pc EXCEPT ![c] = "connect"]
           /\ UNCHANGED <<vars, answer, left, writer, draft>>
        BY <1>3, StartIsCall
    <2>2. QED BY <1>1, <2>1 DEF SqliteTypeOK
<1>4. ASSUME NEW c \in Calls, Leave(c) PROVE SqliteTypeOK'
    BY <1>1, <1>4 DEF Leave, SqliteTypeOK, Callers
<1>5. ASSUME NEW c \in Callers, CallerStep(c) PROVE SqliteTypeOK'
    <2>1. /\ pc' \in [Callers -> Labels]
          /\ call' \in [Calls -> Call \cup {NULL}]
          /\ answer' \in [Calls -> {"none", "true", "false", "error"}]
          /\ left' \subseteq Callers
        BY <1>1, <1>5, OnlyItsOwn DEF SqliteTypeOK, Labels
    <2>2. writer' \in Callers \cup {NULL}
        BY <1>1, <1>5
           DEF CallerStep, Statement, Connect, BeginDeferred, BeginImmediate, Select, Insert, Update,
               AppendEvent, Reread, DeleteEvents, DeleteRows, Commit, ReturnFalse, Fail,
               FailToConnect, Rollback, Run, Release, SqliteTypeOK
    <2>3. draft' \in Tables
        <3>1. CASE Insert(c) \/ Update(c) \/ AppendEvent(c) \/ DeleteEvents(c) \/ DeleteRows(c)
            BY <3>1, DraftStep
        <3>2. CASE Rollback(c) \/ ReturnFalse(c)
            BY <1>1, <3>2, CommittedIsTables DEF Rollback, ReturnFalse, Release, SqliteTypeOK
        <3>3. CASE Connect(c) \/ BeginDeferred(c) \/ BeginImmediate(c) \/ Select(c) \/ Reread(c)
                    \/ Commit(c) \/ Fail(c) \/ FailToConnect(c)
            BY <1>1, <3>3 DEF Connect, BeginDeferred, BeginImmediate, Select, Reread, Commit,
                              Fail, FailToConnect, SqliteTypeOK
        <3>4. QED BY <1>5, <3>1, <3>2, <3>3 DEF CallerStep, Statement
    <2>4. QED BY <1>1, <2>1, <2>2, <2>3 DEF SqliteTypeOK, Labels
<1>6. CASE Crash
    BY <1>1, <1>6, CommittedIsTables DEF Crash, Last, Running, Callers, Statements, SqliteTypeOK
<1>7. QED BY <1>2, <1>3, <1>4, <1>5, <1>6 DEF SqliteNext, CallerStep

---------------------------------------------------------------------------
(* The lock, the task and the calls.                                       *)

LEMMA LockStep == TransactionInv /\ [SqliteNext]_sqlAllVars => LockInv'
<1> SUFFICES ASSUME TransactionInv, [SqliteNext]_sqlAllVars PROVE LockInv'
    OBVIOUS
<1> USE CallersApart
<1>1. SqliteTypeOK /\ LockInv
    BY DEF TransactionInv
<1>2. CASE SqlitePassTime \/ UNCHANGED sqlAllVars
    BY <1>1, <1>2 DEF SqlitePassTime, PassTime, sqlVars, sqlAllVars, vars, LockInv, Committed
<1>3. ASSUME NEW c \in Callers, pc[c] = "idle", pc' = [pc EXCEPT ![c] = "connect"],
             UNCHANGED <<invites, events, lastEvent, writer, draft>>
      PROVE  LockInv'
    BY <1>1, <1>3 DEF LockInv, Locked, Committed, SqliteTypeOK
<1>4. ASSUME NEW c \in Calls, CallCreate(c) \/ CallSettle(c) PROVE LockInv'
    BY <1>3, <1>4, StartIsCall DEF Callers, vars
<1>5. CASE CallCleanup
    BY <1>3, <1>5 DEF CallCleanup, SweepTick, Goto, Callers
<1>6. ASSUME NEW c \in Calls, Leave(c) PROVE LockInv'
    BY <1>1, <1>6 DEF Leave, vars, LockInv, Committed
<1>7. ASSUME NEW c \in Callers, CallerStep(c) PROVE LockInv'
    <2>1. \A d \in Callers \ {c} : pc'[d] = pc[d]
        BY <1>1, <1>7, OnlyItsOwn
    <2>2. CASE Connect(c) \/ BeginDeferred(c) \/ FailToConnect(c)
        <3>1. pc[c] \notin Locked \cup {"rollback"} /\ pc'[c] \notin Locked
            BY <1>1, <2>2 DEF Connect, BeginDeferred, FailToConnect, Goto, Last, Locked, SqliteTypeOK
        <3>2. UNCHANGED <<invites, events, lastEvent, writer, draft>>
            BY <2>2 DEF Connect, BeginDeferred, FailToConnect, vars
        <3>3. QED BY <1>1, <2>1, <3>1, <3>2 DEF LockInv, Committed
    <2>3. ASSUME pc'[c] \in Locked, writer \in {c, NULL}, writer' = c PROVE LockInv'
        BY <1>1, <2>1, <2>3 DEF LockInv
    <2>4. CASE BeginImmediate(c) \/ Select(c) \/ Insert(c) \/ Update(c) \/ AppendEvent(c)
                    \/ Reread(c) \/ DeleteEvents(c) \/ DeleteRows(c)
        <3>1. pc'[c] \in Locked
            BY <1>1, <2>4 DEF BeginImmediate, Select, Insert, Update, AppendEvent, Reread,
                              DeleteEvents, DeleteRows, Goto, Locked, SqliteTypeOK
        <3>2. writer \in {c, NULL} /\ writer' = c
            BY <2>4 DEF BeginImmediate, Select, Insert, Update, AppendEvent, Reread,
                        DeleteEvents, DeleteRows, Run
        <3>3. QED BY <2>3, <3>1, <3>2
    <2>5. CASE Commit(c)
        <3>1. writer = c /\ writer' = NULL /\ pc'[c] \notin Locked
            BY <1>1, <2>5 DEF Commit, Goto, Last, Locked, SqliteTypeOK
        <3>2. draft' = Committed'
            BY <1>1, <2>5, DraftFields DEF Commit, Committed
        <3>3. QED BY <1>1, <2>1, <3>1, <3>2 DEF LockInv
    <2>6. CASE ReturnFalse(c) \/ Rollback(c)
        <3>1. pc'[c] \notin Locked \cup {"rollback"}
            BY <1>1, <2>6 DEF ReturnFalse, Rollback, Goto, Last, Locked, SqliteTypeOK
        <3>2. UNCHANGED <<invites, events, lastEvent>> /\ Release(c)
            BY <2>6 DEF ReturnFalse, Rollback, vars
        <3>3. CASE writer = c
            BY <1>1, <2>1, <3>1, <3>2, <3>3 DEF LockInv, Release, Committed
        <3>4. CASE writer # c
            BY <1>1, <2>1, <3>1, <3>2, <3>4 DEF LockInv, Release, Committed
        <3>5. QED BY <3>3, <3>4
    <2>7. CASE Fail(c)
        <3>1. pc'[c] = "rollback" /\ UNCHANGED <<invites, events, lastEvent, writer, draft>>
            BY <1>1, <2>7 DEF Fail, Goto, SqliteTypeOK
        <3>2. QED BY <1>1, <2>1, <3>1 DEF LockInv, Locked, Committed
    <2>8. QED BY <1>7, <2>2, <2>4, <2>5, <2>6, <2>7 DEF CallerStep, Statement
<1>8. CASE Crash
    <2>1. \A c \in Callers : pc'[c] \in {"idle", "done"}
        BY <1>1, <1>8 DEF Crash, Last, SqliteTypeOK
    <2>2. writer' = NULL /\ draft' = Committed'
        BY <1>8 DEF Crash, Committed
    <2>3. QED BY <2>1, <2>2 DEF LockInv, Locked
<1>9. QED BY <1>2, <1>4, <1>5, <1>6, <1>7, <1>8 DEF SqliteNext, CallerStep

LEMMA TaskStep == TransactionInv /\ [SqliteNext]_sqlAllVars => TaskInv'
<1> SUFFICES ASSUME TransactionInv, [SqliteNext]_sqlAllVars PROVE TaskInv'
    OBVIOUS
<1> USE CallersApart
<1>1. SqliteTypeOK /\ TaskInv /\ Task \in Callers /\ Kind(Task) = "cleanup"
    BY DEF TransactionInv, Callers, Kind
<1>2. CASE SqlitePassTime \/ UNCHANGED sqlAllVars
    BY <1>1, <1>2 DEF SqlitePassTime, PassTime, sqlVars, sqlAllVars, vars, TaskInv
<1>3. ASSUME NEW c \in Calls, CallCreate(c) \/ CallSettle(c) PROVE TaskInv'
    <2>1. /\ pc' = [pc EXCEPT ![c] = "connect"]
          /\ UNCHANGED <<sweep, left>>
        BY <1>3, StartIsCall DEF vars
    <2>2. QED BY <1>1, <2>1 DEF TaskInv, SqliteTypeOK
<1>4. CASE CallCleanup
    BY <1>1, <1>4, StoreAssumption
       DEF CallCleanup, SweepTick, Goto, TaskInv, SqliteTypeOK, TypeOK
<1>5. ASSUME NEW c \in Calls, Leave(c) PROVE TaskInv'
    BY <1>1, <1>5 DEF Leave, vars, TaskInv
<1>6. ASSUME NEW c \in Callers, c # Task, CallerStep(c) PROVE TaskInv'
    <2>1. pc'[Task] = pc[Task] /\ Task \notin left'
        BY <1>1, <1>6, OnlyItsOwn DEF TaskInv
    <2>2. sweep' = sweep
        BY <1>6 DEF CallerStep, Statement, Connect, BeginDeferred, BeginImmediate, Select, Insert,
                    Update, AppendEvent, Reread, DeleteEvents, DeleteRows, Commit, ReturnFalse,
                    Fail, FailToConnect, Rollback, Run, vars
    <2>3. QED BY <1>1, <2>1, <2>2 DEF TaskInv
<1>7. CASE CallerStep(Task)
    <2>1. Task \notin left'
        BY <1>1, <1>7, OnlyItsOwn DEF TaskInv
    <2>2. CASE Connect(Task) \/ BeginDeferred(Task) \/ DeleteEvents(Task) \/ DeleteRows(Task)
        BY <1>1, <2>1, <2>2 DEF Connect, BeginDeferred, DeleteEvents, DeleteRows, Run, Goto, vars,
                                TaskInv, Statements, SqliteTypeOK
    <2>3. CASE Commit(Task) \/ Fail(Task) \/ FailToConnect(Task) \/ Rollback(Task)
        <3>1. pc'[Task] \in {"idle", "rollback"}
            BY <1>1, <2>3 DEF Commit, Fail, FailToConnect, Rollback, Goto, Last, SqliteTypeOK
        <3>2. QED BY <2>1, <3>1 DEF TaskInv, Statements
    <2>4. ~(BeginImmediate(Task) \/ Select(Task) \/ Insert(Task) \/ Update(Task)
                \/ AppendEvent(Task) \/ Reread(Task) \/ ReturnFalse(Task))
        BY <1>1 DEF TaskInv, BeginImmediate, Select, Insert, Update, AppendEvent, Reread,
                    ReturnFalse, Run
    <2>5. QED BY <1>7, <2>2, <2>3, <2>4 DEF CallerStep, Statement
<1>8. CASE Crash
    BY <1>1, <1>8 DEF Crash, Last, Running, Statements, TaskInv
<1>9. QED BY <1>2, <1>3, <1>4, <1>5, <1>6, <1>7, <1>8 DEF SqliteNext, CallerStep

\* A step of c draws no name, or c commits the one it has drawn.
LEMMA MintedBy ==
    ASSUME TransactionInv, NEW c \in Callers, CallerStep(c)
    PROVE  \/ minted' = minted
           \/ /\ c \in Calls /\ pc[c] = "commit" /\ Kind(c) = "create"
              /\ pc'[c] = "done"
              /\ minted' = minted \cup {call[c].invite}
<1> USE CallersApart
<1>1. CASE Commit(c)
    BY <1>1 DEF Commit, Callers, Kind, Goto, Last, TransactionInv, SqliteTypeOK
<1>2. CASE ~Commit(c)
    BY <1>2 DEF CallerStep, Statement, Connect, BeginDeferred, BeginImmediate, Select, Insert,
                Update, AppendEvent, Reread, DeleteEvents, DeleteRows, ReturnFalse,
                Fail, FailToConnect, Rollback, Run, vars
<1>3. QED BY <1>1, <1>2

\* A call that a step does not touch keeps what is known of it.
LEMMA CallKept ==
    ASSUME NEW d \in Calls, CallOf(d), Timely(d), d # Task,
           pc'[d] = pc[d], call'[d] = call[d], answer'[d] = answer[d], clock' = clock,
           minted \subseteq minted',
           d \in Running /\ Kind(d) = "create" => call[d].invite \notin minted'
    PROVE  CallOf(d)' /\ Timely(d)'
<1>1. Kind(d)' = Kind(d) /\ (d \in Running)' = (d \in Running)
    BY DEF Kind, Running
<1>2. CallOf(d)'
    BY <1>1 DEF CallOf
<1>3. Timely(d)'
    BY <1>1 DEF Timely
<1>4. QED BY <1>2, <1>3

\* A call goes on: another statement, or an end.
LEMMA CallGoesOn ==
    ASSUME TransactionInv, NEW c \in Calls, CallerStep(c)
    PROVE  CallOf(c)' /\ Timely(c)'
<1> USE CallersApart DEF TransactionInv, Statements
<1>1. /\ call' = call /\ clock' = clock /\ c \in Callers /\ c # Task
      /\ Kind(c)' = Kind(c)
    BY OnlyItsOwn DEF Callers, Kind
<1>2. pc[c] # "idle" /\ call[c] # NULL
    BY CallGiven DEF CallerStep, Statement, Connect, BeginDeferred, BeginImmediate, Select, Insert,
           Update, AppendEvent, Reread, DeleteEvents, DeleteRows, Commit, ReturnFalse, Fail,
           FailToConnect, Rollback, Run, CallInv, CallOf
<1>3. /\ CallOf(c) /\ Timely(c)
      /\ Kind(c) \in {"create", "consume", "revoke"}
    BY <1>2, CallFields DEF CallInv
<1>4. minted \subseteq minted'
    BY <1>1, MintedBy
<1>5. CASE pc'[c] \in {"rollback", "done"}
    <2>1. CallOf(c)'
        BY <1>1, <1>2, <1>3, <1>4, <1>5 DEF CallOf
    <2>2. Timely(c)'
        BY <1>5 DEF Timely, Running
    <2>3. QED BY <2>1, <2>2
<1>6. CASE ~(pc'[c] \in {"rollback", "done"})
    <2>1. Connect(c) \/ BeginDeferred(c) \/ BeginImmediate(c) \/ Select(c) \/ Insert(c)
            \/ Update(c) \/ AppendEvent(c) \/ Reread(c) \/ DeleteEvents(c) \/ DeleteRows(c)
        BY <1>1, <1>6 DEF CallerStep, Statement, Commit, ReturnFalse, Fail, FailToConnect, Rollback,
                          Goto, Last, SqliteTypeOK
    <2>2. /\ answer' = answer /\ minted' = minted
          /\ c \in Running
        BY <2>1 DEF Connect, BeginDeferred, BeginImmediate, Select, Insert, Update, AppendEvent,
                    Reread, DeleteEvents, DeleteRows, Run, vars, Running
    <2>3. pc[c] \notin {"delete_events", "delete_rows"}
        BY <1>2, <1>3, <2>1 DEF CallOf, CallInv, TaskInv, DeleteEvents, Run
    <2>4. pc'[c] \in {"begin", "select", "insert", "reread", "update", "event", "commit", "return_false"}
        BY <1>1, <2>1, <2>3
           DEF Connect, BeginDeferred, BeginImmediate, Select, Insert, Update, AppendEvent,
               Reread, DeleteEvents, DeleteRows, Run, Goto, SqliteTypeOK
    <2>5. /\ pc'[c] \in {"insert", "reread"} => Kind(c) = "create"
          /\ pc'[c] \in {"select", "update", "return_false"} => Kind(c) # "create"
        BY <1>1, <1>2, <1>3, <2>1
           DEF CallOf, Connect, BeginDeferred, BeginImmediate, Select, Insert, Update, AppendEvent,
               Reread, DeleteEvents, DeleteRows, Run, Goto, SqliteTypeOK
    <2>6. answer[c] = "none"
        BY <1>3, <2>2 DEF CallOf, Running
    <2>7. CallOf(c)'
        BY <1>1, <1>2, <1>3, <1>4, <2>2, <2>4, <2>5, <2>6 DEF CallOf
    <2>8. Timely(c)'
        BY <1>1, <1>3, <2>2 DEF Timely
    <2>9. QED BY <2>7, <2>8
<1>7. QED BY <1>5, <1>6

LEMMA CallStep == TransactionInv /\ [SqliteNext]_sqlAllVars => CallInv'
<1> SUFFICES ASSUME TransactionInv, [SqliteNext]_sqlAllVars, NEW d \in Calls
             PROVE  CallOf(d)' /\ Timely(d)'
    BY DEF CallInv
<1> USE CallersApart
<1>1. /\ SqliteTypeOK /\ CallOf(d) /\ Timely(d)
      /\ d \in Callers /\ d # Task
    BY DEF TransactionInv, CallInv, Callers
<1>2. /\ clock \in Nat /\ MaxDelay \in Nat
      /\ call[d] # NULL => call[d] \in Call /\ call[d].at \in Nat
    BY <1>1, CallFields, StoreAssumption DEF SqliteTypeOK, TypeOK
<1>3. d \in Running /\ Kind(d) = "create" => call[d].invite \notin minted
    BY <1>1 DEF Timely
<1>4. CASE SqlitePassTime
    <2>1. /\ clock' = clock + 1
          /\ UNCHANGED <<pc, call, answer, minted>>
          /\ d \in Running => clock < call[d].at + MaxDelay
        BY <1>4 DEF SqlitePassTime, PassTime, sqlVars
    <2>2. Kind(d)' = Kind(d) /\ (d \in Running)' = (d \in Running)
        BY <2>1 DEF Kind, Running
    <2>3. CallOf(d)'
        BY <1>1, <1>2, <2>1, <2>2 DEF CallOf
    <2>4. d \in Running => call[d] # NULL
        BY <1>1 DEF CallOf, Running, Statements
    <2>5. Timely(d)'
        BY <1>1, <1>2, <2>1, <2>2, <2>4 DEF Timely
    <2>6. QED BY <2>3, <2>5
<1>5. ASSUME NEW c \in Calls, CallCreate(c) \/ CallSettle(c) PROVE CallOf(d)' /\ Timely(d)'
    <2>1. PICK new \in Call :
           /\ pc[c] = "idle"
           /\ call' = [call EXCEPT ![c] = new]
           /\ pc' = [pc EXCEPT ![c] = "connect"]
           /\ new.at = clock
           /\ \/ /\ new.kind = "create"
                 /\ new.invite \notin minted
                 /\ \A x \in Calls : call[x] # NULL => call[x].invite # new.invite
                 /\ new.groups # << >>
                 /\ \E hours \in Lifetimes : hours >= 1 /\ new.expires = new.at + hours
              \/ new.kind # "create" /\ new.invite \in minted
           /\ UNCHANGED <<vars, answer, left, writer, draft>>
        BY <1>5, StartIsCall
    <2>2. UNCHANGED <<clock, minted, answer>>
        BY <2>1 DEF vars
    <2>3. CASE d # c
        <3>1. pc'[d] = pc[d] /\ call'[d] = call[d]
            BY <1>1, <2>1, <2>3 DEF SqliteTypeOK
        <3>2. QED BY <1>1, <1>3, <2>2, <3>1, CallKept
    <2>4. CASE d = c
        <3>1. pc'[d] = "connect" /\ call'[d] = new /\ call'[d] # NULL /\ (Kind(d))' = new.kind
            BY <1>1, <2>1, <2>4 DEF SqliteTypeOK, Kind
        <3>2. answer'[d] = "none"
            BY <1>1, <2>1, <2>2, <2>4 DEF CallOf, SqliteTypeOK
        <3>3. new.at \in Nat /\ new.at <= clock /\ clock <= new.at + MaxDelay
            BY <1>2, <2>1
        <3>4. CallOf(d)'
            BY <2>1, <2>2, <3>1, <3>2, <3>3 DEF CallOf
        <3>5. Timely(d)'
            BY <2>1, <2>2, <3>1, <3>3 DEF Timely
        <3>6. QED BY <3>4, <3>5
    <2>5. QED BY <2>3, <2>4
<1>6. CASE CallCleanup \/ UNCHANGED sqlAllVars \/ \E c \in Calls : Leave(c)
    <2>1. UNCHANGED <<clock, minted, call, answer>> /\ pc'[d] = pc[d]
        BY <1>1, <1>6 DEF CallCleanup, SweepTick, Goto, Leave, sqlAllVars, sqlVars, vars, SqliteTypeOK
    <2>2. QED BY <1>1, <1>3, <2>1, CallKept
<1>7. ASSUME NEW c \in Callers, CallerStep(c) PROVE CallOf(d)' /\ Timely(d)'
    <2>1. CASE c = d
        BY <1>7, <2>1, CallGoesOn
    <2>2. CASE c # d
        <3>1. /\ pc'[d] = pc[d] /\ call'[d] = call[d] /\ answer'[d] = answer[d]
              /\ clock' = clock
            BY <1>1, <1>7, <2>2, OnlyItsOwn
        <3>2. d \in Running /\ Kind(d) = "create" => call[d].invite \notin minted'
            <4>1. CASE minted' = minted
                BY <1>3, <4>1
            <4>2. CASE minted' # minted
                <5>1. /\ c \in Calls /\ c \in Running /\ Kind(c) = "create"
                      /\ call[c] # NULL
                      /\ minted' = minted \cup {call[c].invite}
                    BY <1>7, <4>2, MintedBy, CallGiven DEF Running, Statements, TransactionInv
                <5>2. call[c].invite \notin minted
                    BY <5>1 DEF TransactionInv, CallInv, Timely
                <5>3. ASSUME d \in Running PROVE call[d].invite # call[c].invite
                    BY <1>1, <2>2, <5>1, <5>2, <5>3, CallGiven
                       DEF TransactionInv, NamesDrawnOnce, Kind, Running, Statements
                <5>4. QED BY <1>3, <5>1, <5>3
            <4>3. QED BY <4>1, <4>2
        <3>3. minted \subseteq minted'
            BY <1>7, MintedBy
        <3>4. QED BY <1>1, <3>1, <3>2, <3>3, CallKept
    <2>3. QED BY <2>1, <2>2
<1>8. CASE Crash
    <2>1. /\ pc'[d] = IF pc[d] = "idle" THEN "idle" ELSE "done"
          /\ UNCHANGED <<clock, minted, call, answer>>
        BY <1>1, <1>8 DEF Crash, Last
    <2>2. Kind(d)' = Kind(d)
        BY <2>1 DEF Kind
    <2>3. CallOf(d)'
        BY <1>1, <2>1, <2>2 DEF CallOf
    <2>4. Timely(d)'
        BY <2>1 DEF Timely, Running, Statements
    <2>5. QED BY <2>3, <2>4
<1>9. QED BY <1>4, <1>5, <1>6, <1>7, <1>8 DEF SqliteNext, CallerStep

---------------------------------------------------------------------------
(* Names and drafts.                                                       *)

LEMMA RowsAreMinted ==
    ASSUME TransactionInv, [SqliteNext]_sqlAllVars, NEW i \in Invites, invites'[i] # NULL
    PROVE  i \in minted'
<1>1. TypeOK /\ [Move]_vars
    BY StoreStep, NextIsMove DEF TransactionInv, SqliteTypeOK
<1>2. \A j \in Invites : invites[j] # NULL => j \in minted
    BY DEF TransactionInv, NamesDrawnOnce
<1> USE NullApart
<1>3. CASE PassTime \/ SweepTick \/ SweepAborts \/ UNCHANGED vars
    BY <1>2, <1>3 DEF PassTime, SweepTick, SweepAborts, vars
<1>4. ASSUME NEW j \in Invites, GenerateInvite(j) PROVE i \in minted'
    BY <1>1, <1>2, <1>4, GenerateWrites
<1>5. ASSUME NEW j \in Invites, ConsumeAny(j) PROVE i \in minted'
    <2>1. PICK at \in Nat, by \in Users : ConsumeInvite(j, at, by)
        BY <1>5 DEF ConsumeAny
    <2>2. invites[j] # NULL /\ minted' = minted /\ \A k \in Invites \ {j} : invites'[k] = invites[k]
        BY <1>1, <2>1, ConsumeWrites DEF ConsumeInvite
    <2>3. QED BY <1>2, <2>2
<1>6. ASSUME NEW j \in Invites, RevokeInvite(j) PROVE i \in minted'
    <2>1. invites[j] # NULL /\ minted' = minted /\ \A k \in Invites \ {j} : invites'[k] = invites[k]
        BY <1>1, <1>6, RevokeWrites
    <2>2. QED BY <1>2, <2>1
<1>7. CASE SweepRun
    BY <1>2, <1>7 DEF SweepRun, CleanupStale
<1>8. QED BY <1>1, <1>3, <1>4, <1>5, <1>6, <1>7 DEF Move

LEMMA NamesStep == TransactionInv /\ [SqliteNext]_sqlAllVars => NamesDrawnOnce'
<1> SUFFICES ASSUME TransactionInv, [SqliteNext]_sqlAllVars PROVE NamesDrawnOnce'
    OBVIOUS
<1>1. SqliteTypeOK /\ NamesDrawnOnce
    BY DEF TransactionInv
<1>2. \A i \in Invites : invites'[i] # NULL => i \in minted'
    BY RowsAreMinted
<1>3. ASSUME call' = call, minted \subseteq minted' PROVE NamesDrawnOnce'
    BY <1>1, <1>2, <1>3 DEF NamesDrawnOnce
<1>4. ASSUME NEW c \in Calls, CallCreate(c) \/ CallSettle(c) PROVE NamesDrawnOnce'
    <2>1. PICK new \in Call :
           /\ call' = [call EXCEPT ![c] = new]
           /\ \/ /\ new.kind = "create"
                 /\ \A d \in Calls : call[d] # NULL => call[d].invite # new.invite
              \/ new.kind # "create" /\ new.invite \in minted
           /\ UNCHANGED <<vars, answer, left, writer, draft>>
        BY <1>4, StartIsCall
    <2>2. minted' = minted
        BY <2>1 DEF vars
    <2>3. /\ call'[c] = new
          /\ \A d \in Calls \ {c} : call'[d] = call[d]
        BY <1>1, <2>1 DEF SqliteTypeOK
    <2>4. ASSUME NEW x \in Calls, NEW y \in Calls, x # y,
                 call'[x] # NULL, call'[x].kind = "create",
                 call'[y] # NULL, call'[y].invite = call'[x].invite
          PROVE  call'[x].invite \in minted
        <3>1. CASE x = c
            BY <2>1, <2>3, <2>4, <3>1
        <3>2. CASE y = c
            BY <2>1, <2>3, <2>4, <3>2
        <3>3. CASE x # c /\ y # c
            BY <1>1, <2>3, <2>4, <3>3 DEF NamesDrawnOnce
        <3>4. QED BY <3>1, <3>2, <3>3
    <2>5. QED BY <1>2, <2>2, <2>4 DEF NamesDrawnOnce
<1>5. CASE SqlitePassTime \/ CallCleanup \/ Crash \/ UNCHANGED sqlAllVars \/ \E c \in Calls : Leave(c)
    BY <1>3, <1>5 DEF SqlitePassTime, PassTime, CallCleanup, SweepTick, Crash, Leave,
                      sqlAllVars, sqlVars, vars
<1>6. ASSUME NEW c \in Callers, CallerStep(c) PROVE NamesDrawnOnce'
    BY <1>1, <1>3, <1>6, OnlyItsOwn, MintedBy
<1>7. QED BY <1>4, <1>5, <1>6 DEF SqliteNext, CallerStep

\* Whoever does not hold the lock leaves draft and tables as they are.
LEMMA LockProtects ==
    ASSUME TransactionInv, NEW c \in Callers, CallerStep(c), writer # c, writer' # c
    PROVE  UNCHANGED <<invites, events, lastEvent, writer, draft>>
BY DEF CallerStep, Statement, Connect, BeginDeferred, BeginImmediate, Select, Insert, Update,
       AppendEvent, Reread, DeleteEvents, DeleteRows, Commit, ReturnFalse, Fail, FailToConnect,
       Rollback, Run, Release, vars

LEMMA DraftedKept ==
    ASSUME NEW d \in Calls, Drafted(d), pc'[d] = pc[d], call'[d] = call[d],
           UNCHANGED <<invites, events, lastEvent, draft>>
    PROVE  Drafted(d)'
BY DEF Drafted, Fits, Updated, NewRow, NewEvent, Kind, Committed

\* The statements of a call build its draft in order.
LEMMA DraftedGoesOn ==
    ASSUME TransactionInv, NEW c \in Calls, CallerStep(c), writer' = c
    PROVE  Drafted(c)'
<1> USE CallersApart DEF TransactionInv
<1> DEFINE i == call[c].invite
<1>1. /\ c \in Callers /\ c # Task /\ call' = call /\ Kind(c)' = Kind(c)
      /\ LockInv /\ draft \in Tables /\ Committed \in Tables
    BY OnlyItsOwn, CommittedIsTables DEF Callers, Kind, SqliteTypeOK
<1>2. pc[c] # "idle" /\ call[c] # NULL
    BY CallGiven DEF CallerStep, Statement, Connect, BeginDeferred, BeginImmediate, Select, Insert,
           Update, AppendEvent, Reread, DeleteEvents, DeleteRows, Commit, ReturnFalse, Fail,
           FailToConnect, Rollback, Run, Statements, CallInv, CallOf
<1>3. i \in Invites /\ CallOf(c) /\ NewEvent(c) \in Event
    BY <1>2, CallFields, NewEventIsEvent DEF CallInv
<1>4. CASE pc'[c] \in {"begin", "connect", "rollback", "done"}
    BY <1>4 DEF Drafted
<1>5. CASE BeginImmediate(c)
    <2>1. pc[c] = "begin" /\ draft' = draft /\ pc'[c] = "select" /\ UNCHANGED <<invites, events, lastEvent>>
        BY <1>1, <1>5 DEF BeginImmediate, Run, Goto, vars, SqliteTypeOK
    <2>2. draft = Committed
        BY <1>1, <1>5, <2>1 DEF LockInv, Locked, BeginImmediate, Run
    <2>3. QED BY <2>1, <2>2 DEF Drafted, Committed
<1>6. CASE Select(c)
    <2>1. /\ pc[c] = "select" /\ draft' = draft /\ UNCHANGED <<invites, events, lastEvent>>
          /\ pc'[c] = IF Fits(c, draft.invites[i]) THEN "update" ELSE "return_false"
        BY <1>1, <1>6 DEF Select, Run, Goto, vars, SqliteTypeOK
    <2>2. draft = Committed
        BY <1>1, <2>1 DEF LockInv, Locked, DraftInv, Drafted
    <2>3. draft.invites = invites
        BY <2>2 DEF Committed
    <2>4. (Fits(c, invites[i]))' = Fits(c, invites[i])
        BY <1>1, <2>1 DEF Fits
    <2>5. QED BY <1>1, <2>1, <2>2, <2>3, <2>4 DEF Drafted, Committed
<1>7. CASE Insert(c)
    <2>1. /\ pc[c] = "insert" /\ pc'[c] = "event" /\ UNCHANGED <<invites, events, lastEvent>>
          /\ draft' = [draft EXCEPT !.invites = [draft.invites EXCEPT ![i] = NewRow(c)]]
        BY <1>1, <1>7 DEF Insert, Run, Goto, NewRow, vars, SqliteTypeOK
    <2>2. Kind(c) = "create"
        BY <1>2, <1>3, <2>1 DEF CallOf
    <2>3. draft = Committed
        BY <1>1, <1>7, <2>1 DEF LockInv, Locked, Insert, Run
    <2>4. draft.invites = invites /\ draft.events = events /\ draft.lastEvent = lastEvent
        BY <2>3 DEF Committed
    <2>5. [draft.invites EXCEPT ![i] = NewRow(c)] \in [Invites -> Row \cup {NULL}]
        BY <1>1, <1>2, NewRowIsRow DEF Tables
    <2>6. /\ draft'.invites = [invites EXCEPT ![i] = NewRow(c)]
          /\ draft'.events = events /\ draft'.lastEvent = lastEvent
        BY <1>1, <2>1, <2>4, <2>5, WriteInvites
    <2>7. NewRow(c)' = NewRow(c)
        BY <1>1 DEF NewRow
    <2>8. QED BY <1>1, <2>1, <2>2, <2>6, <2>7 DEF Drafted
<1>8. CASE Update(c)
    <2>1. /\ pc[c] = "update" /\ pc'[c] = "event" /\ UNCHANGED <<invites, events, lastEvent>>
          /\ draft' = [draft EXCEPT !.invites =
                [draft.invites EXCEPT ![i] = Updated(c, draft.invites[i])]]
        BY <1>1, <1>8 DEF Update, Run, Goto, vars, SqliteTypeOK
    <2>2. Kind(c) # "create"
        BY <1>2, <1>3, <2>1 DEF CallOf
    <2>3. draft = Committed /\ Fits(c, invites[i])
        BY <1>1, <2>1, <2>2 DEF LockInv, Locked, DraftInv, Drafted
    <2>4. draft.invites = invites /\ draft.events = events /\ draft.lastEvent = lastEvent
        BY <2>3 DEF Committed
    <2>5. [draft.invites EXCEPT ![i] = Updated(c, draft.invites[i])] \in [Invites -> Row \cup {NULL}]
        <3>1. draft.invites[i] \in Row
            BY <1>1, <1>3, <2>3, <2>4 DEF Fits, Tables
        <3>2. QED BY <1>1, <1>2, <3>1, UpdatedIsRow DEF Tables
    <2>6. /\ draft'.invites = [invites EXCEPT ![i] = Updated(c, invites[i])]
          /\ draft'.events = events /\ draft'.lastEvent = lastEvent
        BY <1>1, <2>1, <2>4, <2>5, WriteInvites
    <2>7. /\ (Updated(c, invites[i]))' = Updated(c, invites[i])
          /\ (Fits(c, invites[i]))' = Fits(c, invites[i])
        BY <1>1, <2>1 DEF Updated, Fits
    <2>8. QED BY <1>1, <2>1, <2>2, <2>3, <2>6, <2>7 DEF Drafted
<1>9. CASE AppendEvent(c)
    <2>1. /\ pc[c] = "event" /\ pc'[c] \in {"reread", "commit"} /\ UNCHANGED <<invites, events, lastEvent>>
        BY <1>1, <1>9 DEF AppendEvent, Run, Goto, vars, SqliteTypeOK
    <2>2. Drafted(c)
        BY <1>1, <2>1 DEF LockInv, Locked, DraftInv
    <2>3. /\ draft.invites = [invites EXCEPT ![i] =
                IF Kind(c) = "create" THEN NewRow(c) ELSE Updated(c, invites[i])]
          /\ draft.events = events /\ draft.lastEvent = lastEvent
        BY <2>1, <2>2 DEF Drafted
    <2>4. draft' = [draft EXCEPT !.lastEvent = lastEvent + 1, !.events = events \cup {NewEvent(c)}]
        BY <1>9, <2>3 DEF AppendEvent, NewEvent
    <2>5. /\ draft'.invites = draft.invites /\ draft'.events = events \cup {NewEvent(c)}
          /\ draft'.lastEvent = lastEvent + 1
        <3>1. events \cup {NewEvent(c)} \in SUBSET Event /\ lastEvent + 1 \in Nat
            BY <1>3 DEF SqliteTypeOK, TypeOK
        <3>2. QED BY <1>1, <2>4, <3>1, WriteEvents
    <2>6. /\ NewRow(c)' = NewRow(c) /\ NewEvent(c)' = NewEvent(c)
          /\ (Updated(c, invites[i]))' = Updated(c, invites[i])
          /\ (Fits(c, invites[i]))' = Fits(c, invites[i])
        BY <1>1, <2>1 DEF NewRow, NewEvent, Updated, Fits
    <2>7. Kind(c) # "create" => Fits(c, invites[i])
        BY <2>1, <2>2 DEF Drafted
    <2>8. QED BY <1>1, <2>1, <2>3, <2>5, <2>6, <2>7 DEF Drafted
<1>10. CASE Reread(c)
    <2>1. /\ pc[c] = "reread" /\ pc'[c] = "commit" /\ draft' = draft
          /\ UNCHANGED <<invites, events, lastEvent>>
        BY <1>1, <1>10 DEF Reread, Run, Goto, vars, SqliteTypeOK
    <2>2. Drafted(c) /\ Kind(c) = "create"
        BY <1>1, <1>2, <1>3, <2>1 DEF LockInv, Locked, DraftInv, CallOf
    <2>3. NewRow(c)' = NewRow(c) /\ NewEvent(c)' = NewEvent(c)
        BY <1>1, <2>1 DEF NewRow, NewEvent
    <2>4. QED BY <1>1, <2>1, <2>2, <2>3 DEF Drafted
<1>11. CASE Connect(c) \/ BeginDeferred(c)
    BY <1>1, <1>11 DEF Connect, BeginDeferred, LockInv, Locked
<1>12. CASE DeleteEvents(c) \/ DeleteRows(c)
    BY <1>2, <1>3, <1>12 DEF CallOf, DeleteEvents, DeleteRows, Run
<1>13. CASE Commit(c) \/ ReturnFalse(c) \/ Fail(c) \/ FailToConnect(c) \/ Rollback(c)
    BY <1>1, <1>4, <1>13 DEF Commit, ReturnFalse, Fail, FailToConnect, Rollback, Goto, Last, SqliteTypeOK
<1>14. QED BY <1>5, <1>6, <1>7, <1>8, <1>9, <1>10, <1>11, <1>12, <1>13 DEF CallerStep, Statement

\* The statements of the task build its draft in order.
LEMMA CleanupGoesOn ==
    ASSUME TransactionInv, CallerStep(Task), writer' = Task
    PROVE  CleanupDrafted'
<1> USE CallersApart DEF TransactionInv
<1>1. /\ Task \in Callers /\ Kind(Task) = "cleanup"
      /\ LockInv /\ draft \in Tables
      /\ draft.events \subseteq Event /\ draft.lastEvent \in Nat
    BY DraftFields DEF Callers, Kind, SqliteTypeOK
<1>2. CASE DeleteEvents(Task)
    <2>1. /\ pc'[Task] = "delete_rows" /\ UNCHANGED vars
          /\ draft' = [draft EXCEPT !.events =
                {e \in draft.events : e.invite \notin StaleIn(draft.invites)}]
        BY <1>1, <1>2 DEF DeleteEvents, Run, Goto, SqliteTypeOK
    <2>2. draft = Committed
        BY <1>1, <1>2 DEF LockInv, Locked, DeleteEvents, Run
    <2>3. draft.invites = invites /\ draft.events = events /\ draft.lastEvent = lastEvent
        BY <2>2 DEF Committed
    <2>4. /\ draft'.invites = invites /\ draft'.lastEvent = lastEvent
          /\ draft'.events = {e \in events : e.invite \notin StaleIn(invites)}
        BY <1>1, <2>1, <2>3 DEF Tables
    <2>5. StaleIn(invites)' = StaleIn(invites)
        BY <2>1 DEF StaleIn, vars
    <2>6. QED BY <2>1, <2>4, <2>5 DEF CleanupDrafted, vars
<1>3. CASE DeleteRows(Task)
    <2>1. /\ pc[Task] = "delete_rows" /\ pc'[Task] = "commit" /\ UNCHANGED vars
          /\ draft' = [draft EXCEPT !.invites =
                [i \in Invites |-> IF i \in StaleIn(draft.invites) THEN NULL ELSE draft.invites[i]]]
        BY <1>1, <1>3 DEF DeleteRows, Run, Goto, SqliteTypeOK
    <2>2. CleanupDrafted
        BY <1>1, <2>1 DEF LockInv, Locked, DraftInv
    <2>3. /\ draft.invites = invites /\ draft.lastEvent = lastEvent
          /\ draft.events = {e \in events : e.invite \notin StaleIn(invites)}
        BY <2>1, <2>2 DEF CleanupDrafted
    <2>4. /\ draft'.invites = [i \in Invites |-> IF i \in StaleIn(invites) THEN NULL ELSE invites[i]]
          /\ draft'.lastEvent = draft.lastEvent /\ draft'.events = draft.events
        BY <1>1, <2>1, <2>3 DEF Tables
    <2>5. StaleIn(invites)' = StaleIn(invites)
        BY <2>1 DEF StaleIn, vars
    <2>6. QED BY <2>1, <2>3, <2>4, <2>5 DEF CleanupDrafted, vars
<1>4. CASE Connect(Task) \/ BeginDeferred(Task)
    BY <1>1, <1>4 DEF Connect, BeginDeferred, LockInv, Locked
<1>5. CASE Commit(Task) \/ Fail(Task) \/ FailToConnect(Task) \/ Rollback(Task)
    <2>1. pc'[Task] \in {"idle", "rollback"}
        BY <1>1, <1>5 DEF Commit, Fail, FailToConnect, Rollback, Goto, Last, SqliteTypeOK
    <2>2. QED BY <2>1 DEF CleanupDrafted
<1>6. ~(BeginImmediate(Task) \/ Select(Task) \/ Insert(Task) \/ Update(Task)
            \/ AppendEvent(Task) \/ Reread(Task) \/ ReturnFalse(Task))
    BY <1>1 DEF TaskInv, BeginImmediate, Select, Insert, Update, AppendEvent, Reread,
                ReturnFalse, Run
<1>7. QED BY <1>2, <1>3, <1>4, <1>5, <1>6 DEF CallerStep, Statement

LEMMA CleanupKept ==
    ASSUME CleanupDrafted, pc'[Task] = pc[Task], UNCHANGED <<invites, events, lastEvent, sweep, draft>>
    PROVE  CleanupDrafted'
<1>1. StaleIn(invites)' = StaleIn(invites)
    BY DEF StaleIn
<1>2. QED BY <1>1 DEF CleanupDrafted

LEMMA DraftInvStep == TransactionInv /\ [SqliteNext]_sqlAllVars => DraftInv'
<1> SUFFICES ASSUME TransactionInv, [SqliteNext]_sqlAllVars PROVE DraftInv'
    OBVIOUS
<1> USE CallersApart
<1>1. /\ SqliteTypeOK /\ LockInv /\ DraftInv
      /\ Task \in Callers /\ \A d \in Calls : d \in Callers /\ d # Task
    BY DEF TransactionInv, Callers
\* A step that leaves the tables, the draft and the holder of the lock alone.
<1>2. ASSUME UNCHANGED <<invites, events, lastEvent, writer, draft>>,
             \A d \in Calls : writer = d => pc'[d] = pc[d] /\ call'[d] = call[d],
             writer = Task => pc'[Task] = pc[Task] /\ sweep' = sweep
      PROVE  DraftInv'
    <2>1. ASSUME NEW d \in Calls, writer' = d PROVE Drafted(d)'
        <3>1. Drafted(d)
            BY <1>1, <1>2, <2>1 DEF DraftInv
        <3>2. QED BY <1>2, <2>1, <3>1, DraftedKept
    <2>2. ASSUME writer' = Task PROVE CleanupDrafted'
        <3>1. CleanupDrafted
            BY <1>1, <1>2, <2>2 DEF DraftInv
        <3>2. QED BY <1>2, <2>2, <3>1, CleanupKept
    <2>3. QED BY <2>1, <2>2 DEF DraftInv
<1>3. CASE SqlitePassTime \/ UNCHANGED sqlAllVars \/ \E c \in Calls : Leave(c)
    <2>1. UNCHANGED <<invites, events, lastEvent, writer, draft, pc, call, sweep>>
        BY <1>3 DEF SqlitePassTime, PassTime, Leave, sqlVars, sqlAllVars, vars
    <2>2. QED BY <1>2, <2>1
<1>4. ASSUME NEW c \in Calls, CallCreate(c) \/ CallSettle(c) PROVE DraftInv'
    <2>1. PICK new \in Call :
           /\ pc[c] = "idle"
           /\ call' = [call EXCEPT ![c] = new]
           /\ pc' = [pc EXCEPT ![c] = "connect"]
           /\ UNCHANGED <<vars, answer, left, writer, draft>>
        BY <1>4, StartIsCall
    <2>2. writer # c
        BY <1>1, <2>1 DEF LockInv, Locked
    <2>3. \A d \in Calls : writer = d => pc'[d] = pc[d] /\ call'[d] = call[d]
        BY <1>1, <2>1, <2>2 DEF SqliteTypeOK
    <2>4. pc'[Task] = pc[Task]
        BY <1>1, <2>1 DEF SqliteTypeOK
    <2>5. QED BY <1>2, <2>1, <2>3, <2>4 DEF vars
<1>5. CASE CallCleanup
    <2>1. /\ UNCHANGED <<invites, events, lastEvent, writer, draft, call>>
          /\ pc[Task] = "idle" /\ pc' = [pc EXCEPT ![Task] = "connect"]
        BY <1>5 DEF CallCleanup, SweepTick, Goto
    <2>2. writer # Task
        BY <1>1, <2>1 DEF LockInv, Locked
    <2>3. \A d \in Calls : pc'[d] = pc[d]
        BY <1>1, <2>1 DEF SqliteTypeOK
    <2>4. QED BY <1>2, <2>1, <2>2, <2>3
<1>6. ASSUME NEW c \in Callers, CallerStep(c) PROVE DraftInv'
    <2>1. /\ \A d \in Callers \ {c} : pc'[d] = pc[d]
          /\ call' = call
        BY <1>1, <1>6, OnlyItsOwn
    <2>2. CASE writer' = c
        <3>1. CASE c \in Calls
            <4>1. Drafted(c)'
                BY <1>6, <2>2, <3>1, DraftedGoesOn
            <4>2. QED BY <1>1, <2>2, <3>1, <4>1 DEF DraftInv
        <3>2. CASE c = Task
            <4>1. CleanupDrafted'
                BY <1>6, <2>2, <3>2, CleanupGoesOn
            <4>2. QED BY <1>1, <2>2, <3>2, <4>1 DEF DraftInv
        <3>3. QED BY <3>1, <3>2 DEF Callers
    <2>3. CASE writer' # c /\ writer = c
        <3>1. writer' = NULL
            BY <1>6, <2>3 DEF CallerStep, Statement, Connect, BeginDeferred, BeginImmediate, Select,
                   Insert, Update, AppendEvent, Reread, DeleteEvents, DeleteRows, Commit,
                   ReturnFalse, Fail, FailToConnect, Rollback, Run, Release
        <3>2. QED BY <3>1 DEF DraftInv, Callers
    <2>4. CASE writer' # c /\ writer # c
        <3>1. UNCHANGED <<invites, events, lastEvent, writer, draft>>
            BY <1>6, <2>4, LockProtects
        <3>2. writer = Task => sweep' = sweep
            BY <1>6, <2>4 DEF CallerStep, Statement, Connect, BeginDeferred, BeginImmediate, Select,
                   Insert, Update, AppendEvent, Reread, DeleteEvents, DeleteRows, Commit,
                   ReturnFalse, Fail, FailToConnect, Rollback, Run, vars
        <3>3. QED BY <1>1, <1>2, <2>1, <2>4, <3>1, <3>2
    <2>5. QED BY <2>2, <2>3, <2>4
<1>7. CASE Crash
    BY <1>7 DEF Crash, DraftInv, Callers
<1>8. QED BY <1>3, <1>4, <1>5, <1>6, <1>7 DEF SqliteNext, CallerStep

---------------------------------------------------------------------------
(* The theorems.                                                           *)

LEMMA TransactionStep == TransactionInv /\ [SqliteNext]_sqlAllVars => TransactionInv'
BY SqliteTypeStep, NamesStep, LockStep, TaskStep, CallStep, DraftInvStep DEF TransactionInv

LEMMA TransactionInit == SqliteInit => TransactionInv
<1> SUFFICES ASSUME SqliteInit PROVE TransactionInv
    OBVIOUS
<1> USE CallersApart DEF SqliteInit
<1>1. TypeOK
    BY DEF Init, TypeOK
<1>2. SqliteTypeOK
    <2>1. Committed \in Tables
        BY <1>1 DEF Committed, Tables, TypeOK
    <2>2. QED BY <1>1, <2>1 DEF SqliteTypeOK
<1>3. LockInv /\ TaskInv /\ DraftInv
    BY DEF LockInv, Locked, TaskInv, DraftInv, Callers, Statements
<1>4. CallInv
    BY DEF CallInv, CallOf, Timely, Running, Statements, Callers
<1>5. NamesDrawnOnce
    BY DEF NamesDrawnOnce, Init
<1>6. QED BY <1>2, <1>3, <1>4, <1>5 DEF TransactionInv

\* The inductive invariant of the transactions.
THEOREM TransactionsInvariant == SqliteSpec => []TransactionInv
<1>1. QED BY TransactionInit, TransactionStep, PTL DEF SqliteSpec

\* Every variable of the repository's calls keeps its type.
THEOREM SqliteTypeCorrect == SqliteSpec => []SqliteTypeOK
<1>1. TransactionInv => SqliteTypeOK
    BY DEF TransactionInv
<1>2. QED BY <1>1, TransactionsInvariant, PTL

\* The writers of invite_storage.rs are atomic: statement by statement, with
\* failures, dropped futures and crashes, they implement InviteStore.
THEOREM SqliteImplementsStore == SqliteSpec => ImplementsStore
<1>1. SqliteInit => Init
    BY DEF SqliteInit
<1>2. QED BY <1>1, StoreStep, TransactionsInvariant, PTL DEF SqliteSpec, Spec, ImplementsStore

---------------------------------------------------------------------------
(* What a caller may conclude from its answer.                             *)

\* What the commit of a call writes.
LEMMA CommitWrites ==
    ASSUME TransactionInv, NEW c \in Calls, Commit(c)
    PROVE  /\ pc[c] = "commit" /\ call[c] # NULL /\ call[c].invite \in Invites
           /\ Kind(c) = call[c].kind
           /\ call[c].kind = "create" =>
                /\ invites'[call[c].invite] = NewRow(c)
                /\ minted' = minted \cup {call[c].invite}
           /\ call[c].kind # "create" =>
                /\ invites[call[c].invite] \in Row
                /\ invites'[call[c].invite] = Updated(c, invites[call[c].invite])
                /\ minted' = minted
           /\ \A i \in Invites \ {call[c].invite} : invites'[i] = invites[i]
<1> USE DEF TransactionInv
<1>1. writer = c /\ pc[c] = "commit" /\ c # Task
    BY CallersApart DEF Commit
<1>2. call[c] # NULL
    BY <1>1, CallGiven
<1>3. call[c].invite \in Invites /\ Kind(c) = call[c].kind
    BY <1>2, CallFields
<1>4. Drafted(c)
    BY <1>1 DEF DraftInv
<1>5. invites' = [invites EXCEPT ![call[c].invite] =
            IF Kind(c) = "create" THEN NewRow(c) ELSE Updated(c, invites[call[c].invite])]
    BY <1>1, <1>4 DEF Commit, Drafted
<1>6. call[c].kind # "create" => invites[call[c].invite] \in Row
    BY <1>1, <1>3, <1>4 DEF Drafted, Fits, SqliteTypeOK, TypeOK
<1>7. minted' = IF Kind(c) = "create" THEN minted \cup {call[c].invite} ELSE minted
    BY DEF Commit
<1>8. QED BY <1>1, <1>2, <1>3, <1>5, <1>6, <1>7 DEF SqliteTypeOK, TypeOK

\* The fields of a row that a call has used or revoked.
LEMMA UpdatedFields ==
    ASSUME TransactionInv, NEW c \in Calls, call[c] # NULL, NEW row \in Row
    PROVE  /\ Updated(c, row) # NULL
           /\ Kind(c) = "consume" => /\ Updated(c, row).consumedAt = call[c].at
                                     /\ Updated(c, row).consumedBy = c
           /\ Kind(c) # "consume" => /\ Updated(c, row).revokedAt = call[c].at
                                     /\ Updated(c, row).consumedBy = row.consumedBy
<1>1. Updated(c, row) \in Row
    BY UpdatedIsRow DEF TransactionInv
<1>2. Updated(c, row) # NULL
    BY <1>1, NullApart
<1>3. QED BY <1>2 DEF Updated, Row

\* Only a commit changes the rows.
LEMMA OnlyCommits ==
    ASSUME TransactionInv, [SqliteNext]_sqlAllVars
    PROVE  (invites' = invites /\ minted' = minted) \/ \E c \in Callers : Commit(c)
<1>1. ASSUME NEW c \in Callers, CallerStep(c), ~Commit(c) PROVE invites' = invites /\ minted' = minted
    BY <1>1 DEF CallerStep, Statement, Connect, BeginDeferred, BeginImmediate, Select, Insert,
                Update, AppendEvent, Reread, DeleteEvents, DeleteRows, ReturnFalse,
                Fail, FailToConnect, Rollback, Run, vars
<1>2. ASSUME NEW c \in Calls, CallCreate(c) \/ CallSettle(c) \/ Leave(c)
      PROVE  invites' = invites /\ minted' = minted
    BY <1>2 DEF CallCreate, CallSettle, Start, Leave, vars
<1>3. CASE SqlitePassTime \/ CallCleanup \/ Crash \/ UNCHANGED sqlAllVars
    BY <1>3 DEF SqlitePassTime, PassTime, CallCleanup, SweepTick, Crash, sqlAllVars, vars
<1>4. QED BY <1>1, <1>2, <1>3 DEF SqliteNext, CallerStep

\* Only its own commit redeems an invitation for c.
LEMMA RedeemedBy ==
    ASSUME TransactionInv, [SqliteNext]_sqlAllVars, NEW c \in Calls, ~Redeemed(c), Redeemed(c)'
    PROVE  Commit(c)
<1> USE CallersApart
<1>1. PICK i \in Invites : invites'[i] # NULL /\ invites'[i].consumedBy = c
    BY DEF Redeemed
<1>2. invites[i] = NULL \/ invites[i].consumedBy # c
    BY DEF Redeemed
<1>3. PICK d \in Callers : Commit(d)
    BY <1>1, <1>2, OnlyCommits
<1>4. CASE d = Task
    <2>1. SweepRun
        BY <1>3, <1>4, CommitOfTask
    <2>2. QED BY <1>1, <1>2, <2>1 DEF SweepRun, CleanupStale
<1>5. CASE d \in Calls
    <2>1. i = call[d].invite
        BY <1>1, <1>2, <1>3, <1>5, CommitWrites
    <2>2. c # NULL
        BY DEF Callers
    <2>3. CASE call[d].kind = "create"
        <3>1. invites'[i] = NewRow(d)
            BY <1>3, <1>5, <2>1, <2>3, CommitWrites
        <3>2. NewRow(d).consumedBy = NULL
            BY DEF NewRow
        <3>3. QED BY <1>1, <2>2, <3>1, <3>2
    <2>4. CASE call[d].kind # "create"
        <3>1. /\ invites[i] \in Row /\ invites'[i] = Updated(d, invites[i])
              /\ call[d] # NULL
            BY <1>3, <1>5, <2>1, <2>4, CommitWrites
        <3>2. /\ Kind(d) = "consume" => Updated(d, invites[i]).consumedBy = d
              /\ Kind(d) # "consume" => Updated(d, invites[i]).consumedBy = invites[i].consumedBy
            BY <1>5, <3>1, UpdatedFields
        <3>3. invites[i] # NULL
            BY <3>1, NullApart
        <3>4. QED BY <1>1, <1>2, <1>3, <3>1, <3>2, <3>3
    <2>5. QED BY <2>3, <2>4
<1>6. QED BY <1>3, <1>4, <1>5 DEF Callers

\* Only its own commit stores the name a create has drawn.
LEMMA StoredBy ==
    ASSUME TransactionInv, [SqliteNext]_sqlAllVars,
           NEW c \in Calls, call[c] # NULL, call[c].kind = "create",
           call[c].invite \notin minted, call[c].invite \in minted'
    PROVE  Commit(c)
<1> USE CallersApart
<1>1. PICK d \in Callers : Commit(d)
    BY OnlyCommits
<1>2. d # Task
    BY <1>1 DEF Commit, Kind
<1>3. d \in Calls
    BY <1>2 DEF Callers
<1>4. call[d] # NULL /\ call[d].invite = call[c].invite
    BY <1>1, <1>3, CommitWrites
<1>5. d = c
    BY <1>3, <1>4 DEF TransactionInv, NamesDrawnOnce
<1>6. QED BY <1>1, <1>5

\* Who is answered, and with what.
LEMMA AnswerGiven ==
    ASSUME TransactionInv, [SqliteNext]_sqlAllVars, NEW c \in Calls
    PROVE  /\ \/ answer'[c] = answer[c]
              \/ /\ answer[c] = "none" /\ c \notin left
                 /\ \/ Commit(c) /\ answer'[c] = "true"
                    \/ ReturnFalse(c) /\ answer'[c] = "false"
                    \/ (Fail(c) \/ FailToConnect(c)) /\ answer'[c] = "error"
           /\ Commit(c) /\ c \notin left => answer'[c] = "true"
           /\ c \notin left' => c \notin left
           /\ call[c] # NULL => call'[c] = call[c]
<1> USE CallersApart
<1>1. /\ SqliteTypeOK /\ c \in Callers /\ c # Task /\ CallOf(c)
    BY DEF TransactionInv, CallInv, Callers
<1>2. Commit(c) /\ c \notin left => answer'[c] = "true"
    BY <1>1 DEF Commit, Return, SqliteTypeOK
<1>3. CASE SqlitePassTime \/ CallCleanup \/ Crash \/ UNCHANGED sqlAllVars \/ \E d \in Calls : Leave(d)
    <2>1. UNCHANGED <<answer, call>> /\ (c \notin left' => c \notin left)
        BY <1>3 DEF SqlitePassTime, CallCleanup, Crash, Leave, sqlVars, sqlAllVars
    <2>2. QED BY <1>2, <2>1
<1>4. ASSUME NEW d \in Calls, CallCreate(d) \/ CallSettle(d)
      PROVE  UNCHANGED <<answer, left>> /\ (call[c] # NULL => call'[c] = call[c])
    <2>1. PICK new \in Call :
            /\ pc[d] = "idle"
            /\ call' = [call EXCEPT ![d] = new]
            /\ UNCHANGED <<vars, answer, left, writer, draft>>
        BY <1>4, StartIsCall
    <2>2. call[d] = NULL
        BY <2>1 DEF TransactionInv, CallInv, CallOf
    <2>3. QED BY <1>1, <2>1, <2>2 DEF SqliteTypeOK
<1>5. ASSUME NEW d \in Callers, CallerStep(d), d # c
      PROVE  answer'[c] = answer[c] /\ call' = call /\ (c \notin left' => c \notin left)
    BY <1>1, <1>5, OnlyItsOwn
<1>6. ASSUME CallerStep(c)
      PROVE  /\ call' = call /\ (c \notin left' => c \notin left)
             /\ \/ answer'[c] = answer[c]
                \/ /\ answer[c] = "none" /\ c \notin left
                   /\ \/ Commit(c) /\ answer'[c] = "true"
                      \/ ReturnFalse(c) /\ answer'[c] = "false"
                      \/ (Fail(c) \/ FailToConnect(c)) /\ answer'[c] = "error"
    <2>1. call' = call /\ (c \notin left' => c \notin left)
        BY <1>1, <1>6, OnlyItsOwn
    <2>2. CASE Connect(c) \/ BeginDeferred(c) \/ BeginImmediate(c) \/ Select(c) \/ Insert(c) \/ Update(c)
                \/ AppendEvent(c) \/ Reread(c) \/ DeleteEvents(c) \/ DeleteRows(c) \/ Rollback(c)
        <3>1. answer' = answer
            BY <2>2 DEF Connect, BeginDeferred, BeginImmediate, Select, Insert, Update, AppendEvent,
                        Reread, DeleteEvents, DeleteRows, Rollback, Run
        <3>2. QED BY <2>1, <3>1
    <2>3. CASE Commit(c) \/ ReturnFalse(c) \/ Fail(c) \/ FailToConnect(c)
        <3>1. pc[c] \notin {"rollback", "done"}
            BY <2>3 DEF Commit, ReturnFalse, Fail, FailToConnect, Statements
        <3>2. answer[c] = "none"
            BY <1>1, <3>1 DEF CallOf
        <3>3. CASE c \in left
            BY <2>1, <2>3, <3>3 DEF Commit, ReturnFalse, Fail, FailToConnect, Return
        <3>4. CASE c \notin left
            <4>1. CASE Commit(c)
                BY <1>2, <2>1, <3>2, <3>4, <4>1
            <4>2. CASE ReturnFalse(c)
                BY <1>1, <2>1, <3>2, <3>4, <4>2 DEF ReturnFalse, Return, SqliteTypeOK
            <4>3. CASE Fail(c) \/ FailToConnect(c)
                BY <1>1, <2>1, <3>2, <3>4, <4>3 DEF Fail, FailToConnect, Return, SqliteTypeOK
            <4>4. QED BY <2>3, <4>1, <4>2, <4>3
        <3>5. QED BY <3>3, <3>4
    <2>4. QED BY <1>6, <2>2, <2>3 DEF CallerStep, Statement
<1>7. QED BY <1>1, <1>2, <1>3, <1>4, <1>5, <1>6 DEF SqliteNext, CallerStep

\* An expiry is never changed.
LEMMA ExpiryFixed ==
    ASSUME TypeOK, RowsCoherent, [Move]_vars, NEW i \in Invites,
           invites[i] # NULL, invites'[i] # NULL
    PROVE  invites'[i].expiresAt = invites[i].expiresAt
<1>1. CASE PassTime \/ SweepTick \/ SweepAborts \/ UNCHANGED vars
    BY <1>1 DEF PassTime, SweepTick, SweepAborts, vars
<1>2. ASSUME NEW j \in Invites, GenerateInvite(j) PROVE invites'[i] = invites[i]
    <2>1. j \notin minted /\ \A k \in Invites \ {j} : invites'[k] = invites[k]
        BY <1>2, GenerateWrites
    <2>2. i # j
        BY <2>1 DEF RowsCoherent
    <2>3. QED BY <2>1, <2>2
<1>3. ASSUME NEW j \in Invites, ConsumeAny(j) PROVE invites'[i].expiresAt = invites[i].expiresAt
    <2>1. PICK at \in Nat, by \in Users : ConsumeInvite(j, at, by)
        BY <1>3 DEF ConsumeAny
    <2>2. /\ invites[j] \in Row /\ invites'[j] = Used(invites[j], at, by)
          /\ \A k \in Invites \ {j} : invites'[k] = invites[k]
        BY <2>1, ConsumeWrites
    <2>3. QED BY <2>2, UsedRow
<1>4. ASSUME NEW j \in Invites, RevokeInvite(j) PROVE invites'[i].expiresAt = invites[i].expiresAt
    <2>1. PICK at \in Nat :
           /\ invites[j] \in Row
           /\ invites'[j] = Revoked(invites[j], at)
           /\ \A k \in Invites \ {j} : invites'[k] = invites[k]
        BY <1>4, RevokeWrites
    <2>2. QED BY <2>1, RevokedRow
<1>5. CASE SweepRun
    BY <1>5 DEF SweepRun, CleanupStale
<1>6. QED BY <1>1, <1>2, <1>3, <1>4, <1>5 DEF Move

\* An answer, once true, stays true, whatever the others do.
LEMMA AnswerStays ==
    ASSUME TransactionInv, RowsCoherent, [SqliteNext]_sqlAllVars, NEW c \in Calls,
           answer[c] # "none", answer'[c] = answer[c], AnswerTrue(c)
    PROVE  AnswerTrue(c)'
<1> DEFINE i == call[c].invite
<1>1. /\ TypeOK /\ [Move]_vars /\ CallOf(c) /\ SqliteTypeOK
    BY StoreStep, NextIsMove DEF TransactionInv, SqliteTypeOK, CallInv
<1>2. pc[c] \in {"rollback", "done"} /\ call[c] # NULL
    BY <1>1 DEF CallOf
<1>3. /\ call'[c] = call[c] /\ i \in Invites /\ call[c].at \in Nat
      /\ Kind(c) = call[c].kind
    BY <1>1, <1>2, AnswerGiven, CallFields
<1>4. ~Commit(c)
    BY <1>2 DEF Commit
<1>5. ~Redeemed(c) => ~Redeemed(c)'
    BY <1>4, RedeemedBy
<1>6. Course(i)
    BY <1>1, <1>3, CourseStep
<1>7. call[c].kind # "create" => i \in minted
    BY <1>1, <1>2, <1>3 DEF CallOf
<1>8. CASE call[c].kind = "consume"
    <2>1. answer[c] = "true" => invites'[i] = invites[i]
        BY <1>3, <1>6, <1>8, NullApart DEF AnswerTrue, Course
    <2>2. ASSUME answer[c] = "false", invites'[i] # NULL
          PROVE  ~Consumable(invites'[i], call[c].at)
        <3>1. invites[i] # NULL /\ ~Consumable(invites[i], call[c].at)
            BY <1>6, <1>7, <1>8, <2>2 DEF AnswerTrue, Course
        <3>2. invites'[i].expiresAt = invites[i].expiresAt
            BY <1>1, <1>3, <2>2, <3>1, ExpiryFixed
        <3>3. CASE invites[i].consumedAt # NULL \/ invites[i].revokedAt # NULL
            BY <1>6, <2>2, <3>1, <3>3 DEF Course
        <3>4. CASE ~TextBefore(call[c].at, invites[i].expiresAt)
            BY <3>2, <3>4 DEF Consumable
        <3>5. QED BY <3>1, <3>3, <3>4 DEF Consumable
    <2>3. QED BY <1>3, <1>5, <1>8, <2>1, <2>2 DEF AnswerTrue
<1>9. CASE call[c].kind = "revoke"
    BY <1>3, <1>6, <1>7, <1>9, NullApart DEF AnswerTrue, Course, Revocable
<1>10. CASE call[c].kind = "create"
    <2>1. minted \subseteq minted'
        BY OnlyCommits, MintedBy DEF CallerStep, Statement
    <2>2. i \notin minted => i \notin minted'
        BY <1>2, <1>4, <1>10, StoredBy
    <2>3. QED BY <1>3, <1>10, <2>1, <2>2 DEF AnswerTrue
<1>11. QED BY <1>2, <1>3, <1>8, <1>9, <1>10, CallFields DEF SqliteTypeOK, TransactionInv

\* A call is told the truth.
LEMMA AnswerStarts ==
    ASSUME TransactionInv, RowsCoherent, AnswersInv, [SqliteNext]_sqlAllVars, NEW c \in Calls,
           answer'[c] # answer[c]
    PROVE  AnswerTrue(c)'
<1> USE CallersApart
<1> DEFINE i == call[c].invite
<1>1. /\ answer[c] = "none" /\ c \notin left
      /\ \/ Commit(c) /\ answer'[c] = "true"
         \/ ReturnFalse(c) /\ answer'[c] = "false"
         \/ (Fail(c) \/ FailToConnect(c)) /\ answer'[c] = "error"
    BY AnswerGiven
<1>2. /\ pc[c] # "idle" /\ c # Task /\ c \in Callers
      /\ pc[c] \notin {"rollback", "done"}
    BY <1>1 DEF Commit, ReturnFalse, Fail, FailToConnect, Statements, Callers
<1>3. /\ call[c] # NULL /\ call'[c] = call[c] /\ i \in Invites
      /\ Kind(c) = call[c].kind /\ call[c].kind \in {"create", "consume", "revoke"}
    BY <1>2, CallGiven, CallFields, AnswerGiven DEF TransactionInv
<1>4. /\ ~Redeemed(c)
      /\ call[c].kind = "create" => i \notin minted
    BY <1>1, <1>3 DEF AnswersInv, Unheard
<1>5. CASE Commit(c)
    <2>0. answer'[c] = "true"
        BY <1>1, <1>5, AnswerGiven
    <2>1. CASE call[c].kind = "create"
        <3>1. i \in minted'
            BY <1>5, <2>1, CommitWrites
        <3>2. QED BY <1>3, <2>0, <2>1, <3>1 DEF AnswerTrue
    <2>2. CASE call[c].kind # "create"
        <3>1. invites[i] \in Row /\ invites'[i] = Updated(c, invites[i])
            BY <1>5, <2>2, CommitWrites
        <3>2. /\ invites'[i] # NULL
              /\ call[c].kind = "consume" => /\ invites'[i].consumedAt = call[c].at
                                             /\ invites'[i].consumedBy = c
              /\ call[c].kind # "consume" => invites'[i].revokedAt = call[c].at
            BY <1>3, <3>1, UpdatedFields
        <3>3. QED BY <1>3, <2>0, <2>2, <3>2 DEF AnswerTrue
    <2>3. QED BY <2>1, <2>2
<1>6. CASE ReturnFalse(c) /\ answer'[c] = "false"
    <2>1. pc[c] = "return_false" /\ UNCHANGED vars
        BY <1>6 DEF ReturnFalse
    <2>2. writer = c
        BY <1>2, <2>1 DEF TransactionInv, LockInv, Locked
    <2>3. ~Fits(c, invites[i]) /\ Kind(c) # "create"
        BY <1>3, <2>1, <2>2 DEF TransactionInv, DraftInv, Drafted, CallInv, CallOf
    <2>4. ~Redeemed(c)'
        BY <1>4, <2>1 DEF Redeemed, vars
    <2>5. QED BY <1>3, <1>6, <2>1, <2>3, <2>4 DEF AnswerTrue, Fits, vars
<1>7. CASE (Fail(c) \/ FailToConnect(c)) /\ answer'[c] = "error"
    <2>1. UNCHANGED <<invites, minted>>
        BY <1>7 DEF Fail, FailToConnect
    <2>2. ~Redeemed(c)'
        BY <1>4, <2>1 DEF Redeemed
    <2>3. QED BY <1>3, <1>4, <1>7, <2>1, <2>2 DEF AnswerTrue
<1>8. QED BY <1>1, <1>5, <1>6, <1>7

LEMMA UnheardStep ==
    ASSUME TransactionInv, AnswersInv, [SqliteNext]_sqlAllVars PROVE Unheard'
<1> USE CallersApart
<1> SUFFICES ASSUME NEW c \in Calls, answer'[c] = "none", c \notin left'
             PROVE  /\ ~Redeemed(c)'
                    /\ call'[c] # NULL /\ call'[c].kind = "create" => call'[c].invite \notin minted'
    BY DEF Unheard
<1>1. /\ answer[c] = "none" /\ c \notin left /\ ~Commit(c)
      /\ call[c] # NULL => call'[c] = call[c]
    BY AnswerGiven
<1>2. /\ ~Redeemed(c)
      /\ call[c] # NULL /\ call[c].kind = "create" => call[c].invite \notin minted
    BY <1>1 DEF AnswersInv, Unheard
<1>3. ~Redeemed(c)'
    BY <1>1, <1>2, RedeemedBy
<1>4. CASE call[c] # NULL
    BY <1>1, <1>2, <1>3, <1>4, StoredBy
<1>5. CASE call[c] = NULL
    <2>1. CallOf(c)'  /\ Timely(c)'
        BY CallStep DEF CallInv
    <2>2. ASSUME call'[c] # NULL PROVE pc'[c] = "connect"
        <3>1. ASSUME NEW d \in Calls, CallCreate(d) \/ CallSettle(d) PROVE pc'[c] = "connect"
            <4>1. PICK new \in Call :
                    /\ call' = [call EXCEPT ![d] = new]
                    /\ pc' = [pc EXCEPT ![d] = "connect"]
                BY <3>1, StartIsCall
            <4>2. c = d
                BY <1>5, <2>2, <4>1 DEF TransactionInv, SqliteTypeOK
            <4>3. QED BY <4>1, <4>2 DEF TransactionInv, SqliteTypeOK, Callers
        <3>2. ASSUME NEW d \in Callers, CallerStep(d) PROVE FALSE
            BY <1>5, <2>2, <3>2, OnlyItsOwn DEF TransactionInv
        <3>3. ~(SqlitePassTime \/ CallCleanup \/ Crash \/ UNCHANGED sqlAllVars \/ \E d \in Calls : Leave(d))
            BY <1>5, <2>2 DEF SqlitePassTime, CallCleanup, Crash, Leave, sqlVars, sqlAllVars
        <3>4. QED BY <3>1, <3>2, <3>3 DEF SqliteNext, CallerStep
    <2>3. ASSUME call'[c] # NULL, call'[c].kind = "create" PROVE call'[c].invite \notin minted'
        BY <2>1, <2>2, <2>3 DEF Timely, Running, Kind
    <2>4. QED BY <1>3, <2>3
<1>6. QED BY <1>4, <1>5

\* A caller of the repository can rely on its answer for good.
THEOREM AnswersHold == SqliteSpec => []AnswersTrue
<1>1. SqliteInit => AnswersInv
    BY DEF SqliteInit, Init, AnswersInv, AnswersTrue, Unheard, Redeemed
<1>2. TransactionInv /\ RowsCoherent /\ AnswersInv /\ [SqliteNext]_sqlAllVars => AnswersInv'
    <2> SUFFICES ASSUME TransactionInv, RowsCoherent, AnswersInv, [SqliteNext]_sqlAllVars
                 PROVE  AnswersInv'
        OBVIOUS
    <2>1. ASSUME NEW c \in Calls, answer'[c] # "none" PROVE AnswerTrue(c)'
        <3>1. CASE answer'[c] = answer[c]
            <4>1. AnswerTrue(c)
                BY <2>1, <3>1 DEF AnswersInv, AnswersTrue
            <4>2. QED BY <2>1, <3>1, <4>1, AnswerStays
        <3>2. CASE answer'[c] # answer[c]
            BY <3>2, AnswerStarts
        <3>3. QED BY <3>1, <3>2
    <2>2. AnswersTrue'
        BY <2>1 DEF AnswersTrue
    <2>3. QED BY <2>2, UnheardStep DEF AnswersInv
<1>3. AnswersInv => AnswersTrue
    BY DEF AnswersInv
<1>4. SqliteSpec => []RowsCoherent
    BY SqliteImplementsStore, RowsStayCoherent, PTL DEF ImplementsStore
<1>5. QED BY <1>1, <1>2, <1>3, <1>4, TransactionsInvariant, PTL DEF SqliteSpec
===========================================================================
