------------------------- MODULE InviteStoreProofs -------------------------
(* What InviteStore guarantees for every value of its constants.           *)
EXTENDS InviteStore, TLAPS

---------------------------------------------------------------------------
(* Rows.                                                                   *)

\* A row that was written by create_invite is a row.
LEMMA FreshRow ==
    ASSUME NEW groups \in GroupLists, NEW at \in Nat, NEW hours \in Lifetimes, hours >= 1
    PROVE  [groups |-> groups, createdAt |-> at, expiresAt |-> at + hours,
            consumedAt |-> NULL, consumedBy |-> NULL, revokedAt |-> NULL] \in Row
BY StoreAssumption DEF Row

\* NULL is not a row, an instant or a user.
LEMMA NullApart == NULL \notin Row /\ NULL \notin Int /\ NULL \notin Nat /\ NULL \notin Users
BY StoreAssumption

\* A stamp is an instant.
LEMMA StampIsNat == TypeOK => \A t \in Stamps : t \in Nat /\ t <= clock
BY DEF Stamps, TypeOK

---------------------------------------------------------------------------
(* Type correctness.                                                       *)

LEMMA InsertEventType ==
    ASSUME TypeOK,
           NEW i \in Invites, NEW type \in {"created", "consumed", "revoked"},
           NEW at \in Nat, NEW actor \in Users \cup {NULL},
           InsertEvent(i, type, at, actor)
    PROVE  /\ events' \subseteq Event
           /\ lastEvent' \in Nat
           /\ \A e \in events' : e.id \in 1..lastEvent'
BY DEF InsertEvent, TypeOK, Event

\* The row after consume_invite and after revoke_invite.
Used(row, at, by) == [row EXCEPT !.consumedAt = at, !.consumedBy = by]
Revoked(row, at) == [row EXCEPT !.revokedAt = at]

LEMMA UsedRow ==
    ASSUME NEW row \in Row, NEW at \in Nat, NEW by \in Users
    PROVE  /\ Used(row, at, by) \in Row
           /\ Used(row, at, by).createdAt = row.createdAt
           /\ Used(row, at, by).expiresAt = row.expiresAt
           /\ Used(row, at, by).consumedAt = at
           /\ Used(row, at, by).consumedBy = by
           /\ Used(row, at, by).revokedAt = row.revokedAt
BY DEF Row, Used

LEMMA RevokedRow ==
    ASSUME NEW row \in Row, NEW at \in Nat
    PROVE  /\ Revoked(row, at) \in Row
           /\ Revoked(row, at).createdAt = row.createdAt
           /\ Revoked(row, at).expiresAt = row.expiresAt
           /\ Revoked(row, at).consumedAt = row.consumedAt
           /\ Revoked(row, at).consumedBy = row.consumedBy
           /\ Revoked(row, at).revokedAt = at
BY DEF Row, Revoked

\* How each write changes the table, in a form without nested EXCEPTs.
LEMMA ConsumeWrites ==
    ASSUME TypeOK, NEW i \in Invites, NEW at \in Nat, NEW by \in Users,
           ConsumeInvite(i, at, by)
    PROVE  /\ invites[i] \in Row
           /\ invites' = [invites EXCEPT ![i] = Used(invites[i], at, by)]
           /\ invites'[i] = Used(invites[i], at, by)
           /\ invites'[i] \in Row
           /\ \A j \in Invites \ {i} : invites'[j] = invites[j]
<1>1. /\ invites[i] \in Row
      /\ invites' = [invites EXCEPT ![i] = Used(invites[i], at, by)]
    BY DEF ConsumeInvite, TypeOK, Used
<1>2. /\ invites'[i] = Used(invites[i], at, by)
      /\ \A j \in Invites \ {i} : invites'[j] = invites[j]
    BY <1>1 DEF TypeOK
<1>3. QED BY <1>1, <1>2, UsedRow

LEMMA RevokeWrites ==
    ASSUME TypeOK, NEW i \in Invites, RevokeInvite(i)
    PROVE  \E at \in Nat :
           /\ at \in Stamps
           /\ invites[i] \in Row
           /\ Revocable(invites[i])
           /\ invites' = [invites EXCEPT ![i] = Revoked(invites[i], at)]
           /\ invites'[i] = Revoked(invites[i], at)
           /\ invites'[i] \in Row
           /\ \A j \in Invites \ {i} : invites'[j] = invites[j]
           /\ InsertEvent(i, "revoked", at, NULL)
           /\ UNCHANGED <<clock, minted, sweep>>
<1>1. PICK at \in Stamps :
           /\ invites[i] # NULL
           /\ Revocable(invites[i])
           /\ invites' = [invites EXCEPT ![i].revokedAt = at]
           /\ InsertEvent(i, "revoked", at, NULL)
           /\ UNCHANGED <<clock, minted, sweep>>
    BY DEF RevokeInvite
<1>2. at \in Nat
    BY StampIsNat
<1>3. invites[i] \in Row
    BY <1>1 DEF TypeOK
<1>4. invites' = [invites EXCEPT ![i] = Revoked(invites[i], at)]
    BY <1>1 DEF Revoked
<1>5. invites'[i] = Revoked(invites[i], at)
    BY <1>4 DEF TypeOK
<1>6. invites'[i] \in Row
    BY <1>2, <1>3, <1>5, RevokedRow
<1>7. \A j \in Invites \ {i} : invites'[j] = invites[j]
    BY <1>4 DEF TypeOK
<1>8. QED BY <1>1, <1>2, <1>3, <1>4, <1>5, <1>6, <1>7

LEMMA GenerateWrites ==
    ASSUME TypeOK, NEW i \in Invites, GenerateInvite(i)
    PROVE  \E groups \in GroupLists, hours \in Lifetimes, at \in Nat :
           /\ at \in Stamps
           /\ hours >= 1
           /\ i \notin minted
           /\ minted' = minted \cup {i}
           /\ invites' = [invites EXCEPT ![i] =
                [groups |-> groups, createdAt |-> at, expiresAt |-> at + hours,
                 consumedAt |-> NULL, consumedBy |-> NULL, revokedAt |-> NULL]]
           /\ invites'[i] \in Row
           /\ \A j \in Invites \ {i} : invites'[j] = invites[j]
           /\ InsertEvent(i, "created", at, NULL)
           /\ UNCHANGED <<clock, sweep>>
<1>1. PICK groups \in GroupLists, hours \in Lifetimes, at \in Stamps :
           /\ hours >= 1
           /\ CreateInvite(i, groups, at, at + hours, NULL)
    BY DEF GenerateInvite
<1> DEFINE fresh == [groups |-> groups, createdAt |-> at, expiresAt |-> at + hours,
                     consumedAt |-> NULL, consumedBy |-> NULL, revokedAt |-> NULL]
<1>2. at \in Nat
    BY StampIsNat
<1>3. fresh \in Row
    BY <1>1, <1>2, FreshRow
<1>4. invites' = [invites EXCEPT ![i] = fresh]
    BY <1>1 DEF CreateInvite
<1>5. /\ invites'[i] \in Row
      /\ \A j \in Invites \ {i} : invites'[j] = invites[j]
    BY <1>3, <1>4 DEF TypeOK
<1>6. /\ i \notin minted
      /\ minted' = minted \cup {i}
      /\ InsertEvent(i, "created", at, NULL)
      /\ UNCHANGED <<clock, sweep>>
    BY <1>1 DEF CreateInvite
<1>7. QED BY <1>1, <1>2, <1>4, <1>5, <1>6

\* The steps of the repository with no bound on the age of a stamp: what the
\* lemmas need of Next, and what the steps of module Redemption are here.
ConsumeAny(i) == \E at \in Nat, by \in Users : ConsumeInvite(i, at, by)

Move ==
    \/ PassTime
    \/ \E i \in Invites : GenerateInvite(i) \/ ConsumeAny(i) \/ RevokeInvite(i)
    \/ SweepTick
    \/ SweepRun
    \/ SweepAborts

LEMMA NextIsMove == TypeOK /\ [Next]_vars => [Move]_vars
BY StampIsNat DEF Next, Move, Consume, ConsumeAny

\* The type invariant is inductive.
LEMMA TypeStep == TypeOK /\ [Move]_vars => TypeOK'
<1> SUFFICES ASSUME TypeOK, [Move]_vars PROVE TypeOK'
    OBVIOUS
<1>1. CASE PassTime
    BY <1>1 DEF PassTime, TypeOK
<1>2. ASSUME NEW i \in Invites, GenerateInvite(i) PROVE TypeOK'
    <2>1. PICK groups \in GroupLists, hours \in Lifetimes, at \in Nat :
           /\ minted' = minted \cup {i}
           /\ invites' = [invites EXCEPT ![i] =
                [groups |-> groups, createdAt |-> at, expiresAt |-> at + hours,
                 consumedAt |-> NULL, consumedBy |-> NULL, revokedAt |-> NULL]]
           /\ invites'[i] \in Row
           /\ \A j \in Invites \ {i} : invites'[j] = invites[j]
           /\ InsertEvent(i, "created", at, NULL)
           /\ UNCHANGED <<clock, sweep>>
        BY <1>2, GenerateWrites
    <2>2. invites' \in [Invites -> Row \cup {NULL}]
        BY <2>1 DEF TypeOK
    <2>3. /\ events' \subseteq Event
          /\ lastEvent' \in Nat
          /\ \A e \in events' : e.id \in 1..lastEvent'
        BY <2>1, InsertEventType
    <2>4. QED BY <2>1, <2>2, <2>3 DEF TypeOK
<1>3. ASSUME NEW i \in Invites, ConsumeAny(i) PROVE TypeOK'
    <2>1. PICK at \in Nat, by \in Users : ConsumeInvite(i, at, by)
        BY <1>3 DEF ConsumeAny
    <2>2. invites' \in [Invites -> Row \cup {NULL}]
        BY <2>1, ConsumeWrites DEF TypeOK
    <2>3. /\ events' \subseteq Event
          /\ lastEvent' \in Nat
          /\ \A e \in events' : e.id \in 1..lastEvent'
        BY <2>1, InsertEventType DEF ConsumeInvite
    <2>4. QED BY <2>1, <2>2, <2>3 DEF TypeOK, ConsumeInvite
<1>4. ASSUME NEW i \in Invites, RevokeInvite(i) PROVE TypeOK'
    <2>1. PICK at \in Nat :
           /\ invites' = [invites EXCEPT ![i] = Revoked(invites[i], at)]
           /\ invites'[i] = Revoked(invites[i], at)
           /\ invites'[i] \in Row
           /\ \A j \in Invites \ {i} : invites'[j] = invites[j]
           /\ InsertEvent(i, "revoked", at, NULL)
           /\ UNCHANGED <<clock, minted, sweep>>
        BY <1>4, RevokeWrites
    <2>2. invites' \in [Invites -> Row \cup {NULL}]
        BY <2>1 DEF TypeOK
    <2>3. /\ events' \subseteq Event
          /\ lastEvent' \in Nat
          /\ \A e \in events' : e.id \in 1..lastEvent'
        BY <2>1, InsertEventType
    <2>4. QED BY <2>1, <2>2, <2>3 DEF TypeOK
<1>5. CASE SweepTick
    BY <1>5, StoreAssumption DEF SweepTick, TypeOK
<1>6. CASE SweepRun
    BY <1>6 DEF SweepRun, CleanupStale, TypeOK
<1>7. CASE SweepAborts
    BY <1>7 DEF SweepAborts, TypeOK
<1>8. CASE UNCHANGED vars
    BY <1>8 DEF vars, TypeOK
<1>9. QED BY <1>1, <1>2, <1>3, <1>4, <1>5, <1>6, <1>7, <1>8 DEF Move

\* Every variable keeps its type, whatever the constants are.
THEOREM TypeCorrect == Spec => []TypeOK
<1>1. Init => TypeOK
    BY DEF Init, TypeOK
<1>2. TypeOK /\ [Next]_vars => TypeOK'
    BY NextIsMove, TypeStep
<1>3. QED BY <1>1, <1>2, PTL DEF Spec

---------------------------------------------------------------------------
(* Rows: used or revoked, never both.                                      *)

LEMMA RowsStep == TypeOK /\ RowsCoherent /\ [Move]_vars => RowsCoherent'
<1> SUFFICES ASSUME TypeOK, RowsCoherent, [Move]_vars PROVE RowsCoherent'
    OBVIOUS
<1> USE NullApart
<1>1. CASE PassTime \/ SweepTick \/ SweepAborts \/ UNCHANGED vars
    BY <1>1 DEF PassTime, SweepTick, SweepAborts, vars, RowsCoherent
<1>2. ASSUME NEW i \in Invites, GenerateInvite(i) PROVE RowsCoherent'
    BY <1>2, GenerateWrites DEF RowsCoherent, TypeOK
<1>3. ASSUME NEW i \in Invites, ConsumeAny(i) PROVE RowsCoherent'
    <2>1. PICK at \in Nat, by \in Users : ConsumeInvite(i, at, by)
        BY <1>3 DEF ConsumeAny
    <2>2. /\ i \in minted
          /\ invites[i].revokedAt = NULL
          /\ minted' = minted
        BY <2>1 DEF ConsumeInvite, Consumable, RowsCoherent
    <2>3. /\ invites[i] \in Row
          /\ invites'[i] = Used(invites[i], at, by)
          /\ \A j \in Invites \ {i} : invites'[j] = invites[j]
        BY <2>1, ConsumeWrites
    <2>4. /\ invites'[i].consumedAt = at
          /\ invites'[i].consumedBy = by
          /\ invites'[i].revokedAt = NULL
        BY <2>2, <2>3, UsedRow
    <2>5. QED BY <2>2, <2>3, <2>4 DEF RowsCoherent
<1>4. ASSUME NEW i \in Invites, RevokeInvite(i) PROVE RowsCoherent'
    <2>1. PICK at \in Nat :
           /\ invites[i] \in Row
           /\ Revocable(invites[i])
           /\ invites' = [invites EXCEPT ![i] = Revoked(invites[i], at)]
           /\ invites'[i] = Revoked(invites[i], at)
           /\ invites'[i] \in Row
           /\ \A j \in Invites \ {i} : invites'[j] = invites[j]
           /\ minted' = minted
        BY <1>4, RevokeWrites
    <2>2. /\ invites'[i].consumedAt = NULL
          /\ invites'[i].consumedBy = NULL
          /\ i \in minted
        BY <2>1, RevokedRow DEF Revocable, RowsCoherent
    <2>3. QED BY <2>1, <2>2 DEF RowsCoherent
<1>5. CASE SweepRun
    BY <1>5 DEF SweepRun, CleanupStale, RowsCoherent
<1>6. QED BY <1>1, <1>2, <1>3, <1>4, <1>5 DEF Move

\* A row is used or revoked, never both, and names its user exactly when used.
THEOREM RowsStayCoherent == Spec => []RowsCoherent
<1>1. Init => RowsCoherent
    BY DEF Init, RowsCoherent
<1>2. TypeOK /\ RowsCoherent /\ [Next]_vars => RowsCoherent'
    BY NextIsMove, RowsStep
<1>3. QED BY <1>1, <1>2, TypeCorrect, PTL DEF Spec

---------------------------------------------------------------------------
(* The two tables.                                                         *)

\* A change of the row of i together with the one event that tells of it
\* keeps the tables in agreement.
LEMMA InsertKeepsHistory ==
    ASSUME TypeOK, HistoryMatches,
           NEW i \in Invites, NEW type, NEW at, NEW actor,
           InsertEvent(i, type, at, actor),
           invites'[i] # NULL,
           \A j \in Invites \ {i} : invites'[j] = invites[j],
           \A e \in events : e.invite = i => e.type # type /\ type # "created",
           \A e \in events : e.invite = i => Attests(invites'[i], e),
           Attests(invites'[i], [id |-> lastEvent + 1, invite |-> i, type |-> type,
                                 at |-> at, actor |-> actor]),
           \A t \in Told(invites'[i]) :
                t = type \/ (invites[i] # NULL /\ t \in Told(invites[i]))
    PROVE  HistoryMatches'
<1> DEFINE new == [id |-> lastEvent + 1, invite |-> i, type |-> type,
                   at |-> at, actor |-> actor]
<1>1. events' = events \cup {new}
    BY DEF InsertEvent
<1>2. /\ new.id = lastEvent + 1
      /\ new.invite = i
      /\ new.type = type
    OBVIOUS
<1>3. \A e \in events : e.id \in Nat /\ e.id < new.id /\ e.invite \in Invites
    BY <1>2 DEF TypeOK, Event
<1> HIDE DEF new
<1>4. (\A e \in events : invites[e.invite] # NULL /\ Attests(invites[e.invite], e))'
    <2>1. ASSUME NEW e \in events
          PROVE  invites'[e.invite] # NULL /\ Attests(invites'[e.invite], e)
        BY <1>3 DEF HistoryMatches
    <2>2. invites'[new.invite] # NULL /\ Attests(invites'[new.invite], new)
        BY <1>2 DEF new
    <2>3. QED BY <1>1, <2>1, <2>2 DEF Attests
<1>5. (\A j \in Invites : invites[j] # NULL =>
            \A t \in Told(invites[j]) : \E e \in events : e.invite = j /\ e.type = t)'
    <2>1. ASSUME NEW j \in Invites, invites'[j] # NULL, NEW t \in Told(invites'[j])
          PROVE  \E e \in events' : e.invite = j /\ e.type = t
        <3>1. CASE j = i /\ t = type
            BY <3>1, <1>1, <1>2
        <3>2. CASE ~(j = i /\ t = type)
            <4>1. invites[j] # NULL /\ t \in Told(invites[j])
                BY <2>1, <3>2
            <4>2. QED BY <4>1, <1>1 DEF HistoryMatches
        <3>3. QED BY <3>1, <3>2
    <2>2. QED BY <2>1 DEF Told
<1>6. (\A e, f \in events :
            /\ e.id = f.id => e = f
            /\ e.invite = f.invite /\ e.type = f.type => e = f
            /\ e.invite = f.invite /\ e.type = "created" => e.id <= f.id)'
    <2>1. ASSUME NEW e \in events, NEW f \in events
          PROVE  /\ e.id = f.id => e = f
                 /\ e.invite = f.invite /\ e.type = f.type => e = f
                 /\ e.invite = f.invite /\ e.type = "created" => e.id <= f.id
        BY DEF HistoryMatches
    <2>2. ASSUME NEW e \in events
          PROVE  /\ e.id # new.id
                 /\ e.id <= new.id
                 /\ ~(e.invite = new.invite /\ e.type = new.type)
                 /\ ~(e.invite = new.invite /\ new.type = "created")
        BY <1>2, <1>3, lastEvent \in Nat DEF TypeOK
    <2>3. new.id <= new.id
        BY <1>2 DEF TypeOK
    <2>4. QED BY <1>1, <2>1, <2>2, <2>3
<1>7. QED BY <1>4, <1>5, <1>6 DEF HistoryMatches

LEMMA HistoryStep == TypeOK /\ RowsCoherent /\ HistoryMatches /\ [Move]_vars => HistoryMatches'
<1> SUFFICES ASSUME TypeOK, RowsCoherent, HistoryMatches, [Move]_vars PROVE HistoryMatches'
    OBVIOUS
<1> USE NullApart
<1>1. CASE PassTime \/ SweepTick \/ SweepAborts \/ UNCHANGED vars
    BY <1>1 DEF PassTime, SweepTick, SweepAborts, vars, HistoryMatches, Attests, Told
<1>2. ASSUME NEW i \in Invites, GenerateInvite(i) PROVE HistoryMatches'
    <2>1. PICK groups \in GroupLists, hours \in Lifetimes, at \in Nat :
           /\ i \notin minted
           /\ invites' = [invites EXCEPT ![i] =
                [groups |-> groups, createdAt |-> at, expiresAt |-> at + hours,
                 consumedAt |-> NULL, consumedBy |-> NULL, revokedAt |-> NULL]]
           /\ invites'[i] \in Row
           /\ \A j \in Invites \ {i} : invites'[j] = invites[j]
           /\ InsertEvent(i, "created", at, NULL)
        BY <1>2, GenerateWrites
    <2>2. invites[i] = NULL
        BY <2>1 DEF RowsCoherent
    <2>3. invites'[i] # NULL
        BY <2>1
    <2>4. \A e \in events : e.invite # i
        BY <2>2 DEF HistoryMatches
    <2>5. invites'[i] = [groups |-> groups, createdAt |-> at, expiresAt |-> at + hours,
                 consumedAt |-> NULL, consumedBy |-> NULL, revokedAt |-> NULL]
        BY <2>1 DEF TypeOK
    <2>6. Attests(invites'[i], [id |-> lastEvent + 1, invite |-> i, type |-> "created",
                                at |-> at, actor |-> NULL])
        BY <2>5 DEF Attests
    <2>7. \A t \in Told(invites'[i]) : t = "created"
        BY <2>5 DEF Told
    <2>8. QED BY <2>1, <2>3, <2>4, <2>6, <2>7, InsertKeepsHistory
<1>3. ASSUME NEW i \in Invites, ConsumeAny(i) PROVE HistoryMatches'
    <2>1. PICK at \in Nat, by \in Users : ConsumeInvite(i, at, by)
        BY <1>3 DEF ConsumeAny
    <2>2. /\ invites[i] # NULL
          /\ invites[i] \in Row
          /\ invites[i].consumedAt = NULL
          /\ invites[i].revokedAt = NULL
          /\ invites'[i] \in Row
          /\ invites'[i] = Used(invites[i], at, by)
          /\ \A j \in Invites \ {i} : invites'[j] = invites[j]
          /\ InsertEvent(i, "consumed", at, by)
        <3>1. /\ invites[i] # NULL
              /\ invites[i].consumedAt = NULL
              /\ invites[i].revokedAt = NULL
              /\ InsertEvent(i, "consumed", at, by)
            BY <2>1 DEF ConsumeInvite, Consumable
        <3>2. QED BY <2>1, <3>1, ConsumeWrites
    <2>3. /\ invites'[i].createdAt = invites[i].createdAt
          /\ invites'[i].consumedAt = at
          /\ invites'[i].consumedBy = by
          /\ invites'[i].revokedAt = NULL
        <3>1. /\ Used(invites[i], at, by).createdAt = invites[i].createdAt
              /\ Used(invites[i], at, by).consumedAt = at
              /\ Used(invites[i], at, by).consumedBy = by
              /\ Used(invites[i], at, by).revokedAt = invites[i].revokedAt
            <4>1. invites[i] \in Row
                BY <2>2
            <4>2. QED BY <4>1, UsedRow
        <3>2. invites'[i] = Used(invites[i], at, by) /\ invites[i].revokedAt = NULL
            BY <2>2
        <3>3. QED BY <3>1, <3>2
    <2>4. \A e \in events : e.invite = i => e.type = "created" /\ Attests(invites[i], e)
        BY <2>2 DEF HistoryMatches, Attests
    <2>5. \A e \in events : e.invite = i => Attests(invites'[i], e)
        BY <2>3, <2>4 DEF Attests
    <2>6. Attests(invites'[i], [id |-> lastEvent + 1, invite |-> i, type |-> "consumed",
                                at |-> at, actor |-> by])
        BY <2>3 DEF Attests
    <2>7. \A t \in Told(invites'[i]) : t = "consumed" \/ t \in Told(invites[i])
        BY <2>3 DEF Told
    <2>8. invites'[i] # NULL
        BY <2>2
    <2>9. QED BY <2>2, <2>4, <2>5, <2>6, <2>7, <2>8, InsertKeepsHistory
<1>4. ASSUME NEW i \in Invites, RevokeInvite(i) PROVE HistoryMatches'
    <2>1. PICK at \in Nat :
           /\ invites[i] \in Row
           /\ Revocable(invites[i])
           /\ invites' = [invites EXCEPT ![i] = Revoked(invites[i], at)]
           /\ invites'[i] = Revoked(invites[i], at)
           /\ invites'[i] \in Row
           /\ \A j \in Invites \ {i} : invites'[j] = invites[j]
           /\ InsertEvent(i, "revoked", at, NULL)
        BY <1>4, RevokeWrites
    <2>2. /\ invites[i] # NULL
          /\ invites[i].consumedAt = NULL
          /\ invites[i].revokedAt = NULL
          /\ invites'[i] = Revoked(invites[i], at)
        BY <2>1 DEF Revocable
    <2>3. /\ invites'[i].createdAt = invites[i].createdAt
          /\ invites'[i].consumedAt = NULL
          /\ invites'[i].revokedAt = at
        BY <2>1, <2>2, RevokedRow
    <2>4. \A e \in events : e.invite = i => e.type = "created" /\ Attests(invites[i], e)
        BY <2>2 DEF HistoryMatches, Attests
    <2>5. \A e \in events : e.invite = i => Attests(invites'[i], e)
        BY <2>3, <2>4 DEF Attests
    <2>6. Attests(invites'[i], [id |-> lastEvent + 1, invite |-> i, type |-> "revoked",
                                at |-> at, actor |-> NULL])
        BY <2>3 DEF Attests
    <2>7. \A t \in Told(invites'[i]) : t = "revoked" \/ t \in Told(invites[i])
        BY <2>3 DEF Told
    <2>8. invites'[i] # NULL
        BY <2>1
    <2>9. QED BY <2>1, <2>2, <2>4, <2>5, <2>6, <2>7, <2>8, InsertKeepsHistory
<1>5. CASE SweepRun
    <2>1. /\ events' = {e \in events : e.invite \notin StaleInvites(sweep)}
          /\ \A j \in Invites : invites'[j] =
                IF j \in StaleInvites(sweep) THEN NULL ELSE invites[j]
        BY <1>5 DEF SweepRun, CleanupStale
    <2>2. \A e \in events : e.invite \in Invites
        BY DEF TypeOK, Event
    <2> HIDE NullApart
    <2>3. (\A e \in events : invites[e.invite] # NULL /\ Attests(invites[e.invite], e))'
        BY <2>1, <2>2 DEF HistoryMatches, Attests
    <2>4. (\A i \in Invites : invites[i] # NULL =>
            \A t \in Told(invites[i]) : \E e \in events : e.invite = i /\ e.type = t)'
        BY <2>1, <2>2 DEF HistoryMatches, Told
    <2>5. QED BY <2>1, <2>3, <2>4 DEF HistoryMatches
<1>6. QED BY <1>1, <1>2, <1>3, <1>4, <1>5 DEF Move

\* The event table and the invitation table always tell the same story.
THEOREM HistoryAgrees == Spec => []HistoryMatches
<1>1. Init => HistoryMatches
    BY DEF Init, HistoryMatches
<1>2. QED BY <1>1, NextIsMove, HistoryStep, TypeCorrect, RowsStayCoherent, PTL DEF Spec

---------------------------------------------------------------------------
(* The life cycle.                                                         *)

\* What an invitation may go through in one step.
Course(i) ==
    /\ invites[i] # NULL => \/ invites[i].consumedAt = NULL
                            \/ invites'[i] = invites[i]
    /\ invites[i] # NULL => \/ invites[i].revokedAt = NULL
                            \/ invites'[i] = invites[i]
                            \/ invites'[i] = NULL
    /\ i \in minted /\ invites[i] = NULL => invites'[i] = NULL

LEMMA CourseStep == TypeOK /\ RowsCoherent /\ [Move]_vars => \A i \in Invites : Course(i)
<1> SUFFICES ASSUME TypeOK, RowsCoherent, [Move]_vars, NEW j \in Invites PROVE Course(j)
    OBVIOUS
<1>1. CASE PassTime \/ SweepTick \/ SweepAborts \/ UNCHANGED vars
    BY <1>1 DEF PassTime, SweepTick, SweepAborts, vars, Course
<1>2. ASSUME NEW i \in Invites, GenerateInvite(i) PROVE Course(j)
    <2>1. /\ i \notin minted
          /\ \A k \in Invites \ {i} : invites'[k] = invites[k]
        BY <1>2, GenerateWrites
    <2>2. invites[i] = NULL
        BY <2>1 DEF RowsCoherent
    <2>3. QED BY <2>1, <2>2 DEF Course
<1>3. ASSUME NEW i \in Invites, ConsumeAny(i) PROVE Course(j)
    <2>1. PICK at \in Nat, by \in Users : ConsumeInvite(i, at, by)
        BY <1>3 DEF ConsumeAny
    <2>2. \A k \in Invites \ {i} : invites'[k] = invites[k]
        BY <2>1, ConsumeWrites
    <2>3. invites[i] # NULL /\ invites[i].consumedAt = NULL /\ invites[i].revokedAt = NULL
        BY <2>1 DEF ConsumeInvite, Consumable
    <2>4. QED BY <2>2, <2>3 DEF Course
<1>4. ASSUME NEW i \in Invites, RevokeInvite(i) PROVE Course(j)
    <2>1. /\ invites[i] \in Row
          /\ Revocable(invites[i])
          /\ \A k \in Invites \ {i} : invites'[k] = invites[k]
        BY <1>4, RevokeWrites
    <2>2. QED BY <2>1, NullApart DEF Course, Revocable
<1>5. CASE SweepRun
    BY <1>5 DEF SweepRun, CleanupStale, StaleInvites, IsStale, Revocable, RowsCoherent, Course
<1>6. QED BY <1>1, <1>2, <1>3, <1>4, <1>5 DEF Move

\* A used invitation never changes again, a revoked one can only be deleted,
\* a deleted one never returns.
THEOREM InvitesSettle == Spec => SettledForGood
<1>1. TypeOK /\ RowsCoherent /\ [Next]_vars =>
        [\A i \in Invites :
            /\ invites[i] # NULL => \/ invites[i].consumedAt = NULL
                                    \/ invites'[i] = invites[i]
            /\ invites[i] # NULL => \/ invites[i].revokedAt = NULL
                                    \/ invites'[i] = invites[i]
                                    \/ invites'[i] = NULL
            /\ i \in minted /\ invites[i] = NULL => invites'[i] = NULL]_vars
    BY NextIsMove, CourseStep DEF Course
<1>2. QED BY <1>1, TypeCorrect, RowsStayCoherent, PTL DEF Spec, SettledForGood

LEMMA LifecycleInit == Init => Lifecycle!Init
BY DEF Init, Lifecycle!Init, phase, redeemer, Phase, Redeemer

LEMMA LifecycleStep ==
    TypeOK /\ RowsCoherent /\ RowsCoherent' /\ [Move]_vars => [Lifecycle!Next]_(Lifecycle!vars)
<1> SUFFICES ASSUME TypeOK, RowsCoherent, RowsCoherent', [Move]_vars
             PROVE  [Lifecycle!Next]_(Lifecycle!vars)
    OBVIOUS
<1> USE NullApart
<1>1. CASE PassTime \/ SweepTick \/ SweepAborts \/ UNCHANGED vars
    <2>1. invites' = invites /\ minted' = minted
        BY <1>1 DEF PassTime, SweepTick, SweepAborts, vars
    <2>2. QED BY <2>1 DEF Lifecycle!vars, phase, redeemer, Phase, Redeemer
<1>2. ASSUME NEW i \in Invites, GenerateInvite(i) PROVE Lifecycle!Open(i)
    <2>1. PICK groups \in GroupLists, hours \in Lifetimes, at \in Nat :
           /\ i \notin minted
           /\ minted' = minted \cup {i}
           /\ invites' = [invites EXCEPT ![i] =
                [groups |-> groups, createdAt |-> at, expiresAt |-> at + hours,
                 consumedAt |-> NULL, consumedBy |-> NULL, revokedAt |-> NULL]]
           /\ invites'[i] \in Row
           /\ \A j \in Invites \ {i} : invites'[j] = invites[j]
        BY <1>2, GenerateWrites
    <2>2. invites'[i] = [groups |-> groups, createdAt |-> at, expiresAt |-> at + hours,
                 consumedAt |-> NULL, consumedBy |-> NULL, revokedAt |-> NULL]
        BY <2>1 DEF TypeOK
    <2>3. /\ Phase(i) = "unborn"
          /\ Redeemer(i) = NULL
        BY <2>1 DEF Phase, Redeemer, RowsCoherent
    <2>4. /\ Phase(i)' = "open"
          /\ Redeemer(i)' = NULL
        BY <2>1, <2>2 DEF Phase, Redeemer
    <2>5. \A j \in Invites \ {i} : Phase(j)' = Phase(j) /\ Redeemer(j)' = Redeemer(j)
        BY <2>1 DEF Phase, Redeemer
    <2>6. QED BY <2>3, <2>4, <2>5 DEF Lifecycle!Open, phase, redeemer
<1>3. ASSUME NEW i \in Invites, ConsumeAny(i) PROVE \E u \in Users : Lifecycle!Redeem(i, u)
    <2>1. PICK at \in Nat, by \in Users : ConsumeInvite(i, at, by)
        BY <1>3 DEF ConsumeAny
    <2>2. /\ invites[i] # NULL
          /\ invites[i].consumedAt = NULL
          /\ invites[i].revokedAt = NULL
          /\ minted' = minted
        BY <2>1 DEF ConsumeInvite, Consumable
    <2>3. /\ invites'[i] # NULL
          /\ invites'[i].consumedAt = at
          /\ invites'[i].consumedBy = by
          /\ \A j \in Invites \ {i} : invites'[j] = invites[j]
        BY <2>1, ConsumeWrites, UsedRow
    <2>4. Phase(i) = "open" /\ Phase(i)' = "redeemed" /\ Redeemer(i)' = by
        BY <2>2, <2>3 DEF Phase, Redeemer
    <2>5. \A j \in Invites \ {i} : Phase(j)' = Phase(j) /\ Redeemer(j)' = Redeemer(j)
        BY <2>2, <2>3 DEF Phase, Redeemer
    <2>6. QED BY <2>4, <2>5 DEF Lifecycle!Redeem, phase, redeemer
<1>4. ASSUME NEW i \in Invites, RevokeInvite(i) PROVE Lifecycle!Revoke(i)
    <2>1. PICK at \in Nat :
           /\ invites[i] \in Row
           /\ Revocable(invites[i])
           /\ invites'[i] = Revoked(invites[i], at)
           /\ invites'[i] \in Row
           /\ \A j \in Invites \ {i} : invites'[j] = invites[j]
           /\ minted' = minted
        BY <1>4, RevokeWrites
    <2>2. /\ invites'[i].revokedAt = at
          /\ invites'[i].consumedAt = NULL
          /\ invites'[i].consumedBy = invites[i].consumedBy
        BY <2>1, RevokedRow DEF Revocable
    <2>3. Phase(i) = "open" /\ Phase(i)' = "revoked" /\ Redeemer(i)' = Redeemer(i)
        BY <2>1, <2>2 DEF Phase, Redeemer, Revocable
    <2>4. \A j \in Invites \ {i} : Phase(j)' = Phase(j) /\ Redeemer(j)' = Redeemer(j)
        BY <2>1 DEF Phase, Redeemer
    <2>5. QED BY <2>3, <2>4 DEF Lifecycle!Revoke, phase, redeemer
<1>5. CASE SweepRun
    <2> DEFINE stale == StaleInvites(sweep)
    <2>1. /\ \A j \in Invites : invites'[j] = IF j \in stale THEN NULL ELSE invites[j]
          /\ minted' = minted
        BY <1>5 DEF SweepRun, CleanupStale
    <2>2. /\ stale \subseteq Invites
          /\ \A j \in stale : /\ invites[j] # NULL
                              /\ invites[j].consumedAt = NULL
                              /\ invites[j].consumedBy = NULL
                              /\ j \in minted
        BY DEF StaleInvites, IsStale, Revocable, RowsCoherent
    <2> HIDE DEF stale
    <2>3. \A j \in stale : Phase(j) \in {"open", "revoked"} /\ Phase(j)' = "purged"
        BY <2>1, <2>2 DEF Phase
    <2>4. \A j \in Invites \ stale : Phase(j)' = Phase(j)
        BY <2>1 DEF Phase
    <2>5. \A j \in Invites : Redeemer(j)' = Redeemer(j)
        BY <2>1, <2>2 DEF Redeemer
    <2>6. Lifecycle!Purge(stale)
        BY <2>2, <2>3, <2>4, <2>5 DEF Lifecycle!Purge, phase, redeemer
    <2>7. QED BY <2>2, <2>6 DEF Lifecycle!Next
<1>6. QED BY <1>1, <1>2, <1>3, <1>4, <1>5 DEF Move, Lifecycle!Next

\* The repository, clock and all, implements the life cycle it promises.
THEOREM StoreImplementsLifecycle == Spec => ImplementsLifecycle
<1>1. QED BY LifecycleInit, NextIsMove, LifecycleStep, TypeCorrect, RowsStayCoherent, PTL
          DEF Spec, ImplementsLifecycle, Lifecycle!Spec

---------------------------------------------------------------------------
(* Time.  As long as no expiry reaches the year 10000, text and instants   *)
(* agree, and the defect of the far expiry cannot happen.                  *)

ShortLived ==
    /\ MaxTime < Year10000
    /\ \A hours \in Lifetimes : MaxTime + hours < Year10000

InTime ==
    /\ clock <= MaxTime
    /\ sweep # NULL => sweep <= clock - Retention
    /\ \A i \in Invites : invites[i] # NULL =>
            /\ invites[i].expiresAt < Year10000
            /\ invites[i].revokedAt # NULL => invites[i].revokedAt <= clock

LEMMA InTimeStep == ShortLived /\ TypeOK /\ InTime /\ [Next]_vars => InTime'
<1> SUFFICES ASSUME ShortLived, TypeOK, InTime, [Next]_vars PROVE InTime'
    OBVIOUS
<1> USE NullApart
<1>0. /\ clock \in Nat /\ MaxTime \in Nat /\ Retention \in Nat /\ Year10000 \in Nat
      /\ sweep \in Int \cup {NULL}
      /\ \A i \in Invites : invites[i] # NULL => invites[i] \in Row
    BY StoreAssumption, YearAssumption DEF TypeOK
<1>1. CASE PassTime
    BY <1>0, <1>1 DEF PassTime, InTime, Row
<1>2. ASSUME NEW i \in Invites, GenerateInvite(i) PROVE InTime'
    <2>1. PICK groups \in GroupLists, hours \in Lifetimes, at \in Nat :
           /\ at \in Stamps
           /\ invites' = [invites EXCEPT ![i] =
                [groups |-> groups, createdAt |-> at, expiresAt |-> at + hours,
                 consumedAt |-> NULL, consumedBy |-> NULL, revokedAt |-> NULL]]
           /\ \A j \in Invites \ {i} : invites'[j] = invites[j]
           /\ UNCHANGED <<clock, sweep>>
        BY <1>2, GenerateWrites
    <2>2. /\ invites'[i].expiresAt = at + hours
          /\ invites'[i].revokedAt = NULL
        BY <2>1 DEF TypeOK
    <2>3. at <= clock /\ hours \in Int
        BY <2>1, StampIsNat, StoreAssumption
    <2>4. at + hours < Year10000
        BY <1>0, <2>3 DEF ShortLived, InTime
    <2>5. QED BY <2>1, <2>2, <2>4 DEF InTime
<1>3. ASSUME NEW i \in Invites, Consume(i) PROVE InTime'
    <2>1. PICK at \in Nat, by \in Users : ConsumeInvite(i, at, by)
        BY <1>3, StampIsNat DEF Consume
    <2>2. /\ invites[i] # NULL
          /\ invites[i] \in Row
          /\ invites'[i] = Used(invites[i], at, by)
          /\ \A j \in Invites \ {i} : invites'[j] = invites[j]
          /\ UNCHANGED <<clock, sweep>>
        BY <2>1, ConsumeWrites DEF ConsumeInvite
    <2>3. /\ invites'[i].revokedAt = invites[i].revokedAt
          /\ invites'[i].expiresAt = invites[i].expiresAt
        BY <2>2, UsedRow
    <2>4. QED BY <2>2, <2>3 DEF InTime
<1>4. ASSUME NEW i \in Invites, RevokeInvite(i) PROVE InTime'
    <2>1. PICK at \in Nat :
           /\ at \in Stamps
           /\ invites[i] \in Row
           /\ invites'[i] = Revoked(invites[i], at)
           /\ \A j \in Invites \ {i} : invites'[j] = invites[j]
           /\ UNCHANGED <<clock, minted, sweep>>
        BY <1>4, RevokeWrites
    <2>2. /\ invites'[i].revokedAt = at
          /\ invites'[i].expiresAt = invites[i].expiresAt
          /\ at <= clock
        BY <2>1, RevokedRow, StampIsNat
    <2>3. QED BY <2>1, <2>2 DEF InTime
<1>5. CASE SweepTick
    BY <1>0, <1>5 DEF SweepTick, InTime
<1>6. CASE SweepRun
    BY <1>6 DEF SweepRun, CleanupStale, InTime
<1>7. CASE SweepAborts \/ UNCHANGED vars
    BY <1>7 DEF SweepAborts, vars, InTime
<1>8. QED BY <1>1, <1>2, <1>3, <1>4, <1>5, <1>6, <1>7 DEF Next

\* What cleanup_stale deletes was due by the clock.
LEMMA OnlyDueDeleted ==
    ASSUME TypeOK, RowsCoherent, InTime, ShortLived, [Next]_vars,
           NEW i \in Invites, invites[i] # NULL, invites'[i] = NULL
    PROVE  Due(i)
<1> USE NullApart
<1>1. SweepRun
    <2>1. ASSUME NEW j \in Invites, GenerateInvite(j) PROVE FALSE
        BY <2>1, GenerateWrites
    <2>2. ASSUME NEW j \in Invites, Consume(j) PROVE FALSE
        <3>1. PICK at \in Nat, by \in Users : ConsumeInvite(j, at, by)
            BY <2>2, StampIsNat DEF Consume
        <3>2. QED BY <3>1, ConsumeWrites
    <2>3. ASSUME NEW j \in Invites, RevokeInvite(j) PROVE FALSE
        BY <2>3, RevokeWrites
    <2>4. QED BY <2>1, <2>2, <2>3 DEF Next, PassTime, SweepTick, SweepAborts, vars
<1>2. sweep # NULL /\ IsStale(invites[i], sweep)
    BY <1>1 DEF SweepRun, CleanupStale, StaleInvites
<1>3. /\ clock \in Nat /\ Retention \in Nat /\ MaxTime \in Nat /\ Year10000 \in Nat
      /\ sweep \in Int
      /\ invites[i] \in Row
    BY <1>2, StoreAssumption, YearAssumption DEF TypeOK
<1>4. sweep <= clock - Retention /\ clock < Year10000
    BY <1>2, <1>3 DEF InTime, ShortLived
<1>5. CASE invites[i].revokedAt # NULL
    <2>1. invites[i].revokedAt \in Nat /\ invites[i].revokedAt <= clock
        BY <1>3, <1>5 DEF Row, InTime
    <2>2. TextBefore(invites[i].revokedAt, sweep)
        BY <1>2, <1>5 DEF IsStale, Revocable
    <2>3. invites[i].revokedAt < sweep
        BY <1>3, <1>4, <2>1, <2>2 DEF TextBefore, LongYear
    <2>4. QED BY <1>3, <1>4, <1>5, <2>1, <2>3 DEF Due
<1>6. CASE invites[i].revokedAt = NULL
    <2>1. invites[i].expiresAt \in Nat /\ invites[i].expiresAt < Year10000
        BY <1>3 DEF Row, InTime
    <2>2. invites[i].consumedAt = NULL /\ TextBefore(invites[i].expiresAt, sweep)
        BY <1>2, <1>6 DEF IsStale, Revocable
    <2>3. invites[i].expiresAt < sweep
        BY <1>3, <1>4, <2>1, <2>2 DEF TextBefore, LongYear
    <2>4. QED BY <1>3, <1>4, <1>6, <2>1, <2>2, <2>3 DEF Due
<1>7. QED BY <1>5, <1>6

\* Unless an expiry reaches the year 10000, retention deletes nothing early.
THEOREM CleanupIsPatient == ASSUME ShortLived PROVE Spec => CleanupSpares
<1>1. Init => InTime
    BY StoreAssumption DEF Init, InTime
<1>2. TypeOK /\ InTime /\ [Next]_vars => InTime'
    BY InTimeStep
<1>3. TypeOK /\ RowsCoherent /\ InTime /\ [Next]_vars =>
        [\A i \in Invites : invites[i] # NULL /\ invites'[i] = NULL => Due(i)]_vars
    BY OnlyDueDeleted
<1>4. QED BY <1>1, <1>2, <1>3, TypeCorrect, RowsStayCoherent, PTL DEF Spec, CleanupSpares

\* Unless an expiry reaches the year 10000, the page's test, the admin page's
\* label and the SQL of consume_invite agree at every instant.
THEOREM OneJudgement == ASSUME ShortLived PROVE Spec => []JudgedAlike
<1>1. Init => InTime
    BY StoreAssumption DEF Init, InTime
<1>2. TypeOK /\ InTime /\ [Next]_vars => InTime'
    BY InTimeStep
<1>3. TypeOK /\ InTime => JudgedAlike
    <2> SUFFICES ASSUME TypeOK, InTime,
                        NEW i \in Invites, invites[i] # NULL, NEW t \in 0..MaxTime
                 PROVE  /\ InviteIsActive(invites[i], t) <=> Consumable(invites[i], t)
                        /\ InviteIsActive(invites[i], t) <=>
                                InviteStatus(invites[i], t) = "Active"
        BY DEF JudgedAlike
    <2>1. /\ invites[i].expiresAt \in Nat
          /\ invites[i].expiresAt < Year10000
          /\ t \in Nat /\ t < Year10000
          /\ Year10000 \in Nat
        BY StoreAssumption, YearAssumption DEF TypeOK, Row, InTime, ShortLived
    <2>2. InviteIsActive(invites[i], t) <=> Consumable(invites[i], t)
        BY <2>1 DEF InviteIsActive, Consumable, TextBefore, LongYear
    <2>3. InviteIsActive(invites[i], t) <=> InviteStatus(invites[i], t) = "Active"
        <3> DEFINE row == invites[i]
        <3>1. CASE row.revokedAt # NULL
            BY <3>1 DEF InviteIsActive, InviteStatus
        <3>2. CASE row.revokedAt = NULL /\ row.consumedAt # NULL
            BY <3>2 DEF InviteIsActive, InviteStatus
        <3>3. CASE row.revokedAt = NULL /\ row.consumedAt = NULL
            <4>1. InviteStatus(row, t) = IF row.expiresAt <= t THEN "Expired" ELSE "Active"
                BY <3>3 DEF InviteStatus
            <4>2. InviteIsActive(row, t) <=> ~(row.expiresAt <= t)
                BY <2>1, <3>3 DEF InviteIsActive
            <4>3. QED BY <4>1, <4>2
        <3>4. QED BY <3>1, <3>2, <3>3
    <2>4. QED BY <2>2, <2>3
<1>4. QED BY <1>1, <1>2, <1>3, TypeCorrect, PTL DEF Spec
===========================================================================
