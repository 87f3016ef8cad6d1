---------------------------- MODULE ExchangeProofs ----------------------------
(* Redemption implements InviteExchange: what submit_invite promises holds  *)
(* whatever fails half way, for every value of the constants.               *)
EXTENDS RedemptionProofs

---------------------------------------------------------------------------
(* The exchange.                                                           *)

\* While nothing is made, discarded, used or told, requests can only leave the
\* exchange.
LEMMA ExchangeIdles ==
    ASSUME \A u \in Users : /\ accounts'[u] = NULL <=> accounts[u] = NULL
                            /\ accounts[u] # NULL => accounts'[u].maker = accounts[u].maker,
           \A i \in Invites : Redeemer(i)' = Redeemer(i),
           \A r \in Requests :
                \/ reply[r] # "created" /\ reply'[r] # "created"
                \/ reply'[r] = reply[r] /\ form'[r] = form[r],
           \A r \in Requests : pc[r] = "dropped" => pc'[r] = "dropped"
    PROVE  [Promised!Next]_(Promised!vars)
<1>1. owner' = owner
    <2>1. {v \in Users : accounts'[v] # NULL} = {v \in Users : accounts[v] # NULL}
        OBVIOUS
    <2>2. QED BY <2>1 DEF owner
<1>2. redeemer' = redeemer
    BY DEF redeemer
<1>3. told' = told
    BY DEF told
<1>4. gone \subseteq gone' /\ gone' \in SUBSET Requests
    BY DEF gone
<1>5. CASE gone' = gone
    BY <1>1, <1>2, <1>3, <1>5 DEF Promised!vars
<1>6. CASE gone' # gone
    <2>1. gone' \ gone \in SUBSET (Requests \ gone) /\ gone' \ gone # {}
        BY <1>4, <1>6
    <2>2. Promised!Leave(gone' \ gone)
        BY <1>1, <1>2, <1>3, <1>4, <2>1 DEF Promised!Leave
    <2>3. QED BY <2>1, <2>2 DEF Promised!Next
<1>7. QED BY <1>5, <1>6

\* The administrator, the clock and the retention task redeem nothing.
LEMMA SurroundingsRedeemNothing ==
    ASSUME RedemptionInv, Surroundings, NEW i \in Invites
    PROVE  Redeemer(i)' = Redeemer(i)
<1> USE NullApart
<1>0. TypeOK /\ RowsCoherent
    BY DEF RedemptionInv, RedemptionTypeOK
<1>1. CASE PassTime \/ SweepTick \/ SweepAborts
    BY <1>1 DEF PassTime, SweepTick, SweepAborts, Redeemer
<1>2. ASSUME NEW j \in Invites, GenerateInvite(j) PROVE Redeemer(i)' = Redeemer(i)
    <2>1. PICK groups \in GroupLists, hours \in Lifetimes, at \in Nat :
           /\ j \notin minted
           /\ invites' = [invites EXCEPT ![j] =
                [groups |-> groups, createdAt |-> at, expiresAt |-> at + hours,
                 consumedAt |-> NULL, consumedBy |-> NULL, revokedAt |-> NULL]]
           /\ invites'[j] \in Row
           /\ \A k \in Invites \ {j} : invites'[k] = invites[k]
        BY <1>0, <1>2, GenerateWrites
    <2>2. invites[j] = NULL /\ invites'[j].consumedBy = NULL
        BY <1>0, <2>1 DEF TypeOK, RowsCoherent
    <2>3. QED BY <2>1, <2>2 DEF Redeemer
<1>3. ASSUME NEW j \in Invites, RevokeInvite(j) PROVE Redeemer(i)' = Redeemer(i)
    <2>1. PICK at \in Nat :
           /\ invites[j] \in Row
           /\ invites'[j] = Revoked(invites[j], at)
           /\ invites'[j] \in Row
           /\ \A k \in Invites \ {j} : invites'[k] = invites[k]
        BY <1>0, <1>3, RevokeWrites
    <2>2. invites'[j].consumedBy = invites[j].consumedBy
        BY <2>1, RevokedRow
    <2>3. QED BY <2>1, <2>2 DEF Redeemer
<1>4. CASE SweepRun
    <2>1. \A j \in Invites : invites'[j] =
                IF j \in StaleInvites(sweep) THEN NULL ELSE invites[j]
        BY <1>4 DEF SweepRun, CleanupStale
    <2>2. \A j \in StaleInvites(sweep) : invites[j] # NULL /\ invites[j].consumedBy = NULL
        BY <1>0 DEF StaleInvites, IsStale, Revocable, RowsCoherent
    <2>3. QED BY <2>1, <2>2 DEF Redeemer
<1>5. QED BY <1>1, <1>2, <1>3, <1>4 DEF Surroundings

\* The account of a request at work was not exchanged for an invitation.
LEMMA NotExchanged ==
    ASSUME RedemptionInv, NEW r \in Requests, pc[r] \in Making
    PROVE  ~\E i \in Invites : redeemer[i] = form[r].name
<1> SUFFICES ASSUME NEW i \in Invites, Redeemer(i) = form[r].name PROVE FALSE
    BY DEF redeemer
<1>1. pc[r] \in Live /\ form[r] \in Forms /\ form[r].name \in Users
    BY FormFields DEF Making, Live, RedemptionInv, RedemptionTypeOK
<1>2. invites[i] # NULL /\ invites[i].consumedBy = form[r].name
    BY <1>1, NullApart DEF Redeemer
<1>3. invites[i].consumedAt # NULL
    BY <1>1, <1>2, NullApart DEF RedemptionInv, RowsCoherent
<1>4. pc[accounts[form[r].name].maker] \in {"done", "dropped"} /\ accounts[form[r].name].maker = r
    BY <1>2, <1>3 DEF RedemptionInv, Backed, Owns
<1>5. QED BY <1>4 DEF Making

---------------------------------------------------------------------------
(* What each step is to the exchange.                                      *)

\* Setting the password and joining a group leave an account with its maker.
LEMMA ProvisionKeepsMaker ==
    ASSUME RedemptionInv, NEW r \in Requests, SetPassword(r) \/ JoinGroup(r), NEW u \in Users
    PROVE  /\ accounts'[u] = NULL <=> accounts[u] = NULL
           /\ accounts[u] # NULL => accounts'[u].maker = accounts[u].maker
<1> USE Apart
<1>1. pc[r] \in Live
    BY DEF SetPassword, JoinGroup, Live
<1>2. form[r].name \in Users /\ list[r] \in Seq(Groups)
    BY <1>1, AtWork
<1>3. CASE accounts'[u] = accounts[u]
    BY <1>3
<1>4. CASE accounts'[u] # accounts[u] /\ SetPassword(r)
    <2>1. u = form[r].name /\ accounts[u] # NULL /\ DirSetPassword(u, r)
        BY <1>4 DEF SetPassword, DirSetPassword, RedemptionInv, RedemptionTypeOK
    <2>2. accounts'[u] = WithPassword(accounts[u], r) /\ accounts[u] \in Account
        BY <2>1, PasswordSet DEF RedemptionInv
    <2>3. accounts'[u] \in Account /\ accounts'[u].maker = accounts[u].maker
        BY <2>2, PasswordAccount
    <2>4. QED BY <2>1, <2>3
<1>5. CASE accounts'[u] # accounts[u] /\ JoinGroup(r)
    <2>1. u = form[r].name /\ accounts[u] # NULL /\ DirJoin(u, list[r][next[r]])
        BY <1>5 DEF JoinGroup, DirJoin, RedemptionInv, RedemptionTypeOK
    <2>2. next[r] \in 1..Len(list[r])
        BY <1>5 DEF JoinGroup, RedemptionInv, Progress
    <2>3. list[r][next[r]] \in Groups
        BY <1>2, <2>2
    <2>4. accounts'[u] = WithGroup(accounts[u], list[r][next[r]]) /\ accounts[u] \in Account
        BY <2>1, <2>3, Joined DEF RedemptionInv
    <2>5. accounts'[u] \in Account /\ accounts'[u].maker = accounts[u].maker
        BY <2>3, <2>4, GroupAccount
    <2>6. QED BY <2>1, <2>5
<1>6. QED BY <1>3, <1>4, <1>5

\* A step of one request that is not told "created" tells nobody anything.
LEMMA NothingTold ==
    ASSUME RedemptionInv, NEW r \in Requests, Local(r),
           reply[r] # "created", reply'[r] # "created",
           NEW s \in Requests
    PROVE  \/ reply[s] # "created" /\ reply'[s] # "created"
           \/ reply'[s] = reply[s] /\ form'[s] = form[s]
BY DEF Local

\* Nor is it more than a request that leaves while the rows, the names taken and
\* their makers stay.
LEMMA QuietlyIdle ==
    ASSUME RedemptionInv, NEW r \in Requests, Local(r),
           reply[r] # "created", reply'[r] # "created", pc[r] # "dropped", UNCHANGED vars,
           \A u \in Users : /\ accounts'[u] = NULL <=> accounts[u] = NULL
                            /\ accounts[u] # NULL => accounts'[u].maker = accounts[u].maker
    PROVE  [Promised!Next]_(Promised!vars)
<1>1. \A i \in Invites : Redeemer(i)' = Redeemer(i)
    BY DEF vars, Redeemer
<1>2. \A s \in Requests : pc[s] = "dropped" => pc'[s] = "dropped"
    BY DEF Local
<1>3. QED BY <1>1, <1>2, NothingTold, ExchangeIdles

\* A request that goes on leaves the exchange as little as the others do.
LEMMA NobodyGone ==
    ASSUME NEW r \in Requests, Local(r), pc[r] # "dropped", pc'[r] # "dropped"
    PROVE  gone' = gone /\ r \notin gone
BY DEF Local, gone

\* create_user makes a free name its request's own, or does nothing.
LEMMA CreateIsMake ==
    ASSUME RedemptionInv, NEW r \in Requests, CreateUser(r)
    PROVE  [Promised!Next]_(Promised!vars)
<1> USE Apart
<1> DEFINE u == form[r].name
<1>1. pc[r] \in Live /\ pc[r] = "create"
    BY DEF CreateUser, Live
<1>2. u \in Users /\ form[r].mail \in Mails /\ reply[r] # "created"
    BY <1>1, AtWork
<1>3. Local(r) /\ UNCHANGED <<vars, form>>
    BY LocalStep DEF Step, CreateUser
<1>4. reply'[r] # "created" /\ pc'[r] # "dropped"
    BY <1>2 DEF CreateUser, Goto, Answer, DirectoryErrors, RedemptionInv, RedemptionTypeOK
<1>5. CASE UNCHANGED accounts
    BY <1>1, <1>2, <1>3, <1>4, <1>5, QuietlyIdle
<1>6. CASE accounts[u] = NULL /\ DirCreate(u, form[r].mail, r)
    <2>1. /\ accounts'[u] = New(form[r].mail, r)
          /\ \A v \in Users \ {u} : accounts'[v] = accounts[v]
        BY <1>2, <1>6, Created DEF RedemptionInv
    <2>2. accounts'[u] # NULL /\ accounts'[u].maker = r
        BY <1>2, <2>1, NewAccount
    <2>3. {v \in Users : accounts'[v] # NULL} = {v \in Users : accounts[v] # NULL} \cup {u}
        BY <1>2, <2>1, <2>2
    <2>4. DOMAIN owner = {v \in Users : accounts[v] # NULL}
        BY DEF owner
    <2>5. owner' = [v \in DOMAIN owner \cup {u} |-> IF v = u THEN r ELSE owner[v]]
        BY <2>1, <2>2, <2>3, <2>4 DEF owner
    <2>6. redeemer' = redeemer
        BY <1>3 DEF redeemer, Redeemer, vars
    <2>7. told' = told
        BY <1>2, <1>3, <1>4, NothingTold DEF told
    <2>8. u \notin DOMAIN owner
        BY <1>6, <2>4
    <2>9. gone' = gone /\ r \notin gone
        BY <1>1, <1>3, <1>4, NobodyGone
    <2>10. Promised!Make(r, u)
        BY <2>5, <2>6, <2>7, <2>8, <2>9 DEF Promised!Make, Promised!Taken
    <2>11. QED BY <1>2, <2>10 DEF Promised!Next
<1>7. QED BY <1>5, <1>6 DEF CreateUser, NameTaken

\* A compensating delete gives back a name that its request made and that was
\* not exchanged.
LEMMA UndoIsDiscard ==
    ASSUME RedemptionInv, NEW r \in Requests, Undo(r)
    PROVE  [Promised!Next]_(Promised!vars)
<1> USE Apart
<1> DEFINE u == form[r].name
<1>1. pc[r] \in Live /\ pc[r] = "undo" /\ pc[r] \in Making
    BY DEF Undo, Live, Making
<1>2. u \in Users /\ reply[r] # "created" /\ Owns(r)
    BY <1>1, AtWork
<1>3. Local(r) /\ UNCHANGED <<vars, form>>
    BY LocalStep DEF Step, Undo
<1>4. reply'[r] # "created" /\ pc'[r] # "dropped"
    BY <1>2 DEF Undo, Goto, RedemptionInv, RedemptionTypeOK
<1>5. CASE UNCHANGED accounts
    BY <1>1, <1>2, <1>3, <1>4, <1>5, QuietlyIdle
<1>6. CASE DirDelete(u)
    <2>1. accounts'[u] = NULL /\ \A v \in Users \ {u} : accounts'[v] = accounts[v]
        BY <1>2, <1>6, Deleted DEF RedemptionInv
    <2>2. accounts[u] # NULL /\ accounts[u].maker = r
        BY <1>1, <1>2 DEF Owns
    <2>3. {v \in Users : accounts'[v] # NULL} = {v \in Users : accounts[v] # NULL} \ {u}
        BY <1>2, <2>1
    <2>4. DOMAIN owner = {v \in Users : accounts[v] # NULL}
        BY DEF owner
    <2>5. owner' = [v \in DOMAIN owner \ {u} |-> owner[v]]
        BY <2>1, <2>3, <2>4 DEF owner
    <2>6. redeemer' = redeemer
        BY <1>3 DEF redeemer, Redeemer, vars
    <2>7. told' = told
        BY <1>2, <1>3, <1>4, NothingTold DEF told
    <2>8. u \in DOMAIN owner /\ owner[u] = r
        BY <1>2, <2>2, <2>4 DEF owner
    <2>9. ~\E i \in Invites : redeemer[i] = u
        BY <1>1, NotExchanged
    <2>10. gone' = gone /\ r \notin gone
        BY <1>1, <1>3, <1>4, NobodyGone
    <2>11. Promised!Discard(r, u)
        BY <2>5, <2>6, <2>7, <2>8, <2>9, <2>10
           DEF Promised!Discard, Promised!Taken, Promised!Exchanged
    <2>12. QED BY <1>2, <2>11 DEF Promised!Next
<1>7. QED BY <1>5, <1>6 DEF Undo

\* Using the invitation is to exchange it for the account its request made, which
\* is told so or cut off.
LEMMA UseIsExchange ==
    ASSUME RedemptionInv, NEW r \in Requests,
           pc[r] = "consume", Local(r),
           UNCHANGED <<accounts, form>>,
           ConsumeInvite(form[r].code, stamp[r], form[r].name),
           Answer(r, "created") \/ Goto(r, "dropped")
    PROVE  [Promised!Next]_(Promised!vars)
<1> USE Apart
<1> DEFINE u == form[r].name
           i == form[r].code
<1>1. pc[r] \in Live /\ pc[r] \in Making
    BY DEF Live, Making
<1>2. u \in Users /\ i \in Invites /\ reply[r] # "created" /\ Owns(r)
    BY <1>1, AtWork
<1>3. Local(r) /\ UNCHANGED <<accounts, form>>
    OBVIOUS
<1>4. TypeOK /\ RowsCoherent /\ stamp[r] \in Nat
    BY DEF RedemptionInv, RedemptionTypeOK
<1>5. /\ invites[i] \in Row
      /\ invites'[i] = Used(invites[i], stamp[r], u)
      /\ invites'[i] \in Row
      /\ \A j \in Invites \ {i} : invites'[j] = invites[j]
    BY <1>2, <1>4, ConsumeWrites
<1>6. invites'[i] # NULL /\ invites'[i].consumedBy = u
    BY <1>2, <1>4, <1>5, UsedRow
<1>7. invites[i] # NULL /\ invites[i].consumedBy = NULL
    BY <1>2, <1>4 DEF ConsumeInvite, Consumable, RowsCoherent
<1>8. redeemer[i] = NULL
    BY <1>2, <1>7 DEF redeemer, Redeemer
<1>9. redeemer' = [redeemer EXCEPT ![i] = u]
    <2>1. \A j \in Invites : redeemer'[j] = IF invites'[j] = NULL THEN NULL
                                            ELSE invites'[j].consumedBy
        BY DEF redeemer, Redeemer
    <2>2. \A j \in Invites \ {i} : redeemer'[j] = redeemer[j]
        BY <1>5, <2>1 DEF redeemer, Redeemer
    <2>3. redeemer'[i] = u
        BY <1>2, <1>6, <2>1
    <2>4. QED BY <1>2, <2>2, <2>3 DEF redeemer
<1>10. told[r] = NULL
    BY <1>2 DEF told
<1>11. /\ r \notin gone
       /\ \/ told' = [told EXCEPT ![r] = i] /\ gone' = gone
          \/ gone' = gone \cup {r} /\ told' = told
    <2>1. \A s \in Requests \ {r} : reply'[s] = reply[s] /\ form'[s] = form[s] /\ pc'[s] = pc[s]
        BY <1>3 DEF Local
    <2>2. pc[r] # "dropped" /\ r \notin gone /\ form'[r] = form[r]
        BY <1>3 DEF gone
    <2>3. CASE Answer(r, "created")
        <3>1. reply'[r] = "created" /\ pc'[r] = "done"
            BY <2>3 DEF Answer, RedemptionInv, RedemptionTypeOK
        <3>2. told' = [told EXCEPT ![r] = i]
            BY <2>1, <2>2, <3>1 DEF told
        <3>3. QED BY <1>3, <2>2, <3>1, <3>2, NobodyGone
    <2>4. CASE Goto(r, "dropped")
        <3>1. reply' = reply /\ pc'[r] = "dropped"
            BY <2>4 DEF Goto, RedemptionInv, RedemptionTypeOK
        <3>2. told' = told
            BY <1>3, <3>1 DEF told
        <3>3. gone' = gone \cup {r}
            BY <2>1, <3>1 DEF gone
        <3>4. QED BY <2>2, <3>2, <3>3
    <2>5. QED BY <2>3, <2>4
<1>12. owner' = owner
    BY <1>3 DEF owner
<1>13. u \in DOMAIN owner /\ owner[u] = r
    BY <1>1, <1>2 DEF owner, Owns
<1>14. ~\E j \in Invites : redeemer[j] = u
    BY <1>1, NotExchanged
<1>15. Promised!Exchange(r, i, u)
    BY <1>8, <1>9, <1>10, <1>11, <1>12, <1>13, <1>14
       DEF Promised!Exchange, Promised!Taken, Promised!Exchanged
<1>16. QED BY <1>2, <1>15 DEF Promised!Next

\* consume_invite exchanges the invitation, or does nothing.
LEMMA ConsumeIsExchange ==
    ASSUME RedemptionInv, NEW r \in Requests, ConsumeCode(r)
    PROVE  [Promised!Next]_(Promised!vars)
<1>1. pc[r] = "consume" /\ pc[r] \in Live /\ UNCHANGED <<accounts, form>>
    BY DEF ConsumeCode, Live
<1>2. Local(r) /\ reply[r] # "created"
    BY <1>1, AtWork, LocalStep DEF Step
<1>3. CASE Compensate(r, "not_used") /\ UNCHANGED vars
    <2>1. reply'[r] # "created"
        BY <1>3 DEF Compensate, RedemptionInv, RedemptionTypeOK
    <2>2. QED BY <1>1, <1>2, <1>3, <2>1, QuietlyIdle
<1>4. CASE ConsumeInvite(form[r].code, stamp[r], form[r].name) /\ Answer(r, "created")
    BY <1>1, <1>2, <1>4, UseIsExchange
<1>5. QED BY <1>3, <1>4 DEF ConsumeCode

\* So does a COMMIT that outlives its request; any other drop does nothing.
LEMMA DropIsExchange ==
    ASSUME RedemptionInv, NEW r \in Requests, Drop(r)
    PROVE  [Promised!Next]_(Promised!vars)
<1>1. pc[r] \in Live /\ UNCHANGED <<accounts, form>> /\ Goto(r, "dropped")
    BY DEF Drop
<1>2. Local(r) /\ reply[r] # "created"
    BY <1>1, AtWork, LocalStep
<1>3. CASE UNCHANGED vars
    <2>1. reply'[r] # "created"
        BY <1>1, <1>2 DEF Goto
    <2>2. pc[r] # "dropped"
        BY <1>1 DEF Live
    <2>3. QED BY <1>1, <1>2, <1>3, <2>1, <2>2, QuietlyIdle
<1>4. CASE pc[r] = "consume" /\ ConsumeInvite(form[r].code, stamp[r], form[r].name)
    BY <1>1, <1>2, <1>4, UseIsExchange
<1>5. QED BY <1>3, <1>4 DEF Drop

\* Every step of the redemption is a step of the exchange or none.
LEMMA ExchangeStep ==
    ASSUME RedemptionInv, [RedemptionNext]_allVars
    PROVE  [Promised!Next]_(Promised!vars)
<1>1. CASE Surroundings
    <2>1. UNCHANGED <<accounts, reply, form, pc>>
        BY <1>1 DEF Surroundings, requestVars
    <2>2. \A i \in Invites : Redeemer(i)' = Redeemer(i)
        BY <1>1, SurroundingsRedeemNothing
    <2>3. QED BY <2>1, <2>2, ExchangeIdles
<1>2. CASE Crash \/ UNCHANGED allVars
    <2>1. UNCHANGED <<invites, accounts, reply, form>>
        BY <1>2 DEF Crash, allVars, vars, requestVars
    <2>2. \A i \in Invites : Redeemer(i)' = Redeemer(i)
        BY <2>1 DEF Redeemer
    <2>3. \A r \in Requests : pc[r] = "dropped" => pc'[r] = "dropped"
        BY <1>2 DEF Crash, allVars, requestVars, Live
    <2>4. QED BY <2>1, <2>2, <2>3, ExchangeIdles
<1>3. ASSUME NEW r \in Requests,
             \/ Submit(r) \/ SubmitMalformed(r)
             \/ CheckUsername(r) \/ CheckEmail(r) \/ FindInvite(r) \/ Login(r)
             \/ SetPassword(r) \/ ListGroups(r) \/ JoinGroup(r)
      PROVE  [Promised!Next]_(Promised!vars)
    <2>1. Local(r)
        BY <1>3, LocalStep DEF Step
    <2>2. UNCHANGED vars
        BY <1>3 DEF Submit, SubmitMalformed, CheckUsername, CheckEmail, FindInvite, Login,
                    SetPassword, ListGroups, JoinGroup
    <2>3. pc[r] \in {"idle"} \cup Live
        BY <1>3 DEF Submit, SubmitMalformed, CheckUsername, CheckEmail, FindInvite, Login,
                    SetPassword, ListGroups, JoinGroup, Live
    <2>4. reply[r] # "created"
        BY <2>3 DEF RedemptionInv, Won, Live
    <2>5. reply'[r] # "created" /\ pc[r] # "dropped"
        BY <1>3, <2>3, <2>4 DEF Submit, SubmitMalformed, CheckUsername, CheckEmail, FindInvite,
                Login, SetPassword, ListGroups, JoinGroup, Proceed, Goto, Answer, Compensate,
                DirectoryErrors, Live, RedemptionInv, RedemptionTypeOK
    <2>6. CASE SetPassword(r) \/ JoinGroup(r)
        BY <2>1, <2>2, <2>4, <2>5, <2>6, ProvisionKeepsMaker, QuietlyIdle
    <2>7. CASE UNCHANGED accounts
        BY <2>1, <2>2, <2>4, <2>5, <2>7, QuietlyIdle
    <2>8. QED BY <1>3, <2>6, <2>7 DEF Submit, SubmitMalformed, CheckUsername, CheckEmail,
                FindInvite, Login, ListGroups
<1>4. QED BY <1>1, <1>2, <1>3, CreateIsMake, UndoIsDiscard, ConsumeIsExchange, DropIsExchange
          DEF RedemptionNext, Step

\* submit_invite with all its awaits, losses, crashes and competitors implements
\* the exchange: an invitation goes for one account, made by the request that is
\* told so or cut off, and that account is never discarded.
THEOREM RedemptionImplementsExchange == RedemptionSpec => ImplementsExchange
<1>1. RedemptionInit => Promised!Init
    <2> SUFFICES ASSUME RedemptionInit PROVE Promised!Init
        OBVIOUS
    <2> DEFINE S == {u \in Users : accounts[u] # NULL}
    <2>1. \A u \in S : accounts[u].maker = NULL
        BY DEF RedemptionInit, ResidentAccount
    <2>2. owner = [u \in S |-> NULL]
        BY <2>1 DEF owner
    <2>3. redeemer = [i \in Invites |-> NULL]
        BY DEF RedemptionInit, Init, redeemer, Redeemer
    <2>4. told = [r \in Requests |-> NULL] /\ gone = {}
        BY DEF RedemptionInit, told, gone
    <2>5. S \in SUBSET Users
        OBVIOUS
    <2> HIDE DEF S
    <2>6. QED BY <2>2, <2>3, <2>4, <2>5 DEF Promised!Init
<1>2. RedemptionInv /\ [RedemptionNext]_allVars => [Promised!Next]_(Promised!vars)
    BY ExchangeStep
<1>3. QED BY <1>1, <1>2, RedemptionInvariant, PTL
          DEF RedemptionSpec, ImplementsExchange, Promised!Spec
===========================================================================
