-------------------------- MODULE RedemptionProofs --------------------------
(* What Redemption guarantees for every value of its constants: the        *)
(* inductive invariant RedemptionInv, and what follows from it.            *)
EXTENDS Redemption, InviteStoreProofs

---------------------------------------------------------------------------
(* Accounts.                                                               *)

\* An account after each call of provision_user.
New(mail, r) == [mail |-> mail, maker |-> r, password |-> NULL, groups |-> {}]
WithPassword(a, r) == [a EXCEPT !.password = r]
WithGroup(a, g) == [a EXCEPT !.groups = @ \cup {g}]

LEMMA NewAccount ==
    ASSUME NEW mail \in Mails, NEW r \in Requests
    PROVE  /\ New(mail, r) \in Account
           /\ New(mail, r).maker = r
           /\ New(mail, r).groups = {}
BY DEF New, Account

LEMMA PasswordAccount ==
    ASSUME NEW a \in Account, NEW r \in Requests
    PROVE  /\ WithPassword(a, r) \in Account
           /\ WithPassword(a, r).maker = a.maker
           /\ WithPassword(a, r).password = r
           /\ WithPassword(a, r).groups = a.groups
BY DEF WithPassword, Account

LEMMA GroupAccount ==
    ASSUME NEW a \in Account, NEW g \in Groups
    PROVE  /\ WithGroup(a, g) \in Account
           /\ WithGroup(a, g).maker = a.maker
           /\ WithGroup(a, g).password = a.password
           /\ WithGroup(a, g).groups = a.groups \cup {g}
BY DEF WithGroup, Account

LEMMA Apart ==
    /\ NULL \notin Requests /\ NULL \notin Forms /\ NULL \notin Account
    /\ NULL \notin Row /\ NULL \notin Nat /\ NULL \notin Users
BY RedemptionAssumption, StoreAssumption

\* The fields of a form.
LEMMA FormFields ==
    ASSUME NEW f \in Forms
    PROVE  f.code \in Invites /\ f.name \in Users /\ f.mail \in Mails
BY RedemptionAssumption DEF Form

---------------------------------------------------------------------------
(* Where each call of the directory leaves the accounts.                   *)

LEMMA Created ==
    ASSUME RedemptionTypeOK, NEW u \in Users, NEW mail \in Mails, NEW r \in Requests,
           DirCreate(u, mail, r)
    PROVE  /\ accounts' \in [Users -> Account \cup {NULL}]
           /\ accounts'[u] = New(mail, r)
           /\ \A v \in Users \ {u} : accounts'[v] = accounts[v]
<1>1. accounts' = [accounts EXCEPT ![u] = New(mail, r)]
    BY DEF DirCreate, New
<1>2. QED BY <1>1, NewAccount DEF RedemptionTypeOK

LEMMA PasswordSet ==
    ASSUME RedemptionTypeOK, NEW u \in Users, NEW r \in Requests,
           accounts[u] # NULL, DirSetPassword(u, r)
    PROVE  /\ accounts' \in [Users -> Account \cup {NULL}]
           /\ accounts[u] \in Account
           /\ accounts'[u] = WithPassword(accounts[u], r)
           /\ \A v \in Users \ {u} : accounts'[v] = accounts[v]
<1>1. accounts' = [accounts EXCEPT ![u] = WithPassword(accounts[u], r)]
    BY DEF DirSetPassword, WithPassword, RedemptionTypeOK
<1>2. accounts[u] \in Account
    BY DEF RedemptionTypeOK
<1>3. QED BY <1>1, <1>2, PasswordAccount DEF RedemptionTypeOK

LEMMA Joined ==
    ASSUME RedemptionTypeOK, NEW u \in Users, NEW g \in Groups,
           accounts[u] # NULL, DirJoin(u, g)
    PROVE  /\ accounts' \in [Users -> Account \cup {NULL}]
           /\ accounts[u] \in Account
           /\ accounts'[u] = WithGroup(accounts[u], g)
           /\ \A v \in Users \ {u} : accounts'[v] = accounts[v]
<1>1. accounts' = [accounts EXCEPT ![u] = WithGroup(accounts[u], g)]
    BY DEF DirJoin, WithGroup, RedemptionTypeOK
<1>2. accounts[u] \in Account
    BY DEF RedemptionTypeOK
<1>3. QED BY <1>1, <1>2, GroupAccount DEF RedemptionTypeOK

LEMMA Deleted ==
    ASSUME RedemptionTypeOK, NEW u \in Users, DirDelete(u)
    PROVE  /\ accounts' \in [Users -> Account \cup {NULL}]
           /\ accounts'[u] = NULL
           /\ \A v \in Users \ {u} : accounts'[v] = accounts[v]
BY DEF DirDelete, RedemptionTypeOK

---------------------------------------------------------------------------
(* A step of one request.                                                  *)

\* Only r moves.
Local(r) ==
    \A s \in Requests \ {r} :
        /\ pc'[s] = pc[s]
        /\ form'[s] = form[s]
        /\ list'[s] = list[s]
        /\ next'[s] = next[s]
        /\ stamp'[s] = stamp[s]
        /\ reply'[s] = reply[s]

\* The only account a step of r may touch: the one it made, or a free name.
Touches(r) ==
    /\ form[r] \in Forms
    /\ \A v \in Users \ {form[r].name} : accounts'[v] = accounts[v]
    /\ pc[r] \in Making \/ accounts[form[r].name] = NULL

\* What a step of r owes for itself; the rest follows.
LEMMA OneRequestStep ==
    ASSUME RedemptionInv, RedemptionTypeOK', NEW r \in Requests,
           Local(r), UNCHANGED vars,
           pc[r] \notin {"done", "dropped"},
           accounts' = accounts \/ Touches(r),
           reply'[r] # "created",
           pc[r] \in Making =>
                form'[r] = form[r] /\ pc'[r] \in Making \cup {"done", "dropped"},
           \A u \in Users : accounts'[u] # accounts[u] => Made(u)',
           Owns(r)', Progress(r)', Remembers(r)'
    PROVE  RedemptionInv'
<1> USE Apart
<1>1. RowsCoherent'
    BY DEF RedemptionInv, RowsCoherent, vars
<1>2. /\ invites' = invites /\ minted' = minted
    BY DEF vars
<1>3. ASSUME NEW v \in Users, accounts[v] # NULL, accounts[v].maker # r
      PROVE  accounts'[v] = accounts[v]
    BY <1>3 DEF Touches, RedemptionInv, Owns
<1>4. ASSUME NEW s \in Requests \ {r}
      PROVE  Owns(s)' /\ Progress(s)' /\ Remembers(s)' /\ Won(s)'
    <2>0. /\ s \in Requests /\ s # r
          /\ Owns(s) /\ Progress(s) /\ Remembers(s) /\ Won(s)
        BY DEF RedemptionInv
    <2>1. /\ pc'[s] = pc[s] /\ form'[s] = form[s] /\ list'[s] = list[s]
          /\ next'[s] = next[s] /\ stamp'[s] = stamp[s] /\ reply'[s] = reply[s]
        BY <2>0 DEF Local
    <2>2. pc[s] \in Making \/ reply[s] = "created" => form[s] \in Forms
        BY <2>0 DEF RedemptionInv, RedemptionTypeOK, Won, Making, Live
    <2>3. form[s] \in Forms => form[s].name \in Users
        BY FormFields
    <2>4. pc[s] \in Making =>
            /\ accounts[form[s].name] # NULL
            /\ accounts[form[s].name].maker = s
        BY <2>0 DEF Owns
    <2>5. pc[s] \in Making => accounts'[form[s].name] = accounts[form[s].name]
        BY <1>3, <2>0, <2>2, <2>3, <2>4
    <2>6. Owns(s)'
        BY <2>1, <2>4, <2>5 DEF Owns
    <2>7. Progress(s)'
        <3>1. CASE pc[s] \in Making
            BY <2>0, <2>1, <2>5, <3>1 DEF Progress
        <3>2. CASE pc[s] \notin Making
            BY <2>1, <3>2 DEF Progress, Making
        <3>3. QED BY <3>1, <3>2
    <2>8. Remembers(s)'
        BY <1>2, <2>0, <2>1 DEF Remembers
    <2>9. Won(s)'
        <3>1. CASE reply[s] = "created"
            <4>1. /\ accounts[form[s].name] # NULL
                  /\ accounts[form[s].name].maker = s
                BY <2>0, <3>1 DEF Won
            <4>2. accounts'[form[s].name] = accounts[form[s].name]
                BY <1>3, <2>0, <2>2, <2>3, <3>1, <4>1
            <4>3. QED BY <1>2, <2>0, <2>1, <4>1, <4>2, <3>1 DEF Won
        <3>2. CASE reply[s] # "created"
            BY <2>1, <3>2 DEF Won
        <3>3. QED BY <3>1, <3>2
    <2>10. QED BY <2>6, <2>7, <2>8, <2>9
<1>5. Won(r)'
    BY DEF Won
<1>6. ASSUME NEW u \in Users PROVE Made(u)'
    <2>1. CASE accounts'[u] # accounts[u]
        BY <2>1
    <2>2. CASE accounts'[u] = accounts[u] /\ accounts[u] # NULL /\ accounts[u].maker # NULL
        <3>1. Made(u) /\ accounts[u].maker \in Requests
            BY <2>2 DEF RedemptionInv, RedemptionTypeOK, Account
        <3>2. CASE accounts[u].maker = r
            BY <2>2, <3>1, <3>2 DEF Made
        <3>3. CASE accounts[u].maker # r
            BY <2>2, <3>1, <3>3 DEF Made, Local
        <3>4. QED BY <3>2, <3>3
    <2>3. CASE accounts'[u] = accounts[u] /\ (accounts[u] = NULL \/ accounts[u].maker = NULL)
        BY <2>3 DEF Made
    <2>4. QED BY <2>1, <2>2, <2>3
<1>7. ASSUME NEW i \in Invites PROVE Backed(i)'
    <2>1. SUFFICES ASSUME invites[i] # NULL, invites[i].consumedAt # NULL PROVE Backed(i)'
        BY <1>2 DEF Backed
    <2>2. invites[i].consumedBy \in Users
        BY <2>1 DEF RedemptionInv, RowsCoherent, RedemptionTypeOK, TypeOK, Row
    <2> DEFINE a == accounts[invites[i].consumedBy]
    <2>3. /\ a # NULL /\ a.maker \in Requests /\ pc[a.maker] \in {"done", "dropped"} /\ a.maker # r
          /\ form[a.maker].code = i /\ a.password = a.maker
          /\ "ignored" \in Faults \/ a.groups = GroupsOf(invites[i].groups)
        BY <2>1 DEF RedemptionInv, Backed
    <2>4. accounts'[invites[i].consumedBy] = a
        BY <1>3, <2>2, <2>3
    <2>5. pc'[a.maker] = pc[a.maker] /\ form'[a.maker] = form[a.maker]
        BY <2>3 DEF Local
    <2>6. QED BY <1>2, <2>3, <2>4, <2>5 DEF Backed
<1>8. QED BY <1>1, <1>4, <1>5, <1>6, <1>7 DEF RedemptionInv

---------------------------------------------------------------------------
(* Type correctness.                                                       *)

\* The part of the type invariant that speaks of the requests.
RequestsOK ==
    /\ pc \in [Requests -> Live \cup {"idle", "done", "dropped"}]
    /\ form \in [Requests -> Forms \cup {NULL}]
    /\ list \in [Requests -> GroupLists \cup {<< >>}]
    /\ next \in [Requests -> Nat]
    /\ stamp \in [Requests -> Nat]
    /\ reply \in [Requests -> Reply]
    /\ \A r \in Requests :
        /\ pc[r] \in Live => form[r] # NULL
        /\ pc[r] \in ({"idle"} \cup Live) \ {"undo"} => reply[r] = "none"
        /\ pc[r] \in {"undo", "done"} => reply[r] # "none"

LEMMA TypeParts ==
    RedemptionTypeOK <=>
        TypeOK /\ accounts \in [Users -> Account \cup {NULL}] /\ RequestsOK
BY DEF RedemptionTypeOK, RequestsOK

LEMMA TypePartsNext ==
    TypeOK' /\ accounts' \in [Users -> Account \cup {NULL}] /\ RequestsOK' => RedemptionTypeOK'
BY DEF RedemptionTypeOK, RequestsOK

\* The part of RequestsOK about pc and reply.
Spoken ==
    /\ pc \in [Requests -> Live \cup {"idle", "done", "dropped"}]
    /\ reply \in [Requests -> Reply]
    /\ \A s \in Requests :
        /\ pc[s] \in Live => form[s] # NULL
        /\ pc[s] \in ({"idle"} \cup Live) \ {"undo"} => reply[s] = "none"
        /\ pc[s] \in {"undo", "done"} => reply[s] # "none"

\* Going on, answering and compensating keep the types of pc and reply.
LEMMA GotoType ==
    ASSUME RequestsOK, NEW r \in Requests, NEW label \in Live \ {"undo"},
           pc[r] \in Live \ {"undo"}, Goto(r, label), UNCHANGED form
    PROVE  Spoken'
<1>1. label # "done"
    BY DEF Live
<1>2. QED BY <1>1 DEF RequestsOK, Spoken, Goto

LEMMA AnswerType ==
    ASSUME RequestsOK, NEW r \in Requests, NEW why \in Reply \ {"none"},
           Answer(r, why), UNCHANGED form
    PROVE  Spoken'
<1>1. "done" \notin Live
    BY DEF Live
<1>2. QED BY <1>1 DEF RequestsOK, Spoken, Answer

LEMMA CompensateType ==
    ASSUME RequestsOK, NEW r \in Requests, NEW why \in Reply \ {"none"},
           pc[r] \in Live, Compensate(r, why), UNCHANGED form
    PROVE  Spoken'
<1>1. "undo" \in Live
    BY DEF Live
<1>2. QED BY <1>1 DEF RequestsOK, Spoken, Compensate

LEMMA Errors == DirectoryErrors \subseteq Reply \ {"none"}
BY DEF DirectoryErrors, Reply

LEMMA ProceedType ==
    ASSUME RequestsOK, NEW r \in Requests, NEW k \in Nat, clock \in Nat,
           pc[r] \in {"groups", "member"}, Proceed(r, k), UNCHANGED form
    PROVE  /\ Spoken'
           /\ next' \in [Requests -> Nat]
           /\ stamp' \in [Requests -> Nat]
<1>1. pc[r] \in Live \ {"undo"}
    BY DEF Live
<1>2. CASE k <= Len(list[r])
    <2>1. Goto(r, "member") /\ next' = [next EXCEPT ![r] = k] /\ UNCHANGED stamp
        BY <1>2 DEF Proceed
    <2>2. Spoken'
        BY <1>1, <2>1, GotoType DEF Live
    <2>3. QED BY <2>1, <2>2 DEF RequestsOK
<1>3. CASE ~(k <= Len(list[r]))
    <2>1. Goto(r, "consume") /\ stamp' = [stamp EXCEPT ![r] = clock] /\ UNCHANGED next
        BY <1>3 DEF Proceed
    <2>2. Spoken'
        BY <1>1, <2>1, GotoType DEF Live
    <2>3. QED BY <2>1, <2>2 DEF RequestsOK
<1>4. QED BY <1>2, <1>3

\* Every action of a request keeps the types of the request variables.
LEMMA StepRequestsOK ==
    ASSUME RedemptionTypeOK, NEW r \in Requests, Step(r)
    PROVE  RequestsOK'
<1> USE DEF Reply
<1>0. RequestsOK /\ clock \in Nat
    BY TypeParts DEF TypeOK
<1>1. CASE CheckUsername(r)
    BY <1>0, <1>1, GotoType, AnswerType DEF CheckUsername, RequestsOK, Spoken, Live
<1>2. CASE CheckEmail(r)
    BY <1>0, <1>2, GotoType, AnswerType DEF CheckEmail, RequestsOK, Spoken, Live
<1>3. CASE FindInvite(r)
    <2>1. CASE pc[r] = "find" /\ Answer(r, "rejected") /\ UNCHANGED <<list, form, next, stamp>>
        BY <1>0, <2>1, AnswerType DEF RequestsOK, Spoken
    <2>2. CASE /\ pc[r] = "find"
               /\ invites[form[r].code] # NULL
               /\ list' = [list EXCEPT ![r] = invites[form[r].code].groups]
               /\ Goto(r, "login")
               /\ UNCHANGED <<form, next, stamp>>
        <3>1. form[r] \in Forms
            BY <1>0, <2>2 DEF RequestsOK, Live
        <3>2. invites[form[r].code].groups \in GroupLists
            BY <2>2, <3>1, FormFields DEF RedemptionTypeOK, TypeOK, Row
        <3>3. Spoken'
            BY <1>0, <2>2, GotoType DEF Live
        <3>4. list' \in [Requests -> GroupLists \cup {<< >>}]
            BY <1>0, <2>2, <3>2 DEF RequestsOK
        <3>5. QED BY <1>0, <2>2, <3>3, <3>4 DEF RequestsOK, Spoken
    <2>3. QED BY <1>3, <2>1, <2>2 DEF FindInvite
<1>4. CASE Login(r)
    BY <1>0, <1>4, GotoType, AnswerType DEF Login, RequestsOK, Spoken, Live
<1>5. CASE CreateUser(r)
    <2>1. CASE Goto(r, "password") /\ pc[r] = "create"
        BY <1>0, <1>5, <2>1, GotoType DEF CreateUser, RequestsOK, Spoken, Live
    <2>2. CASE \E why \in DirectoryErrors \cup {"not_created"} : Answer(r, why)
        BY <1>0, <1>5, <2>2, AnswerType, Errors DEF CreateUser, RequestsOK, Spoken
    <2>3. QED BY <1>5, <2>1, <2>2 DEF CreateUser
<1>6. CASE SetPassword(r)
    BY <1>0, <1>6, GotoType, CompensateType DEF SetPassword, RequestsOK, Spoken, Live
<1>7. CASE ListGroups(r)
    <2>1. CASE Proceed(r, 1)
        BY <1>0, <1>7, <2>1, ProceedType DEF ListGroups, RequestsOK, Spoken
    <2>2. CASE (\E why \in DirectoryErrors : Compensate(r, why)) /\ UNCHANGED <<next, stamp>>
        <3>1. pc[r] \in Live
            BY <1>7 DEF ListGroups, Live
        <3>2. QED BY <1>0, <1>7, <2>2, <3>1, CompensateType, Errors DEF ListGroups, RequestsOK, Spoken
    <2>3. QED BY <1>7, <2>1, <2>2 DEF ListGroups
<1>8. CASE JoinGroup(r)
    <2>0. pc[r] = "member" /\ pc[r] \in Live /\ UNCHANGED <<form, list>> /\ next[r] + 1 \in Nat
        BY <1>0, <1>8 DEF JoinGroup, Live, RequestsOK
    <2>1. CASE Proceed(r, next[r] + 1)
        BY <1>0, <2>0, <2>1, ProceedType DEF RequestsOK, Spoken
    <2>2. CASE (\E why \in DirectoryErrors : Compensate(r, why)) /\ UNCHANGED <<next, stamp>>
        BY <1>0, <2>0, <2>2, CompensateType, Errors DEF RequestsOK, Spoken
    <2>3. CASE Answer(r, "not_created") /\ UNCHANGED <<next, stamp>>
        BY <1>0, <2>0, <2>3, AnswerType DEF RequestsOK, Spoken
    <2>4. QED BY <1>8, <2>1, <2>2, <2>3 DEF JoinGroup
<1>9. CASE ConsumeCode(r)
    BY <1>0, <1>9, AnswerType, CompensateType DEF ConsumeCode, RequestsOK, Spoken, Live
<1>10. CASE Undo(r)
    <2>1. /\ pc[r] = "undo"
          /\ pc' = [pc EXCEPT ![r] = "done"]
          /\ UNCHANGED <<reply, form, list, next, stamp>>
        BY <1>10 DEF Undo, Goto
    <2>2. QED BY <1>0, <2>1 DEF RequestsOK, Live
<1>11. QED BY <1>1, <1>2, <1>3, <1>4, <1>5, <1>6, <1>7, <1>8, <1>9, <1>10 DEF Step

\* Every action of a request keeps the type of the directory.
LEMMA StepAccountsOK ==
    ASSUME RedemptionTypeOK, NEW r \in Requests, Step(r),
           pc[r] = "member" => next[r] \in 1..Len(list[r])
    PROVE  accounts' \in [Users -> Account \cup {NULL}]
<1>0. /\ accounts \in [Users -> Account \cup {NULL}]
      /\ pc[r] \in Live => form[r] \in Forms
    BY DEF RedemptionTypeOK
<1>1. CASE accounts' = accounts
    BY <1>0, <1>1
<1>2. CASE CreateUser(r) \/ SetPassword(r) \/ JoinGroup(r) \/ Undo(r)
    <2>1. form[r] \in Forms
        BY <1>0, <1>2 DEF CreateUser, SetPassword, JoinGroup, Undo, Live
    <2>2. form[r].name \in Users /\ form[r].mail \in Mails
        BY <2>1, FormFields
    <2>3. CASE DirCreate(form[r].name, form[r].mail, r)
        BY <2>2, <2>3, Created
    <2>4. CASE accounts[form[r].name] # NULL /\ DirSetPassword(form[r].name, r)
        BY <2>2, <2>4, PasswordSet
    <2>5. ASSUME NEW g \in Groups, accounts[form[r].name] # NULL, DirJoin(form[r].name, g)
          PROVE  accounts' \in [Users -> Account \cup {NULL}]
        BY <2>2, <2>5, Joined
    <2>6. CASE DirDelete(form[r].name)
        BY <2>2, <2>6, Deleted
    <2>7. KnownGroups \subseteq Groups
        BY RedemptionAssumption
    <2>8. QED BY <1>1, <1>2, <2>3, <2>4, <2>5, <2>6, <2>7
              DEF CreateUser, SetPassword, JoinGroup, Undo
<1>3. QED BY <1>1, <1>2 DEF Step, CheckUsername, CheckEmail, FindInvite, Login, ListGroups,
                            ConsumeCode

\* What the redemption does to the repository is a move of it.
LEMMA StoreMoves ==
    ASSUME RedemptionTypeOK, [RedemptionNext]_allVars
    PROVE  [Move]_vars
<1>1. CASE Surroundings
    BY <1>1 DEF Surroundings, Move
<1>2. ASSUME NEW r \in Requests, ConsumeCode(r) \/ Drop(r) PROVE [Move]_vars
    <2>1. form[r] \in Forms /\ stamp[r] \in Nat
        BY <1>2 DEF ConsumeCode, Drop, RedemptionTypeOK, Live
    <2>2. form[r].code \in Invites /\ form[r].name \in Users
        BY <2>1, FormFields
    <2>3. QED BY <1>2, <2>1, <2>2 DEF ConsumeCode, Drop, Move, ConsumeAny
<1>3. CASE Crash
    <2>1. CASE sweep = NULL
        BY <1>3, <2>1 DEF Crash, vars
    <2>2. CASE sweep # NULL
        BY <1>3, <2>2 DEF Crash, Move, SweepAborts
    <2>3. QED BY <2>1, <2>2
<1>4. ASSUME NEW r \in Requests,
             Submit(r) \/ SubmitMalformed(r) \/ (Step(r) /\ ~ConsumeCode(r))
      PROVE  [Move]_vars
    BY <1>4 DEF Submit, SubmitMalformed, Step, CheckUsername, CheckEmail, FindInvite,
                Login, CreateUser, SetPassword, ListGroups, JoinGroup, Undo
<1>5. CASE UNCHANGED allVars
    BY <1>5 DEF allVars
<1>6. QED BY <1>1, <1>2, <1>3, <1>4, <1>5 DEF RedemptionNext, Step

\* The type invariant of the composition, given that the loop over the groups
\* stays in range.
LEMMA RedemptionTypeStep ==
    ASSUME RedemptionTypeOK, [RedemptionNext]_allVars,
           \A r \in Requests : pc[r] = "member" => next[r] \in 1..Len(list[r])
    PROVE  RedemptionTypeOK'
<1>0. TypeOK' /\ RequestsOK /\ accounts \in [Users -> Account \cup {NULL}]
    BY StoreMoves, TypeStep, TypeParts
<1>1. CASE Surroundings \/ UNCHANGED allVars
    <2>1. UNCHANGED <<accounts, pc, form, list, next, stamp, reply>>
        BY <1>1 DEF Surroundings, allVars, requestVars
    <2>2. RequestsOK'
        BY <1>0, <2>1 DEF RequestsOK
    <2>3. QED BY <1>0, <2>1, <2>2, TypePartsNext
<1>2. ASSUME NEW r \in Requests, Submit(r) PROVE RedemptionTypeOK'
    <2>1. PICK f \in Forms : form' = [form EXCEPT ![r] = f]
        BY <1>2 DEF Submit
    <2>2. /\ pc[r] = "idle"
          /\ pc' = [pc EXCEPT ![r] = "username"]
          /\ UNCHANGED <<accounts, list, next, stamp, reply>>
        BY <1>2 DEF Submit, Goto
    <2>3. reply[r] = "none"
        BY <1>0, <2>2 DEF RequestsOK
    <2>4. RequestsOK'
        BY <1>0, <2>1, <2>2, <2>3, Apart DEF RequestsOK, Live
    <2>5. QED BY <1>0, <2>2, <2>4, TypePartsNext
<1>3. ASSUME NEW r \in Requests, SubmitMalformed(r) PROVE RedemptionTypeOK'
    <2>1. Spoken'
        BY <1>0, <1>3, AnswerType DEF SubmitMalformed, Reply
    <2>2. QED BY <1>0, <1>3, <2>1, TypePartsNext DEF SubmitMalformed, RequestsOK, Spoken
<1>4. ASSUME NEW r \in Requests, Step(r) PROVE RedemptionTypeOK'
    BY <1>0, <1>4, StepRequestsOK, StepAccountsOK, TypePartsNext
<1>5. ASSUME NEW r \in Requests, Drop(r) PROVE RedemptionTypeOK'
    <2>1. RequestsOK'
        BY <1>0, <1>5 DEF Drop, Goto, RequestsOK, Live
    <2>2. QED BY <1>0, <1>5, <2>1, TypePartsNext DEF Drop
<1>6. CASE Crash
    <2>1. RequestsOK'
        BY <1>0, <1>6 DEF Crash, RequestsOK, Live
    <2>2. QED BY <1>0, <1>6, <2>1, TypePartsNext DEF Crash
<1>7. QED BY <1>1, <1>2, <1>3, <1>4, <1>5, <1>6 DEF RedemptionNext

---------------------------------------------------------------------------
(* Every action keeps the inductive invariant.                             *)

\* What is known of a request that is still at work.
LEMMA AtWork ==
    ASSUME RedemptionInv, NEW r \in Requests, pc[r] \in Live
    PROVE  /\ form[r] \in Forms
           /\ form[r].code \in Invites
           /\ form[r].name \in Users
           /\ form[r].mail \in Mails
           /\ reply[r] # "created"
           /\ list[r] \in Seq(Groups)
           /\ Owns(r) /\ Progress(r) /\ Remembers(r)
<1>1. form[r] \in Forms
    BY DEF RedemptionInv, RedemptionTypeOK
<1>2. reply[r] # "created"
    BY DEF RedemptionInv, Won, Live
<1>3. list[r] \in Seq(Groups)
    <2>1. list[r] \in GroupLists \cup {<< >>}
        BY DEF RedemptionInv, RedemptionTypeOK
    <2>2. << >> \in Seq(Groups)
        OBVIOUS
    <2>3. GroupLists \subseteq Seq(Groups)
        BY RedemptionAssumption
    <2>4. QED BY <2>1, <2>2, <2>3
<1>4. QED BY <1>1, <1>2, <1>3, FormFields DEF RedemptionInv

\* A request that is not behind createUser owes nothing.
LEMMA NothingOwed ==
    ASSUME NEW r \in Requests, pc'[r] \notin Making
    PROVE  Owns(r)' /\ Progress(r)'
BY DEF Owns, Progress, Making

\* A step of r that leaves the directory and the repository alone.
LEMMA QuietStep ==
    ASSUME RedemptionInv, RedemptionTypeOK', NEW r \in Requests,
           \/ Submit(r) \/ SubmitMalformed(r)
           \/ CheckUsername(r) \/ CheckEmail(r) \/ FindInvite(r) \/ Login(r)
    PROVE  RedemptionInv'
<1> DEFINE early == {"idle", "username", "email", "find", "login"}
<1>1. /\ Local(r)
      /\ UNCHANGED <<vars, accounts>>
      /\ pc[r] \in early
      /\ pc'[r] \in {"username", "email", "find", "login", "create", "done"}
      /\ reply'[r] # "created"
    <2>1. reply[r] = "none"
        BY DEF RedemptionInv, RedemptionTypeOK, Live, Submit, SubmitMalformed, CheckUsername,
               CheckEmail, FindInvite, Login
    <2>2. QED BY <2>1 DEF Local, Submit, SubmitMalformed, CheckUsername, CheckEmail, FindInvite,
                 Login, Goto, Answer, RedemptionInv, RedemptionTypeOK
<1>2. Owns(r)' /\ Progress(r)'
    BY <1>1, NothingOwed DEF Making
<1>3. Remembers(r)'
    <2>1. CASE Login(r)
        BY <2>1 DEF Login, Goto, Answer, Remembers, RedemptionInv, Informed, vars, RedemptionTypeOK
    <2>2. CASE FindInvite(r)
        <3>1. CASE pc'[r] \notin Informed
            BY <3>1 DEF Remembers
        <3>2. CASE pc'[r] \in Informed
            <4>1. /\ invites[form[r].code] # NULL
                  /\ list'[r] = invites[form[r].code].groups
                  /\ form' = form /\ invites' = invites /\ minted' = minted
                BY <2>2, <3>2 DEF FindInvite, Answer, Informed, Making, RedemptionInv,
                                  RedemptionTypeOK, vars
            <4>2. form[r].code \in Invites
                BY <2>2, AtWork DEF FindInvite, Live
            <4>3. form[r].code \in minted
                BY <4>1, <4>2 DEF RedemptionInv, RowsCoherent
            <4>4. QED BY <4>1, <4>3 DEF Remembers
        <3>3. QED BY <3>1, <3>2
    <2>3. CASE ~Login(r) /\ ~FindInvite(r)
        <3>1. pc'[r] \in {"username", "email", "find", "done"}
            BY <2>3 DEF Submit, SubmitMalformed, CheckUsername, CheckEmail, Goto, Answer,
                        RedemptionInv, RedemptionTypeOK
        <3>2. QED BY <3>1 DEF Remembers, Informed, Making
    <2>4. QED BY <2>1, <2>2, <2>3
<1>4. /\ pc[r] \notin Making
      /\ pc[r] \notin {"done", "dropped"}
    BY <1>1 DEF Making
<1>5. QED BY <1>1, <1>2, <1>3, <1>4, OneRequestStep

LEMMA CreateStep ==
    ASSUME RedemptionInv, RedemptionTypeOK', NEW r \in Requests, CreateUser(r)
    PROVE  RedemptionInv'
<1>1. /\ Local(r)
      /\ UNCHANGED <<vars, form, list>>
      /\ pc[r] = "create"
      /\ pc'[r] \in {"password", "done"}
      /\ reply'[r] # "created"
    <2>1. reply[r] # "created"
        BY AtWork DEF CreateUser, Live
    <2>2. QED BY <2>1 DEF CreateUser, Goto, Answer, Local, RedemptionInv, RedemptionTypeOK,
                          DirectoryErrors
<1> DEFINE u == form[r].name
<1>2. u \in Users /\ form[r] \in Forms /\ form[r].mail \in Mails /\ Remembers(r)
    BY <1>1, AtWork DEF Live
<1>3. Remembers(r)'
    BY <1>1, <1>2 DEF Remembers, Informed, Making, vars
<1>4. CASE ~NameTaken(u) /\ DirCreate(u, form[r].mail, r)
    <2>1. /\ accounts'[u] = New(form[r].mail, r)
          /\ \A v \in Users \ {u} : accounts'[v] = accounts[v]
        BY <1>2, <1>4, Created DEF RedemptionInv
    <2>2. /\ accounts'[u] # NULL
          /\ accounts'[u].maker = r
          /\ accounts'[u].groups = {}
        BY <1>2, <2>1, NewAccount, Apart
    <2>3. Touches(r)
        BY <1>2, <1>4, <2>1 DEF Touches, NameTaken
    <2>4. Owns(r)'
        BY <1>1, <2>2 DEF Owns
    <2>5. Progress(r)'
        BY <1>1, <2>2 DEF Progress
    <2>6. Made(u)'
        BY <1>1, <1>2, <2>2, Apart DEF Made, Making
    <2>7. \A v \in Users : accounts'[v] # accounts[v] => v = u
        BY <2>1
    <2>8. \A v \in Users : accounts'[v] # accounts[v] => Made(v)'
        BY <2>6, <2>7, <1>1 DEF Made
    <2>9. QED BY <1>1, <1>3, <2>3, <2>4, <2>5, <2>8, OneRequestStep DEF Making
<1>5. CASE UNCHANGED accounts /\ pc'[r] = "done"
    <2>1. Owns(r)' /\ Progress(r)'
        BY <1>5, NothingOwed DEF Making
    <2>2. QED BY <1>1, <1>3, <1>5, <2>1, OneRequestStep DEF Making
<1>6. CreateUser(r) => (~NameTaken(u) /\ DirCreate(u, form[r].mail, r))
                        \/ (UNCHANGED accounts /\ pc'[r] = "done")
    BY DEF CreateUser, Answer, RedemptionInv, RedemptionTypeOK
<1>7. QED BY <1>4, <1>5, <1>6

\* What the loop over the groups does next, either way.
LEMMA Onward ==
    ASSUME RedemptionInv, NEW r \in Requests, NEW k \in Nat, Proceed(r, k)
    PROVE  /\ \A s \in Requests \ {r} :
                    /\ pc'[s] = pc[s] /\ reply'[s] = reply[s]
                    /\ next'[s] = next[s] /\ stamp'[s] = stamp[s]
           /\ reply'[r] = reply[r]
           /\ \/ k <= Len(list[r]) /\ pc'[r] = "member" /\ next'[r] = k
              \/ ~(k <= Len(list[r])) /\ pc'[r] = "consume"
BY DEF Proceed, Goto, RedemptionInv, RedemptionTypeOK

LEMMA SetPasswordStep ==
    ASSUME RedemptionInv, RedemptionTypeOK', NEW r \in Requests, SetPassword(r)
    PROVE  RedemptionInv'
<1> DEFINE u == form[r].name
<1>1. /\ Local(r)
      /\ UNCHANGED <<vars, form, list>>
      /\ pc[r] = "password"
      /\ pc'[r] \in {"groups", "undo"}
      /\ reply'[r] # "created"
    <2>1. reply[r] # "created"
        BY AtWork DEF SetPassword, Live
    <2>2. QED BY <2>1 DEF SetPassword, Goto, Compensate, Local, RedemptionInv, RedemptionTypeOK
<1>2. /\ u \in Users /\ form[r] \in Forms
      /\ Remembers(r) /\ Owns(r) /\ Progress(r)
    BY <1>1, AtWork DEF Live
<1>3. Remembers(r)'
    BY <1>1, <1>2 DEF Remembers, Informed, Making, vars
<1>4. /\ accounts[u] # NULL
      /\ accounts[u].maker = r
      /\ accounts[u].groups = {}
    BY <1>1, <1>2 DEF Owns, Progress, Making
<1>5. CASE DirSetPassword(u, r)
    <2>1. /\ accounts[u] \in Account
          /\ accounts'[u] = WithPassword(accounts[u], r)
          /\ \A v \in Users \ {u} : accounts'[v] = accounts[v]
        BY <1>2, <1>4, <1>5, PasswordSet DEF RedemptionInv
    <2>2. /\ accounts'[u] # NULL
          /\ accounts'[u].maker = r
          /\ accounts'[u].password = r
          /\ accounts'[u].groups = {}
        BY <1>4, <2>1, PasswordAccount, Apart
    <2>3. Touches(r)
        BY <1>1, <1>2, <2>1 DEF Touches, Making
    <2>4. Owns(r)'
        BY <1>1, <2>2 DEF Owns
    <2>5. Progress(r)'
        BY <1>1, <2>2 DEF Progress
    <2>6. Made(u)'
        BY <1>1, <1>2, <2>2, Apart DEF Made, Making
    <2>7. \A v \in Users : accounts'[v] # accounts[v] => v = u
        BY <2>1
    <2>8. \A v \in Users : accounts'[v] # accounts[v] => Made(v)'
        BY <2>6, <2>7, <1>1 DEF Made
    <2>9. QED BY <1>1, <1>3, <2>3, <2>4, <2>5, <2>8, OneRequestStep DEF Making
<1>6. CASE UNCHANGED accounts /\ pc'[r] = "undo"
    <2>1. Owns(r)'
        BY <1>1, <1>4, <1>6 DEF Owns
    <2>2. Progress(r)'
        BY <1>6 DEF Progress
    <2>3. QED BY <1>1, <1>3, <1>6, <2>1, <2>2, OneRequestStep DEF Making
<1>7. SetPassword(r) => DirSetPassword(u, r) \/ (UNCHANGED accounts /\ pc'[r] = "undo")
    BY DEF SetPassword, Compensate, RedemptionInv, RedemptionTypeOK
<1>8. QED BY <1>5, <1>6, <1>7

LEMMA ListGroupsStep ==
    ASSUME RedemptionInv, RedemptionTypeOK', NEW r \in Requests, ListGroups(r)
    PROVE  RedemptionInv'
<1> DEFINE u == form[r].name
<1>0. /\ pc[r] = "groups"
      /\ UNCHANGED <<vars, accounts, form, list>>
    BY DEF ListGroups
<1>2. /\ u \in Users /\ form[r] \in Forms /\ list[r] \in Seq(Groups)
      /\ reply[r] # "created"
      /\ Remembers(r) /\ Owns(r) /\ Progress(r)
    BY <1>0, AtWork DEF Live
<1>3. /\ accounts[u] # NULL
      /\ accounts[u].maker = r
      /\ accounts[u].password = r
      /\ accounts[u].groups = {}
    BY <1>0, <1>2 DEF Owns, Progress, Making
<1>4. CASE Proceed(r, 1)
    <2>1. /\ Local(r)
          /\ reply'[r] # "created"
          /\ \/ 1 <= Len(list[r]) /\ pc'[r] = "member" /\ next'[r] = 1
             \/ ~(1 <= Len(list[r])) /\ pc'[r] = "consume"
        BY <1>0, <1>2, <1>4, Onward DEF Local
    <2>2. Owns(r)' /\ Remembers(r)'
        BY <1>0, <1>2, <1>3, <2>1 DEF Owns, Remembers, Informed, Making, vars
    <2>3. 1 <= Len(list[r]) => 1 \in 1..Len(list[r])
        BY <1>2
    <2>4. {list[r][k] : k \in 1..(1 - 1)} = {}
        OBVIOUS
    <2>5. Progress(r)'
        <3>1. CASE 1 <= Len(list[r]) /\ pc'[r] = "member" /\ next'[r] = 1
            BY <1>0, <1>3, <2>3, <2>4, <3>1 DEF Progress
        <3>2. CASE ~(1 <= Len(list[r])) /\ pc'[r] = "consume"
            <4>1. GroupsOf(list[r]) = {}
                BY <1>2, <3>2 DEF GroupsOf
            <4>2. QED BY <1>0, <1>3, <3>2, <4>1 DEF Progress
        <3>3. QED BY <2>1, <3>1, <3>2
    <2>6. QED BY <1>0, <2>1, <2>2, <2>5, OneRequestStep DEF Making
<1>5. ASSUME NEW why \in DirectoryErrors, Compensate(r, why), UNCHANGED <<next, stamp>>
      PROVE  RedemptionInv'
    <2>1. /\ Local(r) /\ pc'[r] = "undo" /\ reply'[r] # "created"
        BY <1>0, <1>5 DEF Local, Compensate, DirectoryErrors, RedemptionInv, RedemptionTypeOK
    <2>2. Owns(r)' /\ Remembers(r)'
        BY <1>0, <1>2, <1>3, <2>1 DEF Owns, Remembers, Informed, Making, vars
    <2>3. Progress(r)'
        BY <2>1 DEF Progress
    <2>4. QED BY <1>0, <2>1, <2>2, <2>3, OneRequestStep DEF Making
<1>6. QED BY <1>4, <1>5 DEF ListGroups

\* The groups joined so far, one more at a time, are all of them in the end.
LEMMA OneMore ==
    ASSUME NEW l \in Seq(Groups), NEW n \in 1..Len(l)
    PROVE  /\ l[n] \in Groups
           /\ {l[k] : k \in 1..(n - 1)} \cup {l[n]} = {l[k] : k \in 1..((n + 1) - 1)}
           /\ n + 1 \in Nat
           /\ n + 1 <= Len(l) => n + 1 \in 1..Len(l)
           /\ ~(n + 1 <= Len(l)) => {l[k] : k \in 1..(n - 1)} \cup {l[n]} = GroupsOf(l)
<1>1. Len(l) \in Nat /\ DOMAIN l = 1..Len(l) /\ n \in Nat
    OBVIOUS
<1>2. 1..((n + 1) - 1) = 1..(n - 1) \cup {n}
    BY <1>1
<1>3. ~(n + 1 <= Len(l)) => DOMAIN l = 1..(n - 1) \cup {n}
    BY <1>1
<1>4. l[n] \in Groups
    OBVIOUS
<1>5. QED BY <1>1, <1>2, <1>3, <1>4 DEF GroupsOf

LEMMA JoinGroupStep ==
    ASSUME RedemptionInv, RedemptionTypeOK', NEW r \in Requests, JoinGroup(r)
    PROVE  RedemptionInv'
<1> DEFINE u == form[r].name
           n == next[r]
           g == list[r][n]
<1>0. /\ pc[r] = "member"
      /\ UNCHANGED <<vars, form, list>>
    BY DEF JoinGroup
<1>2. /\ u \in Users /\ form[r] \in Forms /\ list[r] \in Seq(Groups)
      /\ reply[r] # "created"
      /\ Remembers(r) /\ Owns(r) /\ Progress(r)
    BY <1>0, AtWork DEF Live
<1>3. /\ accounts[u] # NULL
      /\ accounts[u].maker = r
      /\ accounts[u].password = r
      /\ n \in 1..Len(list[r])
      /\ \/ "ignored" \in Faults
         \/ accounts[u].groups = {list[r][k] : k \in 1..(n - 1)}
    BY <1>0, <1>2 DEF Owns, Progress, Making
<1>4. g \in Groups /\ n + 1 \in Nat
    BY <1>2, <1>3, OneMore
\* The directory.
<1>5. /\ accounts'[u] # NULL
      /\ accounts'[u].maker = r
      /\ accounts'[u].password = r
      /\ accounts' = accounts \/ Touches(r)
      /\ \A v \in Users : accounts'[v] # accounts[v] => v = u
    <2>1. CASE accounts' = accounts
        BY <1>3, <2>1
    <2>2. CASE DirJoin(u, g)
        <3>1. /\ accounts[u] \in Account
              /\ accounts'[u] = WithGroup(accounts[u], g)
              /\ \A v \in Users \ {u} : accounts'[v] = accounts[v]
            BY <1>2, <1>3, <1>4, <2>2, Joined DEF RedemptionInv
        <3>2. Touches(r)
            BY <1>0, <1>2, <3>1 DEF Touches, Making
        <3>3. QED BY <1>3, <1>4, <3>1, <3>2, GroupAccount, Apart
    <2>3. QED BY <2>1, <2>2 DEF JoinGroup
<1>6. Proceed(r, n + 1) =>
        "ignored" \in Faults \/ accounts'[u].groups = {list[r][k] : k \in 1..(n - 1)} \cup {g}
    <2>1. CASE accounts[u] # NULL /\ DirJoin(u, g)
        <3>1. accounts[u] \in Account /\ accounts'[u] = WithGroup(accounts[u], g)
            BY <1>2, <1>4, <2>1, Joined DEF RedemptionInv
        <3>2. accounts'[u].groups = accounts[u].groups \cup {g}
            <4>1. g \in Groups
                BY <1>4
            <4>2. WithGroup(accounts[u], g).groups = accounts[u].groups \cup {g}
                BY <3>1, <4>1, GroupAccount
            <4>3. QED BY <3>1, <4>2
        <3>3. QED BY <1>3, <3>2
    <2>2. CASE "ignored" \in Faults
        BY <2>2
    <2>3. CASE Answer(r, "not_created") \/ \E why \in DirectoryErrors : Compensate(r, why)
        <3>1. pc'[r] \in {"done", "undo"}
            BY <2>3 DEF Answer, Compensate, RedemptionInv, RedemptionTypeOK
        <3>2. QED BY <1>4, <3>1, Onward
    <2>4. QED BY <2>1, <2>2, <2>3 DEF JoinGroup
\* The request.
<1>7. CASE Proceed(r, n + 1)
    <2>1. /\ Local(r)
          /\ reply'[r] # "created"
          /\ \/ n + 1 <= Len(list[r]) /\ pc'[r] = "member" /\ next'[r] = n + 1
             \/ ~(n + 1 <= Len(list[r])) /\ pc'[r] = "consume"
        BY <1>0, <1>2, <1>4, <1>7, Onward DEF Local
    <2>2. Owns(r)' /\ Remembers(r)'
        BY <1>0, <1>2, <1>5, <2>1 DEF Owns, Remembers, Informed, Making, vars
    <2>3. Progress(r)'
        <3>1. CASE n + 1 <= Len(list[r]) /\ pc'[r] = "member" /\ next'[r] = n + 1
            <4>1. next'[r] \in 1..Len(list[r])
                BY <1>2, <1>3, <3>1, OneMore
            <4>2. "ignored" \in Faults
                    \/ accounts'[u].groups = {list[r][k] : k \in 1..(next'[r] - 1)}
                BY <1>2, <1>3, <1>6, <1>7, <3>1, OneMore
            <4>3. QED BY <1>0, <1>5, <3>1, <4>1, <4>2 DEF Progress
        <3>2. CASE ~(n + 1 <= Len(list[r])) /\ pc'[r] = "consume"
            <4>1. "ignored" \in Faults \/ accounts'[u].groups = GroupsOf(list[r])
                BY <1>2, <1>3, <1>6, <1>7, <3>2, OneMore
            <4>2. QED BY <1>0, <1>5, <3>2, <4>1 DEF Progress
        <3>3. QED BY <2>1, <3>1, <3>2
    <2>4. Made(u)'
        BY <1>0, <1>2, <1>5, <2>1, Apart DEF Made, Making
    <2>5. \A v \in Users : accounts'[v] # accounts[v] => Made(v)'
        BY <1>0, <1>5, <2>4 DEF Made
    <2>6. pc[r] \in Making /\ pc'[r] \in Making /\ form'[r] = form[r] /\ UNCHANGED vars
        BY <1>0, <2>1 DEF Making
    <2>7. QED BY <1>0, <1>5, <2>1, <2>2, <2>3, <2>5, <2>6, OneRequestStep
<1>8. ASSUME pc'[r] \in {"done", "undo"}, Local(r), reply'[r] # "created"
      PROVE  RedemptionInv'
    <2>1. Owns(r)' /\ Remembers(r)'
        BY <1>0, <1>2, <1>5, <1>8 DEF Owns, Remembers, Informed, Making, vars
    <2>2. Progress(r)'
        BY <1>8 DEF Progress
    <2>3. Made(u)'
        BY <1>0, <1>2, <1>5, <1>8, Apart DEF Made, Making
    <2>4. \A v \in Users : accounts'[v] # accounts[v] => Made(v)'
        BY <1>0, <1>5, <2>3 DEF Made
    <2>5. /\ pc[r] \in Making /\ pc'[r] \in Making \cup {"done", "dropped"}
          /\ form'[r] = form[r] /\ UNCHANGED vars
        BY <1>0, <1>8 DEF Making
    <2>6. QED BY <1>0, <1>5, <1>8, <2>1, <2>2, <2>4, <2>5, OneRequestStep
<1>9. CASE /\ UNCHANGED <<next, stamp>>
           /\ \/ Answer(r, "not_created")
              \/ \E why \in DirectoryErrors : Compensate(r, why)
    <2>1. pc'[r] \in {"done", "undo"} /\ Local(r) /\ reply'[r] # "created"
        BY <1>0, <1>9 DEF Local, Answer, Compensate, DirectoryErrors, RedemptionInv,
                          RedemptionTypeOK
    <2>2. QED BY <1>8, <2>1
<1>10. QED BY <1>7, <1>9 DEF JoinGroup

LEMMA UndoStep ==
    ASSUME RedemptionInv, RedemptionTypeOK', NEW r \in Requests, Undo(r)
    PROVE  RedemptionInv'
<1> DEFINE u == form[r].name
<1>1. /\ Local(r)
      /\ UNCHANGED <<vars, form, list>>
      /\ pc[r] = "undo"
      /\ pc'[r] = "done"
      /\ reply'[r] # "created"
    <2>1. reply[r] # "created"
        BY AtWork DEF Undo, Live
    <2>2. QED BY <2>1 DEF Undo, Goto, Local, RedemptionInv, RedemptionTypeOK
<1>2. u \in Users /\ form[r] \in Forms /\ Remembers(r)
    BY <1>1, AtWork DEF Live
<1>3. Remembers(r)' /\ Owns(r)' /\ Progress(r)'
    BY <1>1, NothingOwed DEF Remembers, Informed, Making
<1>4. CASE DirDelete(u)
    <2>1. /\ accounts'[u] = NULL
          /\ \A v \in Users \ {u} : accounts'[v] = accounts[v]
        BY <1>2, <1>4, Deleted DEF RedemptionInv
    <2>2. Touches(r)
        BY <1>1, <1>2, <2>1 DEF Touches, Making
    <2>3. \A v \in Users : accounts'[v] # accounts[v] => Made(v)'
        BY <2>1 DEF Made
    <2>4. QED BY <1>1, <1>3, <2>2, <2>3, OneRequestStep
<1>5. CASE UNCHANGED accounts
    BY <1>1, <1>3, <1>5, OneRequestStep
<1>6. QED BY <1>4, <1>5 DEF Undo

\* The invitation is used: r's account is the one the row will name, whether r is
\* told or cut off.
LEMMA UsedStep ==
    ASSUME RedemptionInv, RedemptionTypeOK', RowsCoherent', NEW r \in Requests,
           pc[r] = "consume",
           UNCHANGED <<accounts, form, list, next, stamp>>,
           ConsumeInvite(form[r].code, stamp[r], form[r].name),
           Answer(r, "created") \/ Goto(r, "dropped")
    PROVE  RedemptionInv'
<1> DEFINE u == form[r].name
           i == form[r].code
<1>0. pc[r] = "consume" /\ UNCHANGED <<accounts, form, list, next, stamp>>
    OBVIOUS
<1>1. /\ u \in Users /\ i \in Invites /\ form[r] \in Forms /\ stamp[r] \in Nat
      /\ Remembers(r) /\ Owns(r) /\ Progress(r)
    BY <1>0, AtWork DEF Live, RedemptionInv, RedemptionTypeOK
<1>2. /\ accounts[u] # NULL
      /\ accounts[u].maker = r
      /\ accounts[u].password = r
      /\ "ignored" \in Faults \/ accounts[u].groups = GroupsOf(list[r])
      /\ invites[i] # NULL => list[r] = invites[i].groups
    BY <1>0, <1>1 DEF Owns, Progress, Making, Remembers, Informed
<1>3. /\ Local(r) /\ pc'[r] \in {"done", "dropped"}
      /\ reply'[r] = "created" => pc'[r] = "done"
    BY <1>0, AtWork DEF Live, Local, Answer, Goto, RedemptionInv, RedemptionTypeOK
<1>4. /\ invites[i] # NULL
      /\ invites[i].consumedAt = NULL
      /\ minted' = minted
    BY DEF ConsumeInvite, Consumable
<1>5. /\ invites[i] \in Row
      /\ invites'[i] = Used(invites[i], stamp[r], u)
      /\ invites'[i] \in Row
      /\ \A j \in Invites \ {i} : invites'[j] = invites[j]
    BY <1>1, ConsumeWrites DEF RedemptionInv, RedemptionTypeOK
<1>6. /\ invites'[i] # NULL
      /\ invites'[i].consumedBy = u
      /\ invites'[i].consumedAt = stamp[r]
    BY <1>1, <1>5, UsedRow, Apart
<1>7. invites'[i].groups = invites[i].groups
    BY <1>5 DEF Used, Row
<1>8. ASSUME NEW s \in Requests PROVE Owns(s)' /\ Progress(s)'
    <2>1. CASE s = r
        BY <1>3, <2>1, NothingOwed DEF Making
    <2>2. CASE s # r
        <3>1. Owns(s) /\ Progress(s)
            BY DEF RedemptionInv
        <3>2. /\ pc'[s] = pc[s] /\ next'[s] = next[s]
            BY <1>3, <2>2 DEF Local
        <3>3. QED BY <1>0, <3>1, <3>2 DEF Owns, Progress
    <2>3. QED BY <2>1, <2>2
<1>9. ASSUME NEW s \in Requests PROVE Remembers(s)'
    <2>1. CASE pc'[s] \in Informed
        <3>1. s # r
            BY <1>3, <2>1 DEF Informed, Making
        <3>2. pc'[s] = pc[s] /\ Remembers(s)
            BY <1>3, <3>1 DEF Local, RedemptionInv
        <3>3. form[s].code \in Invites
            BY <2>1, <3>2, AtWork DEF Informed, Making, Live
        <3>4. /\ form[s].code \in minted
              /\ invites[form[s].code] # NULL => list[s] = invites[form[s].code].groups
            BY <2>1, <3>2 DEF Remembers
        <3>5. CASE form[s].code = i
            BY <1>0, <1>4, <1>7, <3>4, <3>5 DEF Remembers
        <3>6. CASE form[s].code # i
            BY <1>0, <1>4, <1>5, <3>3, <3>4, <3>6 DEF Remembers
        <3>7. QED BY <3>5, <3>6
    <2>2. CASE pc'[s] \notin Informed
        BY <2>2 DEF Remembers
    <2>3. QED BY <2>1, <2>2
<1>10. ASSUME NEW s \in Requests PROVE Won(s)'
    <2>1. CASE s = r
        BY <1>0, <1>1, <1>2, <1>3, <1>6, <2>1, Apart DEF Won
    <2>2. CASE s # r /\ reply[s] = "created"
        <3>1. Won(s) /\ stamp[s] \in Nat
            BY DEF RedemptionInv, RedemptionTypeOK
        <3>2. pc'[s] = pc[s] /\ reply'[s] = reply[s]
            BY <1>3, <2>2 DEF Local
        <3>3. form[s] \in Forms
            BY <2>2, <3>1 DEF Won, RedemptionInv, RedemptionTypeOK
        <3>4. form[s].code # i
            BY <1>4, <2>2, <3>1, Apart DEF Won
        <3>5. invites'[form[s].code] = invites[form[s].code]
            BY <1>5, <3>3, <3>4, FormFields
        <3>6. QED BY <1>0, <2>2, <3>1, <3>2, <3>5 DEF Won
    <2>3. CASE s # r /\ reply[s] # "created"
        BY <1>3, <2>3 DEF Local, Won
    <2>4. QED BY <2>1, <2>2, <2>3
<1>11. ASSUME NEW v \in Users PROVE Made(v)'
    <2>1. SUFFICES ASSUME accounts[v] # NULL, accounts[v].maker # NULL PROVE Made(v)'
        BY <1>0 DEF Made
    <2>2. Made(v) /\ accounts[v].maker \in Requests
        BY <2>1 DEF RedemptionInv, RedemptionTypeOK, Account
    <2>3. pc'[accounts[v].maker] \in {pc[accounts[v].maker], "done", "dropped"}
        BY <1>3, <2>2 DEF Local
    <2>4. QED BY <1>0, <2>1, <2>2, <2>3 DEF Made
<1>12. ASSUME NEW j \in Invites PROVE Backed(j)'
    <2>1. CASE j = i
        <3>1. "ignored" \in Faults \/ accounts[u].groups = GroupsOf(invites'[i].groups)
            BY <1>2, <1>4, <1>7
        <3>2. QED BY <1>0, <1>2, <1>3, <1>6, <2>1, <3>1 DEF Backed
    <2>2. CASE j # i
        <3>1. Backed(j) /\ invites'[j] = invites[j]
            BY <1>5, <2>2 DEF RedemptionInv
        <3>2. SUFFICES ASSUME invites[j] # NULL, invites[j].consumedAt # NULL
                       PROVE  Backed(j)'
            BY <3>1 DEF Backed
        <3>3. /\ accounts[invites[j].consumedBy].maker \in Requests
              /\ pc[accounts[invites[j].consumedBy].maker] \in {"done", "dropped"}
            BY <3>1, <3>2 DEF Backed
        <3>4. pc'[accounts[invites[j].consumedBy].maker] \in {"done", "dropped"}
            BY <1>0, <1>3, <3>3 DEF Local
        <3>5. QED BY <1>0, <3>1, <3>2, <3>4 DEF Backed
    <2>3. QED BY <2>1, <2>2
<1>13. QED BY <1>8, <1>9, <1>10, <1>11, <1>12 DEF RedemptionInv

LEMMA ConsumeStep ==
    ASSUME RedemptionInv, RedemptionTypeOK', RowsCoherent', NEW r \in Requests, ConsumeCode(r)
    PROVE  RedemptionInv'
<1>0. /\ pc[r] = "consume"
      /\ UNCHANGED <<accounts, form, list, next, stamp>>
    BY DEF ConsumeCode
<1>1. CASE Compensate(r, "not_used") /\ UNCHANGED vars
    <2>1. Local(r) /\ pc'[r] = "undo" /\ reply'[r] # "created"
        BY <1>0, <1>1 DEF Local, Compensate, RedemptionInv, RedemptionTypeOK
    <2>2. Owns(r) /\ Remembers(r)
        BY DEF RedemptionInv
    <2>3. Owns(r)' /\ Remembers(r)'
        BY <1>0, <1>1, <2>1, <2>2 DEF Owns, Remembers, Informed, Making, vars
    <2>4. Progress(r)'
        BY <2>1 DEF Progress
    <2>5. QED BY <1>0, <1>1, <2>1, <2>3, <2>4, OneRequestStep DEF Making
<1>2. CASE ConsumeInvite(form[r].code, stamp[r], form[r].name) /\ Answer(r, "created")
    BY <1>0, <1>2, UsedStep
<1>3. QED BY <1>1, <1>2 DEF ConsumeCode

LEMMA DropStep ==
    ASSUME RedemptionInv, RedemptionTypeOK', RowsCoherent', NEW r \in Requests, Drop(r)
    PROVE  RedemptionInv'
<1>1. /\ Local(r)
      /\ UNCHANGED <<accounts, form, list, next, stamp>>
      /\ pc[r] \in Live
      /\ pc'[r] = "dropped"
      /\ reply'[r] = reply[r]
    BY DEF Drop, Goto, Local, RedemptionInv, RedemptionTypeOK
<1>2. CASE UNCHANGED vars
    <2>1. Owns(r)' /\ Progress(r)' /\ Remembers(r)'
        BY <1>1, NothingOwed DEF Making, Remembers, Informed
    <2>2. QED BY <1>1, <1>2, <2>1, AtWork, OneRequestStep DEF Live
<1>3. CASE pc[r] = "consume" /\ ConsumeInvite(form[r].code, stamp[r], form[r].name)
    BY <1>1, <1>3, UsedStep DEF Drop
<1>4. QED BY <1>2, <1>3 DEF Drop

\* While no request moves, the repository may not use an invitation: it may
\* mint, revoke and delete, and none of this undoes what the invariant says.
LEMMA SurroundingsStep ==
    ASSUME RedemptionInv, RedemptionTypeOK', RowsCoherent', Surroundings
    PROVE  RedemptionInv'
<1>0. UNCHANGED <<accounts, pc, form, list, next, stamp, reply>>
    BY DEF Surroundings, requestVars
<1>1. TypeOK /\ RowsCoherent /\ TypeOK'
    BY DEF RedemptionInv, RedemptionTypeOK
\* A row that was there stays, or goes; a used one stays as it is; a new one is unused.
<1>2. ASSUME NEW i \in Invites
      PROVE  /\ i \in minted => i \in minted'
             /\ i \in minted /\ invites'[i] # NULL =>
                    invites[i] # NULL /\ invites'[i].groups = invites[i].groups
             /\ invites[i] # NULL /\ invites[i].consumedAt # NULL => invites'[i] = invites[i]
             /\ invites'[i] # NULL /\ invites'[i].consumedAt # NULL => invites'[i] = invites[i]
    <2> USE NullApart
    <2>1. CASE PassTime \/ SweepTick \/ SweepAborts
        BY <2>1 DEF PassTime, SweepTick, SweepAborts
    <2>2. ASSUME NEW j \in Invites, GenerateInvite(j)
          PROVE  /\ j \notin minted /\ minted' = minted \cup {j}
                 /\ invites'[j] # NULL /\ invites'[j].consumedAt = NULL
                 /\ \A k \in Invites \ {j} : invites'[k] = invites[k]
        <3>1. PICK groups \in GroupLists, hours \in Lifetimes, at \in Nat :
                /\ hours >= 1
                /\ j \notin minted
                /\ minted' = minted \cup {j}
                /\ invites' = [invites EXCEPT ![j] =
                        [groups |-> groups, createdAt |-> at, expiresAt |-> at + hours,
                         consumedAt |-> NULL, consumedBy |-> NULL, revokedAt |-> NULL]]
            BY <1>1, <2>2, GenerateWrites
        <3>2. invites'[j].consumedAt = NULL
            BY <1>1, <3>1 DEF TypeOK
        <3>3. invites'[j] # NULL
            BY <1>1, <3>1, FreshRow DEF TypeOK
        <3>4. QED BY <1>1, <3>1, <3>2, <3>3 DEF TypeOK
    <2>3. ASSUME NEW j \in Invites, RevokeInvite(j)
          PROVE  /\ minted' = minted
                 /\ invites[j] # NULL /\ invites[j].consumedAt = NULL
                 /\ invites'[j].consumedAt = NULL
                 /\ invites'[j].groups = invites[j].groups
                 /\ \A k \in Invites \ {j} : invites'[k] = invites[k]
        <3>1. minted' = minted
            BY <2>3 DEF RevokeInvite
        <3>2. PICK at \in Nat :
                /\ invites[j] \in Row
                /\ Revocable(invites[j])
                /\ invites'[j] = Revoked(invites[j], at)
                /\ \A k \in Invites \ {j} : invites'[k] = invites[k]
            BY <1>1, <2>3, RevokeWrites
        <3>3. Revoked(invites[j], at).groups = invites[j].groups
            BY <3>2 DEF Revoked, Row
        <3>4. QED BY <3>1, <3>2, <3>3, RevokedRow DEF Revocable
    <2>4. CASE SweepRun
        <3>1. /\ minted' = minted
              /\ invites'[i] \in {NULL, invites[i]}
              /\ invites[i] # NULL /\ invites[i].consumedAt # NULL => invites'[i] = invites[i]
            <4>1. \A c : invites[i] # NULL /\ invites[i].consumedAt # NULL => i \notin StaleInvites(c)
                BY <1>1 DEF StaleInvites, IsStale, Revocable, RowsCoherent
            <4>2. QED BY <2>4, <4>1 DEF SweepRun, CleanupStale
        <3>2. QED BY <3>1
    <2>5. invites[i] # NULL => i \in minted
        BY <1>1 DEF RowsCoherent
    <2>6. ASSUME NEW j \in Invites, GenerateInvite(j)
          PROVE  /\ i \in minted => i \in minted' /\ i # j
                 /\ i # j => invites'[i] = invites[i]
                 /\ i = j => invites[i] = NULL /\ invites'[i].consumedAt = NULL
        BY <2>2, <2>5, <2>6
    <2>7. QED BY <2>1, <2>3, <2>4, <2>6 DEF Surroundings
<1>3. ASSUME NEW s \in Requests PROVE Owns(s)' /\ Progress(s)' /\ Remembers(s)' /\ Won(s)'
    <2>0. Owns(s) /\ Progress(s) /\ Remembers(s) /\ Won(s)
        BY DEF RedemptionInv
    <2>1. Owns(s)' /\ Progress(s)'
        BY <1>0, <2>0 DEF Owns, Progress
    <2>2. Remembers(s)'
        <3>1. CASE pc[s] \in Informed
            <4>1. form[s].code \in Invites
                BY <3>1, AtWork DEF Informed, Making, Live
            <4>2. QED BY <1>0, <1>2, <2>0, <3>1, <4>1 DEF Remembers
        <3>2. CASE pc[s] \notin Informed
            BY <1>0, <3>2 DEF Remembers
        <3>3. QED BY <3>1, <3>2
    <2>3. Won(s)'
        <3>1. CASE reply[s] = "created"
            <4>1. form[s] \in Forms /\ stamp[s] \in Nat
                BY <2>0, <3>1 DEF Won, RedemptionInv, RedemptionTypeOK
            <4>2. /\ invites[form[s].code] # NULL
                  /\ invites[form[s].code].consumedAt # NULL
                BY <2>0, <3>1, <4>1, Apart DEF Won
            <4>3. invites'[form[s].code] = invites[form[s].code]
                BY <1>2, <4>1, <4>2, FormFields
            <4>4. QED BY <1>0, <2>0, <3>1, <4>3 DEF Won
        <3>2. CASE reply[s] # "created"
            BY <1>0, <3>2 DEF Won
        <3>3. QED BY <3>1, <3>2
    <2>4. QED BY <2>1, <2>2, <2>3
<1>4. ASSUME NEW v \in Users PROVE Made(v)'
    BY <1>0 DEF RedemptionInv, Made
<1>5. ASSUME NEW j \in Invites PROVE Backed(j)'
    <2>1. Backed(j)
        BY DEF RedemptionInv
    <2>2. SUFFICES ASSUME invites'[j] # NULL, invites'[j].consumedAt # NULL PROVE Backed(j)'
        BY DEF Backed
    <2>3. invites'[j] = invites[j]
        BY <1>2, <2>2
    <2>4. QED BY <1>0, <2>1, <2>2, <2>3 DEF Backed
<1>6. QED BY <1>3, <1>4, <1>5 DEF RedemptionInv

\* Everybody is cut off at once.
LEMMA CrashStep ==
    ASSUME RedemptionInv, RedemptionTypeOK', RowsCoherent', Crash
    PROVE  RedemptionInv'
<1>0. /\ UNCHANGED <<accounts, form, list, next, stamp, reply, invites, minted>>
      /\ \A s \in Requests : pc'[s] = IF pc[s] \in Live THEN "dropped" ELSE pc[s]
    BY DEF Crash
<1>1. ASSUME NEW s \in Requests PROVE Owns(s)' /\ Progress(s)' /\ Remembers(s)' /\ Won(s)'
    <2>1. Won(s)
        BY DEF RedemptionInv
    <2>2. pc'[s] \notin Live
        BY <1>0 DEF Live
    <2>3. pc'[s] \notin Making /\ pc'[s] \notin Informed
        BY <2>2 DEF Making, Informed, Live
    <2>4. pc[s] = "done" => pc'[s] = "done"
        BY <1>0 DEF Live
    <2>5. QED BY <1>0, <2>1, <2>3, <2>4, NothingOwed DEF Remembers, Won
<1>2. ASSUME NEW v \in Users PROVE Made(v)'
    <2>1. SUFFICES ASSUME accounts[v] # NULL, accounts[v].maker # NULL PROVE Made(v)'
        BY <1>0 DEF Made
    <2>2. Made(v) /\ accounts[v].maker \in Requests
        BY <2>1 DEF RedemptionInv, RedemptionTypeOK, Account
    <2>3. pc'[accounts[v].maker] \in {pc[accounts[v].maker], "dropped"}
        BY <1>0, <2>2
    <2>4. QED BY <1>0, <2>1, <2>2, <2>3 DEF Made
<1>3. ASSUME NEW j \in Invites PROVE Backed(j)'
    <2>1. Backed(j)
        BY DEF RedemptionInv
    <2>2. \A s \in Requests : pc[s] \in {"done", "dropped"} => pc'[s] \in {"done", "dropped"}
        BY <1>0 DEF Live
    <2>3. QED BY <1>0, <2>1, <2>2 DEF Backed
<1>4. QED BY <1>1, <1>2, <1>3 DEF RedemptionInv

\* The invariant is inductive.
LEMMA RedemptionInvStep == RedemptionInv /\ [RedemptionNext]_allVars => RedemptionInv'
<1> SUFFICES ASSUME RedemptionInv, [RedemptionNext]_allVars PROVE RedemptionInv'
    OBVIOUS
<1>1. RedemptionTypeOK /\ TypeOK /\ RowsCoherent
    BY DEF RedemptionInv, RedemptionTypeOK
<1>2. \A r \in Requests : pc[r] = "member" => next[r] \in 1..Len(list[r])
    BY DEF RedemptionInv, Progress
<1>3. RedemptionTypeOK'
    BY <1>1, <1>2, RedemptionTypeStep
<1>4. RowsCoherent'
    BY <1>1, StoreMoves, RowsStep
<1>5. CASE Surroundings
    BY <1>3, <1>4, <1>5, SurroundingsStep
<1>6. CASE Crash
    BY <1>3, <1>4, <1>6, CrashStep
<1>7. ASSUME NEW r \in Requests, Submit(r) \/ SubmitMalformed(r) \/ Step(r) \/ Drop(r)
      PROVE  RedemptionInv'
    BY <1>3, <1>4, <1>7, QuietStep, DropStep, CreateStep, SetPasswordStep, ListGroupsStep,
       JoinGroupStep, ConsumeStep, UndoStep DEF Step
<1>8. CASE UNCHANGED allVars
    <2>1. UNCHANGED <<invites, minted, accounts, pc, form, list, next, stamp, reply>>
        BY <1>8 DEF allVars, vars, requestVars
    <2>2. ASSUME NEW r \in Requests PROVE Owns(r)' /\ Progress(r)' /\ Remembers(r)' /\ Won(r)'
        <3>1. Owns(r) /\ Progress(r) /\ Remembers(r) /\ Won(r)
            BY DEF RedemptionInv
        <3>2. Owns(r)' /\ Remembers(r)'
            BY <2>1, <3>1 DEF Owns, Remembers
        <3>3. Progress(r)'
            BY <2>1, <3>1 DEF Progress
        <3>4. Won(r)'
            BY <2>1, <3>1 DEF Won
        <3>5. QED BY <3>2, <3>3, <3>4
    <2>3. \A u \in Users : Made(u)'
        BY <2>1 DEF RedemptionInv, Made
    <2>4. \A i \in Invites : Backed(i)'
        BY <2>1 DEF RedemptionInv, Backed
    <2>5. QED BY <1>3, <1>4, <2>2, <2>3, <2>4 DEF RedemptionInv
<1>9. QED BY <1>5, <1>6, <1>7, <1>8 DEF RedemptionNext

\* It holds at the start: nobody has submitted, and no account has a maker.
LEMMA RedemptionInvInit == RedemptionInit => RedemptionInv
<1> SUFFICES ASSUME RedemptionInit PROVE RedemptionInv
    OBVIOUS
<1>1. TypeOK /\ RowsCoherent
    BY DEF RedemptionInit, Init, TypeOK, RowsCoherent
<1>2. ASSUME NEW u \in Users
      PROVE  /\ ResidentAccount(u) \in Account \cup {NULL}
             /\ ResidentAccount(u) # NULL => ResidentAccount(u).maker = NULL
    <2>1. CASE \E a \in Residents : a.name = u
        <3>1. (CHOOSE a \in Residents : a.name = u) \in Residents
            BY <2>1
        <3>2. (CHOOSE a \in Residents : a.name = u).mail \in Mails
            BY <3>1, RedemptionAssumption
        <3>3. QED BY <2>1, <3>2 DEF ResidentAccount, Account
    <2>2. CASE ~\E a \in Residents : a.name = u
        BY <2>2 DEF ResidentAccount
    <2>3. QED BY <2>1, <2>2
<1>3. accounts \in [Users -> Account \cup {NULL}]
    BY <1>2 DEF RedemptionInit
<1>4. RequestsOK
    <2>1. "idle" \notin Live \cup {"undo", "done"}
        BY DEF Live
    <2>2. QED BY <2>1 DEF RedemptionInit, RequestsOK, Reply
<1>5. \A r \in Requests : Owns(r) /\ Progress(r) /\ Remembers(r) /\ Won(r)
    BY DEF RedemptionInit, Owns, Progress, Remembers, Won, Making, Informed
<1>6. \A u \in Users : Made(u)
    BY <1>2 DEF RedemptionInit, Made
<1>7. \A i \in Invites : Backed(i)
    BY DEF RedemptionInit, Init, Backed
<1>8. QED BY <1>1, <1>3, <1>4, <1>5, <1>6, <1>7, TypeParts DEF RedemptionInv

\* The inductive invariant of the redemption beside the repository (submit_invite
\* and provision_user beside the statements of invite_storage.rs) always holds.
THEOREM RedemptionInvariant == RedemptionSpec => []RedemptionInv
<1>1. QED BY RedemptionInvInit, RedemptionInvStep, PTL DEF RedemptionSpec

\* Type correctness of the requests, the directory and the repository together.
THEOREM RedemptionTypeCorrect == RedemptionSpec => []RedemptionTypeOK
<1>1. RedemptionInv => RedemptionTypeOK
    BY DEF RedemptionInv
<1>2. QED BY <1>1, RedemptionInvariant, PTL

\* A used invitation has a standing account to show for it, whatever fails.
THEOREM AccountsStand == RedemptionSpec => []RedeemedAccountStands
<1>1. RedemptionInv => RedeemedAccountStands
    BY DEF RedemptionInv, Backed, RedeemedAccountStands
<1>2. QED BY <1>1, RedemptionInvariant, PTL

\* At most one submission of an invitation is told that it was redeemed.
THEOREM RedeemedOnce == RedemptionSpec => []OneRedemptionPerInvite
<1>1. RedemptionInv => OneRedemptionPerInvite
    BY DEF RedemptionInv, Won, OneRedemptionPerInvite
<1>2. QED BY <1>1, RedemptionInvariant, PTL

---------------------------------------------------------------------------
(* The repository under the redemption.                                    *)

\* However requests interleave with each other, with the administrator and with
\* the retention task, and wherever they fail, the two tables tell the same story.
THEOREM RedemptionKeepsHistory == RedemptionSpec => []HistoryMatches
<1>1. RedemptionInit => HistoryMatches
    BY DEF RedemptionInit, Init, HistoryMatches
<1>2. RedemptionInv /\ HistoryMatches /\ [RedemptionNext]_allVars => HistoryMatches'
    BY StoreMoves, HistoryStep DEF RedemptionInv, RedemptionTypeOK
<1>3. QED BY <1>1, <1>2, RedemptionInvariant, PTL DEF RedemptionSpec

\* The redemption beside the repository implements the life cycle that the
\* repository promises: whatever fails half way, an invitation is open, or
\* redeemed by one user for ever, or withdrawn, or forgotten unredeemed.
THEOREM RedemptionImplementsLifecycle == RedemptionSpec => ImplementsLifecycle
<1>1. RedemptionInit => Lifecycle!Init
    BY LifecycleInit DEF RedemptionInit
<1>2. RedemptionInv /\ RedemptionInv' /\ [RedemptionNext]_allVars =>
        [Lifecycle!Next]_(Lifecycle!vars)
    BY StoreMoves, LifecycleStep DEF RedemptionInv, RedemptionTypeOK
<1>3. QED BY <1>1, <1>2, RedemptionInvariant, PTL
          DEF RedemptionSpec, ImplementsLifecycle, Lifecycle!Spec

---------------------------------------------------------------------------
(* Accounts of others.                                                     *)

\* Whose account a step may change.
LEMMA ForeignStep ==
    ASSUME RedemptionInv, RedemptionNext,
           NEW u \in Users, accounts[u] # NULL, accounts'[u] # accounts[u]
    PROVE  /\ accounts[u].maker \in Requests
           /\ form[accounts[u].maker].name = u
           /\ pc[accounts[u].maker] \in Live
           /\ \A i \in Invites : invites[i] # NULL => invites[i].consumedBy # u
<1>1. PICK r \in Requests : CreateUser(r) \/ SetPassword(r) \/ JoinGroup(r) \/ Undo(r)
    BY DEF RedemptionNext, Step, Surroundings, Submit, SubmitMalformed, Drop, Crash,
           CheckUsername, CheckEmail, FindInvite, Login, ListGroups, ConsumeCode
<1>2. pc[r] \in {"create"} \cup Making /\ pc[r] \in Live
    BY <1>1 DEF CreateUser, SetPassword, JoinGroup, Undo, Making, Live
<1>3. u = form[r].name
    BY <1>1 DEF CreateUser, SetPassword, JoinGroup, Undo, DirCreate, DirSetPassword, DirJoin,
                DirDelete, RedemptionInv, RedemptionTypeOK
<1>4. pc[r] \in Making
    BY <1>1, <1>3 DEF CreateUser, SetPassword, JoinGroup, Undo, NameTaken, Making
<1>5. accounts[u].maker = r
    BY <1>3, <1>4 DEF RedemptionInv, Owns
<1>6. ASSUME NEW i \in Invites, invites[i] # NULL, invites[i].consumedBy = u PROVE FALSE
    <2>1. invites[i].consumedAt # NULL
        BY <1>6, Apart DEF RedemptionInv, RowsCoherent
    <2>2. pc[accounts[u].maker] \in {"done", "dropped"}
        BY <1>6, <2>1 DEF RedemptionInv, Backed
    <2>3. QED BY <1>4, <1>5, <2>2 DEF Making
<1>7. QED BY <1>2, <1>3, <1>5, <1>6

\* Nobody's account is changed or deleted by a request that did not create it.
THEOREM ForeignAccountsAreSafe == RedemptionSpec => ForeignAccountsUntouched
<1>1. RedemptionInv /\ [RedemptionNext]_allVars =>
        [\A u \in Users : accounts[u] # NULL /\ accounts'[u] # accounts[u] =>
            /\ accounts[u].maker \in Requests
            /\ form[accounts[u].maker].name = u
            /\ pc[accounts[u].maker] \in Live
            /\ \A i \in Invites : invites[i] # NULL => invites[i].consumedBy # u]_allVars
    BY ForeignStep
<1>2. QED BY <1>1, RedemptionInvariant, PTL DEF RedemptionSpec, ForeignAccountsUntouched

\* What a request does, it does to itself.
LEMMA LocalStep ==
    ASSUME RedemptionInv, NEW r \in Requests,
           Submit(r) \/ SubmitMalformed(r) \/ Step(r) \/ Drop(r)
    PROVE  Local(r)
<1> USE DEF RedemptionInv, RedemptionTypeOK, Local, Goto, Answer, Compensate
<1>1. CASE Submit(r) \/ SubmitMalformed(r) \/ Drop(r)
    BY <1>1 DEF Submit, SubmitMalformed, Drop
<1>2. CASE CheckUsername(r) \/ CheckEmail(r) \/ FindInvite(r) \/ Login(r)
    BY <1>2 DEF CheckUsername, CheckEmail, FindInvite, Login
<1>3. CASE CreateUser(r) \/ SetPassword(r)
    BY <1>3 DEF CreateUser, SetPassword
<1>4. ASSUME NEW k, Proceed(r, k), UNCHANGED <<form, list>> PROVE Local(r)
    BY <1>4 DEF Proceed
<1>5. CASE ListGroups(r)
    BY <1>4, <1>5 DEF ListGroups
<1>6. CASE JoinGroup(r)
    BY <1>4, <1>6 DEF JoinGroup
<1>7. CASE ConsumeCode(r) \/ Undo(r)
    BY <1>7 DEF ConsumeCode, Undo
<1>8. QED BY <1>1, <1>2, <1>3, <1>5, <1>6, <1>7 DEF Step

---------------------------------------------------------------------------
(* Why an account is there.                                                *)

\* The account of u, which r made, is explained: r is at work, or u used its
\* invitation, or it was left behind for a reason.
Explained(u, r) ==
    \/ pc[r] \in Live
    \/ /\ invites[form[r].code] # NULL
       /\ invites[form[r].code].consumedBy = u
    \/ LeftBehind(u, r)

\* A compensating delete remembers a failure that the handler was told of.
Undoing == \A r \in Requests : pc[r] = "undo" => reply[r] \in DirectoryErrors \cup {"not_used"}

LEMMA UndoingStep == RedemptionInv /\ Undoing /\ [RedemptionNext]_allVars => Undoing'
<1> SUFFICES ASSUME RedemptionInv, Undoing, [RedemptionNext]_allVars,
                    NEW r \in Requests, pc'[r] = "undo"
             PROVE  reply'[r] \in DirectoryErrors \cup {"not_used"}
    BY DEF Undoing
<1>1. CASE pc'[r] = pc[r] /\ reply'[r] = reply[r]
    BY <1>1 DEF Undoing
<1>2. CASE Surroundings \/ UNCHANGED allVars
    BY <1>1, <1>2 DEF Surroundings, requestVars, allVars
<1>3. CASE Crash
    BY <1>3 DEF Crash, Live
<1>4. ASSUME NEW s \in Requests \ {r}, Submit(s) \/ SubmitMalformed(s) \/ Step(s) \/ Drop(s)
      PROVE  reply'[r] \in DirectoryErrors \cup {"not_used"}
    BY <1>1, <1>4, LocalStep DEF Local
<1>5. ASSUME Submit(r) \/ SubmitMalformed(r) \/ Drop(r)
      PROVE  reply'[r] \in DirectoryErrors \cup {"not_used"}
    BY <1>5 DEF Submit, SubmitMalformed, Drop, Goto, Answer, RedemptionInv, RedemptionTypeOK
<1>6. ASSUME Step(r) PROVE reply'[r] \in DirectoryErrors \cup {"not_used"}
    <2>1. CASE \E why \in DirectoryErrors \cup {"not_used"} : Compensate(r, why)
        BY <2>1 DEF Compensate, RedemptionInv, RedemptionTypeOK
    <2>2. /\ \A label \in (Live \ {"undo"}) \cup {"done"} : ~Goto(r, label)
          /\ \A why : ~Answer(r, why)
        BY DEF Goto, Answer, RedemptionInv, RedemptionTypeOK
    <2>3. CASE CheckUsername(r) \/ CheckEmail(r) \/ FindInvite(r) \/ Login(r) \/ CreateUser(r)
                    \/ Undo(r)
        <3>1. /\ ~Goto(r, "email") /\ ~Goto(r, "find") /\ ~Goto(r, "login") /\ ~Goto(r, "create")
              /\ ~Goto(r, "password") /\ ~Goto(r, "done")
            BY <2>2 DEF Live
        <3>2. QED BY <2>2, <2>3, <3>1 DEF CheckUsername, CheckEmail, FindInvite, Login, CreateUser,
                                          Undo
    <2>4. CASE SetPassword(r) \/ ConsumeCode(r)
        BY <2>1, <2>2, <2>4 DEF SetPassword, ConsumeCode, DirectoryErrors, Live
    <2>5. CASE ListGroups(r) \/ JoinGroup(r)
        BY <2>1, <2>2, <2>5 DEF ListGroups, JoinGroup, Proceed, Live
    <2>6. QED BY <1>6, <2>3, <2>4, <2>5 DEF Step
<1>7. QED BY <1>2, <1>3, <1>4, <1>5, <1>6 DEF RedemptionNext

\* An account that stays, as its maker's form, groups and answer do, is still
\* explained, if its maker is still at work or gone for good.
LEMMA StillExplained ==
    ASSUME RedemptionInv, AccountsExplained, [RedemptionNext]_allVars,
           NEW u \in Users, accounts[u] # NULL, accounts[u].maker # NULL,
           accounts'[u] = accounts[u],
           form'[accounts[u].maker] = form[accounts[u].maker],
           list'[accounts[u].maker] = list[accounts[u].maker],
           reply'[accounts[u].maker] = reply[accounts[u].maker],
           pc'[accounts[u].maker] = pc[accounts[u].maker]
    PROVE  Explained(u, accounts[u].maker)'
<1> DEFINE r == accounts[u].maker
           i == form[r].code
<1>1. Explained(u, r) /\ Made(u) /\ r \in Requests
    BY DEF AccountsExplained, Explained, RedemptionInv, RedemptionTypeOK, Account
<1>0. accounts'[u].maker = r /\ form'[r] = form[r]
    OBVIOUS
<1>2. CASE pc[r] \in Live
    BY <1>0, <1>2 DEF Explained
<1>3. CASE invites[i] # NULL /\ invites[i].consumedBy = u
    <2>1. form[r] \in Forms
        BY <1>1 DEF Made, RedemptionInv, RedemptionTypeOK
    <2>2. i \in Invites
        BY <2>1, FormFields
    <2>3. invites[i].consumedAt # NULL
        BY <1>3, <2>2, Apart DEF RedemptionInv, RowsCoherent
    <2>4. Course(i)
        BY <2>2, StoreMoves, CourseStep DEF RedemptionInv, RedemptionTypeOK
    <2>5. invites'[i] = invites[i]
        BY <1>3, <2>3, <2>4 DEF Course
    <2>6. QED BY <1>0, <1>3, <2>5 DEF Explained
<1>4. CASE LeftBehind(u, r)
    BY <1>4 DEF Explained, LeftBehind
<1>5. QED BY <1>1, <1>2, <1>3, <1>4 DEF Explained

\* A request that leaves the accounts of others alone, and whose own is gone or
\* explained, leaves all explained.
LEMMA ExplainedByOne ==
    ASSUME RedemptionInv, AccountsExplained, [RedemptionNext]_allVars, NEW r \in Requests,
           Local(r),
           \A u \in Users : accounts'[u] # NULL =>
                accounts'[u].maker = r \/ accounts'[u] = accounts[u],
           \A u \in Users : accounts'[u] # NULL /\ accounts'[u].maker = r => Explained(u, r)'
    PROVE  AccountsExplained'
<1> SUFFICES ASSUME NEW u \in Users, accounts'[u] # NULL, accounts'[u].maker # NULL
             PROVE  Explained(u, accounts[u].maker)'
    BY DEF AccountsExplained, Explained
<1>1. CASE accounts'[u].maker = r
    <2>1. Explained(u, r)'
        BY <1>1
    <2>2. QED BY <1>1, <2>1 DEF Explained, LeftBehind
<1>2. CASE accounts'[u].maker # r
    <2>1. accounts'[u] = accounts[u]
        BY <1>2
    <2>2. accounts[u].maker \in Requests \ {r}
        BY <1>2, <2>1 DEF RedemptionInv, RedemptionTypeOK, Account
    <2>3. QED BY <2>1, <2>2, StillExplained DEF Local
<1>3. QED BY <1>1, <1>2

\* Before createUser no account is a request's own.
LEMMA NothingMade ==
    ASSUME RedemptionInv, NEW r \in Requests, pc[r] \notin Making \cup {"done", "dropped"}
    PROVE  \A u \in Users : accounts[u] # NULL => accounts[u].maker # r
<1> SUFFICES ASSUME NEW u \in Users, accounts[u] # NULL, accounts[u].maker = r PROVE FALSE
    OBVIOUS
<1>1. Made(u) /\ accounts[u].maker # NULL
    BY Apart DEF RedemptionInv
<1>2. QED BY <1>1 DEF Made

\* After it, the account of its name is the only one.
LEMMA OneMade ==
    ASSUME RedemptionInv, NEW r \in Requests, NEW u \in Users,
           accounts[u] # NULL, accounts[u].maker = r
    PROVE  form[r].name = u
BY Apart DEF RedemptionInv, Made

\* Whatever becomes of a request that is cut off after createUser, its account is
\* explained by that.
LEMMA ExplainedStep ==
    ASSUME RedemptionInv, RedemptionInv', Undoing, AccountsExplained, [RedemptionNext]_allVars
    PROVE  AccountsExplained'
<1>1. CASE Surroundings \/ UNCHANGED allVars
    <2>1. UNCHANGED <<accounts, pc, form, list, reply>>
        BY <1>1 DEF Surroundings, requestVars, allVars
    <2>2. ASSUME NEW u \in Users, accounts'[u] # NULL, accounts'[u].maker # NULL
          PROVE  Explained(u, accounts[u].maker)'
        BY <2>1, <2>2, StillExplained
    <2>3. QED BY <2>2 DEF AccountsExplained, Explained
<1>2. ASSUME NEW r \in Requests,
             \/ Submit(r) \/ SubmitMalformed(r)
             \/ CheckUsername(r) \/ CheckEmail(r) \/ FindInvite(r) \/ Login(r)
      PROVE  AccountsExplained'
    <2>1. Local(r)
        BY <1>2, LocalStep DEF Step
    <2>2. UNCHANGED accounts /\ pc[r] \notin Making \cup {"done", "dropped"}
        BY <1>2 DEF Submit, SubmitMalformed, CheckUsername, CheckEmail, FindInvite, Login, Making
    <2>3. QED BY <2>1, <2>2, NothingMade, ExplainedByOne
<1>3. ASSUME NEW r \in Requests, CreateUser(r) PROVE AccountsExplained'
    <2>1. Local(r) /\ pc[r] = "create" /\ form[r].name \in Users /\ form[r].mail \in Mails
        BY <1>3, AtWork, LocalStep DEF CreateUser, Step, Live
    <2>2. \A u \in Users : accounts[u] # NULL => accounts[u].maker # r
        BY <2>1, NothingMade DEF Making
    <2>3. CASE UNCHANGED accounts
        BY <2>1, <2>2, <2>3, ExplainedByOne
    <2>4. CASE DirCreate(form[r].name, form[r].mail, r)
        <3>1. /\ accounts'[form[r].name] = New(form[r].mail, r)
              /\ \A v \in Users \ {form[r].name} : accounts'[v] = accounts[v]
            BY <2>1, <2>4, Created DEF RedemptionInv
        <3>2. /\ accounts'[form[r].name].maker = r
              /\ accounts'[form[r].name].password = NULL
              /\ accounts'[form[r].name].groups = {}
            BY <3>1 DEF New
        <3>3. CASE Goto(r, "password")
            <4>1. pc'[r] \in Live
                BY <3>3 DEF Goto, Live, RedemptionInv, RedemptionTypeOK
            <4>2. QED BY <2>1, <2>2, <3>1, <3>2, <4>1, ExplainedByOne DEF Explained
        <3>4. CASE "lost" \in Faults /\ \E why \in DirectoryErrors : Answer(r, why)
            <4>1. pc'[r] = "done" /\ reply'[r] \in DirectoryErrors /\ UNCHANGED form
                BY <1>3, <3>4 DEF Answer, CreateUser, RedemptionInv, RedemptionTypeOK
            <4>2. LeftBehind(form[r].name, r)'
                BY <3>2, <3>4, <4>1 DEF LeftBehind
            <4>3. \A u \in Users : accounts'[u] # NULL /\ accounts'[u].maker = r => u = form[r].name
                BY <2>2, <3>1
            <4>4. \A u \in Users : accounts'[u] # NULL /\ accounts'[u].maker = r => Explained(u, r)'
                BY <4>1, <4>2, <4>3 DEF Explained
            <4>5. QED BY <2>1, <3>1, <3>2, <4>4, ExplainedByOne
        <3>5. QED BY <1>3, <2>4, <3>3, <3>4, <2>3 DEF CreateUser
    <2>5. QED BY <1>3, <2>3, <2>4 DEF CreateUser
<1>4. ASSUME NEW r \in Requests, SetPassword(r) \/ ListGroups(r) \/ JoinGroup(r)
      PROVE  AccountsExplained'
    <2>1. pc[r] \in Making \ {"undo"} /\ pc[r] \in Live
        BY <1>4 DEF SetPassword, ListGroups, JoinGroup, Making, Live
    <2>2. Local(r) /\ UNCHANGED form
        BY <1>4, LocalStep DEF Step, SetPassword, ListGroups, JoinGroup
    <2>3. \A u \in Users \ {form[r].name} : accounts'[u] = accounts[u]
        BY <1>4 DEF SetPassword, ListGroups, JoinGroup, DirSetPassword, DirJoin,
                    RedemptionInv, RedemptionTypeOK
    <2>4. CASE JoinGroup(r) /\ pc'[r] \notin Live
        <3>1. /\ pc[r] = "member" /\ list[r][next[r]] \notin KnownGroups
              /\ Answer(r, "not_created") /\ UNCHANGED <<accounts, list>>
            BY <2>4 DEF JoinGroup, Proceed, Goto, Compensate, Live, RedemptionInv, RedemptionTypeOK
        <3>2. next[r] \in 1..Len(list[r]) /\ accounts[form[r].name].password = r
            BY <3>1 DEF RedemptionInv, Progress
        <3>3. list[r] \in Seq(Groups)
            BY <2>1, AtWork
        <3>4. list[r][next[r]] \in GroupsOf(list[r])
            BY <3>2, <3>3 DEF GroupsOf
        <3>5. pc'[r] = "done" /\ reply'[r] = "not_created"
            BY <3>1 DEF Answer, RedemptionInv, RedemptionTypeOK
        <3>6. LeftBehind(form[r].name, r)'
            BY <2>2, <3>1, <3>2, <3>4, <3>5 DEF LeftBehind
        <3>7. \A u \in Users : accounts'[u] # NULL /\ accounts'[u].maker = r => u = form[r].name
            BY <3>1, OneMade
        <3>8. \A u \in Users : accounts'[u] # NULL /\ accounts'[u].maker = r => Explained(u, r)'
            BY <2>2, <3>6, <3>7 DEF Explained
        <3>9. QED BY <2>2, <3>1, <3>8, ExplainedByOne
    <2>5. CASE ~(JoinGroup(r) /\ pc'[r] \notin Live)
        <3>1. pc'[r] \in Live
            BY <1>4, <2>5 DEF SetPassword, ListGroups, Proceed, Goto, Compensate, Live,
                              RedemptionInv, RedemptionTypeOK
        <3>2. pc'[r] \in Making
            BY <1>4, <3>1 DEF SetPassword, ListGroups, JoinGroup, Proceed, Goto, Answer, Compensate,
                              Making, Live, RedemptionInv, RedemptionTypeOK
        <3>3. accounts'[form[r].name].maker = r
            BY <2>2, <3>2 DEF RedemptionInv, Owns
        <3>4. QED BY <2>2, <2>3, <3>1, <3>3, ExplainedByOne DEF Explained
    <2>6. QED BY <2>4, <2>5
<1>5. ASSUME NEW r \in Requests, ConsumeCode(r) PROVE AccountsExplained'
    <2>1. Local(r) /\ UNCHANGED <<accounts, form>> /\ pc[r] \in Live
        BY <1>5, LocalStep DEF ConsumeCode, Step, Live
    <2>2. CASE Compensate(r, "not_used")
        <3>1. pc'[r] \in Live
            BY <2>2 DEF Compensate, Live, RedemptionInv, RedemptionTypeOK
        <3>2. QED BY <2>1, <3>1, ExplainedByOne DEF Explained
    <2>3. CASE Answer(r, "created")
        <3>1. reply'[r] = "created"
            BY <2>3 DEF Answer, RedemptionInv, RedemptionTypeOK
        <3>2. invites'[form[r].code] # NULL /\ invites'[form[r].code].consumedBy = form[r].name
            BY <2>1, <3>1 DEF RedemptionInv, Won
        <3>3. QED BY <2>1, <3>2, OneMade, ExplainedByOne DEF Explained
    <2>4. QED BY <1>5, <2>2, <2>3 DEF ConsumeCode
<1>6. ASSUME NEW r \in Requests, Undo(r) PROVE AccountsExplained'
    <2>1. Local(r) /\ pc[r] \in Live /\ pc[r] = "undo" /\ UNCHANGED form
        BY <1>6, LocalStep DEF Undo, Step, Live
    <2>2. form[r].name \in Users
        BY <2>1, AtWork
    <2>3. CASE DirDelete(form[r].name)
        <3>1. /\ accounts'[form[r].name] = NULL
              /\ \A v \in Users \ {form[r].name} : accounts'[v] = accounts[v]
            BY <2>2, <2>3, Deleted DEF RedemptionInv
        <3>2. \A u \in Users : accounts'[u] # NULL => accounts'[u].maker # r
            BY <3>1, OneMade
        <3>3. QED BY <2>1, <3>1, <3>2, ExplainedByOne
    <2>4. CASE "undo" \in Faults /\ UNCHANGED accounts
        <3>1. pc'[r] = "done" /\ reply'[r] = reply[r]
            BY <1>6 DEF Undo, Goto, RedemptionInv, RedemptionTypeOK
        <3>2. reply[r] \in DirectoryErrors \cup {"not_used"}
            BY <2>1 DEF Undoing
        <3>3. \A u : LeftBehind(u, r)'
            BY <2>4, <3>1, <3>2 DEF LeftBehind
        <3>4. QED BY <2>1, <2>4, <3>3, ExplainedByOne DEF Explained
    <2>5. QED BY <1>6, <2>3, <2>4 DEF Undo
<1>7. ASSUME NEW r \in Requests, Drop(r) PROVE AccountsExplained'
    <2>1. Local(r) /\ UNCHANGED accounts
        BY <1>7, LocalStep DEF Drop
    <2>2. \A u : LeftBehind(u, r)'
        BY <1>7 DEF Drop, Goto, LeftBehind, RedemptionInv, RedemptionTypeOK
    <2>3. QED BY <2>1, <2>2, ExplainedByOne DEF Explained
<1>8. CASE Crash
    <2> SUFFICES ASSUME NEW u \in Users, accounts'[u] # NULL, accounts'[u].maker # NULL
                 PROVE  Explained(u, accounts[u].maker)'
        BY DEF AccountsExplained, Explained
    <2> DEFINE r == accounts[u].maker
    <2>1. UNCHANGED <<accounts, form, list, reply, invites>> /\ "drop" \in Faults
        BY <1>8 DEF Crash
    <2>2. r \in Requests
        BY <2>1 DEF RedemptionInv, RedemptionTypeOK, Account
    <2>3. pc'[r] = IF pc[r] \in Live THEN "dropped" ELSE pc[r]
        BY <1>8, <2>2 DEF Crash
    <2>4. CASE pc[r] \in Live
        BY <2>1, <2>3, <2>4 DEF Explained, LeftBehind
    <2>5. CASE pc[r] \notin Live
        BY <2>1, <2>3, <2>5, StillExplained
    <2>6. QED BY <2>4, <2>5
<1>9. QED BY <1>1, <1>2, <1>3, <1>4, <1>5, <1>6, <1>7, <1>8 DEF RedemptionNext, Step

\* Whatever fails in submit_invite and provision_user, every account that they
\* leave behind is there for one of the four reasons, for any set of faults.
THEOREM NoAccountUnexplained == RedemptionSpec => []AccountsExplained
<1>1. RedemptionInit => Undoing /\ AccountsExplained
    <2>1. RedemptionInit => Undoing
        BY DEF RedemptionInit, Undoing
    <2>2. RedemptionInit => \A u \in Users : accounts[u] # NULL => accounts[u].maker = NULL
        BY DEF RedemptionInit, ResidentAccount
    <2>3. QED BY <2>1, <2>2 DEF AccountsExplained
<1>2. RedemptionInv /\ RedemptionInv' /\ Undoing /\ AccountsExplained /\ [RedemptionNext]_allVars
        => Undoing' /\ AccountsExplained'
    BY UndoingStep, ExplainedStep
<1>3. QED BY <1>1, <1>2, RedemptionInvariant, PTL DEF RedemptionSpec

\* No answer is lost, no compensating delete fails, nobody is cut off, and the
\* administrator names groups that the directory has.
Undisturbed ==
    /\ Faults \cap {"lost", "undo", "drop"} = {}
    /\ \A l \in GroupLists : GroupsOf(l) \subseteq KnownGroups

\* submit_invite leaves no account behind that no invitation paid for, as long
\* as it hears of every failure and provision_user and delete_user_account can
\* delete what they have to.
THEOREM NoAccountUnpaid == ASSUME Undisturbed PROVE RedemptionSpec => []AccountsPaidFor
<1>1. RedemptionInv /\ AccountsExplained => AccountsPaidFor
    <2> SUFFICES ASSUME RedemptionInv, AccountsExplained,
                        NEW u \in Users, accounts[u] # NULL, accounts[u].maker # NULL,
                        LeftBehind(u, accounts[u].maker)
                 PROVE  FALSE
        BY DEF AccountsExplained, AccountsPaidFor
    <2>1. accounts[u].maker \in Requests
        BY DEF RedemptionInv, RedemptionTypeOK, Account
    <2>2. list[accounts[u].maker] \in GroupLists \cup {<< >>}
        BY <2>1 DEF RedemptionInv, RedemptionTypeOK
    <2>3. GroupsOf(<< >>) = {}
        BY DEF GroupsOf
    <2>4. QED BY <2>2, <2>3 DEF LeftBehind, Undisturbed
<1>2. QED BY <1>1, RedemptionInvariant, NoAccountUnexplained, PTL

---------------------------------------------------------------------------
(* Addresses, as long as every look-up is answered.                        *)

\* The address of u is not r's to get.
KeptFrom(r, u) ==
    /\ Stands(u)
    /\ pc[r] \in {"find", "login", "create"} => form[r].mail # accounts[u].mail
    /\ ~SharesAddress(r, u)

\* An account that stands is not changed, and goes on standing.
LEMMA StandsOn ==
    ASSUME RedemptionInv, [RedemptionNext]_allVars, NEW u \in Users, Stands(u)
    PROVE  accounts'[u] = accounts[u] /\ Stands(u)'
<1>1. accounts'[u] = accounts[u]
    <2>1. SUFFICES ASSUME accounts'[u] # accounts[u] PROVE FALSE
        OBVIOUS
    <2>2. RedemptionNext
        BY <2>1 DEF allVars
    <2>3. QED BY <2>1, <2>2, ForeignStep, Apart DEF Stands
<1>2. CASE accounts[u].maker = NULL
    BY <1>1, <1>2 DEF Stands
<1>3. ASSUME NEW i \in Invites, invites[i] # NULL, invites[i].consumedBy = u PROVE Stands(u)'
    <2>1. invites[i].consumedAt # NULL
        BY <1>3, Apart DEF RedemptionInv, RowsCoherent
    <2>2. Course(i)
        BY StoreMoves, CourseStep DEF RedemptionInv, RedemptionTypeOK
    <2>3. invites'[i] = invites[i]
        BY <1>3, <2>1, <2>2 DEF Course
    <2>4. QED BY <1>1, <1>3, <2>3 DEF Stands
<1>4. QED BY <1>1, <1>2, <1>3 DEF Stands

\* An account of r has its address from the step that created it.
LEMMA AddressOfMade ==
    ASSUME RedemptionInv, [RedemptionNext]_allVars, NEW r \in Requests, NEW v \in Users,
           accounts'[v] # NULL, accounts'[v].maker = r
    PROVE  \/ accounts[v] # NULL /\ accounts[v].maker = r /\ accounts'[v].mail = accounts[v].mail
           \/ pc[r] = "create" /\ accounts'[v].mail = form[r].mail
<1>1. SUFFICES ASSUME accounts'[v] # accounts[v]
               PROVE  \/ /\ accounts[v] # NULL /\ accounts[v].maker = r
                         /\ accounts'[v].mail = accounts[v].mail
                      \/ pc[r] = "create" /\ accounts'[v].mail = form[r].mail
    OBVIOUS
<1>2. PICK s \in Requests : CreateUser(s) \/ SetPassword(s) \/ JoinGroup(s) \/ Undo(s)
    BY <1>1 DEF RedemptionNext, Step, Surroundings, Submit, SubmitMalformed, Drop, Crash, allVars,
           CheckUsername, CheckEmail, FindInvite, Login, ListGroups, ConsumeCode
<1>3. pc[s] \in Live
    BY <1>2 DEF CreateUser, SetPassword, JoinGroup, Undo, Live
<1>4. form[s].name \in Users /\ form[s].mail \in Mails /\ list[s] \in Seq(Groups)
    BY <1>3, AtWork
<1>5. v = form[s].name
    BY <1>1, <1>2 DEF CreateUser, SetPassword, JoinGroup, Undo, DirCreate, DirSetPassword, DirJoin,
                DirDelete, RedemptionInv, RedemptionTypeOK
<1>6. CASE CreateUser(s)
    <2>1. DirCreate(v, form[s].mail, s)
        BY <1>1, <1>5, <1>6 DEF CreateUser
    <2>2. accounts'[v] = New(form[s].mail, s)
        BY <1>4, <2>1, Created DEF RedemptionInv
    <2>3. accounts'[v].maker = s /\ accounts'[v].mail = form[s].mail
        BY <2>2 DEF New
    <2>4. QED BY <1>6, <2>3 DEF CreateUser
<1>7. CASE SetPassword(s)
    <2>1. accounts[v] # NULL /\ DirSetPassword(v, s)
        BY <1>1, <1>5, <1>7 DEF SetPassword
    <2>2. accounts'[v] = WithPassword(accounts[v], s) /\ accounts[v] \in Account
        BY <2>1, PasswordSet DEF RedemptionInv
    <2>3. accounts'[v].maker = accounts[v].maker /\ accounts'[v].mail = accounts[v].mail
        BY <2>2 DEF WithPassword, Account
    <2>4. QED BY <2>1, <2>3
<1>8. CASE JoinGroup(s)
    <2>1. accounts[v] # NULL /\ DirJoin(v, list[s][next[s]])
        BY <1>1, <1>5, <1>8 DEF JoinGroup
    <2>2. next[s] \in 1..Len(list[s])
        BY <1>8 DEF JoinGroup, RedemptionInv, Progress
    <2>3. list[s][next[s]] \in Groups
        BY <1>4, <2>2
    <2>4. accounts'[v] = WithGroup(accounts[v], list[s][next[s]]) /\ accounts[v] \in Account
        BY <2>1, <2>3, Joined DEF RedemptionInv
    <2>5. accounts'[v].maker = accounts[v].maker /\ accounts'[v].mail = accounts[v].mail
        BY <2>4 DEF WithGroup, Account
    <2>6. QED BY <2>1, <2>5
<1>9. CASE Undo(s)
    <2>1. accounts'[v] = NULL
        BY <1>1, <1>5, <1>9 DEF Undo, DirDelete, RedemptionInv, RedemptionTypeOK
    <2>2. QED BY <2>1
<1>10. QED BY <1>2, <1>6, <1>7, <1>8, <1>9

\* r gets past the look-up of the address only with one that u does not have.
LEMMA KeptFromStep ==
    ASSUME "lookup" \notin Faults, RedemptionInv, [RedemptionNext]_allVars,
           NEW r \in Requests, NEW u \in Users, KeptFrom(r, u)
    PROVE  KeptFrom(r, u)'
<1>1. accounts'[u] = accounts[u] /\ Stands(u)' /\ accounts[u] # NULL
    BY StandsOn DEF KeptFrom, Stands
<1>2. ~SharesAddress(r, u)'
    <2>1. SUFFICES ASSUME NEW v \in Users \ {u}, accounts'[v] # NULL, accounts'[v].maker = r,
                          accounts'[v].mail = accounts[u].mail
                   PROVE  FALSE
        BY <1>1 DEF SharesAddress
    <2>2. QED BY <2>1, AddressOfMade DEF KeptFrom, SharesAddress
<1>3. pc'[r] \in {"find", "login", "create"} => form'[r].mail # accounts[u].mail
    <2>1. SUFFICES ASSUME pc'[r] \in {"find", "login", "create"}
                   PROVE  form'[r].mail # accounts[u].mail
        OBVIOUS
    <2>2. CASE pc'[r] = pc[r] /\ form'[r] = form[r]
        BY <2>1, <2>2 DEF KeptFrom
    <2>3. CASE CheckEmail(r)
        <3>1. ~MailTaken(form[r].mail) /\ UNCHANGED form
            BY <2>1, <2>3 DEF CheckEmail, Answer, RedemptionInv, RedemptionTypeOK
        <3>2. QED BY <1>1, <3>1 DEF MailTaken
    <2>4. CASE FindInvite(r) \/ Login(r)
        BY <2>4 DEF FindInvite, Login, KeptFrom
    <2>5. CASE \/ Submit(r) \/ SubmitMalformed(r) \/ CheckUsername(r) \/ CreateUser(r)
               \/ SetPassword(r) \/ ListGroups(r) \/ JoinGroup(r) \/ ConsumeCode(r) \/ Undo(r)
               \/ Drop(r)
        <3>1. pc'[r] \notin {"find", "login", "create"}
            BY <2>5 DEF Submit, SubmitMalformed, CheckUsername, CreateUser, SetPassword, ListGroups,
                JoinGroup, ConsumeCode, Undo, Drop, Goto, Answer, Compensate, Proceed,
                RedemptionInv, RedemptionTypeOK
        <3>2. QED BY <2>1, <3>1
    <2>6. CASE Surroundings \/ UNCHANGED allVars
        BY <2>2, <2>6 DEF Surroundings, requestVars, allVars
    <2>7. CASE Crash
        <3>1. pc'[r] \in {"dropped", pc[r]} /\ UNCHANGED form
            BY <2>7 DEF Crash
        <3>2. QED BY <2>1, <2>2, <3>1
    <2>8. ASSUME NEW s \in Requests \ {r}, Submit(s) \/ SubmitMalformed(s) \/ Step(s) \/ Drop(s)
          PROVE  form'[r].mail # accounts[u].mail
        <3>1. pc'[r] = pc[r] /\ form'[r] = form[r]
            BY <2>8, LocalStep DEF Local
        <3>2. QED BY <2>2, <3>1
    <2>9. QED BY <2>3, <2>4, <2>5, <2>6, <2>7, <2>8 DEF RedemptionNext, Step
<1>4. QED BY <1>1, <1>2, <1>3 DEF KeptFrom

\* As long as every look-up is answered, email_exists keeps the address of an
\* account that stands from whoever submits later.
THEOREM AddressesStay == ASSUME "lookup" \notin Faults PROVE RedemptionSpec => AddressStaysOnes
<1> SUFFICES ASSUME NEW r \in Requests, NEW u \in Users
             PROVE  RedemptionSpec => [](pc[r] = "idle" /\ Stands(u)
                                            => [](accounts[u] # NULL /\ ~SharesAddress(r, u)))
    BY DEF AddressStaysOnes
<1>1. RedemptionInv /\ pc[r] = "idle" /\ Stands(u) => KeptFrom(r, u)
    <2>1. RedemptionInv /\ pc[r] = "idle" =>
            \A v \in Users : accounts[v] # NULL => accounts[v].maker # r
        BY NothingMade DEF Making
    <2>2. QED BY <2>1 DEF KeptFrom, SharesAddress
<1>2. RedemptionInv /\ KeptFrom(r, u) /\ [RedemptionNext]_allVars => KeptFrom(r, u)'
    BY KeptFromStep
<1>3. KeptFrom(r, u) => accounts[u] # NULL /\ ~SharesAddress(r, u)
    BY DEF KeptFrom, Stands
<1>4. QED BY <1>1, <1>2, <1>3, RedemptionInvariant, PTL DEF RedemptionSpec
===========================================================================
