----------------------------- MODULE Redemption -----------------------------
(***************************************************************************)
(* POST /invite/submit (submit_invite in src/routes.rs) together with the  *)
(* directory calls it makes (src/lldap.rs), beside the invite repository,  *)
(* its admin handlers and its retention task (module InviteStore).         *)
(*                                                                         *)
(* Requests run concurrently.  One action is what a request does from one  *)
(* await to the next: it sends a call, the other side acts, the answer (or *)
(* an error) comes back and the handler decides how to go on.  Nothing     *)
(* spans the directory and the database, so every order of the requests,  *)
(* the admin, the clock and the retention task is possible in between.     *)
(*                                                                         *)
(* The directory is an LLDAP server outside the repository; it is modelled *)
(* from the calls of src/lldap.rs: a map from usernames to accounts.  An   *)
(* account's `maker` is a history component: the request that created it. *)
(* Its password is represented by the request that set it.                 *)
(*                                                                         *)
(* A crash of the process is a drop of every request and of a running      *)
(* cleanup; nothing else lives in memory here.                             *)
(***************************************************************************)
EXTENDS InviteStore

CONSTANTS
    Requests,       \* submissions of the form
    Mails,
    Groups,         \* names of groups
    Forms,          \* what the validated form and link can hold
    Residents,      \* [name, mail] of accounts that are not ours
    KnownGroups,    \* groups of the directory
    Faults          \* which failures may happen, see Fault

VARIABLES
    accounts,       \* the directory: [Users -> Account \cup {NULL}]
    pc,             \* where each request stands
    form,           \* its form, NULL before it is sent
    list,           \* the groups it read from the invitation
    next,           \* the index of the next group to join
    stamp,          \* the consumed_at it sampled after provisioning
    reply           \* what its page says or will say, "none" when undecided

requestVars == <<pc, form, list, next, stamp, reply>>
allVars == <<vars, accounts, requestVars>>

\* "lookup":   a username or email lookup fails
\* "database": reading or consuming the invitation fails, without effect
\* "refused":  a directory call of provision_user fails, without effect
\* "lost":     such a call takes effect and its answer is lost or unreadable
\* "ignored":  addUserToGroup answers ok: false
\* "undo":     a compensating delete fails, without effect
\* "drop":     the client disconnects or the process ends
Fault == {"lookup", "database", "refused", "lost", "ignored", "undo", "drop"}

Form == [code : Invites, name : Users, mail : Mails]

Account == [mail     : Mails,
            maker    : Requests \cup {NULL},
            password : Requests \cup {NULL},
            groups   : SUBSET Groups]

\* Between two awaits of the handler, in the order of the code.
Live == {"username", "email", "find", "login", "create", "password", "groups",
         "member", "consume", "undo"}

Reply == {"none", "rejected", "unreachable", "not_created", "not_used", "created"}

ASSUME RedemptionAssumption ==
    /\ GroupLists \subseteq Seq(Groups)
    /\ KnownGroups \subseteq Groups
    /\ Forms \subseteq Form
    /\ Residents \subseteq [name : Users, mail : Mails]
    /\ Faults \subseteq Fault
    /\ NULL \notin Requests
    /\ NULL \notin Form
    /\ NULL \notin Account

RedemptionTypeOK ==
    /\ TypeOK
    /\ accounts \in [Users -> Account \cup {NULL}]
    /\ pc \in [Requests -> Live \cup {"idle", "done", "dropped"}]
    /\ form \in [Requests -> Forms \cup {NULL}]
    /\ list \in [Requests -> GroupLists \cup {<< >>}]
    /\ next \in [Requests -> Nat]
    /\ stamp \in [Requests -> Nat]
    /\ reply \in [Requests -> Reply]
    /\ \A r \in Requests :
        /\ pc[r] \in Live => form[r] # NULL
        /\ pc[r] \in ({"idle"} \cup Live) \ {"undo"} => reply[r] = "none"
        /\ pc[r] \in {"undo", "done"} => reply[r] # "none"

ResidentAccount(u) ==
    IF \E a \in Residents : a.name = u
        THEN [mail |-> (CHOOSE a \in Residents : a.name = u).mail,
              maker |-> NULL, password |-> NULL, groups |-> {}]
        ELSE NULL

RedemptionInit ==
    /\ Init
    /\ accounts = [u \in Users |-> ResidentAccount(u)]
    /\ pc = [r \in Requests |-> "idle"]
    /\ form = [r \in Requests |-> NULL]
    /\ list = [r \in Requests |-> << >>]
    /\ next = [r \in Requests |-> 1]
    /\ stamp = [r \in Requests |-> 0]
    /\ reply = [r \in Requests |-> "none"]

---------------------------------------------------------------------------
(* The directory.                                                          *)

NameTaken(u) == accounts[u] # NULL
MailTaken(m) == \E u \in Users : accounts[u] # NULL /\ accounts[u].mail = m

\* createUser; an existing id is refused.
DirCreate(u, mail, r) ==
    accounts' = [accounts EXCEPT ![u] =
                    [mail |-> mail, maker |-> r, password |-> NULL, groups |-> {}]]

DirSetPassword(u, r) == accounts' = [accounts EXCEPT ![u].password = r]

DirJoin(u, g) == accounts' = [accounts EXCEPT ![u].groups = @ \cup {g}]

DirDelete(u) == accounts' = [accounts EXCEPT ![u] = NULL]

\* A call about user u fails without effect: there is no such user, or a fault.
Refused(u) == accounts[u] = NULL \/ "refused" \in Faults

---------------------------------------------------------------------------
(* How the handler goes on.                                                *)

Goto(r, label) == pc' = [pc EXCEPT ![r] = label] /\ UNCHANGED reply

Answer(r, why) ==
    /\ pc' = [pc EXCEPT ![r] = "done"]
    /\ reply' = [reply EXCEPT ![r] = why]

\* Slip of Compensate: the reason is forgotten.
CompensateSilently(r, why) == Goto(r, "undo")

\* Delete the account first, then say why.
Compensate(r, why) ==
    /\ pc' = [pc EXCEPT ![r] = "undo"]
    /\ reply' = [reply EXCEPT ![r] = why]

\* Reqwest and JSON errors are worded as "could not be reached", errors that
\* the directory itself reports as "could not be created".
DirectoryErrors == {"unreachable", "not_created"}

---------------------------------------------------------------------------
(* submit_invite.                                                          *)

\* The code is there and the three validators accept the form.
Submit(r) ==
    /\ pc[r] = "idle"
    /\ \E f \in Forms : form' = [form EXCEPT ![r] = f]
    /\ Goto(r, "username")
    /\ UNCHANGED <<vars, accounts, list, next, stamp>>

SubmitMalformed(r) ==
    /\ pc[r] = "idle"
    /\ Answer(r, "rejected")
    /\ UNCHANGED <<vars, accounts, form, list, next, stamp>>

\* Only a courtesy to the user: nothing holds the name until createUser.
CheckUsername(r) ==
    /\ pc[r] = "username"
    /\ \/ /\ NameTaken(form[r].name)
          /\ Answer(r, "rejected")
       \/ /\ ~NameTaken(form[r].name) \/ "lookup" \in Faults
          /\ Goto(r, "email")
    /\ UNCHANGED <<vars, accounts, form, list, next, stamp>>

\* Slip of CheckEmail: the look-up of the address asks for the name again.
CheckEmailByName(r) ==
    /\ pc[r] = "email"
    /\ \/ /\ NameTaken(form[r].name)
          /\ Answer(r, "rejected")
       \/ /\ ~NameTaken(form[r].name) \/ "lookup" \in Faults
          /\ Goto(r, "find")
    /\ UNCHANGED <<vars, accounts, form, list, next, stamp>>

CheckEmail(r) ==
    /\ pc[r] = "email"
    /\ \/ /\ MailTaken(form[r].mail)
          /\ Answer(r, "rejected")
       \/ /\ ~MailTaken(form[r].mail) \/ "lookup" \in Faults
          /\ Goto(r, "find")
    /\ UNCHANGED <<vars, accounts, form, list, next, stamp>>

\* The row is read and judged.  (Time may pass between the two; a row that
\* passes then would have passed when it was read, so one step is enough.)
FindInvite(r) ==
    LET row == invites[form[r].code] IN
    /\ pc[r] = "find"
    /\ \/ /\ \/ row = NULL
             \/ row # NULL /\ ~InviteIsActive(row, clock)
             \/ "database" \in Faults
          /\ Answer(r, "rejected")
          /\ UNCHANGED list
       \/ /\ row # NULL
          /\ InviteIsActive(row, clock)
          /\ list' = [list EXCEPT ![r] = row.groups]
          /\ Goto(r, "login")
    /\ UNCHANGED <<vars, accounts, form, next, stamp>>

---------------------------------------------------------------------------
(* provision_user.                                                         *)

Login(r) ==
    /\ pc[r] = "login"
    /\ \/ Goto(r, "create")
       \/ "refused" \in Faults /\ Answer(r, "unreachable")
    /\ UNCHANGED <<vars, accounts, form, list, next, stamp>>

\* Slip of CreateUser: a refusal is compensated like the later failures.
CreateUserThenUndo(r) ==
    LET u == form[r].name IN
    /\ pc[r] = "create"
    /\ \/ /\ ~NameTaken(u)
          /\ DirCreate(u, form[r].mail, r)
          /\ Goto(r, "password")
       \/ /\ NameTaken(u)
          /\ Compensate(r, "not_created")
          /\ UNCHANGED accounts
    /\ UNCHANGED <<vars, form, list, next, stamp>>

\* An error of create_user returns at once, without a delete.
CreateUser(r) ==
    LET u == form[r].name IN
    /\ pc[r] = "create"
    /\ \/ /\ ~NameTaken(u)
          /\ DirCreate(u, form[r].mail, r)
          /\ \/ Goto(r, "password")
             \/ /\ "lost" \in Faults
                /\ \E why \in DirectoryErrors : Answer(r, why)
       \/ /\ NameTaken(u)
          /\ Answer(r, "not_created")
          /\ UNCHANGED accounts
       \/ /\ "refused" \in Faults
          /\ \E why \in DirectoryErrors : Answer(r, why)
          /\ UNCHANGED accounts
    /\ UNCHANGED <<vars, form, list, next, stamp>>

\* Slip of SetPassword: its error is returned like that of create_user.
SetPasswordNoUndo(r) ==
    LET u == form[r].name IN
    /\ pc[r] = "password"
    /\ \/ /\ accounts[u] # NULL
          /\ DirSetPassword(u, r)
          /\ Goto(r, "groups")
       \/ /\ Refused(u)
          /\ Answer(r, "not_created")
          /\ UNCHANGED accounts
    /\ UNCHANGED <<vars, form, list, next, stamp>>

\* The LDAP password change; even a failing unbind after it is an error.
SetPassword(r) ==
    LET u == form[r].name IN
    /\ pc[r] = "password"
    /\ \/ /\ accounts[u] # NULL
          /\ DirSetPassword(u, r)
          /\ \/ Goto(r, "groups")
             \/ "lost" \in Faults /\ Compensate(r, "not_created")
       \/ /\ Refused(u)
          /\ Compensate(r, "not_created")
          /\ UNCHANGED accounts
    /\ UNCHANGED <<vars, form, list, next, stamp>>

\* The loop over the groups goes on with the k-th, or ends: provision_user
\* returns and the handler samples the clock for consume_invite.
Proceed(r, k) ==
    IF k <= Len(list[r])
        THEN /\ Goto(r, "member")
             /\ next' = [next EXCEPT ![r] = k]
             /\ UNCHANGED stamp
        ELSE /\ Goto(r, "consume")
             /\ stamp' = [stamp EXCEPT ![r] = clock]
             /\ UNCHANGED next

ListGroups(r) ==
    /\ pc[r] = "groups"
    /\ \/ Proceed(r, 1)
       \/ /\ "refused" \in Faults
          /\ \E why \in DirectoryErrors : Compensate(r, why)
          /\ UNCHANGED <<next, stamp>>
    /\ UNCHANGED <<vars, accounts, form, list>>

\* Slip of JoinGroup: an unknown group is skipped.
JoinKnownGroup(r) ==
    LET u == form[r].name
        g == list[r][next[r]]
    IN
    /\ pc[r] = "member"
    /\ IF g \in KnownGroups THEN DirJoin(u, g) ELSE UNCHANGED accounts
    /\ Proceed(r, next[r] + 1)
    /\ UNCHANGED <<vars, form, list>>

\* Slip of JoinGroup: a failure starts the loop over again.
JoinGroupAgain(r) ==
    LET u == form[r].name
        g == list[r][next[r]]
    IN
    /\ pc[r] = "member"
    /\ \/ /\ accounts[u] # NULL
          /\ DirJoin(u, g)
          /\ Proceed(r, next[r] + 1)
       \/ /\ Refused(u)
          /\ Goto(r, "groups")
          /\ UNCHANGED <<accounts, next, stamp>>
    /\ UNCHANGED <<vars, form, list>>

\* A name the directory does not list ends provision_user at once (`?`),
\* without a delete.  The ok flag of the answer is not looked at.
JoinGroup(r) ==
    LET u == form[r].name
        g == list[r][next[r]]
    IN
    /\ pc[r] = "member"
    /\ \/ /\ g \notin KnownGroups
          /\ Answer(r, "not_created")
          /\ UNCHANGED <<accounts, next, stamp>>
       \/ /\ g \in KnownGroups
          /\ accounts[u] # NULL
          /\ DirJoin(u, g)
          /\ Proceed(r, next[r] + 1)
       \/ /\ g \in KnownGroups
          /\ "ignored" \in Faults
          /\ UNCHANGED accounts
          /\ Proceed(r, next[r] + 1)
       \/ /\ g \in KnownGroups
          /\ accounts[u] # NULL
          /\ "lost" \in Faults
          /\ DirJoin(u, g)
          /\ \E why \in DirectoryErrors : Compensate(r, why)
          /\ UNCHANGED <<next, stamp>>
       \/ /\ g \in KnownGroups
          /\ Refused(u)
          /\ \E why \in DirectoryErrors : Compensate(r, why)
          /\ UNCHANGED <<accounts, next, stamp>>
    /\ UNCHANGED <<vars, form, list>>

---------------------------------------------------------------------------
(* The end of submit_invite.                                               *)

Usable(r) ==
    LET row == invites[form[r].code]
    IN  row # NULL /\ Consumable(row, stamp[r])

\* Slip of ConsumeCode: the boolean result of consume_invite is not looked at.
ConsumeCodeUnchecked(r) ==
    /\ pc[r] = "consume"
    /\ \/ /\ ConsumeInvite(form[r].code, stamp[r], form[r].name)
          /\ Answer(r, "created")
       \/ /\ ~Usable(r)
          /\ Answer(r, "created")
          /\ UNCHANGED vars
    /\ UNCHANGED <<accounts, form, list, next, stamp>>

ConsumeCode(r) ==
    /\ pc[r] = "consume"
    /\ \/ /\ ConsumeInvite(form[r].code, stamp[r], form[r].name)
          /\ Answer(r, "created")
       \/ /\ ~Usable(r) \/ "database" \in Faults
          /\ Compensate(r, "not_used")
          /\ UNCHANGED vars
    /\ UNCHANGED <<accounts, form, list, next, stamp>>

\* The delete of provision_user, or the login and delete of
\* delete_user_account.  Its own result is ignored.
Undo(r) ==
    /\ pc[r] = "undo"
    /\ Goto(r, "done")
    /\ \/ DirDelete(form[r].name)
       \/ "undo" \in Faults /\ UNCHANGED accounts
    /\ UNCHANGED <<vars, form, list, next, stamp>>

---------------------------------------------------------------------------
(* The rest of the process.                                                *)

\* The handler's future is dropped at an await: it does nothing more.  The COMMIT
\* of consume_invite may be on its way then: sqlx's worker still runs it, and the
\* invitation is used though nobody waits for the answer.  (The other calls have
\* their effect before the answer, so a drop between the two is one at the next
\* await.  Until the COMMIT, its transaction holds the database's write lock.)
Drop(r) ==
    /\ "drop" \in Faults
    /\ pc[r] \in Live
    /\ Goto(r, "dropped")
    /\ \/ UNCHANGED vars
       \/ /\ pc[r] = "consume"
          /\ ConsumeInvite(form[r].code, stamp[r], form[r].name)
    /\ UNCHANGED <<accounts, form, list, next, stamp>>

\* The process ends and starts again: every request and a running cleanup are
\* gone, the database and the directory stay.  A COMMIT that made it in time,
\* unanswered, is a Drop just before.
Crash ==
    /\ "drop" \in Faults
    /\ \E r \in Requests : pc[r] \in Live
    /\ pc' = [r \in Requests |-> IF pc[r] \in Live THEN "dropped" ELSE pc[r]]
    /\ sweep' = NULL
    /\ UNCHANGED <<clock, invites, events, lastEvent, minted,
                   accounts, form, list, next, stamp, reply>>

\* The admin, the clock and the retention task.
Surroundings ==
    /\ \/ PassTime
       \/ \E i \in Invites : GenerateInvite(i) \/ RevokeInvite(i)
       \/ SweepTick
       \/ SweepRun
       \/ SweepAborts
    /\ UNCHANGED <<accounts, requestVars>>

Step(r) ==
    \/ CheckUsername(r) \/ CheckEmail(r) \/ FindInvite(r)
    \/ Login(r) \/ CreateUser(r) \/ SetPassword(r) \/ ListGroups(r) \/ JoinGroup(r)
    \/ ConsumeCode(r) \/ Undo(r)

RedemptionNext ==
    \/ Surroundings
    \/ \E r \in Requests : Submit(r) \/ SubmitMalformed(r) \/ Step(r) \/ Drop(r)
    \/ Crash

RedemptionSpec == RedemptionInit /\ [][RedemptionNext]_allVars

\* The directory and the database answer every call in the end.  The code sets
\* no timeout, so this is an assumption about them, not about the code.
RedemptionFairSpec ==
    RedemptionSpec /\ \A r \in Requests : WF_allVars(Step(r))

---------------------------------------------------------------------------
(* Properties.                                                             *)

GroupsOf(l) == {l[k] : k \in DOMAIN l}

\* A used invitation has an account to show for it: the user it names exists,
\* was created by a request for this very invitation, which also set its
\* password and, unless the directory refused with ok: false, put it into all
\* the groups of the invitation - and no failing request, crash or lost answer
\* takes that away again.
RedeemedAccountStands ==
    \A i \in Invites : invites[i] # NULL /\ invites[i].consumedAt # NULL =>
        LET account == accounts[invites[i].consumedBy] IN
        /\ account # NULL
        /\ account.maker \in Requests
        /\ form[account.maker].code = i
        /\ account.password = account.maker
        /\ "ignored" \in Faults \/ account.groups = GroupsOf(invites[i].groups)

\* An invitation lets one request through, however many present it at once,
\* and the row records that request's user and stamp.
OneRedemptionPerInvite ==
    \A r \in Requests : reply[r] = "created" =>
        /\ invites[form[r].code] # NULL
        /\ invites[form[r].code].consumedBy = form[r].name
        /\ invites[form[r].code].consumedAt = stamp[r]
        /\ \A s \in Requests \ {r} :
                reply[s] = "created" => form[s].code # form[r].code

\* No request changes or deletes an account it did not create itself: not one
\* that was there before, not one of a request that submitted the same name
\* and got further, not its own after its invitation was used.
ForeignAccountsUntouched ==
    [][\A u \in Users : accounts[u] # NULL /\ accounts'[u] # accounts[u] =>
        /\ accounts[u].maker \in Requests
        /\ form[accounts[u].maker].name = u
        /\ pc[accounts[u].maker] \in Live
        /\ \A i \in Invites : invites[i] # NULL => invites[i].consumedBy # u]_allVars

\* While no answer is lost, no compensating delete fails and nobody is cut
\* off, and all groups are known: an account exists only while its request is
\* still at work, or because its invitation was used.
AccountsPaidFor ==
    \A u \in Users : accounts[u] # NULL /\ accounts[u].maker # NULL =>
        LET r == accounts[u].maker IN
        \/ pc[r] \in Live
        \/ /\ invites[form[r].code] # NULL
           /\ invites[form[r].code].consumedBy = u

\* An account that nobody is at work on and no invitation paid for is there for
\* one of four reasons, and its request was not told "created": the request was
\* cut off; its compensating delete failed; the answer to createUser was lost, so
\* that nobody can sign in with the account; or a group of the invitation is not
\* known, so that the account has a password.
LeftBehind(u, r) ==
    \/ /\ "drop" \in Faults
       /\ pc[r] = "dropped"
    \/ /\ "undo" \in Faults
       /\ pc[r] = "done"
       /\ reply[r] \in DirectoryErrors \cup {"not_used"}
    \/ /\ "lost" \in Faults
       /\ pc[r] = "done"
       /\ reply[r] \in DirectoryErrors
       /\ accounts[u].password = NULL
       /\ accounts[u].groups = {}
    \/ /\ ~(GroupsOf(list[r]) \subseteq KnownGroups)
       /\ pc[r] = "done"
       /\ reply[r] = "not_created"
       /\ accounts[u].password = r
AccountsExplained ==
    \A u \in Users : accounts[u] # NULL /\ accounts[u].maker # NULL =>
        LET r == accounts[u].maker IN
        \/ pc[r] \in Live
        \/ /\ invites[form[r].code] # NULL
           /\ invites[form[r].code].consumedBy = u
        \/ LeftBehind(u, r)

\* "That email address is already in use." (routes.rs:1010): while no look-up
\* fails, whoever submits after an account stands for good - it was there before
\* all requests, or it is the account of a used invitation - gets no account with
\* its address.  (Two that submit at the same time may.)
Stands(u) ==
    /\ accounts[u] # NULL
    /\ \/ accounts[u].maker = NULL
       \/ \E i \in Invites : invites[i] # NULL /\ invites[i].consumedBy = u
SharesAddress(r, u) ==
    \E v \in Users \ {u} :
        accounts[v] # NULL /\ accounts[v].maker = r /\ accounts[v].mail = accounts[u].mail
AddressStaysOnes ==
    \A r \in Requests, u \in Users :
        [](pc[r] = "idle" /\ Stands(u) => [](accounts[u] # NULL /\ ~SharesAddress(r, u)))

\* "The account could not be created in the directory." (routes.rs:1086)
NotCreatedMeansNoAccount ==
    \A r \in Requests, u \in Users :
        /\ pc[r] = "done"
        /\ reply[r] = "not_created"
        => ~(accounts[u] # NULL /\ accounts[u].maker = r)

\* Redemption, with its faults and races, implements the exchange it promises.
owner == [u \in {v \in Users : accounts[v] # NULL} |-> accounts[u].maker]
told == [r \in Requests |-> IF reply[r] = "created" THEN form[r].code ELSE NULL]
gone == {r \in Requests : pc[r] = "dropped"}
Promised == INSTANCE InviteExchange WITH Nobody <- NULL, Stranger <- NULL, holder <- redeemer
ImplementsExchange == Promised!Spec

\* Every submission ends in an answer or is cut off: again and again it is not
\* at work, which is to say that pc[r] \in Live ~> pc[r] \notin Live.
SubmissionEnds == \A r \in Requests : []<>(pc[r] \notin Live)

---------------------------------------------------------------------------
(* Why they hold: the inductive invariant.                                 *)

\* createUser is behind r and its request is still at work.
Making == {"password", "groups", "member", "consume", "undo"}

\* r has read its invitation.
Informed == {"login", "create"} \cup Making

\* A request at work after createUser owns the account of its name.
Owns(r) == pc[r] \in Making =>
    /\ accounts[form[r].name] # NULL
    /\ accounts[form[r].name].maker = r

\* An account with a maker has the name its maker asked for.
Made(u) == accounts[u] # NULL /\ accounts[u].maker # NULL =>
    LET r == accounts[u].maker IN
    /\ form[r] # NULL
    /\ form[r].name = u
    /\ pc[r] \in Making \cup {"done", "dropped"}

\* How far the password and the groups have come.
Progress(r) ==
    LET account == accounts[form[r].name] IN
    /\ pc[r] \in {"groups", "member", "consume"} => account.password = r
    /\ pc[r] \in {"password", "groups"} => account.groups = {}
    /\ pc[r] = "member" =>
            /\ next[r] \in 1..Len(list[r])
            /\ \/ "ignored" \in Faults
               \/ account.groups = {list[r][k] : k \in 1..(next[r] - 1)}
    /\ pc[r] = "consume" =>
            "ignored" \in Faults \/ account.groups = GroupsOf(list[r])

\* What a request read of its invitation is still true while the row is there.
Remembers(r) == pc[r] \in Informed =>
    LET i == form[r].code IN
    /\ i \in minted
    /\ invites[i] # NULL => list[r] = invites[i].groups

\* A used invitation is backed by an account whose request was answered, or cut
\* off at the very end.
Backed(i) == invites[i] # NULL /\ invites[i].consumedAt # NULL =>
    LET account == accounts[invites[i].consumedBy] IN
    /\ account # NULL
    /\ account.maker \in Requests
    /\ pc[account.maker] \in {"done", "dropped"}
    /\ form[account.maker].code = i
    /\ account.password = account.maker
    /\ "ignored" \in Faults \/ account.groups = GroupsOf(invites[i].groups)

\* A request that was told "created" is the one its row and account record.
Won(r) == reply[r] = "created" =>
    LET i == form[r].code IN
    /\ pc[r] = "done"
    /\ form[r] # NULL
    /\ invites[i] # NULL
    /\ invites[i].consumedBy = form[r].name
    /\ invites[i].consumedAt = stamp[r]
    /\ accounts[form[r].name] # NULL
    /\ accounts[form[r].name].maker = r

RedemptionInv ==
    /\ RedemptionTypeOK
    /\ RowsCoherent
    /\ \A r \in Requests : Owns(r) /\ Progress(r) /\ Remembers(r) /\ Won(r)
    /\ \A u \in Users : Made(u)
    /\ \A i \in Invites : Backed(i)
===========================================================================
