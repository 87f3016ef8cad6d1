# Verification of rust-invite-system

TLA+ models, TLC runs and TLAPS proofs for the invitation service in `src/`.
The service lets one administrator hand out invitation links; whoever opens a
link chooses a username and gets an account in an LLDAP directory. The order of
this file: the system, what can go wrong in it, the modules, the runs, the
proofs, what is left out, and what could come next.

## 1. The system

All paths are under `src/`.

| part | state | operations | talks to |
|---|---|---|---|
| invite repository (`src/invite_storage.rs`, `migrations/0001_invites.sql`) | tables `invites` and `invite_events` in SQLite | `create_invite`, `find_by_token_hash`, `consume_invite`, `revoke_invite`, `cleanup_stale`, `history`, `list_recent`; each writer is one transaction over both tables | called by the handlers and the retention task |
| retention task (`src/main.rs`) | a cutoff while a cleanup runs | once a day: sample the cutoff, call `cleanup_stale`, print and forget an error | repository |
| admin handlers of invitations (`src/routes.rs`) | none | generate, revoke, list | repository, gates of the admin routes |
| redemption form handler (`submit_invite`, `src/routes.rs`) | the locals of one request between its awaits | validate, look up name and address, find the invitation, provision, consume, compensate | repository, directory client, validation |
| directory client (`src/lldap.rs`) | none (a fresh login for every call) | `provision_user`, `delete_user_account`, two lookups | LLDAP's HTTP and LDAP servers, which are outside |
| administrator's sign-in (`src/admin_auth.rs`) | a mutex over window, counter and session; a semaphore with one permit | `login`, `csrf_token`, `logout` | blocking threads for Argon2 |
| admin routes (`src/admin_routes.rs`) | the login cookie | gates: session, origin, CSRF token; login and logout pages | sign-in |
| validation (`src/validation.rs`) | none | predicates on username, email, password | called by the form handler |
| start-up and configuration (`src/app_state.rs`, `src/configuration.rs`, `src/main.rs`) | settings, read once | load, check, migrate, start | everything |
| pages, views, version, request log | none | wording and layout | the handlers |
| deployment files, proxies, tests | none | configuration outside the program, statements of intent | none |

How they interact. Every HTTP request is a task of its own on a multi-threaded
runtime, and so is the retention task. They share the SQLite database (a pool of
five connections, one writer at a time), the directory (no transaction, several
round trips for one account) and the memory of the sign-in (a mutex and a
semaphore). A handler's future can be dropped at any await when its client goes
away, and the process can end anywhere. Nothing spans the database and the
directory: `submit_invite` creates the account first, consumes the invitation
afterwards, and undoes the account when that fails.

### What is hard here

* An invitation is judged before provisioning and used after it. In between
  somebody else may use it, an administrator revoke it, its time run out, or
  retention delete it.
* Two requests that ask for one name may both find it free; the one that loses
  must not delete the winner's account while it compensates.
* Every call to the directory can fail, or take effect and lose its answer; the
  compensation is itself such a call and its result is ignored.
* Rows and history are two tables that must be changed, and deleted, together.
* Instants are sampled before a writer waits for the database, or before a
  login waits for the mutex: stamps can be older than the write that uses them.
* Instants are compared as text in SQL and as instants in the handlers.
* The permit of the verifier has to survive dropped logins and panics, and the
  session must not be ended by a logout that belongs to the one before.
* A writer of the repository is several statements. Each can fail, COMMIT too; the
  rollback of a failed one runs after its error was returned; a dropped caller may
  leave a COMMIT behind that still takes effect.
* An admin handler passes its gates before it awaits the database, and an admin page
  is looked at, and used, long after it was drawn.
* A start can be killed while it makes the database, and nothing but the port keeps
  a second process from the same data directory.

`PROJECT.json` lists each hazard at its line with the property that covers it.

### What makes each part correct

* Repository: a row is used or revoked and never both; a settled row stays as it
  is; rows and history agree; retention deletes neither too early nor never; all
  three judgements of "usable" agree.
* Redemption: a used invitation has a complete account, is used once, by the
  request that is told so (or was cut off that moment); nobody touches an account that is not theirs; an
  account is not left behind without a used invitation, as far as the handler is
  still there to prevent that; every submission ends.
* Sign-in: the throttle neither lets through more than its limit per window nor
  refuses while the window is not full; one verification at a time and the permit returns; a
  session begins with a right login only and ends for its own reasons only.
* Admin routes: what is done, is done for a session that was alive when the request
  was sent, and for the configured origin; a sign-out is final; a disabled invitation
  is useless; what an old page shows as used or as out of use stays so, and the
  history explains a button to disable that does nothing.
* Start-up: whoever sweeps or serves has a migrated database and checked settings; a
  printed hash works; no earlier start spoils a good one.
* Validation: names and addresses are decided as the comments say, passwords so with
  bytes for characters.

## 2. Modules

| module | models | role |
|---|---|---|
| `Timestamps` | how SQLite compares RFC 3339 texts | operators |
| `InviteLifecycle` | what an invitation goes through, without rows, time or history | abstract specification |
| `InviteExchange` | an invitation for an account, without awaits, faults, passwords or groups | abstract specification |
| `InviteStore` | repository with atomic writers, and who calls them | component, and abstract specification of the next |
| `SqliteInvites` | the same writers statement by statement, EXTENDS `InviteStore` | component |
| `Redemption` | form handler and directory client, EXTENDS `InviteStore` | composition |
| `AdminSession` | what the sign-in promises to the routes | abstract specification |
| `AdminAuth` | the administrator's sign-in | component |
| `AdminRoutes` | gates and handlers of the admin pages, EXTENDS `InviteStore`, over `AdminSession` | composition |
| `FormFields` | the validators and the groups field | operators over every short text |
| `Startup` | settings, checks, migration, listener, the hashing command | component |
| `MC...` | small instances of the module of that name | TLC |
| `...Proofs` | theorems about the module of that name | TLAPS |
| `ExchangeProofs` | `Redemption` implements `InviteExchange`, EXTENDS `RedemptionProofs` | TLAPS |

How they are put together. `SqliteInvites` implements `InviteStore`, which implements
`InviteLifecycle`; `Redemption` and `AdminRoutes` therefore take a repository call for
one action of `InviteStore`. `Redemption` in its turn implements `InviteLifecycle` and
`InviteExchange`: what the directory does in between takes nothing from the first and
adds nothing but the making and discarding of accounts to the second. `AdminAuth` implements `AdminSession`; `AdminRoutes`
changes the session only as `AdminSession` allows, so it need not know of permits,
threads or the throttle.

Operators whose comment begins with "Slip of" are wrong versions of the operator
below them, the kind of mistake an edit of the code could make. No specification
uses them. `PROJECT.json` pairs each with the property that must fail when it
takes the place of the right one.

### InviteStore

| model | code |
|---|---|
| `invites`, `events`, `lastEvent` | the two tables and the AUTOINCREMENT sequence |
| `minted` | names already drawn: ids and tokens are random and never repeat |
| `clock` | `Utc::now()`; `Stamps` are the values a caller may still hold |
| `sweep` | the cutoff the retention task sampled, while its cleanup is pending |
| `GenerateInvite` with `CreateInvite` | the generate handler: empty group list and hours below 1 are refused, then row and event are inserted |
| `ConsumeInvite` with `Consumable` | `consume_invite`, its WHERE clause, its event |
| `RevokeInvite` with `Revocable` | `revoke_invite`; nothing about expiry, so an expired row can be revoked |
| `CleanupStale` with `IsStale` | both DELETEs of `cleanup_stale` |
| `SweepTick`, `SweepRun`, `SweepAborts` | one turn of the loop of the retention task, its failure, its restart |
| `InviteIsActive`, `InviteStatus` | the judgements of the form handler and of the admin page |

A writer is one action because it is one SQLite transaction and SQLite admits one
writer at a time; a call that fails is rolled back and is no step. A row that is
deleted is `NULL`, and `minted` tells it from one that never existed.

`ImplementsLifecycle` is the refinement: `phase` and `redeemer` are computed from
rows and `minted`, and every step of the repository is a step of `InviteLifecycle`
or leaves both alone.

### Redemption

One action is what a request does from one await to the next: the call is sent,
the other side acts, the answer or an error comes back, and the handler decides.
`pc` names the await.

| model | code |
|---|---|
| `Submit`, `SubmitMalformed` | the code, username, email and password checks of `submit_invite` (their outcome is a choice) |
| `CheckUsername`, `CheckEmail` | the two lookups; an error counts as "not taken" |
| `FindInvite` | `find_by_token_hash` and `invite_is_active` |
| `Login`, `CreateUser`, `SetPassword`, `ListGroups`, `JoinGroup` | `provision_user`, call by call; `Proceed` is its loop |
| `ConsumeCode`, `Usable` | `consume_invite` with the stamp sampled after provisioning |
| `Compensate`, `Undo` | the deletes of `provision_user` and of `delete_user_account` |
| `Drop`, `Crash` | a dropped future, whose COMMIT may still take effect; the end of the process, which also ends a pending cleanup |
| `Surroundings` | the administrator, the clock and the retention task of `InviteStore` |
| `accounts` and `Dir...` | the directory, external, as the calls of `src/lldap.rs` use it |

`Faults` chooses which failures may happen: `lookup`, `database`, `refused` (no
effect), `lost` (effect, but no answer), `ignored` (addUserToGroup says
`ok: false` and nobody looks), `undo` (the compensating delete fails), `drop`.
A history component, `maker`, says which request created an account.

An unknown group ends `provision_user` by `?` after the account was made; that is
the first alternative of `JoinGroup`, and it does not go through `Compensate`.

`ImplementsExchange` maps a state to who made the account of each name (`owner`), the
user that each row names (`redeemer`) and the invitation that each request was told it
redeemed (`told`), and who was cut off (`gone`). A successful `CreateUser` is `Make`, a
compensation that deletes is `Discard`, a successful `ConsumeCode` is an `Exchange` that
is told, a `Drop` at the COMMIT that takes effect is an `Exchange` at which the request
goes, any other `Drop` and a `Crash` are `Leave`, and every other step, the
administrator's included, is none. A crash after a COMMIT that took effect and before
its answer is such a `Drop` and then the `Crash`: nothing tells the two apart. So an
invitation that is used without anybody being told has cost the maker of its account
the connection at that very moment, and who is gone does nothing more. A request that loses a race, hears wrong
or ends half way can cost nobody an account that an invitation was exchanged for, and
"created" is said of one invitation once. `OneRedemptionPerInvite` says the last in
terms of rows and stamps; it is proved.

### AdminAuth

| model | code |
|---|---|
| `started`, `attempts`, `session` | `AuthState`, behind the mutex |
| `permits`, `jobs` | the semaphore and the closures on blocking threads |
| `Arrive`, `Reserve` | `Instant::now()`, then `reserve_attempt`; any time can pass in between |
| `Counted` | the early return for a missing hash or an overlong password |
| `Acquire`, `JobEnds`, `Resume` | `try_acquire_owned`, the closure with its permit, what `login` does after the await |
| `IssueSession` | `issue_session` |
| `Drop` | the login's future dropped while it awaits; the closure goes on |
| `VisitInVain`, `Unexpired` | `csrf_token_at` clearing an expired session |
| `EnterLogout`, `Logout` | the gate of the logout route, then `logout`, two critical sections |
| `Restart` | everything here is in memory |

`admissions`, `windows` and `admittedAt` are history variables for the properties.
The throttle is a fixed window, as in the code: it bounds the attempts of each
window, so a span of one minute that straddles two windows can hold more than
five. `ThrottleHolds` says exactly what the code does promise.

### SqliteInvites

| model | code |
|---|---|
| `CallCreate`, `CallSettle`, `CallCleanup` | the handlers and the retention task at their calls |
| `Connect`, `FailToConnect` | the pool of five connections and its timeout |
| `BeginDeferred`, `BeginImmediate` | `begin` of `create_invite` and `cleanup_stale`; `begin_with("BEGIN IMMEDIATE")` of the other two |
| `Select`, `Update`, `Insert`, `AppendEvent`, `Reread`, `DeleteEvents`, `DeleteRows` | the statements, in the order of each function |
| `Commit`, `ReturnFalse` | the two ends of a transaction; `Ok(false)` after an explicit rollback |
| `Fail`, `Rollback` | `?` on a statement; the rollback that dropping the transaction queues, which runs later |
| `Leave`, `Crash` | a dropped future, whose COMMIT may still run; the end of the process |
| `writer`, `draft` | SQLite's write lock and the tables as its holder sees them (external) |

### AdminRoutes and AdminSession

| model | code |
|---|---|
| `Sent`, `Send` | what a browser sends: any cookie, any CSRF token, any headers, delayed for any time |
| `RequireOrigin`, `Current`, `Admits`, `Enter` | `require_origin`, `csrf_token_at`, `require_admin`, `require_admin_mutation`, in this order |
| `Dashboard` with `ListRecent` | `admin`, whose failing read shows an empty list |
| `Generate`, `Revoke` | the handlers after the gate; `Revoke` answers alike whatever the repository said |
| `SignOut`, `LoginPage`, `PostLogin`, `SignedIn`, `Refused` | `logout`, `login_view`, `login` with its cookie |
| `Drop`, `Restart`, `Redeem` | a dropped handler, whose write may still take effect; a restart, which also ends a pending cleanup; somebody's redemption |
| `Retain` | the retention task of `InviteStore` |

`late` is a history component of a request: its session was over when it was sent.
`Retain` is the retention task: a page can be looked at for any time, and an active
row whose expiry lies beyond the year 9999 is deleted by the next cleanup. So a row
that a page shows may be gone with its history; `PagesAgeWell` says what stays true.

### FormFields

A text is a sequence of characters, and of a character only its classes and its width
in UTF-8 count; `Bytes` counts one byte a character and the further ones of those that
have more. Each validator is one operator; the state machine types and erases
characters, so that TLC judges every text up to six characters against a definition by
positions and quantifiers. The limits are smaller than in the code (names of 2 to 4, a
password of 5). The groups field is read one character after the other (`Read`: the groups
so far, and what stands after the last comma), which gives what `split`, `trim` and
`filter` give; `JoinGroups` is `join(", ")`. `FieldsDecided` takes names and addresses
by what the comments say. Of passwords it says what holds: whoever has the characters
and the kinds that the messages ask for is let in; whoever is let in has every kind, and
the number of characters as well if all of them are ASCII. With others he may have fewer,
because bytes are counted.

### Startup

One action per step of `main` and `AppState::initialize` in their order: `SyncAssets`,
`Load`, `CreateDirectory`, `CheckSettings`, `Connect`, `ListApplied`, `Apply`,
`SpawnCleanup`, `BuildRouter`, `Start`. `Edit` and `ProvisionPassword` are the operator
and `--hash-admin-password`; `Die` ends a process between any two steps. `Layered` is
the order of file, environment and defaults, `Reparsed` what `try_parsing` makes of a
text. A migration and its record are one transaction of sqlx, but the list of applied
migrations is read before it, so two processes may both want to migrate. A hash is its
algorithm, version and parameters, with the lengths of salt and output.

## 3. Runs

Nine runs pass, three show a disagreement between a text of the repository and its
code.

| run | question | bounds |
|---|---|---|
| `InviteStoreSafety` | Do rows, history and judgements stay consistent, do settled invitations stay settled, is the life cycle implemented, and are rows that are due deleted in the end? | 2 invitations, 2 users, group lists empty or not, lifetimes 0, 1, 2, retention 1, stamps one tick old, clock up to 4, fair retention task |
| `SqliteWriters` | Is a transaction one step, is every answer true, does the lock come free, is every call answered? | 3 calls and the retention task, 1 invitation, 2 connections, stamps one tick old, clock up to 1, fair statements |
| `RedemptionFaults` | Do accounts and used invitations match, is the redemption one exchange, and does every submission end, whatever fails, a COMMIT that outlives its request included? | 2 requests, 1 invitation, 2 free names and a taken one, known and unknown groups, every fault but `ignored` (with it the promise about groups would be empty; it is in the next run), fair calls |
| `RedemptionRaces` | Does the compensation leave no account behind when none of the four reasons of `LeftBehind` can occur, and does a taken address stay taken? | 2 requests, 2 invitations, 2 names and 2 addresses crossed, a resident, the faults `database`, `refused`, `ignored` |
| `AdminThrottle` | Does the throttle hold, and does `reserve_attempt` refuse with cause only? | 5 logins, limit 2 in a window of 2, clock up to 4, instants of any age |
| `AdminSessions` | Is there one verification at a time, do sessions begin and end rightly and as `AdminSession` says, do the permit and every login come back? | 2 logins of every kind, visits and logouts with instants one tick old, sessions of two ticks, clock up to 3, restarts, fair |
| `AdminRoutes` | Is everything done for a live session and the right origin, is a sign-out final, a disabled invitation useless, an old page right in what it shows as used or out of use? | 2 sign-ins, 2 requests of every route with every cookie, token and three kinds of headers, 1 invitation, sessions of one tick, clock up to 1, lifetimes 1 and 2 where 2 counts as beyond the year 9999, retention 0, no failing database |
| `FormFieldsRules` | Do the validators decide as `FieldsDecided` says, and do groups come back? | every text of up to 6 characters out of 4 to 7 |
| `StartupChecks` | Is whoever serves ready, do printed hashes work, does a good start serve in the end? | 2 launches, 2 edits, one fault, files with each flaw (a weak hash, one of another Argon2 version, an origin without https, ...), passwords of 15, 16, 1024 and 1025 bytes |
| `InviteStoreFarExpiry` (violation) | Are active invitations left untouched by the cleanup? | expiry may pass the year 9999 |
| `InviteStoreAppendOnly` (violation) | Are the events append-only? | 1 invitation |
| `RedemptionUnknownGroup` (violation) | Does "could not be created" mean that there is no account? | no fault at all, one unknown group |

Why these bounds are enough to be interesting. With two invitations one can be
settled while the other is written, deleted or read, and event ids of both mix.
Retention 1 and a clock up to 4 fit creation, expiry, one more tick and the sweep,
with stamps that lag. Three calls and the task on two connections fit a creation, a
consume and a revoke of one row that meet, a full pool and a cleanup in between.
Two requests show each race of the form handler: it has no shared state except the
directory and one row, and each conflict is about one name or one row. `RedemptionRaces` checks `AccountsExplained`
where it is strongest, with faults that allow none of its four reasons; with them it is
proved (`NoAccountUnexplained`). Five logins
fill a window of two, get one refused, and start the next window. Two logins give a
session and the one that replaces it, with a late logout of the first. Two requests
to the admin pages give a sign-out that crosses a revoke, or a page drawn before and
used after a change; two sign-ins, a cookie of one with the token of the other.
Retention 0 lets a cleanup delete within the two ticks what has expired or was revoked,
and the longer of the two lifetimes is deleted while it is active. The run has no failing
database, so it says nothing of the revoke whose UPDATE fails and whose error is ignored
(`src/routes.rs:728`): its answer is the same and means nothing then. Two
launches give a race for the migration, and a start that dies and the next.

`SYMMETRY` is used only in runs without liveness properties (`AdminThrottle`,
`AdminRoutes`), over values that no definition tells apart. `CHECK_DEADLOCK` is off in
`StartupChecks` only: there every launch may have ended and the operator be out of
edits. Elsewhere the retention task, a restart or a key press is always possible.

`MaxTime` stops the clock in every model. It cannot hide a safety violation within the
bound, and the liveness properties do not need the clock: `StaleRowsAreSwept` speaks of
rows that are already due. A revoked row sampled at the last ticks is not due before
the clock stops and so is not asked for.

### Fairness

* `SweepTick` is weakly fair: `tokio::time::interval` keeps ticking. `SweepRun` is
  strongly fair: the cleanup is tried again every day, and a database that refuses
  it again and again for ever is excluded. Weak fairness would not do, because a
  failed cleanup ends the attempt.
* In `SqliteFairSpec` what a caller waits for ends: a statement by its result, an error
  or the busy timeout, a wait for the pool by its timeout (one weak fairness for these
  together), and a connection runs the rollback that is queued on it (another). Calls,
  dropped futures and crashes are not fair. A success is nowhere assumed:
  `CallsAnswered` asks for an answer, which may be an error.
* `Step(r)` of a submission is weakly fair: the directory and the database answer
  in the end. The code sets no timeout, so this is an assumption about them.
  `Submit` and `Drop` are not fair.
* `Step(c)` and `JobEnds(c)` of a login are weakly fair: the runtime polls ready
  tasks, no critical section blocks while it holds the mutex, and Argon2 runs with
  the bounded parameters that `with_username` enforces. `Drop`, `Restart`,
  logouts and the clock are not fair.
* `Step(p)` of a start is weakly fair: `main` is sequential code without a wait for
  anybody else. `Launch`, `Edit` and `Die` are not fair.

### What the violations show

* `ActiveInvitesSurviveCleanup` (comment of `cleanup_stale`,
  `src/invite_storage.rs:216`): chrono writes a year above 9999 with a leading `+`,
  which sorts before every digit, so the text of a far expiry is smaller than the
  cutoff. The next cleanup deletes that invitation at once while the form handler,
  which parses, would accept it. The generate form has no upper limit for its hours.
* `EventsAppendOnly` (`README.md:13`): `cleanup_stale` deletes the events of stale
  invitations. The code means to do so, the sentence in the README says otherwise.
* `NotCreatedMeansNoAccount` (`src/routes.rs:1086`): with a group that the directory
  does not know, the account and its password exist although the page says that it
  could not be created. The invitation stays usable, but not with that name.

### Seen while modelling, without a run

The definitions say these in so many words, so a run would add nothing.

* `Dashboard` with a failing database shows no rows (`src/routes.rs:596`), and the page
  then says "No invitations have been generated yet." (`src/routes.rs:663`).
* `ValidUsername` judges a trimmed copy (`src/validation.rs:28`); the form handler looks
  up and creates the name as it was typed (`src/routes.rs:983`, `:1070`), so blanks
  around it reach the directory. The same holds for addresses.
* `ValidPassword` counts bytes (`src/validation.rs:78`) where its message says
  characters (`:80`): five letters of two bytes pass for ten. A password with characters
  beyond ASCII therefore passes with fewer than the message names; `FieldsDecided` leaves
  that direction to ASCII.
* `JoinGroup` with the fault `ignored`: the flag `ok` of addUserToGroup is read and
  forgotten (`src/lldap.rs:288`); `TODO.md:310` has that open.
* `Reparsed`: `APP__ADMIN__USERNAME=007` is read as a number and becomes the name "7"
  (`src/configuration.rs:150`), against `README.md:190`.
* `Start` depends on no setting: `topcoat::start(router)` (`src/main.rs:66`) is not given
  `server.port`, against `README.md:10`; `TODO.md` suspects it too.

## 4. Proofs

TLAPS proves the following for every value of the constants that satisfies the
named assumptions, so for any number of invitations, users, requests, calls,
connections, logins and launches.

| module | theorem | property | argument |
|---|---|---|---|
| `InviteStoreProofs` | `TypeCorrect` | `TypeOK` | inductive by itself |
| | `RowsStayCoherent` | `RowsCoherent` | with `TypeOK` |
| | `HistoryAgrees` | `HistoryMatches` | with both; needs that no event has an id above the sequence |
| | `InvitesSettle` | `SettledForGood` | from `RowsCoherent`: a used row is neither consumable, revocable nor stale |
| | `StoreImplementsLifecycle` | `ImplementsLifecycle` | initial states and steps map, case by case |
| | `CleanupIsPatient`, `OneJudgement` | `CleanupSpares`, `JudgedAlike` | under `ShortLived` |
| `SqliteInvitesProofs` | `TransactionsInvariant` | none (`TransactionInv`) | the inductive invariant |
| | `SqliteTypeCorrect`, `SqliteImplementsStore` | `SqliteTypeOK`, `ImplementsStore` | a COMMIT is the action of `InviteStore`, every other step leaves its variables alone |
| | `AnswersHold` | `AnswersTrue` | `AnswersInv` on top of it |
| `RedemptionProofs` | `RedemptionInvariant` | none (`RedemptionInv`) | the inductive invariant |
| | `RedemptionTypeCorrect`, `AccountsStand`, `RedeemedOnce` | `RedemptionTypeOK`, `RedeemedAccountStands`, `OneRedemptionPerInvite` | consequences of it |
| | `RedemptionKeepsHistory`, `RedemptionImplementsLifecycle` | `HistoryMatches`, `ImplementsLifecycle` | every step is a move of the repository or leaves it alone; the steps of `InviteStoreProofs` do the rest |
| | `ForeignAccountsAreSafe` | `ForeignAccountsUntouched` | step by step from it |
| | `NoAccountUnexplained` | `AccountsExplained` | for every set of faults, with `Undoing` |
| | `NoAccountUnpaid` | none (`AccountsPaidFor`) | the above, under `Undisturbed` |
| | `AddressesStay` | `AddressStaysOnes` | under `"lookup" \notin Faults`; `KeptFrom` is what lasts |
| `ExchangeProofs` | `RedemptionImplementsExchange` | `ImplementsExchange` | initial states and steps map, from `RedemptionInv` |
| `AdminAuthProofs` | `AdminTypeCorrect`, `VerifiesOneAtATime`, `ThrottleAlwaysHolds`, `SessionIsEarned`, `SessionsEndRightly` | `AdminTypeOK`, `OneVerification`, `ThrottleHolds`, `SessionEarned`, `SessionEndsRightly` | three invariants, below |
| | `RefusedWithCause` | `ThrottledWithCause` | `CountedInv`, by counting the calls that were let in |
| | `AuthImplementsSession` | `ImplementsSession` | step by step, with `AnsweredInv` |
| `AdminRoutesProofs` | `RoutesKeepSession` | none (`SessionSpec`) | step by step |
| | `AdmittedIsDeserved`, `SignOutIsFinal` | `OnlyForLiveSessions`, `SignedOutForGood` | `GateTypes` and `GateInv` |
| | `RoutesKeepStore` | none (`Spec` of `InviteStore`) | every step is one of the repository or leaves it alone |
| | `RoutesTypeCorrect` | `RoutesTypeOK` | the above, `ViewTypes` and `Presented` |
| | `RevokedIsUseless` | `DisabledIsUseless` | under `"database" \notin Faults`; `Disabled` of every request |
| | `OldPagesAreTrue` | `PagesAgeWell` | under `MaxTime < Year10000`; `Presented` of every page, with `HistoryMatches` |
| `FormFieldsProofs` | `ValidatorsDecide` | `FieldsDecided` | for every text there is; what `Trim` and `Bytes` do |
| | `GroupsReadBack` | `GroupsComeBack` | for every text there is; what a text is read as, and what a joined list is read as |
| `StartupProofs` | `StartupTypeCorrect`, `WhoServesIsReady` | `StartupTypeOK`, `ServesReady` | `Ready` of every process |
| | `PrintedHashAlwaysWorks` | `PrintedHashWorks` | under `PrintedByCommand`, with `Genuine` |

Assumptions. `StoreAssumption`, `YearAssumption`, `SqliteAssumption`,
`RedemptionAssumption`, `AdminAssumption`, `RoutesAssumption`, `FieldsAssumption` and
`StartupAssumption` give the constants their types and say that `NULL` is no member of
the sets it stands beside; a username has at least one byte (`UserMin` is 3 in the
code). Seven theorems assume more, in their own statements, and are false without it:

* `ShortLived`: no instant of a run reaches the year 10000 (with the longest lifetime and
  the last tick of the clock). `InviteStoreFarExpiry` shows what happens otherwise.
* `Undisturbed`: no answer is lost, no compensating delete fails, no request is dropped,
  and the groups of all invitations are known. Failing look-ups, refused calls and a
  failing database are allowed. Each exclusion is one of the four reasons of `LeftBehind`
  for which `NoAccountUnexplained` lets an account stay, so the theorem follows from that
  one; `RedemptionUnknownGroup` shows the last of them.
* `"lookup" \notin Faults`: a failing look-up counts as "not taken". Everything else may
  fail.
* `"database" \notin Faults` (`RevokedIsUseless`): the revoke handler ignores the result
  of `revoke_invite`, so that its answer means nothing when the call failed. All other
  theorems about the routes allow a failing database.
* `MaxTime < Year10000` (`OldPagesAreTrue`): the clock, not the expiries, stays below the
  year 10000. The page judges instants and `consume_invite` compares texts; an expiry
  beyond that year only has its row deleted early, which the property allows for, as long
  as "now" is not there.
* `PrintedByCommand`: who writes a hash into the settings has it from the command, which
  refuses passwords outside 16 to 1024 bytes.

Why an invariant is needed beyond the properties.

* Repository. `HistoryMatches` needs `lastEvent` to bound every id, or a new event
  could repeat one; that bound is part of `TypeOK`.
* Transactions. `ImplementsStore` says nothing of what a transaction has done so far.
  `TransactionInv` says it: whoever is past a statement that writes holds the lock
  (`LockInv`), and the draft is the committed database changed by exactly the statements
  that the holder has run (`Drafted`, `CleanupDrafted`), so that COMMIT writes what the
  action of `InviteStore` writes; the row still fits, because nobody else could write
  since `Select`. `Timely` and `NamesDrawnOnce` give the guards of `GenerateInvite`. For
  `AnswersTrue`, `Unheard` says that nothing of a call is stored before it is answered.
* Redemption. `RedeemedAccountStands` says nothing of the time before the
  invitation is used. `RedemptionInv` follows a request from the creation of its
  account: it owns the account of its name (`Owns`), has come so far with password
  and groups (`Progress`), remembers the groups of its row (`Remembers`), and every
  account belongs to a request that asked for that name (`Made`). When the row is
  used, `Backed` takes over: the account's maker is answered, or cut off while its COMMIT
  ran on, and does nothing more, so nothing can delete that account. `Won` ties "created" to row and account, from
  which one redemption per invitation follows. The step that matters is `Undo`:
  the account it deletes is its own by `Owns`, and one whose maker is still at work,
  so no used invitation relies on it. This is also why `CreateUser` must not compensate
  when it is refused: then the account would not be its own. For `AccountsExplained`,
  every step that ends a request leaves no account of its own, has used the row under
  that name, or gives one of the four reasons. That the second reason, a failed delete, is
  given only to who had something to undo needs `Undoing`: a request that is at its
  compensation holds back an answer that is an error, which it gives afterwards. What
  explains an account lasts, because answers do not change, a used row stays used while
  the account stands, and nobody else adds a password or a group (`StillExplained`). For the exchange, an account whose request is at work was
  exchanged for nothing, because `Backed` says that the maker of one that was is done or cut
  off (`NotExchanged`), so that `Discard` and `Exchange` find it free; that a cut-off
  request is never at work again makes `gone` grow only. For `AddressStaysOnes`, a request that begins while an account
  stands gets past `CheckEmail` only with another address.
* Sign-in. `PermitInv`: permits and running closures add up to one. `ThrottleInv`:
  `started` is at least `windows * Window` and no instant is ahead of the clock, and
  admissions are at most full windows and the current counter. `CountedInv`: the counter
  is at most the number of calls admitted since `started`, so that a full counter is as
  many calls; it needs that a call not yet admitted is not among them. `SessionInv`: what
  the session's token stands for, and what each call past `verified` has shown.
* Admin routes. `Gated`: a request sent too late finds its session over for good, because
  a token never returns, so `Admits` refuses it at any later instant; one that was
  admitted showed one token in cookie and form. `SignedOut` is `SignedOutForGood` with
  the token known to have been issued. `Disabled` follows a revoke from the page its
  name was read on, since a revoke of a name that no row has yet would be undone by the
  row's creation: a name that a request carries was minted. `Presented`: a row shown
  as used stays, because retention deletes none that was used, and one shown as out of use
  is settled, past its expiry or deleted, which all last (`RowsStay`, `RowsGo`: the move
  of a row, retention included). The repository's
  own invariants come from `RoutesKeepStore`.
* Form fields. `FieldsTyped` only says that a text is one. The work is in lemmas for
  every sequence: `Trim` of a text is the stretch from its first to its last character
  that is not blank (`Ends`, `TrimEnds`, `TrimOf`), which any stretch with solid ends and
  blanks around it is (`Joined`, `PaddedMeans`); a text of ASCII has as many bytes as
  characters, any other more (`OneByteEach`, `NoLessThanCharacters`); and a text with one
  sign splits there and nowhere else (`OneSign`). For `GroupsComeBack` the reading of a
  text and the joining of a list are courses: functions on 0..n whose every value is
  made from the one before (`Course`). `Course` says that there is such a
  function and `UpTo` that what holds at 0 and survives each step holds at n; both go by
  the least number at which they would fail, because the library's induction rule, which
  takes an operator, is out of the provers' reach. From them: reading one part without commas only gathers it, a separator closes it and leaves a
  blank that trimming removes again, so a joined list reads as its own parts
  (`ParseJoined`), and whatever is read is a list of trimmed, non-empty parts
  (`ParsedGroups`).
* Start-up. `Ready` says for each stage which checks lie behind it; that the database
  stays migrated makes it stable under the steps of the other processes. `Genuine` says
  that every hash in file, environments and loaded settings came from the command.

Only model-checked. `StaleRowsAreSwept`, `SubmissionEnds`, `PermitReturns`,
`LoginEnds`, `LockFreed`, `CallsAnswered` and `GoodStartServes` are liveness under
fairness, which the prover does not do. Every other property that a passing run checks,
each invariant, each action property and each refinement, is proved. No recursive
operator is used, only recursive functions.

## 5. What is not modelled, and what is abstracted

* Texts: names, addresses and groups are values; random ids and tokens never
  repeat; passwords and hashes are represented by who presented or set them, or, in
  `Startup`, by their parameters and lengths.
* Validation: `Redemption` takes its outcome as a choice; `FormFields` has the
  predicates themselves, with "." and "-" for the signs that a name may contain.
* Instants: `Timestamps` knows years of four and of five digits.
* `groups_json` is written by the service itself as a list of strings; the branch
  for text that does not parse cannot be reached and is left out.
* `FindInvite` reads the row and judges it in one step. Time that passes in between
  only makes it later that the row is found expired, which is a rejection. The page
  that `GET /invite` shows takes the same decision and keeps nothing.
* `MaxDelay` bounds the age of stamps in `InviteStore` and `SqliteInvites` and of the
  instants of admin requests; the consume stamp of `Redemption` and the instants of
  logins are unbounded in age.
* The events' ON DELETE CASCADE is left out: both DELETEs of `cleanup_stale` name the same
  rows, so it finds nothing left to delete.
* `ThrottledWithCause` is about `reserve_attempt`. A login that finds the one permit taken
  gets the same "Throttled" (`src/admin_auth.rs:138-139`) without a full window; the model
  has that answer (`Acquire`), the property leaves it out.
* The asset bundle is there or not: one that a killed start has partly written is not
  modelled.
* SQLite is modelled with its rollback journal, the default that the code does not
  change: one writer, readers see committed tables. A deadlock between two deferred
  transactions shows as a statement that fails.
* The directory is a map from names to accounts. Whether it refuses a second
  account with one address is left open; two submissions that are under way together
  can share one. A call whose effect comes after its sender gave up is represented by
  one that takes effect at once and loses its answer; a call that stays on the wire past
  a later request's call is not modelled.
* Settings: four of them stand for all, one per way of use (a text that is checked, a
  text that may be empty, a URL, a number). Host, LLDAP, appearance and logging settings
  are passed on as they are.
* Mutex poisoning: no critical section of the sign-in can panic.
* A panic in the generate handler for an absurd number of hours ends the request
  before anything is written (the alternative "lost" of `Generate`).
* Views beyond the rows of the dashboard, version, request log, proxies and container
  files keep no state that changes while the service runs.

## 6. What could come next

1. `Redemption` with calls on the wire: requests to the directory that take effect
   after their sender was dropped.
2. `Startup` against an abstract specification of a service that is up or not.
