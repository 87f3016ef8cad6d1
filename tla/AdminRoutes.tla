---------------------------- MODULE AdminRoutes ----------------------------
(***************************************************************************)
(* The admin's pages and forms: the gates of src/admin_routes.rs in front  *)
(* of the handlers of src/routes.rs, the session (module AdminSession) and *)
(* the invite repository (module InviteStore).                             *)
(*                                                                         *)
(* A handler passes its gates without an await; then most of them await    *)
(* the database, or the password's verification, and anything may happen    *)
(* in between: the session may expire, be replaced or be signed out, the    *)
(* invitation be used or deleted by retention, the process restart.         *)
(*                                                                         *)
(* Browsers are outside the repository.  A request may present the cookie   *)
(* and the CSRF token of any sign-in, whatever the order in which the       *)
(* responses arrived, and it may be on its way for any time.  A session's   *)
(* token and its CSRF token are both named by the sign-in they come from.   *)
(***************************************************************************)
EXTENDS InviteStore

CONSTANTS
    Calls,          \* sign-ins, each standing for the token it may obtain
    SessionLife,    \* SESSION_SECONDS
    Requests,       \* GET /admin and the three mutations
    Headers,        \* [origin, site]: what a request can carry of the two
    Origin,         \* admin.origin
    NoOrigin,       \* its default, the empty text
    Limit,          \* how many rows the page asks for (20)
    MaxChallenges,  \* bound: how many sign-in pages are drawn
    Faults          \* {"database"} or {}: can calls of the repository fail

VARIABLES
    session,        \* the session, or NULL
    issued,         \* sign-ins that were given a token
    challenges,     \* sign-in pages drawn, each with a token of its own
    stage,          \* where each request and sign-in stands
    req,            \* what a request presented, NULL before
    stamp,          \* the instant its handler sampled
    reply,          \* how it was answered
    shown           \* the rows of the page it was answered with

Sessions == INSTANCE AdminSession

sessionVars == <<clock, session, issued>>
storeVars == <<invites, events, lastEvent, minted, sweep>>
webVars == <<challenges, stage, req, stamp, reply, shown>>
routeVars == <<sessionVars, storeVars, webVars>>

Routes == {"dashboard", "generate", "revoke", "logout"}

\* `late` is a history component: the session of the cookie was over before
\* the request was sent.
Request == [route : Routes, cookie : Calls \cup {NULL}, csrf : Calls \cup {NULL},
            headers : Headers, invite : Invites, sent : Nat, late : BOOLEAN]

Status == {"Active", "Used", "Expired", "Revoked"}

ASSUME RoutesAssumption ==
    /\ NULL \notin Request \cup Calls
    /\ Requests \cap Calls = {}
    /\ SessionLife \in Nat
    /\ Limit \in Nat
    /\ MaxChallenges \in Nat
    /\ Faults \subseteq {"database"}

RoutesTypeOK ==
    /\ TypeOK
    /\ session \in [token : Calls, expires : Nat] \cup {NULL}
    /\ issued \subseteq Calls
    /\ challenges \in Nat
    /\ stage \in [Requests \cup Calls ->
                    {"idle", "sent", "verifying", "done", "lost"} \cup Routes]
    /\ req \in [Requests -> Request \cup {NULL}]
    /\ stamp \in [Requests -> Nat]
    /\ reply \in [Requests -> {"none", "unauthorized", "forbidden", "page", "no_link",
                               "link", "redirect", "signed_out"}]
    /\ \A r \in Requests : DOMAIN shown[r] \subseteq Invites
    /\ \A r \in Requests : \A i \in DOMAIN shown[r] : shown[r][i] \in Status

RoutesInit ==
    /\ Sessions!SessionInit
    /\ Init
    /\ challenges = 0
    /\ stage = [r \in Requests \cup Calls |-> "idle"]
    /\ req = [r \in Requests |-> NULL]
    /\ stamp = [r \in Requests |-> 0]
    /\ reply = [r \in Requests |-> "none"]
    /\ shown = [r \in Requests |-> << >>]

---------------------------------------------------------------------------
(* The gates.                                                              *)

\* require_origin
RequireOrigin(headers) ==
    /\ headers.origin = Origin
    /\ Origin # NoOrigin
    /\ headers.site \in {"absent", "same-origin", "none"}

\* Slip of Current: the expiry is left to others to notice.
CurrentUnlessReplaced(at) == session

\* csrf_token_at clears an expired session, whatever token it is given.
Current(at) == IF session # NULL /\ at >= session.expires THEN NULL ELSE session

\* Slip of Admits: any session will do.
AdmitsAnySession(token, at) == token # NULL /\ Current(at) # NULL

\* require_admin, for the token of a session cookie.
Admits(token, at) ==
    /\ token # NULL
    /\ Current(at) # NULL
    /\ Current(at).token = token

\* A request without the cookie does not get as far as csrf_token.
Look(token, at) == session' = IF token = NULL THEN session ELSE Current(at)

Over(c) == session = NULL \/ session.token # c \/ clock >= session.expires

---------------------------------------------------------------------------
Goto(r, label) == stage' = [stage EXCEPT ![r] = label] /\ UNCHANGED reply

Answer(r, result) ==
    /\ stage' = [stage EXCEPT ![r] = "done"]
    /\ reply' = [reply EXCEPT ![r] = result]

\* What a browser sends, and whether its session is over by then.
Sent(route, cookie, csrf, headers, i) ==
    [route |-> route, cookie |-> cookie, csrf |-> csrf, headers |-> headers,
     invite |-> i, sent |-> clock, late |-> cookie # NULL /\ Over(cookie)]

Send(r) ==
    /\ stage[r] = "idle"
    /\ \E route \in Routes, cookie \in issued \cup {NULL}, csrf \in issued \cup {NULL},
          headers \in Headers, i \in Invites :
            /\ route = "revoke" => i \in minted
            /\ req' = [req EXCEPT ![r] = Sent(route, cookie, csrf, headers, i)]
    /\ Goto(r, "sent")
    /\ UNCHANGED <<sessionVars, storeVars, challenges, stamp, shown>>

\* The handler starts.  The dashboard asks for the session only, the others
\* for require_admin_mutation: session, origin, CSRF token, in this order.
Enter(r) ==
    /\ stage[r] = "sent"
    /\ \E at \in req[r].sent..clock :
        /\ clock <= at + MaxDelay
        /\ Look(req[r].cookie, at)
        /\ stamp' = [stamp EXCEPT ![r] = clock]
        /\ \/ /\ ~Admits(req[r].cookie, at)
              /\ Answer(r, "unauthorized")
           \/ /\ Admits(req[r].cookie, at)
              /\ req[r].route # "dashboard"
              /\ \/ ~RequireOrigin(req[r].headers)
                 \/ req[r].csrf # Current(at).token
              /\ Answer(r, "forbidden")
           \/ /\ Admits(req[r].cookie, at)
              /\ \/ req[r].route = "dashboard"
                 \/ /\ RequireOrigin(req[r].headers)
                    /\ req[r].csrf = Current(at).token
              /\ Goto(r, req[r].route)
    /\ UNCHANGED <<clock, issued, storeVars, challenges, req, shown>>

---------------------------------------------------------------------------
(* The handlers past their gates.                                          *)

Stored == {i \in Invites : invites[i] # NULL}

\* list_recent: ORDER BY created_at DESC LIMIT; what comes first of equals is
\* left to SQLite.
ListRecent(limit) ==
    {rows \in SUBSET Stored :
        /\ Cardinality(rows) = IF Cardinality(Stored) < limit THEN Cardinality(Stored) ELSE limit
        /\ \A i \in rows, j \in Stored \ rows : invites[j].createdAt <= invites[i].createdAt}

\* Slip of Dashboard: the comparison with the expiry is turned round.
DashboardByExpiry(r) ==
    /\ stage[r] = "dashboard"
    /\ \E rows \in ListRecent(Limit) :
            shown' = [shown EXCEPT ![r] = [i \in rows |->
                IF invites[i].expiresAt <= stamp[r] THEN "Active" ELSE "Expired"]]
    /\ Answer(r, "page")
    /\ UNCHANGED <<sessionVars, storeVars, challenges, req, stamp>>

\* A failing read shows no rows.  Statuses are as of the instant before it.
Dashboard(r) ==
    /\ stage[r] = "dashboard"
    /\ \E rows \in ListRecent(Limit) \cup (IF "database" \in Faults THEN {{}} ELSE {}) :
            shown' = [shown EXCEPT ![r] =
                        [i \in rows |-> InviteStatus(invites[i], stamp[r])]]
    /\ Answer(r, "page")
    /\ UNCHANGED <<sessionVars, storeVars, challenges, req, stamp>>

\* No groups, no hours, or too many hours for chrono: the first two are told,
\* the third is a panic.  A failing insert is told too.
Generate(r) ==
    /\ stage[r] = "generate"
    /\ \/ /\ \E i \in Invites : GenerateInvite(i)
          /\ Answer(r, "link")
          /\ UNCHANGED <<session, issued>>
       \/ /\ Answer(r, "no_link")
          /\ UNCHANGED <<sessionVars, storeVars>>
       \/ /\ Goto(r, "lost")
          /\ UNCHANGED <<sessionVars, storeVars>>
    /\ UNCHANGED <<challenges, req, stamp, shown>>

\* Slip of Revoke: the answer does not wait for the repository.
RevokeUnawaited(r) ==
    /\ stage[r] = "revoke"
    /\ Answer(r, "redirect")
    /\ UNCHANGED <<sessionVars, storeVars, challenges, req, stamp, shown>>

\* The handler redirects, whatever revoke_invite returns.
Revoke(r) ==
    LET row == invites[req[r].invite] IN
    /\ stage[r] = "revoke"
    /\ \/ /\ RevokeInvite(req[r].invite)
          /\ UNCHANGED <<session, issued>>
       \/ /\ \/ row = NULL
             \/ row # NULL /\ ~Revocable(row)
             \/ "database" \in Faults
          /\ UNCHANGED <<sessionVars, storeVars>>
    /\ Answer(r, "redirect")
    /\ UNCHANGED <<challenges, req, stamp, shown>>

\* Slip of SignOut: only the cookie is cleared.
SignOutCookieOnly(r) ==
    /\ stage[r] = "logout"
    /\ Answer(r, "signed_out")
    /\ UNCHANGED <<sessionVars, storeVars, challenges, req, stamp, shown>>

\* logout ends the session if it is still that of the cookie.
SignOut(r) ==
    /\ stage[r] = "logout"
    /\ session' = IF session # NULL /\ session.token = req[r].cookie THEN NULL ELSE session
    /\ Answer(r, "signed_out")
    /\ UNCHANGED <<clock, issued, storeVars, challenges, req, stamp, shown>>

---------------------------------------------------------------------------
(* Sign-in.                                                                *)

\* login_view, but for the redirect after a sign-in: a page with a new token
\* in its form and in its cookie.
LoginPage ==
    /\ challenges < MaxChallenges
    /\ challenges' = challenges + 1
    /\ UNCHANGED <<sessionVars, storeVars, stage, req, stamp, reply, shown>>

\* The form of one sign-in page with the cookie of the same or another.
PostLogin(c) ==
    /\ stage[c] = "idle"
    /\ \E headers \in Headers, cookie, field \in 0..challenges :
        \/ /\ RequireOrigin(headers) /\ cookie # 0 /\ field = cookie
           /\ Goto(c, "verifying")
        \/ /\ ~RequireOrigin(headers) \/ cookie = 0 \/ field # cookie
           /\ Goto(c, "done")
    /\ UNCHANGED <<sessionVars, storeVars, challenges, req, stamp, shown>>

\* AdminAuth's login succeeds, and the answer redirects to /admin ...
SignedIn(c) ==
    /\ stage[c] = "verifying"
    /\ Sessions!Issue(c)
    /\ Goto(c, "done")
    /\ UNCHANGED <<storeVars, challenges, req, stamp, shown>>

\* ... or fails, and the answer is a sign-in page again.
Refused(c) ==
    /\ stage[c] = "verifying"
    /\ Goto(c, "done")
    /\ challenges' = challenges + 1
    /\ UNCHANGED <<sessionVars, storeVars, req, stamp, shown>>

---------------------------------------------------------------------------
(* The rest of the process.                                                *)

\* A client goes away where its handler awaits.  A COMMIT on its way still runs.
Drop(r) ==
    /\ stage[r] \in {"dashboard", "generate", "revoke", "verifying"}
    /\ Goto(r, "lost")
    /\ \/ UNCHANGED <<clock, storeVars>>
       \/ stage[r] = "generate" /\ \E i \in Invites : GenerateInvite(i)
       \/ stage[r] = "revoke" /\ RevokeInvite(req[r].invite)
    /\ UNCHANGED <<session, issued, challenges, req, stamp, shown>>

\* A running cleanup ends with the process.
Restart ==
    /\ session' = NULL
    /\ sweep' = NULL
    /\ stage' = [r \in Requests \cup Calls |->
                    IF stage[r] \in {"idle", "done"} THEN stage[r] ELSE "lost"]
    /\ UNCHANGED <<clock, issued, invites, events, lastEvent, minted,
                   challenges, req, stamp, reply, shown>>

TimePasses == PassTime /\ UNCHANGED <<session, issued, webVars>>

\* Somebody redeems an invitation.
Redeem(i) == Consume(i) /\ UNCHANGED <<session, issued, webVars>>

\* The retention task.
Retain ==
    /\ SweepTick \/ SweepRun \/ SweepAborts
    /\ UNCHANGED <<session, issued, webVars>>

Handle(r) == Enter(r) \/ Dashboard(r) \/ Generate(r) \/ Revoke(r) \/ SignOut(r)

RoutesNext ==
    \/ TimePasses
    \/ LoginPage
    \/ \E c \in Calls : PostLogin(c) \/ SignedIn(c) \/ Refused(c) \/ Drop(c)
    \/ \E r \in Requests : Send(r) \/ Handle(r) \/ Drop(r)
    \/ \E i \in Invites : Redeem(i)
    \/ Retain
    \/ Restart

RoutesSpec == RoutesInit /\ [][RoutesNext]_routeVars

---------------------------------------------------------------------------
(* Properties.                                                             *)

Admitted(r) ==
    \/ stage[r] \in Routes
    \/ reply[r] \in {"page", "no_link", "link", "redirect", "signed_out"}

\* Nothing is done for a session that was over before the request was sent -
\* by its expiry, a newer sign-in, a sign-out or a restart - although the gate
\* is passed before the database is awaited and a session may end after it
\* (README.md:223-230).  What is done, is done for a cookie and a CSRF token
\* of one session and for the configured origin.
OnlyForLiveSessions ==
    \A r \in Requests : Admitted(r) =>
        /\ req[r].cookie \in issued
        /\ ~req[r].late
        /\ req[r].route # "dashboard" =>
            /\ req[r].csrf = req[r].cookie
            /\ req[r].headers.origin = Origin
            /\ req[r].headers.site # "cross-site"

\* "logout invalidates it on the server" (README.md:229): once the sign-out is
\* answered the token is never again a session's, in whatever order sign-ins
\* and sign-outs overlap.
SignedOutForGood ==
    \A r \in Requests : reply[r] = "signed_out" =>
        session = NULL \/ session.token # req[r].cookie

\* Disabling works: when the database does not fail, the invitation of an
\* answered revoke is of no use to anybody any more, also if it was redeemed or
\* deleted, or its session ended, between the gate and the write.
DisabledIsUseless ==
    \A r \in Requests : reply[r] = "redirect" =>
        LET row == invites[req[r].invite] IN
        row # NULL => ~\E t \in 0..MaxTime : Consumable(row, t)

\* What a page may still be relied on for, however old it is: an invitation it
\* shows as used is still recorded as used; one it shows as used, expired or
\* revoked is of no use from now on either; and if one it offers to disable is
\* there and cannot be disabled any more, the history tells why.  (Of a deleted
\* one there is neither row nor history, and retention also deletes active ones
\* that expire after the year 9999: see ActiveInvitesSurviveCleanup.)
PagesAgeWell ==
    \A r \in Requests : \A i \in DOMAIN shown[r] :
        LET row == invites[i] IN
        /\ shown[r][i] = "Used" => row # NULL /\ row.consumedAt # NULL
        /\ shown[r][i] # "Active" /\ row # NULL =>
                \A t \in clock..MaxTime : ~Consumable(row, t)
        /\ shown[r][i] = "Active" /\ row # NULL /\ ~Revocable(row) =>
                \E e \in events : e.invite = i /\ e.type \in {"consumed", "revoked"}
===========================================================================
