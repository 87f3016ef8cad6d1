------------------------- MODULE AdminRoutesProofs -------------------------
(* What the gates of the admin routes guarantee for every number of        *)
(* sign-ins and requests, every cookie, form and header, and any delay.     *)
EXTENDS AdminRoutes, InviteStoreProofs

---------------------------------------------------------------------------
(* The routes use the session as AdminSession, and so AdminAuth, has it.    *)

LEMMA CurrentEnds ==
    ASSUME NEW at, session' = Current(at), UNCHANGED <<clock, issued>>
    PROVE  [Sessions!SessionNext]_sessionVars
BY DEF Current, Sessions!SessionNext, Sessions!End, sessionVars

LEMMA SessionStepOfRoutes == [RoutesNext]_routeVars => [Sessions!SessionNext]_sessionVars
<1> SUFFICES ASSUME [RoutesNext]_routeVars PROVE [Sessions!SessionNext]_sessionVars
    OBVIOUS
<1>1. CASE TimePasses
    BY <1>1 DEF TimePasses, PassTime, Sessions!SessionNext, Sessions!Tick
<1>2. CASE LoginPage \/ UNCHANGED routeVars
    BY <1>2 DEF LoginPage, routeVars
<1>3. ASSUME NEW c \in Calls, SignedIn(c) PROVE [Sessions!SessionNext]_sessionVars
    BY <1>3 DEF SignedIn, Sessions!SessionNext
<1>4. ASSUME NEW c \in Calls, PostLogin(c) \/ Refused(c) PROVE UNCHANGED sessionVars
    BY <1>4 DEF PostLogin, Refused
<1>5. ASSUME NEW r \in Requests, Enter(r) PROVE [Sessions!SessionNext]_sessionVars
    <2>1. UNCHANGED <<clock, issued>>
        BY <1>5 DEF Enter
    <2>2. PICK at : Look(req[r].cookie, at)
        BY <1>5 DEF Enter
    <2>3. QED BY <2>1, <2>2, CurrentEnds DEF Look, sessionVars
<1>6. ASSUME NEW r \in Requests, SignOut(r) PROVE [Sessions!SessionNext]_sessionVars
    BY <1>6 DEF SignOut, Sessions!SessionNext, Sessions!End, sessionVars
<1>7. ASSUME NEW r, Send(r) \/ Dashboard(r) \/ Generate(r) \/ Revoke(r) \/ Drop(r)
      PROVE  UNCHANGED sessionVars
    BY <1>7 DEF Send, Dashboard, Generate, Revoke, Drop, sessionVars, GenerateInvite,
                CreateInvite, RevokeInvite
<1>8. ASSUME NEW i \in Invites, Redeem(i) PROVE UNCHANGED sessionVars
    BY <1>8 DEF Redeem, Consume, ConsumeInvite, sessionVars
<1>9. CASE Restart
    BY <1>9 DEF Restart, Sessions!SessionNext, Sessions!End, sessionVars
<1>10. CASE Retain
    BY <1>10 DEF Retain, SweepTick, SweepRun, SweepAborts, sessionVars
<1>11. QED BY <1>1, <1>2, <1>3, <1>4, <1>5, <1>6, <1>7, <1>8, <1>9, <1>10 DEF RoutesNext, Handle

\* However requests, sign-ins, sign-outs and restarts overlap, the one session
\* behaves as AdminSession has it, which AdminAuth implements.
THEOREM RoutesKeepSession == RoutesSpec => Sessions!SessionSpec
<1>1. RoutesInit => Sessions!SessionInit
    BY DEF RoutesInit
<1>2. QED BY <1>1, SessionStepOfRoutes, PTL
          DEF RoutesSpec, Sessions!SessionSpec, sessionVars, Sessions!sessionVars

---------------------------------------------------------------------------
(* Types of the session and of the requests.                               *)

Stages == {"idle", "sent", "verifying", "done", "lost"} \cup Routes
Replies == {"none", "unauthorized", "forbidden", "page", "no_link", "link", "redirect", "signed_out"}

GateTypes ==
    /\ clock \in Nat
    /\ session \in [token : Calls, expires : Nat] \cup {NULL}
    /\ issued \subseteq Calls
    /\ stage \in [Requests \cup Calls -> Stages]
    /\ req \in [Requests -> Request \cup {NULL}]
    /\ reply \in [Requests -> Replies]
    /\ \A r \in Requests : stage[r] # "idle" => req[r] # NULL

\* What a step of one request or sign-in does to the others.
LEMMA OnlyItsOwn ==
    ASSUME GateTypes, NEW r \in Requests, Send(r) \/ Handle(r) \/ Drop(r)
    PROVE  /\ stage' \in [Requests \cup Calls -> Stages]
           /\ reply' \in [Requests -> Replies]
           /\ \A x \in Requests \ {r} : stage'[x] = stage[x] /\ reply'[x] = reply[x]
           /\ ~Send(r) => req' = req
           /\ UNCHANGED <<clock, issued>>
<1> USE DEF GateTypes, Stages, Replies, Routes
<1>1. \/ \E label \in Stages : Goto(r, label)
      \/ \E result \in Replies : Answer(r, result)
    <2>1. CASE Enter(r)
        <3>1. CASE Goto(r, req[r].route)
            <4>1. req[r] \in Request
                BY <2>1 DEF Enter
            <4>2. req[r].route \in Stages
                BY <4>1 DEF Request
            <4>3. QED BY <3>1, <4>2
        <3>2. QED BY <2>1, <3>1 DEF Enter
    <2>2. CASE Send(r) \/ Dashboard(r) \/ Generate(r) \/ Revoke(r) \/ SignOut(r) \/ Drop(r)
        BY <2>2 DEF Send, Dashboard, Generate, Revoke, SignOut, Drop
    <2>3. QED BY <2>1, <2>2 DEF Handle
<1>2. /\ stage' \in [Requests \cup Calls -> Stages]
      /\ reply' \in [Requests -> Replies]
      /\ \A x \in Requests \ {r} : stage'[x] = stage[x] /\ reply'[x] = reply[x]
    BY <1>1 DEF Goto, Answer
<1>3. ~Send(r) => req' = req
    BY DEF Handle, Enter, Dashboard, Generate, Revoke, SignOut, Drop
<1>4. UNCHANGED <<clock, issued>>
    BY DEF Handle, Send, Enter, Dashboard, Generate, Revoke, SignOut, Drop, sessionVars,
           GenerateInvite, CreateInvite, RevokeInvite
<1>5. QED BY <1>2, <1>3, <1>4

LEMMA GateTypeStep == GateTypes /\ [RoutesNext]_routeVars => GateTypes'
<1> SUFFICES ASSUME GateTypes, [RoutesNext]_routeVars PROVE GateTypes'
    OBVIOUS
<1>0. /\ SessionLife \in Nat /\ Requests \cap Calls = {}
      /\ NULL \notin Request \cup Calls
    BY RoutesAssumption
<1>1. /\ clock' \in Nat
      /\ session' \in [token : Calls, expires : Nat] \cup {NULL}
      /\ issued' \subseteq Calls
    <2>1. [Sessions!SessionNext]_sessionVars
        BY SessionStepOfRoutes
    <2>2. CASE \E c \in Calls : Sessions!Issue(c)
        BY <1>0, <2>2 DEF Sessions!Issue, GateTypes
    <2>3. CASE Sessions!Tick \/ Sessions!End \/ UNCHANGED sessionVars
        BY <2>3 DEF Sessions!Tick, Sessions!End, sessionVars, GateTypes
    <2>4. QED BY <2>1, <2>2, <2>3 DEF Sessions!SessionNext
<1>2. ASSUME UNCHANGED <<req, reply>>, stage' \in [Requests \cup Calls -> Stages],
             \A r \in Requests : stage'[r] # "idle" => stage[r] # "idle"
      PROVE  GateTypes'
    BY <1>1, <1>2 DEF GateTypes
<1>3. CASE TimePasses \/ LoginPage \/ Retain \/ UNCHANGED routeVars \/ \E i \in Invites : Redeem(i)
    BY <1>2, <1>3 DEF TimePasses, LoginPage, Retain, Redeem, routeVars, webVars, GateTypes
<1>4. ASSUME NEW c \in Calls, PostLogin(c) \/ SignedIn(c) \/ Refused(c) \/ Drop(c) PROVE GateTypes'
    <2>1. /\ \E label \in Stages : stage' = [stage EXCEPT ![c] = label]
          /\ UNCHANGED <<req, reply>>
        <3>1. CASE PostLogin(c) BY <3>1 DEF PostLogin, Goto, Stages
        <3>2. CASE SignedIn(c) BY <3>2 DEF SignedIn, Goto, Stages
        <3>3. CASE Refused(c) BY <3>3 DEF Refused, Goto, Stages
        <3>4. CASE Drop(c) BY <3>4 DEF Drop, Goto, Stages
        <3>5. QED BY <1>4, <3>1, <3>2, <3>3, <3>4
    <2>2. QED BY <1>0, <1>2, <2>1 DEF GateTypes
<1>5. ASSUME NEW r \in Requests, Send(r) PROVE GateTypes'
    <2>1. PICK new \in Request : req' = [req EXCEPT ![r] = new]
        <3>1. PICK route \in Routes, cookie \in issued \cup {NULL}, csrf \in issued \cup {NULL},
                   headers \in Headers, i \in Invites :
                req' = [req EXCEPT ![r] = Sent(route, cookie, csrf, headers, i)]
            BY <1>5 DEF Send
        <3>2. Sent(route, cookie, csrf, headers, i) \in Request
            <4> DEFINE late == cookie # NULL /\ Over(cookie)
            <4>1. late \in BOOLEAN
                OBVIOUS
            <4> HIDE DEF late
            <4>2. [route |-> route, cookie |-> cookie, csrf |-> csrf, headers |-> headers,
                   invite |-> i, sent |-> clock, late |-> late] \in Request
                BY <4>1 DEF Request, GateTypes
            <4>3. QED BY <4>2 DEF Sent, late
        <3>3. QED BY <3>1, <3>2
    <2>2. /\ stage' \in [Requests \cup Calls -> Stages]
          /\ reply' \in [Requests -> Replies]
          /\ \A x \in Requests \ {r} : stage'[x] = stage[x]
        BY <1>5, OnlyItsOwn
    <2>3. \A x \in Requests : stage'[x] # "idle" => req'[x] # NULL
        BY <1>0, <2>1, <2>2 DEF GateTypes
    <2>4. QED BY <1>1, <2>1, <2>2, <2>3 DEF GateTypes
<1>6. ASSUME NEW r \in Requests, Handle(r) \/ Drop(r) PROVE GateTypes'
    <2>1. stage[r] # "idle" /\ ~Send(r)
        BY <1>6 DEF Handle, Enter, Dashboard, Generate, Revoke, SignOut, Drop, Send
    <2>2. QED BY <1>1, <1>6, <2>1, OnlyItsOwn DEF GateTypes
<1>7. CASE Restart
    <2>1. stage' \in [Requests \cup Calls -> Stages]
        BY <1>7 DEF Restart, Stages, GateTypes
    <2>2. \A r \in Requests : stage'[r] # "idle" => stage[r] # "idle"
        BY <1>7 DEF Restart
    <2>3. QED BY <1>2, <1>7, <2>1, <2>2 DEF Restart
<1>8. QED BY <1>3, <1>4, <1>5, <1>6, <1>7 DEF RoutesNext

---------------------------------------------------------------------------
(* The gates.                                                              *)

\* The session of the cookie of r is over by the instant r was sent, for good.
Spent(r) ==
    /\ req[r].cookie # NULL
    /\ \/ session = NULL
       \/ session.token # req[r].cookie
       \/ session.expires <= req[r].sent

\* What OnlyForLiveSessions says of one request.
Deserved(r) ==
    /\ req[r].cookie \in issued
    /\ ~req[r].late
    /\ req[r].route # "dashboard" =>
        /\ req[r].csrf = req[r].cookie
        /\ req[r].headers.origin = Origin
        /\ req[r].headers.site # "cross-site"

Gated(r) ==
    /\ stage[r] \in {"idle", "sent"} => reply[r] = "none"
    /\ stage[r] # "idle" =>
        /\ req[r].sent <= clock
        /\ req[r].cookie \in issued \cup {NULL}
        /\ req[r].late => Spent(r)
    /\ Admitted(r) => Deserved(r)

\* Whatever else happens, what is known of a request stays true.
LEMMA GatedKept ==
    ASSUME GateTypes, [Sessions!SessionNext]_sessionVars, NEW r \in Requests, Gated(r),
           stage'[r] = stage[r], req'[r] = req[r], reply'[r] = reply[r]
    PROVE  Gated(r)'
<1>1. clock <= clock' /\ issued \subseteq issued'
    BY DEF Sessions!SessionNext, Sessions!Tick, Sessions!End, Sessions!Issue, sessionVars, GateTypes
<1>2. stage[r] # "idle" /\ Spent(r) => Spent(r)'
    <2>1. CASE \E c \in Calls : Sessions!Issue(c)
        <3>1. PICK c \in Calls : Sessions!Issue(c)
            BY <2>1
        <3>2. session'.token = c /\ c \notin issued
            BY <3>1 DEF Sessions!Issue
        <3>3. QED BY <3>2 DEF Spent, Gated
    <2>2. CASE Sessions!Tick \/ Sessions!End \/ UNCHANGED sessionVars
        BY <2>2 DEF Sessions!Tick, Sessions!End, sessionVars, Spent
    <2>3. QED BY <2>1, <2>2 DEF Sessions!SessionNext
<1>3. stage[r] # "idle" => req[r].sent \in Nat
    BY DEF GateTypes, Request
<1>4. clock \in Nat /\ clock' \in Nat
    BY DEF Sessions!SessionNext, Sessions!Tick, Sessions!End, Sessions!Issue, sessionVars, GateTypes
<1>5. QED BY <1>1, <1>2, <1>3, <1>4 DEF Gated, Admitted, Deserved

LEMMA SendIsGated ==
    ASSUME GateTypes, NEW r \in Requests, Gated(r), Send(r) PROVE Gated(r)'
<1>1. PICK route \in Routes, cookie \in issued \cup {NULL}, csrf \in issued \cup {NULL},
           headers \in Headers, i \in Invites :
        req' = [req EXCEPT ![r] = Sent(route, cookie, csrf, headers, i)]
    BY DEF Send
<1>2. /\ req'[r].cookie = cookie /\ req'[r].sent = clock
      /\ req'[r].late <=> cookie # NULL /\ Over(cookie)
    BY <1>1 DEF GateTypes, Sent
<1>3. stage'[r] = "sent" /\ reply'[r] = "none" /\ UNCHANGED sessionVars
    BY DEF Send, Goto, Gated, GateTypes
<1>4. clock \in Nat /\ (session # NULL => session.expires \in Nat)
    BY DEF GateTypes
<1>5. req'[r].late => Spent(r)'
    <2>1. session' = session /\ req'[r].sent = clock
        BY <1>2, <1>3 DEF sessionVars
    <2>2. session # NULL => (clock >= session.expires <=> session.expires <= clock)
        BY <1>4
    <2>3. QED BY <1>2, <2>1, <2>2 DEF Over, Spent
<1>6. ~Admitted(r)'
    BY <1>3 DEF Admitted, Routes
<1>7. QED BY <1>2, <1>3, <1>4, <1>5, <1>6 DEF Gated, sessionVars

\* A request that passes the gates deserves to.
LEMMA EnterIsGated ==
    ASSUME GateTypes, NEW r \in Requests, Gated(r), Enter(r) PROVE Gated(r)'
<1>1. PICK at \in req[r].sent..clock :
        /\ Look(req[r].cookie, at)
        /\ \/ /\ ~Admits(req[r].cookie, at)
              /\ Answer(r, "unauthorized")
           \/ /\ Admits(req[r].cookie, at)
              /\ req[r].route # "dashboard"
              /\ \/ ~RequireOrigin(req[r].headers)
                 \/ req[r].csrf # Current(at).token
              /\ Answer(r, "forbidden")
           \/ /\ Admits(req[r].cookie, at)
              /\ \/ req[r].route = "dashboard"
                 \/ /\ RequireOrigin(req[r].headers)
                    /\ req[r].csrf = Current(at).token
              /\ Goto(r, req[r].route)
    BY DEF Enter
<1>2. /\ stage[r] = "sent" /\ UNCHANGED <<clock, issued, req>>
      /\ req[r] \in Request /\ reply[r] = "none"
    BY DEF Enter, GateTypes, Gated
<1>3. req[r].route \in Routes /\ req[r].sent \in Nat /\ clock \in Nat /\ at \in Nat /\ req[r].sent <= at
    BY <1>1, <1>2 DEF Request, GateTypes
<1>4. req[r].late => Spent(r)'
    BY <1>1, <1>2 DEF Gated, Spent, Look, Current
<1>5. CASE (~Admits(req[r].cookie, at) /\ Answer(r, "unauthorized")) \/ Answer(r, "forbidden")
    <2>1. ~Admitted(r)' /\ stage'[r] = "done"
        BY <1>5 DEF Answer, Admitted, Routes, GateTypes
    <2>2. QED BY <1>2, <1>4, <2>1 DEF Gated
<1>6. CASE /\ Admits(req[r].cookie, at)
           /\ \/ req[r].route = "dashboard"
              \/ /\ RequireOrigin(req[r].headers)
                 /\ req[r].csrf = Current(at).token
           /\ Goto(r, req[r].route)
    <2>1. /\ req[r].cookie # NULL
          /\ session # NULL /\ session.token = req[r].cookie /\ session.expires \in Nat
          /\ ~(at >= session.expires)
          /\ Current(at) = session
        BY <1>6 DEF Admits, Current, GateTypes
    <2>2. ~req[r].late
        BY <1>2, <1>3, <2>1 DEF Gated, Spent
    <2>3. req[r].cookie \in issued
        BY <1>2, <2>1 DEF Gated
    <2>4. req[r].route # "dashboard" =>
            /\ req[r].csrf = req[r].cookie
            /\ req[r].headers.origin = Origin
            /\ req[r].headers.site # "cross-site"
        BY <1>6, <2>1 DEF RequireOrigin
    <2>5. Deserved(r)'
        BY <1>2, <2>2, <2>3, <2>4 DEF Deserved
    <2>6. stage'[r] = req[r].route
        BY <1>6 DEF Goto, GateTypes
    <2>7. stage'[r] \notin {"idle", "sent"}
        BY <1>3, <2>6 DEF Routes
    <2>8. QED BY <1>2, <1>4, <2>5, <2>7 DEF Gated
<1>7. QED BY <1>1, <1>5, <1>6

\* A handler past its gates, or a client that goes away.
LEMMA HandlerIsGated ==
    ASSUME GateTypes, NEW r \in Requests, Gated(r),
           Dashboard(r) \/ Generate(r) \/ Revoke(r) \/ SignOut(r) \/ Drop(r)
    PROVE  Gated(r)'
<1>1. /\ stage[r] \in Routes \cup {"verifying"}
      /\ stage'[r] \in {"done", "lost"}
      /\ reply'[r] # reply[r] => stage[r] \in Routes
      /\ UNCHANGED <<clock, issued, req>>
      /\ session' \in {session, NULL}
    BY DEF Dashboard, Generate, Revoke, SignOut, Drop, Goto, Answer, Routes, sessionVars, GateTypes,
           GenerateInvite, CreateInvite, RevokeInvite
<1>2. stage[r] # "idle"
    BY <1>1 DEF Routes
<1>3. req[r].late => Spent(r)'
    BY <1>1, <1>2 DEF Gated, Spent
<1>4. Admitted(r)' => Admitted(r)
    BY <1>1 DEF Admitted, Routes
<1>5. QED BY <1>1, <1>2, <1>3, <1>4 DEF Gated, Deserved

SignedOut(r) == reply[r] = "signed_out" => session = NULL \/ session.token # req[r].cookie

GateInv == \A r \in Requests : Gated(r) /\ SignedOut(r)

LEMMA GateStep == GateTypes /\ GateInv /\ [RoutesNext]_routeVars => GateInv'
<1> SUFFICES ASSUME GateTypes, GateInv, [RoutesNext]_routeVars, NEW r \in Requests
             PROVE  Gated(r)' /\ SignedOut(r)'
    BY DEF GateInv
<1>0. /\ Gated(r) /\ SignedOut(r) /\ [Sessions!SessionNext]_sessionVars
      /\ Requests \cap Calls = {} /\ NULL \notin Calls
    BY SessionStepOfRoutes, RoutesAssumption DEF GateInv
\* An answered sign-out: its token was issued, so no sign-in draws it again.
<1>1. ASSUME reply'[r] = reply[r], reply[r] = "signed_out" PROVE SignedOut(r)'
    <2>1. Deserved(r) /\ stage[r] \notin {"idle", "sent"}
        BY <1>0, <1>1 DEF Gated, Admitted
    <2>2. req'[r] = req[r]
        BY <1>1, <2>1, OnlyItsOwn
           DEF RoutesNext, TimePasses, LoginPage, Retain, PostLogin, SignedIn, Refused, Drop, Send, Handle,
               Redeem, Restart, webVars, routeVars, GateTypes
    <2>3. CASE \E c \in Calls : Sessions!Issue(c)
        <3>1. PICK c \in Calls : Sessions!Issue(c)
            BY <2>3
        <3>2. session'.token = c /\ c \notin issued
            BY <3>1 DEF Sessions!Issue
        <3>3. QED BY <2>1, <2>2, <3>2 DEF SignedOut, Deserved
    <2>4. CASE Sessions!Tick \/ Sessions!End \/ UNCHANGED sessionVars
        BY <1>0, <1>1, <2>2, <2>4 DEF Sessions!Tick, Sessions!End, sessionVars, SignedOut
    <2>5. QED BY <1>0, <2>3, <2>4 DEF Sessions!SessionNext
<1>2. ASSUME stage'[r] = stage[r], req'[r] = req[r], reply'[r] = reply[r]
      PROVE  Gated(r)' /\ SignedOut(r)'
    BY <1>0, <1>1, <1>2, GatedKept DEF SignedOut
<1>3. CASE TimePasses \/ LoginPage \/ Retain \/ UNCHANGED routeVars \/ \E i \in Invites : Redeem(i)
    BY <1>2, <1>3 DEF TimePasses, LoginPage, Retain, Redeem, routeVars, webVars
<1>4. ASSUME NEW c \in Calls, PostLogin(c) \/ SignedIn(c) \/ Refused(c) \/ Drop(c)
      PROVE  Gated(r)' /\ SignedOut(r)'
    <2>1. c # r
        BY <1>0
    <2>2. \E label : Goto(c, label)
        BY <1>4 DEF PostLogin, SignedIn, Refused, Drop
    <2>3. UNCHANGED req
        BY <1>4 DEF PostLogin, SignedIn, Refused, Drop
    <2>4. stage'[r] = stage[r] /\ reply'[r] = reply[r]
        BY <2>1, <2>2 DEF Goto, GateTypes
    <2>5. QED BY <1>2, <2>3, <2>4
<1>5. ASSUME NEW x \in Requests, Send(x) \/ Handle(x) \/ Drop(x), x # r
      PROVE  Gated(r)' /\ SignedOut(r)'
    <2>1. stage'[r] = stage[r] /\ reply'[r] = reply[r]
        BY <1>5, OnlyItsOwn
    <2>2. req'[r] = req[r]
        <3>1. CASE Send(x)
            BY <1>5, <3>1 DEF Send, GateTypes
        <3>2. CASE ~Send(x)
            BY <1>5, <3>2, OnlyItsOwn
        <3>3. QED BY <3>1, <3>2
    <2>3. QED BY <1>2, <2>1, <2>2
<1>6. ASSUME Send(r) \/ Handle(r) \/ Drop(r) PROVE Gated(r)' /\ SignedOut(r)'
    <2>1. Gated(r)'
        BY <1>0, <1>6, SendIsGated, EnterIsGated, HandlerIsGated DEF Handle
    <2>2. CASE SignOut(r)
        <3>1. /\ req' = req
              /\ session' = IF session # NULL /\ session.token = req[r].cookie THEN NULL ELSE session
            BY <2>2 DEF SignOut
        <3>2. session' = NULL \/ session'.token # req'[r].cookie
            BY <3>1
        <3>3. QED BY <2>1, <3>2 DEF SignedOut
    <2>3. CASE ~SignOut(r)
        <3>1. reply'[r] # "signed_out" \/ reply'[r] = reply[r]
            BY <1>6, <2>3 DEF Handle, Send, Enter, Dashboard, Generate, Revoke, Drop, Goto, Answer, GateTypes
        <3>2. CASE reply'[r] = reply[r] /\ reply[r] = "signed_out"
            BY <1>1, <2>1, <3>2
        <3>3. CASE reply'[r] # "signed_out"
            BY <2>1, <3>3 DEF SignedOut
        <3>4. QED BY <3>1, <3>2, <3>3
    <2>4. QED BY <2>1, <2>2, <2>3
<1>7. CASE Restart
    <2>1. /\ stage'[r] = IF stage[r] \in {"idle", "done"} THEN stage[r] ELSE "lost"
          /\ session' = NULL /\ UNCHANGED <<clock, issued, req, reply>>
        BY <1>7 DEF Restart
    <2>2. Admitted(r)' => Admitted(r)
        BY <2>1 DEF Admitted, Routes
    <2>3. Gated(r)'
        BY <1>0, <2>1, <2>2 DEF Gated, Deserved, Spent
    <2>4. QED BY <2>1, <2>3 DEF SignedOut
<1>8. QED BY <1>3, <1>4, <1>5, <1>6, <1>7 DEF RoutesNext

LEMMA GatesAlways == RoutesSpec => [](GateTypes /\ GateInv)
<1>1. RoutesInit => GateTypes /\ GateInv
    BY DEF RoutesInit, Sessions!SessionInit, GateTypes, Stages, Replies, GateInv, Gated, SignedOut, Admitted, Routes
<1>2. QED BY <1>1, GateTypeStep, GateStep, PTL DEF RoutesSpec

\* No request is admitted whose session was over when it was sent, or with a
\* form of another session or from another origin.
THEOREM AdmittedIsDeserved == RoutesSpec => []OnlyForLiveSessions
<1>1. GateInv => OnlyForLiveSessions
    BY DEF GateInv, Gated, Deserved, OnlyForLiveSessions
<1>2. QED BY <1>1, GatesAlways, PTL

\* Once a sign-out is answered, its token is never a session's again.
THEOREM SignOutIsFinal == RoutesSpec => []SignedOutForGood
<1>1. GateInv => SignedOutForGood
    BY DEF GateInv, SignedOut, SignedOutForGood
<1>2. QED BY <1>1, GatesAlways, PTL

---------------------------------------------------------------------------
(* The repository: the routes use it as InviteStore has it.                *)

\* A sign-in never stands where a request does.
SignInsApart == \A c \in Calls : stage[c] \in {"idle", "verifying", "done", "lost"}

LEMMA SignInsStep == GateTypes /\ SignInsApart /\ [RoutesNext]_routeVars => SignInsApart'
<1> SUFFICES ASSUME GateTypes, SignInsApart, [RoutesNext]_routeVars, NEW c \in Calls
             PROVE  stage'[c] \in {"idle", "verifying", "done", "lost"}
    BY DEF SignInsApart
<1>0. /\ stage \in [Requests \cup Calls -> Stages] /\ Requests \cap Calls = {}
      /\ stage[c] \in {"idle", "verifying", "done", "lost"}
    BY RoutesAssumption DEF GateTypes, SignInsApart
<1>1. CASE TimePasses \/ LoginPage \/ Retain \/ UNCHANGED routeVars \/ \E i \in Invites : Redeem(i)
    BY <1>0, <1>1 DEF TimePasses, LoginPage, Retain, Redeem, routeVars, webVars
<1>2. ASSUME NEW x \in Calls, PostLogin(x) \/ SignedIn(x) \/ Refused(x) \/ Drop(x)
      PROVE  stage'[c] \in {"idle", "verifying", "done", "lost"}
    <2>1. \E label \in {"verifying", "done", "lost"} : Goto(x, label)
        BY <1>2 DEF PostLogin, SignedIn, Refused, Drop
    <2>2. QED BY <1>0, <2>1 DEF Goto
<1>3. ASSUME NEW r \in Requests, Send(r) \/ Handle(r) \/ Drop(r) PROVE stage'[c] = stage[c]
    <2>1. \/ \E label : Goto(r, label)
          \/ \E result : Answer(r, result)
        BY <1>3 DEF Send, Handle, Enter, Dashboard, Generate, Revoke, SignOut, Drop
    <2>2. QED BY <1>0, <2>1 DEF Goto, Answer
<1>4. CASE Restart
    BY <1>0, <1>4 DEF Restart
<1>5. QED BY <1>0, <1>1, <1>2, <1>3, <1>4 DEF RoutesNext

\* Whatever the routes do to the repository is one of its own steps.
LEMMA StoreStepOfRoutes == GateTypes /\ SignInsApart /\ [RoutesNext]_routeVars => [Next]_vars
<1> SUFFICES ASSUME GateTypes, SignInsApart, [RoutesNext]_routeVars PROVE [Next]_vars
    OBVIOUS
<1>1. CASE TimePasses
    BY <1>1 DEF TimePasses, Next
<1>2. CASE LoginPage \/ UNCHANGED routeVars
    BY <1>2 DEF LoginPage, routeVars, sessionVars, storeVars, vars
<1>3. ASSUME NEW c \in Calls, PostLogin(c) \/ SignedIn(c) \/ Refused(c) PROVE UNCHANGED vars
    BY <1>3 DEF PostLogin, SignedIn, Refused, Sessions!Issue, sessionVars, storeVars, vars
<1>4. ASSUME NEW r \in Requests, Send(r) \/ Enter(r) \/ Dashboard(r) \/ SignOut(r)
      PROVE  UNCHANGED vars
    BY <1>4 DEF Send, Enter, Dashboard, SignOut, sessionVars, storeVars, vars
<1>5. ASSUME NEW r \in Requests, Generate(r) PROVE [Next]_vars
    BY <1>5 DEF Generate, Next, sessionVars, storeVars, vars
<1>6. ASSUME NEW r \in Requests, Revoke(r) \/ Drop(r) PROVE [Next]_vars
    <2>1. stage[r] = "revoke" => req[r].invite \in Invites
        BY DEF GateTypes, Request
    <2>2. QED BY <1>6, <2>1 DEF Revoke, Drop, Next, sessionVars, storeVars, vars
<1>7. ASSUME NEW c \in Calls, Drop(c) PROVE [Next]_vars
    BY <1>7 DEF Drop, SignInsApart, storeVars, vars
<1>8. ASSUME NEW i \in Invites, Redeem(i) PROVE [Next]_vars
    BY <1>8 DEF Redeem, Next
<1>9. CASE Retain
    BY <1>9 DEF Retain, Next
<1>10. CASE Restart
    <2>1. CASE sweep = NULL
        BY <1>10, <2>1 DEF Restart, vars
    <2>2. CASE sweep # NULL
        BY <1>10, <2>2 DEF Restart, Next, SweepAborts
    <2>3. QED BY <2>1, <2>2
<1>11. QED BY <1>1, <1>2, <1>3, <1>4, <1>5, <1>6, <1>7, <1>8, <1>9, <1>10 DEF RoutesNext, Handle

LEMMA RoutesTyped == RoutesSpec => [](GateTypes /\ SignInsApart)
<1>1. RoutesInit => SignInsApart
    BY DEF RoutesInit, SignInsApart
<1>2. QED BY <1>1, SignInsStep, GatesAlways, PTL DEF RoutesSpec

\* Whatever the browsers send and however requests overlap, the pages and forms
\* change the repository only by its own operations, so that all that is proved
\* of InviteStore holds here too.
THEOREM RoutesKeepStore == RoutesSpec => Spec
<1>1. RoutesInit => Init
    BY DEF RoutesInit
<1>2. QED BY <1>1, StoreStepOfRoutes, RoutesTyped, PTL DEF RoutesSpec, Spec

LEMMA StoreInvariants == RoutesSpec => [](TypeOK /\ RowsCoherent /\ HistoryMatches)
BY RoutesKeepStore, TypeCorrect, RowsStayCoherent, HistoryAgrees, PTL

\* A row that stays keeps its expiry, and does not come back into use.
LEMMA RowsStay ==
    ASSUME TypeOK, RowsCoherent, [Next]_vars, NEW i \in Invites,
           invites[i] # NULL, invites'[i] # NULL
    PROVE  /\ invites'[i].expiresAt = invites[i].expiresAt
           /\ ~Revocable(invites[i]) => invites'[i] = invites[i]
<1>0. i \in minted /\ NULL \notin Row /\ NULL \notin Nat
    BY NullApart DEF RowsCoherent
<1>1. CASE invites'[i] = invites[i]
    BY <1>1
<1>2. CASE PassTime \/ SweepTick \/ SweepRun \/ SweepAborts \/ UNCHANGED vars
    BY <1>2 DEF PassTime, SweepTick, SweepRun, SweepAborts, CleanupStale, vars
<1>3. ASSUME NEW j \in Invites, GenerateInvite(j) PROVE invites'[i] = invites[i]
    BY <1>0, <1>3, GenerateWrites
<1>4. ASSUME NEW j \in Invites, Consume(j)
      PROVE  /\ invites'[i].expiresAt = invites[i].expiresAt
             /\ ~Revocable(invites[i]) => invites'[i] = invites[i]
    <2>1. PICK at \in Nat, by \in Users : ConsumeInvite(j, at, by)
        BY <1>4, StampIsNat DEF Consume
    <2>2. Revocable(invites[j])
        BY <2>1 DEF ConsumeInvite, Consumable, Revocable
    <2>3. QED BY <1>0, <2>1, <2>2, ConsumeWrites, UsedRow
<1>5. ASSUME NEW j \in Invites, RevokeInvite(j)
      PROVE  /\ invites'[i].expiresAt = invites[i].expiresAt
             /\ ~Revocable(invites[i]) => invites'[i] = invites[i]
    BY <1>0, <1>5, RevokeWrites, RevokedRow
<1>6. QED BY <1>1, <1>2, <1>3, <1>4, <1>5 DEF Next

\* A used row stays, and a deleted one does not come back.
LEMMA RowsGo ==
    ASSUME TypeOK, RowsCoherent, [Next]_vars, NEW i \in Invites
    PROVE  /\ invites[i] # NULL /\ invites[i].consumedAt # NULL => invites'[i] = invites[i]
           /\ i \in minted /\ invites[i] = NULL => invites'[i] = NULL
           /\ i \in minted => i \in minted'
<1>1. Course(i)
    BY NextIsMove, CourseStep
<1>2. minted \subseteq minted'
    BY DEF Next, PassTime, GenerateInvite, CreateInvite, Consume, ConsumeInvite, RevokeInvite,
           SweepTick, SweepRun, SweepAborts, vars
<1>3. QED BY <1>1, <1>2 DEF Course

---------------------------------------------------------------------------
(* What was told of an invitation.                                         *)

\* Who is told that an invitation is disabled has passed the gates and asked for
\* one that was stored, and then nobody can use it.
Disabled(r) ==
    /\ reply[r] # "none" => stage[r] = "done"
    /\ stage[r] = "sent" /\ req[r].route = "revoke" => req[r].invite \in minted
    /\ stage[r] = "revoke" => req[r].invite \in minted
    /\ reply[r] = "redirect" =>
            /\ req[r].invite \in minted
            /\ invites[req[r].invite] # NULL => ~Revocable(invites[req[r].invite])

\* A row that is shown as used stays, and one that is shown as out of use is out
\* of use: used, revoked, past its expiry, or deleted.
Presented(r) ==
    \A i \in DOMAIN shown[r] :
        /\ i \in minted
        /\ shown[r][i] \in Status
        /\ shown[r][i] = "Used" => invites[i] # NULL /\ invites[i].consumedAt # NULL
        /\ shown[r][i] # "Active" /\ invites[i] # NULL =>
                ~Revocable(invites[i]) \/ invites[i].expiresAt <= clock

ViewTypes ==
    /\ challenges \in Nat
    /\ stamp \in [Requests -> Nat]
    /\ \A r \in Requests : stamp[r] <= clock
    /\ shown = [r \in Requests |-> shown[r]]

LEMMA ViewTypeStep ==
    GateTypes /\ ViewTypes /\ [RoutesNext]_routeVars => ViewTypes'
<1> SUFFICES ASSUME GateTypes, ViewTypes, [RoutesNext]_routeVars
             PROVE  ViewTypes'
    OBVIOUS
<1>1. clock \in Nat /\ clock' \in Nat /\ clock <= clock'
    BY SessionStepOfRoutes
       DEF Sessions!SessionNext, Sessions!Tick, Sessions!End, Sessions!Issue, sessionVars, GateTypes
<1>2. challenges' \in Nat
    BY DEF RoutesNext, TimePasses, LoginPage, Retain, PostLogin, SignedIn, Refused, Drop, Send, Handle, Enter,
           Dashboard, Generate, Revoke, SignOut, Redeem, Restart, webVars, routeVars, ViewTypes
<1>3. stamp' = stamp \/ \E r \in Requests : stamp' = [stamp EXCEPT ![r] = clock]
    BY DEF RoutesNext, TimePasses, LoginPage, Retain, PostLogin, SignedIn, Refused, Drop, Send, Handle, Enter,
           Dashboard, Generate, Revoke, SignOut, Redeem, Restart, webVars, routeVars
<1>4. stamp' \in [Requests -> Nat] /\ \A r \in Requests : stamp'[r] <= clock'
    BY <1>1, <1>3 DEF ViewTypes
<1>5. shown' = shown \/ \E r \in Requests : Dashboard(r)
    BY DEF RoutesNext, TimePasses, LoginPage, Retain, PostLogin, SignedIn, Refused, Drop, Send, Handle, Enter,
           Generate, Revoke, SignOut, Redeem, Restart, webVars, routeVars
<1>6. shown' = [r \in Requests |-> shown'[r]]
    BY <1>5 DEF Dashboard, ViewTypes
<1>7. QED BY <1>2, <1>4, <1>6 DEF ViewTypes

\* A page is drawn from rows that are stored, as of an instant that is not ahead.
LEMMA DashboardPresents ==
    ASSUME TypeOK, RowsCoherent, ViewTypes, NEW r \in Requests, Dashboard(r)
    PROVE  Presented(r)'
<1>1. PICK rows \in SUBSET Stored :
        shown' = [shown EXCEPT ![r] = [i \in rows |-> InviteStatus(invites[i], stamp[r])]]
    BY DEF Dashboard, ListRecent
<1>2. shown'[r] = [i \in rows |-> InviteStatus(invites[i], stamp[r])]
    BY <1>1 DEF ViewTypes
<1>3. UNCHANGED <<invites, minted, clock>> /\ stamp[r] \in Nat /\ stamp[r] <= clock /\ clock \in Nat
    BY DEF Dashboard, sessionVars, storeVars, ViewTypes, TypeOK
<1>4. ASSUME NEW i \in rows
      PROVE  LET status == InviteStatus(invites[i], stamp[r]) IN
             /\ status \in Status
             /\ status = "Used" => invites[i].consumedAt # NULL
             /\ status # "Active" => ~Revocable(invites[i]) \/ invites[i].expiresAt <= clock
    <2>1. invites[i] \in Row
        BY DEF Stored, TypeOK
    <2>2. invites[i].expiresAt \in Nat
        BY <2>1 DEF Row
    <2>3. CASE invites[i].revokedAt # NULL
        BY <2>3 DEF InviteStatus, Status, Revocable
    <2>4. CASE invites[i].revokedAt = NULL /\ invites[i].consumedAt # NULL
        BY <2>4 DEF InviteStatus, Status, Revocable
    <2>5. CASE invites[i].revokedAt = NULL /\ invites[i].consumedAt = NULL
        BY <1>3, <2>2, <2>5 DEF InviteStatus, Status
    <2>6. QED BY <2>3, <2>4, <2>5
<1>5. QED BY <1>2, <1>3, <1>4 DEF Presented, Stored, RowsCoherent

\* What a step of others leaves of a request and of its page.
LEMMA StillTold ==
    ASSUME TypeOK, RowsCoherent, ViewTypes, [Next]_vars, clock <= clock', clock \in Nat, clock' \in Nat,
           NEW r \in Requests
    PROVE  /\ shown'[r] = shown[r] /\ Presented(r) => Presented(r)'
           /\ /\ reply'[r] = reply[r] /\ req'[r] = req[r]
              /\ stage'[r] = stage[r] \/ (stage[r] # "done" /\ stage'[r] = "lost")
              /\ Disabled(r)
              => Disabled(r)'
<1>1. \A i \in minted :
        /\ i \in Invites /\ i \in minted'
        /\ invites[i] = NULL => invites'[i] = NULL
        /\ invites[i] # NULL /\ invites[i].consumedAt # NULL => invites'[i] = invites[i]
        /\ invites'[i] # NULL =>
            /\ invites[i] # NULL
            /\ invites'[i].expiresAt = invites[i].expiresAt
            /\ ~Revocable(invites[i]) => ~Revocable(invites'[i])
    BY RowsStay, RowsGo DEF TypeOK
<1>2. \A i \in Invites : invites[i] # NULL => invites[i].expiresAt \in Nat
    BY DEF TypeOK, Row
<1>3. ASSUME shown'[r] = shown[r], Presented(r), NEW i \in DOMAIN shown[r]
      PROVE  /\ i \in minted'
             /\ shown[r][i] \in Status
             /\ shown[r][i] = "Used" => invites'[i] # NULL /\ invites'[i].consumedAt # NULL
             /\ shown[r][i] # "Active" /\ invites'[i] # NULL =>
                    ~Revocable(invites'[i]) \/ invites'[i].expiresAt <= clock'
    <2>1. /\ i \in minted /\ shown[r][i] \in Status
          /\ shown[r][i] = "Used" => invites[i] # NULL /\ invites[i].consumedAt # NULL
          /\ shown[r][i] # "Active" /\ invites[i] # NULL =>
                    ~Revocable(invites[i]) \/ invites[i].expiresAt <= clock
        BY <1>3 DEF Presented
    <2>2. QED BY <1>1, <1>2, <2>1
<1>4. shown'[r] = shown[r] /\ Presented(r) => Presented(r)'
    BY <1>3 DEF Presented
<1>5. QED BY <1>1, <1>4 DEF Disabled

\* The answer of a revoke is true: whoever got there first, nobody can use the
\* invitation now.
LEMMA RevokeTells ==
    ASSUME "database" \notin Faults, TypeOK, GateTypes,
           NEW r \in Requests, Disabled(r), Revoke(r)
    PROVE  Disabled(r)'
<1> DEFINE i == req[r].invite
<1>1. stage[r] = "revoke" /\ i \in minted /\ UNCHANGED <<req, minted>>
    BY DEF Revoke, RevokeInvite, storeVars, Disabled
<1>2. i \in Invites
    BY <1>1 DEF TypeOK
<1>3. stage'[r] = "done" /\ reply'[r] = "redirect"
    BY DEF Revoke, Answer, GateTypes
<1>4. invites'[i] # NULL => ~Revocable(invites'[i])
    <2>1. CASE RevokeInvite(i)
        BY <1>2, <2>1, RevokeWrites, RevokedRow, NullApart DEF Revocable
    <2>2. CASE (invites[i] = NULL \/ ~Revocable(invites[i])) /\ UNCHANGED invites
        BY <2>2
    <2>3. QED BY <2>1, <2>2 DEF Revoke, storeVars
<1>5. QED BY <1>1, <1>3, <1>4 DEF Disabled

LEMMA EnterTells ==
    ASSUME GateTypes, NEW r \in Requests, Disabled(r), Enter(r) PROVE Disabled(r)'
<1>1. /\ stage[r] = "sent" /\ reply[r] = "none" /\ UNCHANGED <<req, minted, invites>>
      /\ req[r] \in Request
    BY DEF Enter, Disabled, storeVars, GateTypes
<1>2. \/ stage'[r] = "done" /\ reply'[r] \in {"unauthorized", "forbidden"}
      \/ stage'[r] = req[r].route /\ reply'[r] = "none"
    BY <1>1 DEF Enter, Goto, Answer, GateTypes
<1>3. req[r].route \in Routes
    BY <1>1 DEF Request
<1>4. QED BY <1>1, <1>2, <1>3 DEF Disabled, Routes

LEMMA OthersTell ==
    ASSUME TypeOK, GateTypes, NEW r \in Requests, Disabled(r),
           Send(r) \/ Dashboard(r) \/ Generate(r) \/ SignOut(r) \/ Drop(r)
    PROVE  Disabled(r)'
<1>1. CASE Send(r)
    <2>1. PICK route \in Routes, cookie \in issued \cup {NULL}, csrf \in issued \cup {NULL},
               headers \in Headers, i \in Invites :
            /\ route = "revoke" => i \in minted
            /\ req' = [req EXCEPT ![r] = Sent(route, cookie, csrf, headers, i)]
        BY <1>1 DEF Send
    <2>2. req'[r].route = route /\ req'[r].invite = i /\ minted' = minted
        BY <1>1, <2>1 DEF Send, Sent, storeVars, GateTypes
    <2>3. stage'[r] = "sent" /\ reply'[r] = "none"
        BY <1>1 DEF Send, Goto, Disabled, GateTypes
    <2>4. QED BY <2>1, <2>2, <2>3 DEF Disabled
<1>2. CASE Dashboard(r) \/ Generate(r) \/ SignOut(r) \/ Drop(r)
    <2>1. /\ stage[r] # "done"
          /\ \/ stage'[r] = "done" /\ reply'[r] \in {"page", "link", "no_link", "signed_out"}
             \/ stage'[r] = "lost" /\ reply'[r] = reply[r]
        BY <1>2 DEF Dashboard, Generate, SignOut, Drop, Goto, Answer, GateTypes
    <2>2. QED BY <2>1 DEF Disabled
<1>3. QED BY <1>1, <1>2

LEMMA ToldStep ==
    ASSUME "database" \notin Faults, TypeOK, RowsCoherent, GateTypes, ViewTypes,
           [Next]_vars, [RoutesNext]_routeVars,
           \A r \in Requests : Disabled(r)
    PROVE  \A r \in Requests : Disabled(r)'
<1> SUFFICES ASSUME NEW r \in Requests PROVE Disabled(r)'
    OBVIOUS
<1>0. /\ clock \in Nat /\ clock' \in Nat /\ clock <= clock'
      /\ Requests \cap Calls = {}
    BY RoutesAssumption, SessionStepOfRoutes
       DEF Sessions!SessionNext, Sessions!Tick, Sessions!End, Sessions!Issue, sessionVars, GateTypes
<1>1. CASE TimePasses \/ LoginPage \/ Retain \/ UNCHANGED routeVars \/ \E i \in Invites : Redeem(i)
    BY <1>0, <1>1, StillTold DEF TimePasses, LoginPage, Retain, Redeem, routeVars, webVars
<1>2. ASSUME NEW c \in Calls, PostLogin(c) \/ SignedIn(c) \/ Refused(c) \/ Drop(c)
      PROVE  Disabled(r)'
    <2>1. c # r /\ \E label : Goto(c, label)
        BY <1>0, <1>2 DEF PostLogin, SignedIn, Refused, Drop
    <2>2. UNCHANGED req
        BY <1>2 DEF PostLogin, SignedIn, Refused, Drop
    <2>3. stage'[r] = stage[r] /\ reply'[r] = reply[r]
        BY <2>1 DEF Goto, GateTypes
    <2>4. QED BY <1>0, <2>2, <2>3, StillTold
<1>3. ASSUME NEW x \in Requests \ {r}, Send(x) \/ Handle(x) \/ Drop(x) PROVE Disabled(r)'
    <2>1. stage'[r] = stage[r] /\ reply'[r] = reply[r]
        BY <1>3, OnlyItsOwn
    <2>2. req'[r] = req[r]
        BY <1>3, OnlyItsOwn DEF Send, GateTypes
    <2>3. QED BY <1>0, <2>1, <2>2, StillTold
<1>4. CASE Send(r) \/ Handle(r) \/ Drop(r)
    BY <1>4, RevokeTells, EnterTells, OthersTell DEF Handle
<1>5. CASE Restart
    <2>1. /\ stage'[r] = IF stage[r] \in {"idle", "done"} THEN stage[r] ELSE "lost"
          /\ UNCHANGED <<req, reply>>
        BY <1>5 DEF Restart
    <2>2. QED BY <1>0, <2>1, StillTold
<1>6. QED BY <1>1, <1>2, <1>3, <1>4, <1>5 DEF RoutesNext

LEMMA PresentedStep ==
    ASSUME TypeOK, RowsCoherent, GateTypes, ViewTypes, [Next]_vars, [RoutesNext]_routeVars,
           \A r \in Requests : Presented(r)
    PROVE  \A r \in Requests : Presented(r)'
<1> SUFFICES ASSUME NEW r \in Requests PROVE Presented(r)'
    OBVIOUS
<1>0. clock \in Nat /\ clock' \in Nat /\ clock <= clock'
    BY SessionStepOfRoutes
       DEF Sessions!SessionNext, Sessions!Tick, Sessions!End, Sessions!Issue, sessionVars, GateTypes
<1>1. CASE Dashboard(r)
    BY <1>1, DashboardPresents
<1>2. CASE ~Dashboard(r)
    <2>1. shown' = shown \/ \E x \in Requests : Dashboard(x)
        BY DEF RoutesNext, TimePasses, LoginPage, Retain, PostLogin, SignedIn, Refused, Drop, Send, Handle, Enter,
               Generate, Revoke, SignOut, Redeem, Restart, webVars, routeVars
    <2>2. shown'[r] = shown[r]
        BY <1>2, <2>1 DEF Dashboard, ViewTypes
    <2>3. QED BY <1>0, <2>2, StillTold
<1>3. QED BY <1>1, <1>2

---------------------------------------------------------------------------
(* The theorems about what was told.                                       *)

LEMMA ViewsTyped == RoutesSpec => []ViewTypes
<1>1. RoutesInit => ViewTypes
    BY RoutesAssumption DEF RoutesInit, Init, Sessions!SessionInit, ViewTypes
<1>2. QED BY <1>1, ViewTypeStep, StoreStepOfRoutes, StoreInvariants, RoutesTyped, PTL DEF RoutesSpec

LEMMA PagesArePresented == RoutesSpec => [](\A r \in Requests : Presented(r))
<1>1. RoutesInit => \A r \in Requests : Presented(r)
    BY DEF RoutesInit, Presented
<1>2. TypeOK /\ RowsCoherent /\ GateTypes /\ ViewTypes /\ [Next]_vars /\ [RoutesNext]_routeVars
        /\ (\A r \in Requests : Presented(r)) => (\A r \in Requests : Presented(r))'
    BY PresentedStep
<1>3. QED BY <1>1, <1>2, StoreStepOfRoutes, StoreInvariants, RoutesTyped, ViewsTyped, PTL DEF RoutesSpec

\* Every variable of the routes, the session and the repository keeps its type,
\* with failing databases and any number of requests.
THEOREM RoutesTypeCorrect == RoutesSpec => []RoutesTypeOK
<1>1. TypeOK /\ GateTypes /\ ViewTypes /\ (\A r \in Requests : Presented(r)) => RoutesTypeOK
    <2>1. TypeOK => minted \subseteq Invites
        BY DEF TypeOK
    <2>2. QED BY <2>1 DEF GateTypes, ViewTypes, Presented, Stages, Replies, RoutesTypeOK
<1>2. QED BY <1>1, StoreInvariants, RoutesTyped, ViewsTyped, PagesArePresented, PTL

\* When the database does not fail, an answered revoke means that nobody can use
\* the invitation any more, whatever happened between the gate and the write.
THEOREM RevokedIsUseless ==
    ASSUME "database" \notin Faults PROVE RoutesSpec => []DisabledIsUseless
<1>1. RoutesInit => \A r \in Requests : Disabled(r)
    BY DEF RoutesInit, Disabled
<1>2. TypeOK /\ RowsCoherent /\ GateTypes /\ ViewTypes /\ [Next]_vars /\ [RoutesNext]_routeVars
        /\ (\A r \in Requests : Disabled(r)) => (\A r \in Requests : Disabled(r))'
    BY ToldStep
<1>3. (\A r \in Requests : Disabled(r)) => DisabledIsUseless
    BY DEF Disabled, DisabledIsUseless, Revocable, Consumable
<1>4. QED BY <1>1, <1>2, <1>3, StoreStepOfRoutes, StoreInvariants, RoutesTyped, ViewsTyped, PTL
          DEF RoutesSpec

\* As long as the clock does not reach the year 10000, where text and instants
\* part, a page of any age can be relied on for what PagesAgeWell says, whatever
\* retention deleted since it was drawn.
THEOREM OldPagesAreTrue ==
    ASSUME MaxTime < Year10000 PROVE RoutesSpec => []PagesAgeWell
<1>1. TypeOK /\ HistoryMatches /\ (\A r \in Requests : Presented(r)) => PagesAgeWell
    <2> SUFFICES ASSUME TypeOK, HistoryMatches, NEW r \in Requests, Presented(r),
                        NEW i \in DOMAIN shown[r], invites[i] # NULL
                 PROVE  /\ shown[r][i] # "Active" =>
                              \A t \in clock..MaxTime : ~Consumable(invites[i], t)
                        /\ shown[r][i] = "Active" /\ ~Revocable(invites[i]) =>
                              \E e \in events : e.invite = i /\ e.type \in {"consumed", "revoked"}
        BY DEF PagesAgeWell, Presented
    <2>1. /\ i \in Invites /\ invites[i].expiresAt \in Nat
          /\ clock \in Nat /\ MaxTime \in Nat /\ Year10000 \in Nat
        BY StoreAssumption, YearAssumption DEF Presented, TypeOK, Row
    <2>2. ASSUME invites[i].expiresAt <= clock, NEW t \in clock..MaxTime
          PROVE  ~TextBefore(t, invites[i].expiresAt)
        BY <2>1, <2>2 DEF TextBefore, LongYear
    <2>3. shown[r][i] # "Active" => \A t \in clock..MaxTime : ~Consumable(invites[i], t)
        BY <2>2 DEF Presented, Revocable, Consumable
    <2>4. ~Revocable(invites[i]) => \E type \in Told(invites[i]) : type \in {"consumed", "revoked"}
        BY DEF Revocable, Told
    <2>5. QED BY <2>1, <2>3, <2>4 DEF HistoryMatches
<1>2. QED BY <1>1, StoreInvariants, PagesArePresented, PTL
===========================================================================
