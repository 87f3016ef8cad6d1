----------------------------- MODULE AdminAuth -----------------------------
(***************************************************************************)
(* The administrator's sign-in and session (AdminAuth in                   *)
(* src/admin_auth.rs): a login throttle and one session behind a mutex,    *)
(* and a semaphore that lets one password verification run at a time, on a *)
(* blocking thread of its own.                                             *)
(*                                                                         *)
(* Login calls run concurrently on several threads.  A call samples the    *)
(* clock, then waits for the mutex, so it may act on an older instant than *)
(* a call that came later; any delay is allowed.  Each critical section is *)
(* one action.  A login can be dropped only where it awaits the blocking   *)
(* thread, and that thread goes on without it.                             *)
(*                                                                         *)
(* A call stands for the token it may obtain: random_token never draws the *)
(* same token twice, so token and CSRF token are named by the call.        *)
(* Poisoning of the mutex is left out: no critical section can panic.      *)
(***************************************************************************)
EXTENDS Integers, FiniteSets

CONSTANTS
    Calls,          \* calls of login
    Kinds,          \* what they may present
    Configured,     \* is there a password hash at all
    Window,         \* LOGIN_WINDOW
    MaxAttempts,    \* MAX_ATTEMPTS
    SessionLife,    \* SESSION_SECONDS
    MaxDelay,       \* how old the instant of an admin request may be
    MaxTime,        \* bound on the clock
    NULL

VARIABLES
    clock,
    started,        \* window_started
    attempts,
    session,        \* the session, or NULL
    permits,        \* of the semaphore
    jobs,           \* calls whose closure runs on a blocking thread
    pc,             \* where each call stands
    kind,           \* what it presented
    now,            \* the instant it sampled
    answer,         \* what login returned
    admissions,     \* history: attempts counted since the process started
    windows,        \* history: how often the window was restarted since then
    admittedAt      \* history: when each call was counted since then, NULL if not

requestVars == <<pc, kind, now, answer>>
historyVars == <<admissions, windows, admittedAt>>
vars == <<clock, started, attempts, session, permits, jobs, requestVars, historyVars>>

\* The right name and password; the right password under another name; a
\* wrong password; one longer than 1024 bytes.
Kind == {"right", "misnamed", "wrong", "overlong"}

Session == [token : Calls, expires : Nat]

\* A call between its arrival and its answer.
Active == {"reserve", "acquire", "verifying", "verified", "panicked", "issue"}

ASSUME AdminAssumption ==
    /\ Kinds \subseteq Kind
    /\ Configured \in BOOLEAN
    /\ Window \in Nat \ {0}
    /\ MaxAttempts \in Nat \ {0}
    /\ SessionLife \in Nat
    /\ MaxDelay \in Nat
    /\ MaxTime \in Nat
    /\ NULL \notin Session
    /\ NULL \notin Nat

AdminTypeOK ==
    /\ clock \in Nat
    /\ started \in Nat
    /\ attempts \in 0..MaxAttempts
    /\ session \in Session \cup {NULL}
    /\ permits \in Nat
    /\ jobs \subseteq Calls
    /\ pc \in [Calls -> Active \cup {"idle", "done", "leaving", "dropped"}]
    /\ kind \in [Calls -> Kind]
    /\ now \in [Calls -> Nat]
    /\ answer \in [Calls -> {"none", "invalid", "throttled", "unavailable", "token"}]
    /\ admissions \in Nat
    /\ windows \in Nat
    /\ admittedAt \in [Calls -> Nat \cup {NULL}]

Init ==
    /\ clock = 0
    /\ started = 0
    /\ attempts = 0
    /\ session = NULL
    /\ permits = 1
    /\ jobs = {}
    /\ pc = [c \in Calls |-> "idle"]
    /\ kind \in [Calls -> Kinds]
    /\ now = [c \in Calls |-> 0]
    /\ answer = [c \in Calls |-> "none"]
    /\ admissions = 0
    /\ windows = 0
    /\ admittedAt = [c \in Calls |-> NULL]

---------------------------------------------------------------------------
Goto(c, label) == pc' = [pc EXCEPT ![c] = label] /\ UNCHANGED answer

Return(c, result) ==
    /\ pc' = [pc EXCEPT ![c] = "done"]
    /\ answer' = [answer EXCEPT ![c] = result]

Arrive(c) ==
    /\ pc[c] = "idle"
    /\ now' = [now EXCEPT ![c] = clock]
    /\ Goto(c, "reserve")
    /\ UNCHANGED <<clock, started, attempts, session, permits, jobs, kind, historyVars>>

\* reserve_attempt counted the call; login returns at once, or goes on.
Counted(c) ==
    /\ admissions' = admissions + 1
    /\ admittedAt' = [admittedAt EXCEPT ![c] = clock]
    /\ IF ~Configured \/ kind[c] = "overlong"
           THEN Return(c, "invalid")
           ELSE Goto(c, "acquire")

\* The window is over for c.  (duration_since is 0 for an instant before the
\* window's start, which is no difference here.)
WindowOver(c) == now[c] - started >= Window

\* Slips of Reserve: one attempt too many; a reset that forgets to move the
\* window; a refused attempt that moves it.
ReserveOneMore(c) ==
    LET over == WindowOver(c)
        used == IF over THEN 0 ELSE attempts
    IN
    /\ pc[c] = "reserve"
    /\ started' = IF over THEN now[c] ELSE started
    /\ windows' = IF over THEN windows + 1 ELSE windows
    /\ \/ used > MaxAttempts /\ Return(c, "throttled") /\ attempts' = used
          /\ UNCHANGED <<admissions, admittedAt>>
       \/ used <= MaxAttempts /\ Counted(c) /\ attempts' = used + 1
    /\ UNCHANGED <<clock, session, permits, jobs, kind, now>>

ReserveKeepsStart(c) ==
    LET over == WindowOver(c)
        used == IF over THEN 0 ELSE attempts
    IN
    /\ pc[c] = "reserve"
    /\ windows' = IF over THEN windows + 1 ELSE windows
    /\ \/ used >= MaxAttempts /\ Return(c, "throttled") /\ attempts' = used
          /\ UNCHANGED <<admissions, admittedAt>>
       \/ used < MaxAttempts /\ Counted(c) /\ attempts' = used + 1
    /\ UNCHANGED <<clock, started, session, permits, jobs, kind, now>>

ReserveExtends(c) ==
    LET over == WindowOver(c)
        used == IF over THEN 0 ELSE attempts
    IN
    /\ pc[c] = "reserve"
    /\ windows' = IF over THEN windows + 1 ELSE windows
    /\ \/ used >= MaxAttempts /\ Return(c, "throttled") /\ attempts' = used
          /\ started' = now[c]
          /\ UNCHANGED <<admissions, admittedAt>>
       \/ used < MaxAttempts /\ Counted(c) /\ attempts' = used + 1
          /\ started' = IF over THEN now[c] ELSE started
    /\ UNCHANGED <<clock, session, permits, jobs, kind, now>>

Reserve(c) ==
    LET over == WindowOver(c)
        used == IF over THEN 0 ELSE attempts
    IN
    /\ pc[c] = "reserve"
    /\ started' = IF over THEN now[c] ELSE started
    /\ windows' = IF over THEN windows + 1 ELSE windows
    /\ \/ /\ used >= MaxAttempts
          /\ attempts' = used
          /\ Return(c, "throttled")
          /\ UNCHANGED <<admissions, admittedAt>>
       \/ /\ used < MaxAttempts
          /\ attempts' = used + 1
          /\ Counted(c)
    /\ UNCHANGED <<clock, session, permits, jobs, kind, now>>

\* try_acquire_owned does not wait.  The permit moves into the closure.
Acquire(c) ==
    /\ pc[c] = "acquire"
    /\ \/ /\ permits > 0
          /\ permits' = permits - 1
          /\ jobs' = jobs \cup {c}
          /\ Goto(c, "verifying")
       \/ /\ permits = 0
          /\ Return(c, "throttled")
          /\ UNCHANGED <<permits, jobs>>
    /\ UNCHANGED <<clock, started, attempts, session, kind, now, historyVars>>

\* Slips of JobEnds: only a login still waiting returns the permit; a panic
\* of the closure is told to nobody.
JobEndsIfAwaited(c) ==
    /\ c \in jobs
    /\ jobs' = jobs \ {c}
    /\ permits' = IF pc[c] = "verifying" THEN permits + 1 ELSE permits
    /\ \/ pc[c] = "verifying" /\ Goto(c, "verified")
       \/ pc[c] # "verifying" /\ UNCHANGED <<pc, answer>>
    /\ UNCHANGED <<clock, started, attempts, session, kind, now, historyVars>>

JobEndsMutely(c) ==
    /\ c \in jobs
    /\ jobs' = jobs \ {c}
    /\ permits' = permits + 1
    /\ \/ pc[c] = "verifying" /\ Goto(c, "verified")
       \/ UNCHANGED <<pc, answer>>
    /\ UNCHANGED <<clock, started, attempts, session, kind, now, historyVars>>

\* The closure ends, by its result or by a panic, and drops the permit it
\* owns, whether or not its login still waits for it.
JobEnds(c) ==
    /\ c \in jobs
    /\ jobs' = jobs \ {c}
    /\ permits' = permits + 1
    /\ \/ pc[c] = "verifying" /\ \E label \in {"verified", "panicked"} : Goto(c, label)
       \/ pc[c] # "verifying" /\ UNCHANGED <<pc, answer>>
    /\ UNCHANGED <<clock, started, attempts, session, kind, now, historyVars>>

\* Slip of Resume: the name is not looked at.
ResumeIgnoringName(c) ==
    /\ \/ pc[c] = "panicked" /\ Return(c, "unavailable") /\ UNCHANGED now
       \/ pc[c] = "verified" /\ kind[c] = "wrong" /\ Return(c, "invalid") /\ UNCHANGED now
       \/ /\ pc[c] = "verified" /\ kind[c] # "wrong"
          /\ now' = [now EXCEPT ![c] = clock]
          /\ Goto(c, "issue")
    /\ UNCHANGED <<clock, started, attempts, session, permits, jobs, kind, historyVars>>

\* The await returns; the login fails, or samples the clock for its session.
Resume(c) ==
    /\ \/ /\ pc[c] = "panicked"
          /\ Return(c, "unavailable")
          /\ UNCHANGED now
       \/ /\ pc[c] = "verified"
          /\ kind[c] # "right"
          /\ Return(c, "invalid")
          /\ UNCHANGED now
       \/ /\ pc[c] = "verified"
          /\ kind[c] = "right"
          /\ now' = [now EXCEPT ![c] = clock]
          /\ Goto(c, "issue")
    /\ UNCHANGED <<clock, started, attempts, session, permits, jobs, kind, historyVars>>

\* Slip of IssueSession: a session that is there is prolonged, under its token.
IssueSessionAgain(c) ==
    /\ pc[c] = "issue"
    /\ session' = [token |-> IF session = NULL THEN c ELSE session.token,
                   expires |-> now[c] + SessionLife]
    /\ Return(c, "token")
    /\ UNCHANGED <<clock, started, attempts, permits, jobs, kind, now, historyVars>>

\* issue_session: whoever was signed in is not any more.
IssueSession(c) ==
    /\ pc[c] = "issue"
    /\ session' = [token |-> c, expires |-> now[c] + SessionLife]
    /\ Return(c, "token")
    /\ UNCHANGED <<clock, started, attempts, permits, jobs, kind, now, historyVars>>

\* Slip of Drop: the permit is owned by the future and dropped with it.
DropWithPermit(c) ==
    /\ pc[c] \in {"verifying", "verified", "panicked"}
    /\ permits' = IF c \in jobs THEN permits + 1 ELSE permits
    /\ Goto(c, "dropped")
    /\ UNCHANGED <<clock, started, attempts, session, jobs, kind, now, historyVars>>

\* The client goes away while the login awaits the blocking thread.
Drop(c) ==
    /\ pc[c] \in {"verifying", "verified", "panicked"}
    /\ Goto(c, "dropped")
    /\ UNCHANGED <<clock, started, attempts, session, permits, jobs, kind, now, historyVars>>

---------------------------------------------------------------------------
(* The session.                                                            *)

Instants == {t \in 0..clock : clock <= t + MaxDelay}

\* csrf_token_at clears an expired session, whatever token it is given.
Unexpired(at) ==
    IF session # NULL /\ at >= session.expires THEN NULL ELSE session

\* require_admin, with a token that is not the session's.
VisitInVain ==
    /\ \E at \in Instants : session' = Unexpired(at)
    /\ UNCHANGED <<clock, started, attempts, permits, jobs, requestVars, historyVars>>

\* POST /admin/logout passes require_admin_mutation with the token of c ...
EnterLogout(c) ==
    /\ pc[c] = "done"
    /\ \E at \in Instants :
        /\ session' = Unexpired(at)
        /\ session' # NULL
        /\ session'.token = c
    /\ Goto(c, "leaving")
    /\ UNCHANGED <<clock, started, attempts, permits, jobs, kind, now, historyVars>>

\* Slip of Logout: whatever session there is ends.
LogoutAnyone(c) ==
    /\ pc[c] = "leaving"
    /\ session' = NULL
    /\ Goto(c, "done")
    /\ UNCHANGED <<clock, started, attempts, permits, jobs, kind, now, historyVars>>

\* ... and takes the mutex again, to end the session if it still is its own.
Logout(c) ==
    /\ pc[c] = "leaving"
    /\ session' = IF session # NULL /\ session.token = c THEN NULL ELSE session
    /\ Goto(c, "done")
    /\ UNCHANGED <<clock, started, attempts, permits, jobs, kind, now, historyVars>>

---------------------------------------------------------------------------
PassTime ==
    /\ clock < MaxTime
    /\ clock' = clock + 1
    /\ UNCHANGED <<started, attempts, session, permits, jobs, requestVars, historyVars>>

\* The process ends and a new one starts: everything was in memory.
Restart ==
    /\ started' = clock
    /\ attempts' = 0
    /\ session' = NULL
    /\ permits' = 1
    /\ jobs' = {}
    /\ pc' = [c \in Calls |-> IF pc[c] \in Active \cup {"leaving"} THEN "dropped" ELSE pc[c]]
    /\ admissions' = 0
    /\ windows' = 0
    /\ admittedAt' = [c \in Calls |-> NULL]
    /\ UNCHANGED <<clock, kind, now, answer>>

Step(c) == Reserve(c) \/ Acquire(c) \/ Resume(c) \/ IssueSession(c)

Next ==
    \/ PassTime
    \/ \E c \in Calls : Arrive(c) \/ Step(c) \/ JobEnds(c) \/ Drop(c)
    \/ VisitInVain
    \/ \E c \in Calls : EnterLogout(c) \/ Logout(c)
    \/ Restart

Spec == Init /\ [][Next]_vars

\* The runtime polls what is ready, the mutex is released within a few
\* instructions, and a hash computation with bounded parameters ends.
FairSpec == Spec /\ \A c \in Calls : WF_vars(Step(c)) /\ WF_vars(JobEnds(c))

---------------------------------------------------------------------------
(* Properties.                                                             *)

\* One password verification runs at a time, also when logins are dropped
\* while theirs runs (README.md:232).
OneVerification == \A c, d \in jobs : c = d

\* The throttle holds over any time and for any delays between sampling the
\* clock and taking the mutex: no more than MaxAttempts attempts are counted
\* in each of the windows, and these are at least Window apart.
ThrottleHolds ==
    /\ admissions <= MaxAttempts * (windows + 1)
    /\ windows * Window <= clock

\* reserve_attempt refuses nobody without cause: MaxAttempts calls were counted
\* since Window before the instant of the refused one.  Being refused does not
\* prolong it ("Try again in one minute", admin_routes.rs:147).  The same answer
\* for a permit that is taken (admin_auth.rs:138) is not meant: it comes after
\* the counter, and needs no more than one other login.
ThrottledWithCause ==
    [][\A c \in Calls :
        pc[c] = "reserve" /\ pc'[c] = "done" /\ answer'[c] = "throttled" =>
            Cardinality({d \in Calls : /\ admittedAt[d] # NULL
                                       /\ admittedAt[d] > now[c] - Window}) >= MaxAttempts]_vars

\* The session belongs to a call that the throttle counted, that presented the
\* right name and password, whose verification ended, and that was answered.
SessionEarned ==
    session # NULL =>
        /\ Configured
        /\ kind[session.token] = "right"
        /\ admittedAt[session.token] # NULL
        /\ answer[session.token] = "token"
        /\ pc[session.token] \in {"done", "leaving"}
        /\ session.token \notin jobs

\* Nobody else signs the administrator out: a session that disappears without
\* a restart was replaced by a login with the right password, or expired, or
\* ended by a logout that showed its own token - a late logout of the session
\* before it does not count.
SessionEndsRightly ==
    [][session # NULL /\ session' # session =>
        \/ pc[session.token] = "leaving"
        \/ clock >= session.expires
        \/ /\ session' # NULL
           /\ kind[session'.token] = "right"
           /\ session'.expires <= clock + SessionLife
        \/ Restart]_vars

\* What the routes may rely on: one session, tokens that are used once.
Promise == INSTANCE AdminSession WITH issued <- {c \in Calls : answer[c] = "token"}
ImplementsSession == Promise!SessionSpec

\* A permit is never lost: it is there again and again, whatever is dropped or
\* panics while it is taken.
PermitReturns == []<>(permits > 0)

\* Every login call ends.
LoginEnds == \A c \in Calls : pc[c] \in Active ~> pc[c] \notin Active
===========================================================================
