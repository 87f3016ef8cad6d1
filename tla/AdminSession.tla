---------------------------- MODULE AdminSession ----------------------------
(***************************************************************************)
(* What the sign-in promises to the routes that use it, without throttle,  *)
(* verification, threads or locks: there is at most one session; it begins *)
(* with a token that was never a session's before; it may end at any time, *)
(* and then its token is worth nothing for ever.                           *)
(* AdminAuth implements this; AdminRoutes builds on it.                    *)
(***************************************************************************)
EXTENDS Integers

CONSTANTS
    Calls,          \* sign-ins, each standing for the token it may obtain
    SessionLife,    \* SESSION_SECONDS
    MaxTime,        \* bound on the clock
    NULL

VARIABLES
    clock,
    session,        \* the session, or NULL
    issued          \* sign-ins that were given a token

sessionVars == <<clock, session, issued>>

SessionInit ==
    /\ clock = 0
    /\ session = NULL
    /\ issued = {}

Tick ==
    /\ clock < MaxTime
    /\ clock' = clock + 1
    /\ UNCHANGED <<session, issued>>

\* The instant of the new session may have been sampled some time ago.
Issue(c) ==
    /\ c \notin issued
    /\ \E at \in 0..clock : session' = [token |-> c, expires |-> at + SessionLife]
    /\ issued' = issued \cup {c}
    /\ UNCHANGED clock

End ==
    /\ session # NULL
    /\ session' = NULL
    /\ UNCHANGED <<clock, issued>>

SessionNext == Tick \/ End \/ \E c \in Calls : Issue(c)

SessionSpec == SessionInit /\ [][SessionNext]_sessionVars

\* A token that is not the session's any more never becomes it again.
EndedForGood ==
    [][\A c \in issued : (session = NULL \/ session.token # c) =>
            (session' = NULL \/ session'.token # c)]_sessionVars
===========================================================================
