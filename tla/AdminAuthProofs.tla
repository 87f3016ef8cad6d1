-------------------------- MODULE AdminAuthProofs --------------------------
(* What AdminAuth guarantees for every number of calls, limit and window.  *)
EXTENDS AdminAuth, FiniteSetTheorems, TLAPS

---------------------------------------------------------------------------
(* Type correctness.                                                       *)

\* Every action of a call keeps the types.
LEMMA AdminStepType ==
    ASSUME AdminTypeOK, NEW c \in Calls,
           Arrive(c) \/ Step(c) \/ JobEnds(c) \/ Drop(c) \/ EnterLogout(c) \/ Logout(c)
    PROVE  AdminTypeOK'
<1> USE AdminAssumption DEF AdminTypeOK, requestVars, historyVars, Goto, Return, Active
<1>1. CASE Arrive(c)
    BY <1>1 DEF Arrive
<1>2. CASE Reserve(c)
    <2>1. /\ started' \in Nat /\ windows' \in Nat
          /\ UNCHANGED <<clock, session, permits, jobs, kind, now>>
        BY <1>2 DEF Reserve
    <2>2. CASE Return(c, "throttled") /\ UNCHANGED <<admissions, admittedAt>>
        <3>1. attempts' \in 0..MaxAttempts
            BY <1>2 DEF Reserve
        <3>2. QED BY <2>1, <2>2, <3>1
    <2>3. CASE Counted(c)
        <3>1. attempts' \in 0..MaxAttempts
            BY <1>2 DEF Reserve
        <3>2. QED BY <2>1, <2>3, <3>1 DEF Counted
    <2>4. QED BY <1>2, <2>2, <2>3 DEF Reserve
<1>3. CASE Acquire(c)
    BY <1>3 DEF Acquire
<1>4. CASE Resume(c)
    BY <1>4 DEF Resume
<1>5. CASE IssueSession(c)
    <2>1. session' \in Session
        BY <1>5 DEF IssueSession, Session
    <2>2. QED BY <1>5, <2>1 DEF IssueSession
<1>6. CASE JobEnds(c)
    BY <1>6 DEF JobEnds
<1>7. CASE Drop(c)
    BY <1>7 DEF Drop
<1>8. CASE EnterLogout(c)
    BY <1>8 DEF EnterLogout, Unexpired
<1>9. CASE Logout(c)
    BY <1>9 DEF Logout
<1>10. QED BY <1>1, <1>2, <1>3, <1>4, <1>5, <1>6, <1>7, <1>8, <1>9 DEF Step

LEMMA AdminTypeStep == AdminTypeOK /\ [Next]_vars => AdminTypeOK'
<1> SUFFICES ASSUME AdminTypeOK, [Next]_vars PROVE AdminTypeOK'
    OBVIOUS
<1>1. CASE PassTime
    BY <1>1 DEF PassTime, AdminTypeOK, requestVars, historyVars
<1>2. CASE VisitInVain
    BY <1>2 DEF VisitInVain, Unexpired, AdminTypeOK, requestVars, historyVars
<1>3. CASE Restart
    <2>1. pc' \in [Calls -> Active \cup {"idle", "done", "leaving", "dropped"}]
        BY <1>3 DEF Restart, AdminTypeOK
    <2>2. QED BY <1>3, <2>1, AdminAssumption DEF Restart, AdminTypeOK
<1>4. CASE UNCHANGED vars
    BY <1>4 DEF vars, AdminTypeOK, requestVars, historyVars
<1>5. QED BY <1>1, <1>2, <1>3, <1>4, AdminStepType DEF Next

\* Type correctness of the sign-in; in particular the counter of attempts
\* never exceeds its limit.
THEOREM AdminTypeCorrect == Spec => []AdminTypeOK
<1>1. Init => AdminTypeOK
    BY AdminAssumption DEF Init, AdminTypeOK
<1>2. QED BY <1>1, AdminTypeStep, PTL DEF Spec

---------------------------------------------------------------------------
(* The semaphore.                                                          *)

\* The permit is there, or one closure owns it; and a closure's login awaits
\* it or was dropped.
PermitInv ==
    /\ \/ permits = 1 /\ jobs = {}
       \/ permits = 0 /\ \E c \in Calls : jobs = {c}
    /\ \A c \in jobs : pc[c] \in {"verifying", "dropped"}

LEMMA PermitStep == AdminTypeOK /\ PermitInv /\ [Next]_vars => PermitInv'
<1> SUFFICES ASSUME AdminTypeOK, PermitInv, [Next]_vars PROVE PermitInv'
    OBVIOUS
<1>0. pc \in [Calls -> Active \cup {"idle", "done", "leaving", "dropped"}] /\ jobs \subseteq Calls
    BY DEF AdminTypeOK
<1>1. CASE PassTime \/ VisitInVain \/ UNCHANGED vars
    BY <1>1 DEF PassTime, VisitInVain, vars, requestVars, PermitInv
<1>2. CASE Restart
    BY <1>2 DEF Restart, PermitInv
<1>3. ASSUME NEW c \in Calls, Acquire(c) PROVE PermitInv'
    BY <1>0, <1>3 DEF Acquire, Goto, Return, PermitInv
<1>4. ASSUME NEW c \in Calls, JobEnds(c) PROVE PermitInv'
    BY <1>0, <1>4 DEF JobEnds, Goto, PermitInv
<1>5. ASSUME NEW c \in Calls, Drop(c) PROVE PermitInv'
    BY <1>0, <1>5 DEF Drop, Goto, PermitInv
<1>6. ASSUME NEW c \in Calls,
             \/ Arrive(c) \/ Reserve(c) \/ Resume(c) \/ IssueSession(c)
             \/ EnterLogout(c) \/ Logout(c)
      PROVE  PermitInv'
    <2>1. /\ UNCHANGED <<permits, jobs>>
          /\ c \notin jobs
          /\ \A d \in Calls \ {c} : pc'[d] = pc[d]
        BY <1>0, <1>6 DEF Arrive, Reserve, Counted, Resume, IssueSession, EnterLogout, Logout, Goto,
                          Return, PermitInv
    <2>2. QED BY <1>0, <2>1 DEF PermitInv
<1>7. QED BY <1>1, <1>2, <1>3, <1>4, <1>5, <1>6 DEF Next, Step

LEMMA PermitAlways == Spec => []PermitInv
<1>1. Init => PermitInv
    BY DEF Init, PermitInv
<1>2. QED BY <1>1, PermitStep, AdminTypeCorrect, PTL DEF Spec

\* One password verification runs at a time, dropped logins or not.
THEOREM VerifiesOneAtATime == Spec => []OneVerification
<1>1. PermitInv => OneVerification
    BY DEF PermitInv, OneVerification
<1>2. QED BY <1>1, PermitAlways, PTL

---------------------------------------------------------------------------
(* The throttle.                                                           *)

\* What the windows behind the current one and the counter account for.
ThrottleInv ==
    /\ admissions <= MaxAttempts * windows + attempts
    /\ windows * Window <= started
    /\ started <= clock
    /\ \A c \in Calls : now[c] <= clock

\* A new window: the old one counted no more than the limit, and lasted Window.
LEMMA NextWindow ==
    ASSUME NEW m \in Nat, NEW w \in Nat, NEW n \in Nat, NEW a \in Nat, NEW k \in Nat,
           NEW s \in Nat, NEW t \in Nat,
           a <= m * n + k, k <= m, n * w <= s, t - s >= w
    PROVE  a <= m * (n + 1) /\ (n + 1) * w <= t
<1>1. m * (n + 1) = m * n + m /\ (n + 1) * w = n * w + w
    OBVIOUS
<1>2. m * n \in Nat /\ n * w \in Nat
    OBVIOUS
<1>3. QED BY <1>1, <1>2

LEMMA ThrottleStep == AdminTypeOK /\ ThrottleInv /\ [Next]_vars => ThrottleInv'
<1> SUFFICES ASSUME AdminTypeOK, ThrottleInv, [Next]_vars PROVE ThrottleInv'
    OBVIOUS
<1>0. /\ clock \in Nat /\ started \in Nat /\ attempts \in Nat /\ attempts <= MaxAttempts
      /\ admissions \in Nat /\ windows \in Nat /\ now \in [Calls -> Nat]
      /\ Window \in Nat /\ MaxAttempts \in Nat
    BY AdminAssumption DEF AdminTypeOK
<1>1. CASE PassTime
    BY <1>0, <1>1 DEF PassTime, ThrottleInv, requestVars, historyVars
<1>2. CASE Restart
    <2>1. MaxAttempts * 0 = 0 /\ 0 * Window = 0
        BY <1>0
    <2>2. QED BY <1>0, <1>2, <2>1 DEF Restart, ThrottleInv
<1>3. ASSUME NEW c \in Calls, Reserve(c) PROVE ThrottleInv'
    <2>1. UNCHANGED <<clock, now>>
        BY <1>3 DEF Reserve
    <2>2. CASE WindowOver(c)
        <3>1. /\ started' = now[c] /\ windows' = windows + 1
              /\ attempts' = 1 /\ admissions' = admissions + 1
            BY <1>0, <1>3, <2>2, AdminAssumption DEF Reserve, Counted
        <3>2. /\ admissions <= MaxAttempts * (windows + 1)
              /\ (windows + 1) * Window <= now[c]
            BY <1>0, <2>2, NextWindow DEF ThrottleInv, WindowOver
        <3>3. MaxAttempts * (windows + 1) \in Nat /\ now[c] \in Nat /\ now[c] <= clock
            BY <1>0 DEF ThrottleInv
        <3>4. admissions' <= MaxAttempts * windows' + attempts'
            BY <1>0, <3>1, <3>2, <3>3
        <3>5. QED BY <2>1, <3>1, <3>2, <3>3, <3>4 DEF ThrottleInv
    <2>3. CASE ~WindowOver(c)
        <3>1. /\ started' = started /\ windows' = windows
              /\ \/ attempts' = attempts /\ admissions' = admissions
                 \/ attempts' = attempts + 1 /\ admissions' = admissions + 1
            BY <1>3, <2>3 DEF Reserve, Counted
        <3>2. MaxAttempts * windows \in Nat
            BY <1>0
        <3>3. QED BY <1>0, <2>1, <3>1, <3>2 DEF ThrottleInv
    <2>4. QED BY <2>2, <2>3
<1>4. ASSUME NEW c \in Calls, Arrive(c) \/ Resume(c) PROVE ThrottleInv'
    <2>1. /\ UNCHANGED <<clock, started, attempts, admissions, windows>>
          /\ \A d \in Calls : now'[d] \in {now[d], clock}
        BY <1>0, <1>4 DEF Arrive, Resume, historyVars
    <2>2. QED BY <1>0, <2>1 DEF ThrottleInv
<1>5. ASSUME \/ VisitInVain \/ UNCHANGED vars
             \/ \E c \in Calls : \/ Acquire(c) \/ IssueSession(c) \/ JobEnds(c) \/ Drop(c)
                                 \/ EnterLogout(c) \/ Logout(c)
      PROVE  ThrottleInv'
    <2>1. UNCHANGED <<clock, started, attempts, admissions, windows, now>>
        BY <1>5 DEF VisitInVain, vars, requestVars, historyVars, Acquire, IssueSession, JobEnds, Drop,
                    EnterLogout, Logout
    <2>2. QED BY <2>1 DEF ThrottleInv
<1>6. QED BY <1>1, <1>2, <1>3, <1>4, <1>5 DEF Next, Step

\* However late a call takes the mutex, no window counts more than the limit
\* and the windows do not overlap.
THEOREM ThrottleAlwaysHolds == Spec => []ThrottleHolds
<1>1. Init => ThrottleInv
    <2>1. MaxAttempts * 0 = 0 /\ 0 * Window = 0
        BY AdminAssumption
    <2>2. QED BY <2>1 DEF Init, ThrottleInv
<1>2. AdminTypeOK /\ ThrottleInv => ThrottleHolds
    <2> SUFFICES ASSUME AdminTypeOK, ThrottleInv PROVE ThrottleHolds
        OBVIOUS
    <2>1. /\ clock \in Nat /\ started \in Nat /\ attempts \in Nat /\ attempts <= MaxAttempts
          /\ admissions \in Nat /\ windows \in Nat /\ Window \in Nat /\ MaxAttempts \in Nat
        BY AdminAssumption DEF AdminTypeOK
    <2>2. /\ MaxAttempts * (windows + 1) = MaxAttempts * windows + MaxAttempts
          /\ MaxAttempts * windows \in Nat /\ windows * Window \in Nat
        BY <2>1
    <2>3. QED BY <2>1, <2>2 DEF ThrottleInv, ThrottleHolds
<1>3. QED BY <1>1, <1>2, ThrottleStep, AdminTypeCorrect, PTL DEF Spec

\* The calls counted since the process started, and since an instant.
Admitted == {d \in Calls : admittedAt[d] # NULL}
AdmittedSince(t) == {d \in Calls : admittedAt[d] # NULL /\ admittedAt[d] >= t}

\* Every attempt of the window is a call of its own, counted after it started;
\* a call that was not yet at the counter was not counted.
CountedInv ==
    /\ IsFiniteSet(Admitted)
    /\ attempts <= Cardinality(AdmittedSince(started))
    /\ \A c \in Calls : pc[c] \in {"idle", "reserve"} => admittedAt[c] = NULL

LEMMA SinceFinite ==
    ASSUME CountedInv, NEW t
    PROVE  IsFiniteSet(AdmittedSince(t)) /\ Cardinality(AdmittedSince(t)) \in Nat
<1>1. AdmittedSince(t) \in SUBSET Admitted
    BY DEF AdmittedSince, Admitted
<1>2. IsFiniteSet(AdmittedSince(t))
    BY <1>1, FS_Subset, Zenon DEF CountedInv
<1>3. QED BY <1>2, FS_CardinalityType, Zenon

\* Who is counted is counted now, in addition to all who were.
LEMMA CountOne ==
    ASSUME AdminTypeOK, ThrottleInv, CountedInv, NEW c \in Calls, pc[c] = "reserve",
           admittedAt' = [admittedAt EXCEPT ![c] = clock]
    PROVE  /\ IsFiniteSet(Admitted')
           /\ \A t \in Nat : t <= clock =>
                 /\ Cardinality({d \in Calls : admittedAt'[d] # NULL /\ admittedAt'[d] >= t})
                        = Cardinality(AdmittedSince(t)) + 1
                 /\ Cardinality(AdmittedSince(t)) \in Nat
<1>0. /\ clock \in Nat /\ clock # NULL /\ admittedAt \in [Calls -> Nat \cup {NULL}]
      /\ admittedAt[c] = NULL
    BY AdminAssumption DEF AdminTypeOK, CountedInv
<1>1. IsFiniteSet(Admitted')
    <2>1. Admitted' = Admitted \cup {c}
        BY <1>0 DEF Admitted
    <2>2. QED BY <2>1, FS_AddElement, Zenon DEF CountedInv
<1>2. ASSUME NEW t \in Nat, t <= clock
      PROVE  /\ Cardinality({d \in Calls : admittedAt'[d] # NULL /\ admittedAt'[d] >= t})
                    = Cardinality(AdmittedSince(t)) + 1
             /\ Cardinality(AdmittedSince(t)) \in Nat
    <2>1. {d \in Calls : admittedAt'[d] # NULL /\ admittedAt'[d] >= t} = AdmittedSince(t) \cup {c}
        BY <1>0, <1>2 DEF AdmittedSince
    <2>2. c \notin AdmittedSince(t)
        BY <1>0 DEF AdmittedSince
    <2>3. IsFiniteSet(AdmittedSince(t)) /\ Cardinality(AdmittedSince(t)) \in Nat
        BY SinceFinite, Zenon
    <2>4. QED BY <2>1, <2>2, <2>3, FS_AddElement, Zenon
<1>3. QED BY <1>1, <1>2

LEMMA CountedStep ==
    AdminTypeOK /\ ThrottleInv /\ CountedInv /\ [Next]_vars => CountedInv'
<1> SUFFICES ASSUME AdminTypeOK, ThrottleInv, CountedInv, [Next]_vars PROVE CountedInv'
    OBVIOUS
<1>0. /\ clock \in Nat /\ started \in Nat /\ attempts \in Nat /\ attempts <= MaxAttempts
      /\ now \in [Calls -> Nat] /\ pc \in [Calls -> Active \cup {"idle", "done", "leaving", "dropped"}]
      /\ Window \in Nat /\ MaxAttempts \in Nat \ {0}
      /\ started <= clock /\ \A c \in Calls : now[c] <= clock
    BY AdminAssumption DEF AdminTypeOK, ThrottleInv
<1>1. ASSUME UNCHANGED <<started, attempts, admittedAt>>,
             \A c \in Calls : pc'[c] \in {"idle", "reserve"} => pc[c] \in {"idle", "reserve"}
      PROVE  CountedInv'
    BY <1>1 DEF CountedInv, Admitted, AdmittedSince
<1>2. CASE Restart
    <2>1. Admitted' = {} /\ attempts' = 0 /\ \A c \in Calls : admittedAt'[c] = NULL
        BY <1>2 DEF Restart, Admitted
    <2>2. AdmittedSince(started)' = {}
        BY <2>1 DEF AdmittedSince
    <2>3. QED BY <2>1, <2>2, FS_EmptySet DEF CountedInv
<1>3. ASSUME NEW c \in Calls, Reserve(c) PROVE CountedInv'
    <2>0. /\ pc[c] = "reserve"
          /\ started' = IF WindowOver(c) THEN now[c] ELSE started
          /\ \A d \in Calls : d # c => pc'[d] = pc[d]
          /\ pc'[c] \in {"done", "acquire"}
        BY <1>0, <1>3 DEF Reserve, Counted, Return, Goto
    <2>1. CASE answer'[c] = "throttled" /\ UNCHANGED admittedAt /\ ~WindowOver(c)
               /\ attempts' = attempts
        BY <1>1, <2>0, <2>1
    <2>2. CASE Counted(c) /\ attempts' = (IF WindowOver(c) THEN 0 ELSE attempts) + 1
        <3>1. admittedAt' = [admittedAt EXCEPT ![c] = clock]
            BY <2>2 DEF Counted
        <3>2. started' \in Nat /\ started' <= clock
            BY <1>0, <2>0
        <3>3. /\ IsFiniteSet(Admitted')
              /\ Cardinality(AdmittedSince(started)') = Cardinality(AdmittedSince(started')) + 1
              /\ Cardinality(AdmittedSince(started')) \in Nat
            BY <2>0, <3>1, <3>2, CountOne DEF AdmittedSince
        <3>4. WindowOver(c) \/ attempts <= Cardinality(AdmittedSince(started'))
            BY <2>0 DEF CountedInv
        <3>5. attempts' <= Cardinality(AdmittedSince(started)')
            BY <1>0, <2>2, <3>3, <3>4
        <3>6. \A d \in Calls : pc'[d] \in {"idle", "reserve"} => admittedAt'[d] = NULL
            BY <1>0, <2>0, <3>1 DEF CountedInv, AdminTypeOK
        <3>7. QED BY <3>3, <3>5, <3>6 DEF CountedInv
    <2>3. QED BY <1>0, <1>3, <2>1, <2>2 DEF Reserve, Return, AdminTypeOK
<1>4. ASSUME NEW c \in Calls,
             \/ Arrive(c) \/ Acquire(c) \/ Resume(c) \/ IssueSession(c)
             \/ JobEnds(c) \/ Drop(c) \/ EnterLogout(c) \/ Logout(c)
      PROVE  CountedInv'
    <2>1. UNCHANGED <<started, attempts, admittedAt>>
        BY <1>4 DEF Arrive, Acquire, Resume, IssueSession, JobEnds, Drop, EnterLogout, Logout,
                    historyVars
    <2>2. \A d \in Calls : pc'[d] \in {"idle", "reserve"} => pc[d] \in {"idle", "reserve"}
        BY <1>0, <1>4 DEF Arrive, Acquire, Resume, IssueSession, JobEnds, Drop, EnterLogout, Logout,
                          Goto, Return
    <2>3. QED BY <1>1, <2>1, <2>2
<1>5. CASE PassTime \/ VisitInVain \/ UNCHANGED vars
    <2>1. UNCHANGED <<started, attempts, admittedAt, pc>>
        BY <1>5 DEF PassTime, VisitInVain, vars, requestVars, historyVars
    <2>2. QED BY <1>1, <2>1
<1>6. QED BY <1>2, <1>3, <1>4, <1>5 DEF Next, Step

\* A login is refused only after as many calls as the limit allows were counted
\* within the last Window before it, by this process.
THEOREM RefusedWithCause == Spec => ThrottledWithCause
<1>1. Init => ThrottleInv /\ CountedInv
    <2>1. MaxAttempts * 0 = 0 /\ 0 * Window = 0
        BY AdminAssumption
    <2>2. Init => ThrottleInv
        BY <2>1 DEF Init, ThrottleInv
    <2> SUFFICES ASSUME Init PROVE CountedInv
        BY <2>2
    <2>3. Admitted = {} /\ AdmittedSince(started) = {}
        BY DEF Init, Admitted, AdmittedSince
    <2>4. QED BY <2>3, FS_EmptySet DEF Init, CountedInv
<1>2. AdminTypeOK /\ ThrottleInv /\ CountedInv /\ [Next]_vars =>
        [\A c \in Calls :
            pc[c] = "reserve" /\ pc'[c] = "done" /\ answer'[c] = "throttled" =>
                Cardinality({d \in Calls : /\ admittedAt[d] # NULL
                                           /\ admittedAt[d] > now[c] - Window}) >= MaxAttempts]_vars
    <2> SUFFICES ASSUME AdminTypeOK, ThrottleInv, CountedInv, Next, NEW c \in Calls,
                        pc[c] = "reserve", pc'[c] = "done", answer'[c] = "throttled"
                 PROVE  Cardinality({d \in Calls : /\ admittedAt[d] # NULL
                                                   /\ admittedAt[d] > now[c] - Window}) >= MaxAttempts
        OBVIOUS
    <2> DEFINE Lately == {d \in Calls : admittedAt[d] # NULL /\ admittedAt[d] > now[c] - Window}
    <2>0. /\ started \in Nat /\ attempts \in Nat /\ now[c] \in Nat
          /\ Window \in Nat \ {0} /\ MaxAttempts \in Nat \ {0}
          /\ admittedAt \in [Calls -> Nat \cup {NULL}]
        BY AdminAssumption DEF AdminTypeOK
    <2>1. Reserve(c)
        <3>0. pc \in [Calls -> Active \cup {"idle", "done", "leaving", "dropped"}]
            BY DEF AdminTypeOK
        <3>1. ~(PassTime \/ VisitInVain)
            BY DEF PassTime, VisitInVain, requestVars
        <3>2. ~Restart
            BY <3>0 DEF Restart, Active
        <3>3. PICK d \in Calls : \/ Arrive(d) \/ Reserve(d) \/ Acquire(d) \/ Resume(d) \/ IssueSession(d)
                                \/ JobEnds(d) \/ Drop(d) \/ EnterLogout(d) \/ Logout(d)
            BY <3>1, <3>2 DEF Next, Step
        <3>4. c = d
            BY <3>0, <3>3 DEF Arrive, Reserve, Acquire, Resume, IssueSession, JobEnds, Drop,
                              EnterLogout, Logout, Goto, Return, Counted
        <3>5. QED
            BY <3>0, <3>3, <3>4 DEF Arrive, Acquire, Resume, IssueSession, JobEnds, Drop,
                                    EnterLogout, Logout, Goto, Return
    <2>2. attempts >= MaxAttempts /\ started > now[c] - Window
        BY <2>0, <2>1 DEF Reserve, WindowOver, Counted, Return, Goto, AdminTypeOK
    <2>3. AdmittedSince(started) \in SUBSET Lately /\ Lately \in SUBSET Admitted
        BY <2>0, <2>2 DEF AdmittedSince, Admitted
    <2>4. IsFiniteSet(Lately) /\ Cardinality(Lately) \in Nat
        BY <2>3, FS_Subset, FS_CardinalityType, Zenon DEF CountedInv
    <2>5. Cardinality(AdmittedSince(started)) <= Cardinality(Lately)
        BY <2>3, <2>4, FS_Subset, Zenon
    <2>6. attempts <= Cardinality(AdmittedSince(started))
          /\ Cardinality(AdmittedSince(started)) \in Nat
        BY SinceFinite DEF CountedInv
    <2>7. Cardinality(Lately) >= MaxAttempts
        BY <2>0, <2>2, <2>4, <2>5, <2>6
    <2>8. QED BY <2>7
<1>3. QED BY <1>1, <1>2, ThrottleStep, CountedStep, AdminTypeCorrect, PTL
          DEF Spec, ThrottledWithCause

---------------------------------------------------------------------------
(* The session.                                                            *)

\* What a call has behind it, by where it stands.
Vetted(c) ==
    /\ pc[c] \in {"acquire", "verifying", "verified", "panicked", "issue"} =>
            Configured /\ admittedAt[c] # NULL
    /\ pc[c] = "issue" => kind[c] = "right"

SessionInv == SessionEarned /\ \A c \in Calls : Vetted(c)

LEMMA SessionStep == AdminTypeOK /\ PermitInv /\ SessionInv /\ [Next]_vars => SessionInv'
<1> SUFFICES ASSUME AdminTypeOK, PermitInv, SessionInv, [Next]_vars PROVE SessionInv'
    OBVIOUS
<1>0. /\ pc \in [Calls -> Active \cup {"idle", "done", "leaving", "dropped"}]
      /\ answer \in [Calls -> {"none", "invalid", "throttled", "unavailable", "token"}]
      /\ admittedAt \in [Calls -> Nat \cup {NULL}]
      /\ session # NULL => session.token \in Calls
      /\ clock \in Nat /\ NULL \notin Nat /\ NULL \notin Session
    BY AdminAssumption DEF AdminTypeOK, Session
<1>1. CASE PassTime \/ UNCHANGED vars
    BY <1>1 DEF PassTime, vars, requestVars, historyVars, SessionInv, SessionEarned, Vetted
<1>2. CASE VisitInVain
    BY <1>2 DEF VisitInVain, Unexpired, requestVars, historyVars, SessionInv, SessionEarned, Vetted
<1>3. CASE Restart
    BY <1>0, <1>3 DEF Restart, Active, SessionInv, SessionEarned, Vetted
<1>4. ASSUME NEW c \in Calls,
             Arrive(c) \/ Reserve(c) \/ Acquire(c) \/ JobEnds(c) \/ Resume(c) \/ Drop(c)
      PROVE  SessionInv'
    <2>1. /\ UNCHANGED <<session, kind>>
          /\ pc[c] \notin {"done", "leaving"} \/ UNCHANGED <<pc, answer>>
          /\ \A d \in Calls \ {c} : /\ pc'[d] = pc[d] /\ answer'[d] = answer[d]
                                    /\ admittedAt'[d] = admittedAt[d]
                                    /\ d \in jobs' => d \in jobs
        <3>1. CASE Arrive(c) \/ Reserve(c) \/ Acquire(c)
            BY <1>0, <3>1 DEF Arrive, Reserve, Counted, Acquire, Goto, Return, historyVars
        <3>2. CASE JobEnds(c) \/ Resume(c) \/ Drop(c)
            BY <1>0, <3>2 DEF JobEnds, Resume, Drop, Goto, Return, historyVars
        <3>3. QED BY <1>4, <3>1, <3>2
    <2>2. Vetted(c)'
        <3>1. Vetted(c)
            BY DEF SessionInv
        <3>2. CASE Reserve(c)
            BY <1>0, <3>2 DEF Reserve, Counted, Goto, Return, Vetted
        <3>3. CASE Arrive(c) \/ Acquire(c) \/ JobEnds(c) \/ Resume(c) \/ Drop(c)
            BY <1>0, <3>1, <3>3 DEF Arrive, Acquire, JobEnds, Resume, Drop, Goto, Return, historyVars,
                                    Vetted
        <3>4. QED BY <1>4, <3>2, <3>3
    <2>3. \A d \in Calls : Vetted(d)'
        BY <2>1, <2>2 DEF SessionInv, Vetted
    <2>4. SessionEarned'
        <3>1. CASE session = NULL
            BY <2>1, <3>1 DEF SessionEarned
        <3>2. CASE session # NULL /\ session.token # c
            BY <1>0, <2>1, <3>2 DEF SessionEarned, SessionInv
        <3>3. CASE session # NULL /\ session.token = c
            <4>1. pc[c] \in {"done", "leaving"} /\ c \notin jobs
                BY <3>3 DEF SessionEarned, SessionInv
            <4>2. FALSE
                BY <1>4, <4>1 DEF Arrive, Reserve, Acquire, JobEnds, Resume, Drop
            <4>3. QED BY <4>2
        <3>4. QED BY <3>1, <3>2, <3>3
    <2>5. QED BY <2>3, <2>4 DEF SessionInv
<1>5. ASSUME NEW c \in Calls, IssueSession(c) PROVE SessionInv'
    <2>1. /\ session'.token = c
          /\ pc[c] = "issue" /\ pc'[c] = "done" /\ answer'[c] = "token"
          /\ \A d \in Calls \ {c} : pc'[d] = pc[d]
          /\ UNCHANGED <<kind, jobs, admittedAt>>
        BY <1>0, <1>5 DEF IssueSession, Return, historyVars
    <2>2. Configured /\ admittedAt[c] # NULL /\ kind[c] = "right"
        BY <2>1 DEF SessionInv, Vetted
    <2>3. c \notin jobs
        BY <2>1 DEF PermitInv
    <2>4. \A d \in Calls : Vetted(d)'
        BY <2>1 DEF SessionInv, Vetted
    <2>5. QED BY <2>1, <2>2, <2>3, <2>4 DEF SessionInv, SessionEarned
<1>6. ASSUME NEW c \in Calls, EnterLogout(c) \/ Logout(c) PROVE SessionInv'
    <2>1. /\ session' \in {NULL, session}
          /\ pc[c] \in {"done", "leaving"} /\ pc'[c] \in {"done", "leaving"}
          /\ \A d \in Calls \ {c} : pc'[d] = pc[d]
          /\ UNCHANGED <<answer, kind, jobs, admittedAt>>
        BY <1>0, <1>6 DEF EnterLogout, Logout, Unexpired, Goto, historyVars
    <2>2. \A d \in Calls : Vetted(d)'
        BY <2>1 DEF SessionInv, Vetted
    <2>3. SessionEarned'
        BY <1>0, <2>1 DEF SessionInv, SessionEarned
    <2>4. QED BY <2>2, <2>3 DEF SessionInv
<1>7. QED BY <1>1, <1>2, <1>3, <1>4, <1>5, <1>6 DEF Next, Step

LEMMA SessionAlways == Spec => []SessionInv
<1>1. Init => SessionInv
    BY DEF Init, SessionInv, SessionEarned, Vetted
<1>2. QED BY <1>1, SessionStep, PermitAlways, AdminTypeCorrect, PTL DEF Spec

\* Only a counted login with the right name and password, not dropped, is signed in.
THEOREM SessionIsEarned == Spec => []SessionEarned
<1>1. SessionInv => SessionEarned
    BY DEF SessionInv
<1>2. QED BY <1>1, SessionAlways, PTL

\* A session ends by its own logout, by its expiry, by a restart, or by the
\* administrator's next login.
THEOREM SessionsEndRightly == Spec => SessionEndsRightly
<1>1. AdminTypeOK /\ ThrottleInv /\ SessionInv /\ [Next]_vars =>
        [session # NULL /\ session' # session =>
            \/ pc[session.token] = "leaving"
            \/ clock >= session.expires
            \/ /\ session' # NULL
               /\ kind[session'.token] = "right"
               /\ session'.expires <= clock + SessionLife
            \/ Restart]_vars
    <2> SUFFICES ASSUME AdminTypeOK, ThrottleInv, SessionInv, Next,
                        session # NULL, session' # session
                 PROVE  \/ pc[session.token] = "leaving"
                        \/ clock >= session.expires
                        \/ /\ session' # NULL
                           /\ kind[session'.token] = "right"
                           /\ session'.expires <= clock + SessionLife
                        \/ Restart
        OBVIOUS
    <2>0. clock \in Nat /\ session.expires \in Nat
        BY DEF AdminTypeOK, Session
    <2>1. CASE VisitInVain \/ \E c \in Calls : EnterLogout(c)
        BY <2>0, <2>1 DEF VisitInVain, EnterLogout, Unexpired, Instants
    <2>2. CASE \E c \in Calls : Logout(c)
        BY <2>2 DEF Logout
    <2>3. ASSUME NEW c \in Calls, IssueSession(c)
          PROVE  /\ session' # NULL
                 /\ kind[session'.token] = "right"
                 /\ session'.expires <= clock + SessionLife
        <3>1. session' \in Session /\ session'.token = c /\ session'.expires = now[c] + SessionLife
            BY <2>3, AdminAssumption DEF IssueSession, Session, AdminTypeOK
        <3>2. now[c] \in Nat /\ now[c] <= clock
            BY DEF ThrottleInv, AdminTypeOK
        <3>3. kind[c] = "right"
            BY <2>3 DEF IssueSession, SessionInv, Vetted
        <3>4. QED BY <2>0, <3>1, <3>2, <3>3, AdminAssumption
    <2>4. CASE PassTime \/ \E c \in Calls : \/ Arrive(c) \/ Reserve(c) \/ Acquire(c) \/ Resume(c)
                                            \/ JobEnds(c) \/ Drop(c)
        BY <2>4 DEF PassTime, Arrive, Reserve, Acquire, Resume, JobEnds, Drop
    <2>5. QED BY <2>1, <2>2, <2>3, <2>4 DEF Next, Step
<1>2. Init => ThrottleInv
    <2>1. MaxAttempts * 0 = 0 /\ 0 * Window = 0
        BY AdminAssumption
    <2>2. QED BY <2>1 DEF Init, ThrottleInv
<1>3. QED BY <1>1, <1>2, ThrottleStep, SessionAlways, AdminTypeCorrect, PTL
          DEF Spec, SessionEndsRightly

---------------------------------------------------------------------------
(* What the routes may rely on.                                            *)

\* A call that was answered is over.
AnsweredInv == \A c \in Calls : answer[c] # "none" => pc[c] \in {"done", "leaving", "dropped"}

LEMMA AnsweredStep == AdminTypeOK /\ AnsweredInv /\ [Next]_vars => AnsweredInv'
<1> SUFFICES ASSUME AdminTypeOK, AnsweredInv, [Next]_vars PROVE AnsweredInv'
    OBVIOUS
<1>0. /\ pc \in [Calls -> Active \cup {"idle", "done", "leaving", "dropped"}]
      /\ answer \in [Calls -> {"none", "invalid", "throttled", "unavailable", "token"}]
    BY DEF AdminTypeOK
<1>1. CASE PassTime \/ VisitInVain \/ UNCHANGED vars
    BY <1>1 DEF PassTime, VisitInVain, vars, requestVars, AnsweredInv
<1>2. CASE Restart
    BY <1>0, <1>2 DEF Restart, Active, AnsweredInv
<1>3. ASSUME NEW c \in Calls,
             Arrive(c) \/ Step(c) \/ JobEnds(c) \/ Drop(c) \/ EnterLogout(c) \/ Logout(c)
      PROVE  AnsweredInv'
    <2>1. \A d \in Calls \ {c} : pc'[d] = pc[d] /\ answer'[d] = answer[d]
        BY <1>0, <1>3 DEF Arrive, Step, Reserve, Counted, Acquire, Resume, IssueSession, JobEnds, Drop,
                          EnterLogout, Logout, Goto, Return
    <2>2. CASE Arrive(c) \/ Step(c) \/ Drop(c) \/ EnterLogout(c) \/ Logout(c)
        <3>1. answer'[c] # "none" => pc'[c] \in {"done", "leaving", "dropped"}
            BY <1>0, <2>2 DEF Arrive, Step, Reserve, Counted, Acquire, Resume, IssueSession, Drop,
                              EnterLogout, Logout, Goto, Return, AnsweredInv
        <3>2. QED BY <2>1, <3>1 DEF AnsweredInv
    <2>3. CASE JobEnds(c)
        <3>1. answer'[c] # "none" => pc'[c] \in {"done", "leaving", "dropped"}
            BY <1>0, <2>3 DEF JobEnds, Goto, AnsweredInv
        <3>2. QED BY <2>1, <3>1 DEF AnsweredInv
    <2>4. QED BY <1>3, <2>2, <2>3
<1>4. QED BY <1>1, <1>2, <1>3 DEF Next

\* A step that issues no session at most ends the one there is.
LEMMA EndsOrStays ==
    ASSUME AdminTypeOK, session' \in {session, NULL}, UNCHANGED clock,
           \A c \in Calls : answer'[c] = "token" <=> answer[c] = "token"
    PROVE  [Promise!SessionNext]_(Promise!sessionVars)
<1>1. {c \in Calls : answer'[c] = "token"} = {c \in Calls : answer[c] = "token"}
    OBVIOUS
<1>2. CASE session' = session
    BY <1>1, <1>2 DEF Promise!sessionVars
<1>3. CASE session' = NULL /\ session # NULL
    BY <1>1, <1>3 DEF Promise!SessionNext, Promise!End
<1>4. QED BY <1>2, <1>3

LEMMA PromiseStep ==
    AdminTypeOK /\ ThrottleInv /\ AnsweredInv /\ [Next]_vars =>
        [Promise!SessionNext]_(Promise!sessionVars)
<1> SUFFICES ASSUME AdminTypeOK, ThrottleInv, AnsweredInv, [Next]_vars
             PROVE  [Promise!SessionNext]_(Promise!sessionVars)
    OBVIOUS
<1>0. /\ pc \in [Calls -> Active \cup {"idle", "done", "leaving", "dropped"}]
      /\ answer \in [Calls -> {"none", "invalid", "throttled", "unavailable", "token"}]
      /\ now \in [Calls -> Nat] /\ clock \in Nat
    BY DEF AdminTypeOK
<1>1. CASE PassTime
    BY <1>1 DEF PassTime, requestVars, Promise!SessionNext, Promise!Tick
<1>2. CASE VisitInVain \/ Restart \/ UNCHANGED vars
    BY <1>2, EndsOrStays DEF VisitInVain, Unexpired, Restart, vars, requestVars
<1>3. ASSUME NEW c \in Calls, IssueSession(c) PROVE Promise!Issue(c)
    <2>1. answer[c] # "token"
        BY <1>3 DEF IssueSession, AnsweredInv
    <2>2. answer' = [answer EXCEPT ![c] = "token"]
        BY <1>3 DEF IssueSession, Return
    <2>3. {d \in Calls : answer'[d] = "token"} = {d \in Calls : answer[d] = "token"} \cup {c}
        BY <1>0, <2>2
    <2>4. /\ now[c] \in 0..clock /\ clock' = clock
          /\ session' = [token |-> c, expires |-> now[c] + SessionLife]
        BY <1>0, <1>3 DEF IssueSession, ThrottleInv
    <2>5. QED BY <2>1, <2>3, <2>4 DEF Promise!Issue
<1>4. ASSUME NEW c \in Calls,
             \/ Arrive(c) \/ Reserve(c) \/ Acquire(c) \/ Resume(c)
             \/ JobEnds(c) \/ Drop(c) \/ EnterLogout(c) \/ Logout(c)
      PROVE  [Promise!SessionNext]_(Promise!sessionVars)
    <2>1. session' \in {session, NULL} /\ UNCHANGED clock
        BY <1>4 DEF Arrive, Reserve, Acquire, Resume, JobEnds, Drop, EnterLogout, Logout, Unexpired
    <2>2. \A d \in Calls : answer'[d] = "token" <=> answer[d] = "token"
        <3>1. CASE Arrive(c) \/ JobEnds(c) \/ Drop(c) \/ EnterLogout(c) \/ Logout(c)
            BY <3>1 DEF Arrive, JobEnds, Drop, EnterLogout, Logout, Goto
        <3>2. CASE Reserve(c) \/ Acquire(c) \/ Resume(c)
            <4>1. pc[c] \notin {"done", "leaving", "dropped"}
                BY <3>2 DEF Reserve, Acquire, Resume
            <4>2. answer[c] = "none"
                BY <4>1 DEF AnsweredInv
            <4>3. answer' = answer \/ \E result \in {"invalid", "throttled", "unavailable"} :
                        answer' = [answer EXCEPT ![c] = result]
                BY <3>2 DEF Reserve, Counted, Acquire, Resume, Goto, Return
            <4>4. QED BY <1>0, <4>2, <4>3
        <3>3. QED BY <1>4, <3>1, <3>2
    <2>3. QED BY <2>1, <2>2, EndsOrStays
<1>5. QED BY <1>1, <1>2, <1>3, <1>4 DEF Next, Step, Promise!SessionNext

\* Throttle, threads and locks implement what the routes rely on: one session
\* at a time, and no token that is given out twice.
THEOREM AuthImplementsSession == Spec => ImplementsSession
<1>1. Init => Promise!SessionInit
    BY DEF Init, Promise!SessionInit
<1>2. Init => AnsweredInv /\ ThrottleInv
    <2>1. MaxAttempts * 0 = 0 /\ 0 * Window = 0
        BY AdminAssumption
    <2>2. QED BY <2>1 DEF Init, AnsweredInv, ThrottleInv
<1>3. QED BY <1>1, <1>2, AnsweredStep, ThrottleStep, PromiseStep, AdminTypeCorrect, PTL
          DEF Spec, ImplementsSession, Promise!SessionSpec
===========================================================================
