--------------------------- MODULE StartupProofs ---------------------------
(* What a start guarantees for any number of processes on one data          *)
(* directory, any settings and edits of them, and any number of faults.     *)
EXTENDS Startup, TLAPS

---------------------------------------------------------------------------
(* Settings.                                                               *)

\* What is loaded is typed, unless the port is not a number.
LEMMA LoadedSettings ==
    ASSUME NEW f \in Layer, NEW e \in Layer, Layered(f, e).port # Garbage
    PROVE  Layered(f, e) \in Settings
<1> DEFINE s == Layered(f, e)
<1>1. s.username \in {Empty} \cup Names
    <2>1. /\ e.username \in {NULL, Empty} \cup Names
          /\ f.username \in {NULL, Empty} \cup Names
        BY DEF Layer
    <2>2. Reparsed(e.username) \in {NULL, Empty} \cup Names
        BY <2>1 DEF Reparsed, Names
    <2>3. Over(f.username, Default.username) \in {Empty} \cup Names
        BY <2>1 DEF Over, Default, Names
    <2>4. QED BY <2>2, <2>3 DEF Layered, Over
<1>2. s.hash \in {Empty, Garbage} \cup Hash
    BY StartupAssumption DEF Layered, Layer, Over, Default
<1>3. s.origin \in {Empty, Garbage} \cup Url
    BY StartupAssumption DEF Layered, Layer, Over, Default
<1>4. s.port \in Nat
    BY StartupAssumption DEF Layered, Layer, Over, Default
<1>5. s = [username |-> s.username, hash |-> s.hash, origin |-> s.origin, port |-> s.port]
    BY DEF Layered
<1>6. QED BY <1>1, <1>2, <1>3, <1>4, <1>5 DEF Settings

LEMMA PrintedHash ==
    ASSUME NEW length \in Nat
    PROVE  /\ HashPassword(length) \in Hash
           /\ HashPassword(length).of = length
           /\ AcceptsHash(HashPassword(length))
<1>1. HashPassword(length) \in Hash
    BY DEF HashPassword, Hash
<1>2. HashPassword(length) \in StrongHash
    BY <1>1 DEF HashPassword, StrongHash
<1>3. HashPassword(length).of = length
    BY DEF HashPassword
<1>4. QED BY <1>1, <1>2, <1>3 DEF AcceptsHash

LEMMA AcceptedHash ==
    ASSUME NEW hash, hash # Empty, AcceptsHash(hash)
    PROVE  hash.variant = "argon2id" /\ hash.version = 19 /\ hash.iterations >= 2
BY DEF AcceptsHash, StrongHash

LEMMA NothingIsALayer == Nothing \in Layer
BY DEF Nothing, Layer

---------------------------------------------------------------------------
(* The steps of one process.                                               *)

\* Only p moves, and the operator's settings stay.
Alone(p) ==
    /\ UNCHANGED <<file, env, given>>
    /\ \A q \in Procs \ {p} :
        stage'[q] = stage[q] /\ settings'[q] = settings[q] /\ listed'[q] = listed[q]
            /\ why'[q] = why[q]

LEMMA StepIsAlone ==
    ASSUME StartupTypeOK, NEW p \in Procs, Step(p) \/ Die(p)
    PROVE  Alone(p)
<1> USE DEF Pass, Stop, Alone, StartupTypeOK
<1>1. CASE SyncAssets(p) \/ CreateDirectory(p) \/ Connect(p) \/ SpawnCleanup(p) \/ BuildRouter(p)
    BY <1>1 DEF SyncAssets, CreateDirectory, Connect, SpawnCleanup, BuildRouter
<1>2. CASE Load(p)
    BY <1>2 DEF Load
<1>3. CASE CheckSettings(p)
    BY <1>3 DEF CheckSettings
<1>4. CASE ListApplied(p) \/ Apply(p)
    BY <1>4 DEF ListApplied, Apply
<1>5. CASE Start(p) \/ Die(p)
    BY <1>5 DEF Start, Die
<1>6. QED BY <1>1, <1>2, <1>3, <1>4, <1>5 DEF Step

\* The database is made, then migrated, and stays so.
LEMMA MigratedStays ==
    ASSUME [StartupNext]_startVars, database = "migrated"
    PROVE  database' = "migrated"
BY DEF StartupNext, startVars, Edit, ProvisionPassword, Launch, Step, Die, SyncAssets, Load,
       CreateDirectory, CheckSettings, Connect, ListApplied, Apply, SpawnCleanup, BuildRouter, Start

---------------------------------------------------------------------------
(* Type correctness.                                                       *)

LEMMA StartupTypeStep == StartupTypeOK /\ [StartupNext]_startVars => StartupTypeOK'
<1> SUFFICES ASSUME StartupTypeOK, [StartupNext]_startVars PROVE StartupTypeOK'
    OBVIOUS
<1> USE DEF StartupTypeOK
<1>1. CASE Edit
    BY <1>1, StartupAssumption DEF Edit
<1>2. CASE ProvisionPassword
    <2>1. PICK length \in Passwords : file' = [file EXCEPT !.hash = HashPassword(length)]
        BY <1>2 DEF ProvisionPassword
    <2>2. HashPassword(length) \in Hash
        BY StartupAssumption, PrintedHash
    <2>3. file' \in Layer
        BY <2>1, <2>2 DEF Layer
    <2>4. edits' \in 0..MaxEdits
        BY <1>2, StartupAssumption DEF ProvisionPassword
    <2>5. QED BY <1>2, <2>3, <2>4 DEF ProvisionPassword
<1>3. ASSUME NEW p \in Procs, Launch(p) PROVE StartupTypeOK'
    BY <1>3 DEF Launch, Stages
<1>4. ASSUME NEW p \in Procs, Load(p) PROVE StartupTypeOK'
    <2>1. CASE Layered(file, given[p]).port # Garbage
        <3>1. Layered(file, given[p]) \in Settings
            BY <2>1, LoadedSettings
        <3>2. /\ Pass(p, "load", "mkdir")
              /\ settings' = [settings EXCEPT ![p] = Layered(file, given[p])]
              /\ UNCHANGED <<listed, directory, database>>
            BY <1>4, <2>1 DEF Load
        <3>3. QED BY <3>1, <3>2 DEF Pass, Stages
    <2>2. CASE Layered(file, given[p]).port = Garbage
        BY <1>4, <2>2 DEF Load, Stop, Stages
    <2>3. QED BY <2>1, <2>2
<1>5. ASSUME NEW p \in Procs,
             SyncAssets(p) \/ CreateDirectory(p) \/ SpawnCleanup(p) \/ BuildRouter(p)
      PROVE  StartupTypeOK'
    BY <1>5 DEF SyncAssets, CreateDirectory, SpawnCleanup, BuildRouter, Pass, Stages
<1>6. ASSUME NEW p \in Procs, CheckSettings(p) PROVE StartupTypeOK'
    BY <1>6 DEF CheckSettings, Pass, Stop, Stages
<1>7. ASSUME NEW p \in Procs, Connect(p) \/ ListApplied(p) \/ Apply(p) PROVE StartupTypeOK'
    <2>1. CASE Connect(p)
        BY <2>1 DEF Connect, Pass, Stages, Schemas
    <2>2. CASE ListApplied(p)
        BY <2>2 DEF ListApplied, Pass, Stages
    <2>3. CASE Apply(p)
        BY <2>3 DEF Apply, Pass, Stop, Stages, Schemas
    <2>4. QED BY <1>7, <2>1, <2>2, <2>3
<1>8. ASSUME NEW p \in Procs, Start(p) PROVE StartupTypeOK'
    BY <1>8 DEF Start, Pass, Stop, Stages
<1>9. ASSUME NEW p \in Procs, Die(p) PROVE StartupTypeOK'
    <2>1. faults' \in 0..MaxFaults
        BY <1>9, StartupAssumption DEF Die
    <2>2. QED BY <1>9, <2>1 DEF Die, Stages
<1>10. CASE UNCHANGED startVars
    BY <1>10 DEF startVars
<1>11. QED BY <1>1, <1>2, <1>3, <1>4, <1>5, <1>6, <1>7, <1>8, <1>9, <1>10 DEF StartupNext, Step

\* The steps of main and of AppState::initialize keep the types of everything.
THEOREM StartupTypeCorrect == StartupSpec => []StartupTypeOK
<1>1. StartupInit => StartupTypeOK
    <2>1. 0 \in 0..MaxEdits /\ 0 \in 0..MaxFaults
        BY StartupAssumption
    <2>2. "off" \in Stages /\ "none" \in Schemas
        BY DEF Stages, Schemas
    <2>3. SUFFICES ASSUME StartupInit PROVE StartupTypeOK
        OBVIOUS
    <2>4. /\ file \in Layer /\ env \in Layer /\ given \in [Procs -> Layer]
          /\ settings \in [Procs -> Settings \cup {NULL}]
        BY <2>3, NothingIsALayer DEF StartupInit
    <2>5. /\ stage \in [Procs -> Stages] /\ listed \in [Procs -> BOOLEAN]
          /\ why \in [Procs -> {"none", "settings", "username", "hash", "origin", "schema",
                                "port", "fault"}]
        BY <2>2, <2>3 DEF StartupInit
    <2>6. directory \in BOOLEAN /\ database \in Schemas /\ edits \in 0..MaxEdits
            /\ faults \in 0..MaxFaults
        BY <2>1, <2>2, <2>3 DEF StartupInit
    <2>7. QED BY <2>4, <2>5, <2>6 DEF StartupTypeOK
<1>2. QED BY <1>1, StartupTypeStep, PTL DEF StartupSpec

---------------------------------------------------------------------------
(* Who gets as far as the database, and what he finds there.               *)

\* The checks of the settings are behind p, and p goes on.
Checked == {"connect", "list", "apply", "spawn"} \cup Swept

Ready(p) ==
    /\ stage[p] \in {"mkdir", "check"} \cup Checked => settings[p] # NULL
    /\ stage[p] \in Checked =>
        /\ AcceptsHash(settings[p].hash)
        /\ settings[p].hash = Empty \/ AcceptsOrigin(settings[p].origin)
    /\ listed[p] => database = "migrated"
    /\ stage[p] \in {"spawn"} \cup Swept => database = "migrated"
    /\ why[p] = "hash" => settings[p] # NULL /\ ~AcceptsHash(settings[p].hash)
    /\ stage[p] # "down" => why[p] = "none"

LEMMA ReadyStep ==
    ASSUME StartupTypeOK, \A p \in Procs : Ready(p), [StartupNext]_startVars
    PROVE  \A p \in Procs : Ready(p)'
<1> SUFFICES ASSUME NEW p \in Procs PROVE Ready(p)'
    OBVIOUS
<1> USE DEF StartupTypeOK
<1>1. Ready(p) /\ (database = "migrated" => database' = "migrated")
    BY MigratedStays
<1>2. CASE /\ stage'[p] = stage[p] /\ settings'[p] = settings[p]
           /\ listed'[p] = listed[p] /\ why'[p] = why[p]
    BY <1>1, <1>2 DEF Ready
<1>3. CASE Edit \/ ProvisionPassword \/ UNCHANGED startVars
    BY <1>2, <1>3 DEF Edit, ProvisionPassword, startVars
<1>4. ASSUME NEW q \in Procs, Launch(q) PROVE Ready(p)'
    BY <1>1, <1>2, <1>4 DEF Launch, Ready, Checked, Swept
<1>5. ASSUME NEW q \in Procs \ {p}, Step(q) \/ Die(q) PROVE Ready(p)'
    BY <1>2, <1>5, StepIsAlone DEF Alone
<1>6. CASE Load(p)
    <2>1. CASE Layered(file, given[p]).port # Garbage
        <3>1. Layered(file, given[p]) # NULL
            BY <2>1, LoadedSettings, StartupAssumption
        <3>2. /\ stage[p] = "load" /\ stage'[p] = "mkdir" /\ why'[p] = why[p]
              /\ settings'[p] = Layered(file, given[p]) /\ listed'[p] = listed[p]
            BY <1>6, <2>1 DEF Load, Pass
        <3>3. QED BY <1>1, <3>1, <3>2 DEF Ready, Checked, Swept
    <2>2. CASE Layered(file, given[p]).port = Garbage
        BY <1>1, <1>6, <2>2 DEF Load, Stop, Ready, Checked, Swept
    <2>3. QED BY <2>1, <2>2
<1>7. CASE SyncAssets(p) \/ CreateDirectory(p)
    BY <1>1, <1>7 DEF SyncAssets, CreateDirectory, Pass, Ready, Checked, Swept
<1>8. CASE Connect(p) \/ SpawnCleanup(p) \/ BuildRouter(p)
    BY <1>1, <1>8 DEF Connect, SpawnCleanup, BuildRouter, Pass, Ready, Checked, Swept
<1>9. CASE CheckSettings(p)
    BY <1>1, <1>9 DEF CheckSettings, Pass, Stop, Ready, Checked, Swept
<1>10. CASE ListApplied(p)
    BY <1>1, <1>10 DEF ListApplied, Pass, Ready, Checked, Swept
<1>11. CASE Apply(p)
    BY <1>1, <1>11 DEF Apply, Pass, Stop, Ready, Checked, Swept
<1>12. CASE Start(p)
    BY <1>1, <1>12 DEF Start, Pass, Stop, Ready, Checked, Swept
<1>13. CASE Die(p)
    BY <1>1, <1>13 DEF Die, Ready, Checked, Swept
<1>14. QED BY <1>3, <1>4, <1>5, <1>6, <1>7, <1>8, <1>9, <1>10, <1>11, <1>12, <1>13
          DEF StartupNext, Step

LEMMA ReadyAlways == StartupSpec => [](\A p \in Procs : Ready(p))
<1>1. StartupInit => \A p \in Procs : Ready(p)
    BY DEF StartupInit, Ready, Checked, Swept
<1>2. StartupTypeOK /\ (\A p \in Procs : Ready(p)) /\ [StartupNext]_startVars
        => (\A p \in Procs : Ready(p))'
    BY ReadyStep
<1>3. QED BY <1>1, <1>2, StartupTypeCorrect, PTL DEF StartupSpec

\* Only a process whose settings passed every check of AppState::initialize runs
\* the retention task or serves, and only on a migrated database, whatever other
\* processes did to it or left of it.
THEOREM WhoServesIsReady == StartupSpec => []ServesReady
<1>1. StartupTypeOK /\ (\A p \in Procs : Ready(p)) => ServesReady
    <2> SUFFICES ASSUME StartupTypeOK, NEW p \in Procs, Ready(p), stage[p] \in Swept
                 PROVE  /\ database = "migrated"
                        /\ settings[p].hash # Empty =>
                            /\ settings[p].hash.variant = "argon2id"
                            /\ settings[p].hash.version = 19
                            /\ settings[p].hash.iterations >= 2
                            /\ settings[p].origin = [scheme |-> "https", rest |-> "none"]
        BY DEF ServesReady
    <2>1. /\ database = "migrated" /\ AcceptsHash(settings[p].hash)
          /\ settings[p].hash = Empty \/ AcceptsOrigin(settings[p].origin)
        BY DEF Ready, Checked
    <2>2. settings[p].hash # Empty =>
            /\ settings[p].hash.variant = "argon2id" /\ settings[p].hash.version = 19
            /\ settings[p].hash.iterations >= 2
        BY <2>1, AcceptedHash
    <2>3. AcceptsOrigin(settings[p].origin) =>
            settings[p].origin = [scheme |-> "https", rest |-> "none"]
        BY DEF AcceptsOrigin
    <2>4. QED BY <2>1, <2>2, <2>3
<1>2. QED BY <1>1, StartupTypeCorrect, ReadyAlways, PTL

---------------------------------------------------------------------------
(* The password.                                                           *)

\* The operator has printed hashes from the command only.
FromCommand(hash) ==
    \A length \in Passwords : hash = HashPassword(length) => length \in 16..1024
PrintedByCommand == \A layer \in Files \cup Environments : FromCommand(layer.hash)

Genuine ==
    /\ FromCommand(file.hash)
    /\ FromCommand(env.hash)
    /\ \A p \in Procs : FromCommand(given[p].hash)
    /\ \A p \in Procs : settings[p] # NULL => FromCommand(settings[p].hash)

LEMMA GenuineStep ==
    ASSUME PrintedByCommand, StartupTypeOK, Genuine, [StartupNext]_startVars
    PROVE  Genuine'
<1> USE DEF StartupTypeOK, Genuine
<1>1. CASE Edit
    BY <1>1 DEF Edit, PrintedByCommand
<1>2. CASE ProvisionPassword
    <2>1. PICK length \in Passwords :
            length \in 16..1024 /\ file' = [file EXCEPT !.hash = HashPassword(length)]
        BY <1>2 DEF ProvisionPassword
    <2>2. file'.hash = HashPassword(length)
        BY <2>1 DEF Layer
    <2>3. FromCommand(HashPassword(length))
        BY <2>1, PrintedHash, StartupAssumption DEF FromCommand
    <2>4. QED BY <1>2, <2>2, <2>3 DEF ProvisionPassword
<1>3. ASSUME NEW p \in Procs, Launch(p) PROVE Genuine'
    BY <1>3 DEF Launch
<1>4. ASSUME NEW p \in Procs, Load(p) PROVE Genuine'
    <2>1. Layered(file, given[p]).hash \in {file.hash, given[p].hash, Empty}
        BY DEF Layered, Over, Default
    <2>2. FromCommand(Empty)
        BY StartupAssumption, PrintedHash DEF FromCommand
    <2>3. FromCommand(Layered(file, given[p]).hash)
        BY <2>1, <2>2
    <2>4. settings'[p] \in {settings[p], Layered(file, given[p])}
        BY <1>4 DEF Load
    <2>5. settings'[p] # NULL => FromCommand(settings'[p].hash)
        BY <2>3, <2>4
    <2>6. Alone(p)
        BY <1>4, StepIsAlone DEF Step
    <2>7. QED BY <2>5, <2>6 DEF Alone
<1>5. ASSUME NEW p \in Procs, Step(p) \/ Die(p), ~Load(p) PROVE Genuine'
    <2>1. UNCHANGED <<file, env, given, settings>>
        BY <1>5 DEF Step, Die, SyncAssets, CreateDirectory, CheckSettings, Connect, ListApplied,
                    Apply, SpawnCleanup, BuildRouter, Start, Pass, Stop
    <2>2. QED BY <2>1
<1>6. CASE UNCHANGED startVars
    BY <1>6 DEF startVars
<1>7. QED BY <1>1, <1>2, <1>3, <1>4, <1>5, <1>6 DEF StartupNext

\* The limits of --hash-admin-password, of AdminAuth::with_username and of the
\* sign-in agree: a hash that the command printed is never refused, and signs in.
THEOREM PrintedHashAlwaysWorks == ASSUME PrintedByCommand PROVE StartupSpec => []PrintedHashWorks
<1>1. StartupInit => Genuine
    BY StartupAssumption, PrintedHash DEF StartupInit, Genuine, Nothing, FromCommand
<1>2. StartupTypeOK /\ Genuine /\ [StartupNext]_startVars => Genuine'
    BY GenuineStep
<1>3. StartupTypeOK /\ Genuine /\ (\A p \in Procs : Ready(p)) => PrintedHashWorks
    <2> SUFFICES ASSUME StartupTypeOK, Genuine, NEW p \in Procs, Ready(p), settings[p] # NULL,
                        NEW length \in Passwords, settings[p].hash = HashPassword(length)
                 PROVE  /\ why[p] # "hash"
                        /\ stage[p] = "serving" => SignsIn(settings[p].hash, length)
        BY DEF PrintedHashWorks
    <2>1. /\ HashPassword(length) \in Hash
          /\ HashPassword(length).of = length
          /\ AcceptsHash(HashPassword(length))
        BY PrintedHash, StartupAssumption
    <2>2. length \in 16..1024
        BY DEF Genuine, FromCommand
    <2>3. QED BY <2>1, <2>2, StartupAssumption DEF Ready, SignsIn
<1>4. QED BY <1>1, <1>2, <1>3, StartupTypeCorrect, ReadyAlways, PTL DEF StartupSpec
===========================================================================
