------------------------------ MODULE Startup ------------------------------
(***************************************************************************)
(* How the program comes up: main, AppConfig::load, the checks of           *)
(* AdminAuth::with_username and AppState::initialize, the migration, the    *)
(* retention task, the listener - and the command that makes a password     *)
(* hash.  Every step is an `expect`: what fails ends the process.           *)
(*                                                                         *)
(* A process can be killed between any two steps.  The operator edits the   *)
(* settings whenever he likes, and nothing but the port keeps him from      *)
(* starting a second process on the same data directory.                    *)
(*                                                                         *)
(* Outside the repository: the config crate (what environment texts are     *)
(* parsed as), sqlx (a migration and its record are one transaction, but    *)
(* the list of applied migrations is read before it), SQLite (creates a     *)
(* missing file in a directory that is there), topcoat (binds to HOST and   *)
(* PORT).                                                                   *)
(***************************************************************************)
EXTENDS Integers

CONSTANTS
    Procs,          \* launches of the program
    Files,          \* what the operator may write into config.toml
    Environments,   \* what he may set in the environment
    Passwords,      \* lengths of the passwords he may hash, in bytes
    Empty,          \* the empty text
    Garbage,        \* a text that is not of its setting's type
    NULL,           \* a setting that is not given; no settings
    MaxEdits,       \* bound: edits of the settings
    MaxFaults       \* bound: killed or failing processes

VARIABLES
    file, env,      \* the settings as the operator has them
    given,          \* the environment a process was started with
    stage,          \* the step a process has to take next
    settings,       \* what it has loaded
    listed,         \* whether it found the migration applied
    why,            \* why it ended
    directory,      \* whether data/ is there
    database,       \* the schema in it
    edits, faults

startVars == <<file, env, given, stage, settings, listed, why, directory, database, edits, faults>>

---------------------------------------------------------------------------
(* Settings.                                                               *)

\* AppConfig::default
Default == [username |-> "admin", hash |-> Empty, origin |-> Empty, port |-> 8080]

\* A password hash by its parameters (version 0: none is given), and the length
\* of its password.
Hash == [of : Nat, variant : {"argon2id", "argon2i"}, version : Nat, memory : Nat,
         iterations : Nat, lanes : Nat, salt : Nat, output : Nat]

\* A URL by its scheme and by what follows its host.
Url == [scheme : {"http", "https"}, rest : {"none", "slash", "path", "port443"}]

\* Names as the checks and the parser tell them apart: a common one, two that are
\* refused, two that are read as something else, and what these become.
Names == {"admin", " admin", "admin\n", "007", "7", "TRUE", "true"}

\* One source of settings: the file, or the environment.
Layer == [username : {NULL, Empty} \cup Names, hash : {NULL, Empty, Garbage} \cup Hash,
          origin : {NULL, Empty, Garbage} \cup Url, port : {NULL, Garbage} \cup Nat]
Nothing == [username |-> NULL, hash |-> NULL, origin |-> NULL, port |-> NULL]

Settings == [username : {Empty} \cup Names, hash : {Empty, Garbage} \cup Hash,
             origin : {Empty, Garbage} \cup Url, port : Nat]

\* try_parsing reads a text as a truth value or a number if it can, and the
\* number is written out again where a text is wanted.
Reparsed(name) == CASE name = "007" -> "7" [] name = "TRUE" -> "true" [] OTHER -> name

Over(upper, lower) == IF upper = NULL THEN lower ELSE upper

\* Slip of Layered: there are no defaults.
LayeredOnNothing(f, e) ==
    [username |-> Over(Reparsed(e.username), f.username), hash |-> Over(e.hash, f.hash),
     origin |-> Over(e.origin, f.origin), port |-> Over(e.port, f.port)]

Layered(f, e) ==
    [username |-> Over(Reparsed(e.username), Over(f.username, Default.username)),
     hash     |-> Over(e.hash, Over(f.hash, Default.hash)),
     origin   |-> Over(e.origin, Over(f.origin, Default.origin)),
     port     |-> Over(e.port, Over(f.port, Default.port))]

\* Not empty, not longer than 64 bytes, no blank at its ends, no control
\* character.
AcceptsName(name) == name \notin {Empty, " admin", "admin\n"}

StrongHash ==
    {hash \in Hash :
        /\ hash.variant = "argon2id" /\ hash.version = 19
        /\ 19456 <= hash.memory /\ hash.memory <= 65536
        /\ hash.iterations \in 2..5
        /\ hash.lanes \in 1..4
        /\ hash.salt >= 22
        /\ hash.output = 32}

\* Slip of AcceptsHash: the salt has to be longer than the least.
AcceptsLongerSalt(hash) == hash = Empty \/ (hash \in StrongHash /\ hash.salt > 22)

AcceptsHash(hash) == hash = Empty \/ hash \in StrongHash

\* The text of the parsed URL's origin has neither a path nor the default port.
AcceptsOrigin(origin) == origin \in [scheme : {"https"}, rest : {"none"}]

\* hash_password: the defaults of the argon2 crate, 16 bytes of salt in base64.
HashPassword(length) ==
    [of |-> length, variant |-> "argon2id", version |-> 19, memory |-> 19456, iterations |-> 2,
     lanes |-> 1, salt |-> 22, output |-> 32]

\* AdminAuth::login, with the right name and the password of that length.
SignsIn(hash, length) == hash # Empty /\ length <= 1024 /\ hash.of = length

ASSUME StartupAssumption ==
    /\ NULL \notin {Empty, Garbage} \cup Hash \cup Settings
    /\ Empty \notin Hash
    /\ Files \subseteq Layer /\ Environments \subseteq Layer
    /\ Passwords \subseteq Nat
    /\ MaxEdits \in Nat /\ MaxFaults \in Nat

---------------------------------------------------------------------------
Stages == {"off", "assets", "load", "mkdir", "check", "connect", "list", "apply", "spawn",
           "router", "start", "serving", "down"}
Running(p) == stage[p] \notin {"off", "down"}

\* The retention task runs as soon as it is spawned, before the listener.
Swept == {"router", "start", "serving"}

\* "half": tables without a record of the migration.
Schemas == {"none", "empty", "half", "migrated"}

StartupTypeOK ==
    /\ file \in Layer /\ env \in Layer
    /\ given \in [Procs -> Layer]
    /\ stage \in [Procs -> Stages]
    /\ settings \in [Procs -> Settings \cup {NULL}]
    /\ listed \in [Procs -> BOOLEAN]
    /\ why \in [Procs -> {"none", "settings", "username", "hash", "origin", "schema",
                          "port", "fault"}]
    /\ directory \in BOOLEAN
    /\ database \in Schemas
    /\ edits \in 0..MaxEdits
    /\ faults \in 0..MaxFaults

StartupInit ==
    /\ file = Nothing
    /\ env = Nothing
    /\ given = [p \in Procs |-> Nothing]
    /\ stage = [p \in Procs |-> "off"]
    /\ settings = [p \in Procs |-> NULL]
    /\ listed = [p \in Procs |-> FALSE]
    /\ why = [p \in Procs |-> "none"]
    /\ directory = FALSE
    /\ database = "none"
    /\ edits = 0
    /\ faults = 0

---------------------------------------------------------------------------
(* The operator.                                                           *)

Edit ==
    /\ edits < MaxEdits
    /\ edits' = edits + 1
    /\ file' \in Files
    /\ env' \in Environments
    /\ UNCHANGED <<given, stage, settings, listed, why, directory, database, faults>>

\* --hash-admin-password: nothing is printed for a password of a wrong length
\* or a confirmation that differs; what is printed is put into the file.
ProvisionPassword ==
    /\ edits < MaxEdits
    /\ edits' = edits + 1
    /\ \E length \in Passwords :
        /\ length \in 16..1024
        /\ file' = [file EXCEPT !.hash = HashPassword(length)]
    /\ UNCHANGED <<env, given, stage, settings, listed, why, directory, database, faults>>

Launch(p) ==
    /\ stage[p] = "off"
    /\ stage' = [stage EXCEPT ![p] = "assets"]
    /\ given' = [given EXCEPT ![p] = env]
    /\ UNCHANGED <<file, env, settings, listed, why, directory, database, edits, faults>>

---------------------------------------------------------------------------
(* The steps of main.                                                      *)

Pass(p, at, next) ==
    /\ stage[p] = at
    /\ stage' = [stage EXCEPT ![p] = next]
    /\ UNCHANGED <<file, env, given, why, edits, faults>>

Stop(p, at, reason) ==
    /\ stage[p] = at
    /\ stage' = [stage EXCEPT ![p] = "down"]
    /\ why' = [why EXCEPT ![p] = reason]
    /\ UNCHANGED <<file, env, given, edits, faults>>

SyncAssets(p) ==
    /\ Pass(p, "assets", "load")
    /\ UNCHANGED <<settings, listed, directory, database>>

\* AppConfig::load
Load(p) ==
    LET loaded == Layered(file, given[p]) IN
    /\ \/ /\ loaded.port # Garbage
          /\ Pass(p, "load", "mkdir")
          /\ settings' = [settings EXCEPT ![p] = loaded]
       \/ /\ loaded.port = Garbage
          /\ Stop(p, "load", "settings")
          /\ UNCHANGED settings
    /\ UNCHANGED <<listed, directory, database>>

CreateDirectory(p) ==
    /\ Pass(p, "mkdir", "check")
    /\ directory' = TRUE
    /\ UNCHANGED <<settings, listed, database>>

\* AdminAuth::with_username, then the origin, if there is a hash.
CheckSettings(p) ==
    LET s == settings[p] IN
    /\ stage[p] = "check"
    /\ \/ ~AcceptsName(s.username) /\ Stop(p, "check", "username")
       \/ AcceptsName(s.username) /\ ~AcceptsHash(s.hash) /\ Stop(p, "check", "hash")
       \/ /\ AcceptsName(s.username) /\ AcceptsHash(s.hash)
          /\ s.hash # Empty /\ ~AcceptsOrigin(s.origin)
          /\ Stop(p, "check", "origin")
       \/ /\ AcceptsName(s.username) /\ AcceptsHash(s.hash)
          /\ s.hash = Empty \/ AcceptsOrigin(s.origin)
          /\ Pass(p, "check", "connect")
    /\ UNCHANGED <<settings, listed, directory, database>>

\* create_if_missing creates the file, not the directory.
Connect(p) ==
    /\ directory
    /\ Pass(p, "connect", "list")
    /\ database' = IF database = "none" THEN "empty" ELSE database
    /\ UNCHANGED <<settings, listed, directory>>

\* Slip of ListApplied: a database that is there has been migrated.
ListExisting(p) ==
    /\ Pass(p, "list", "apply")
    /\ listed' = [listed EXCEPT ![p] = database # "none"]
    /\ UNCHANGED <<settings, directory, database>>

\* InviteRepository::migrate, first the look at what was applied ...
ListApplied(p) ==
    /\ Pass(p, "list", "apply")
    /\ listed' = [listed EXCEPT ![p] = database = "migrated"]
    /\ UNCHANGED <<settings, directory, database>>

\* Slip of Apply: the tables are there before the record, and they are not
\* taken back with it.
ApplyUnrecorded(p) ==
    /\ \/ /\ Pass(p, "apply", "spawn") /\ listed[p]
          /\ database' = "migrated" /\ UNCHANGED listed
       \/ /\ Pass(p, "apply", "apply") /\ ~listed[p] /\ database = "empty"
          /\ database' = "half" /\ listed' = [listed EXCEPT ![p] = TRUE]
       \/ Stop(p, "apply", "schema") /\ ~listed[p] /\ database # "empty"
            /\ UNCHANGED <<listed, database>>
    /\ UNCHANGED <<settings, directory>>

\* ... then, unless it was, the migration and its record in one transaction,
\* which fails if the tables have come into being in between.
Apply(p) ==
    /\ \/ Pass(p, "apply", "spawn") /\ listed[p] /\ UNCHANGED database
       \/ Pass(p, "apply", "spawn") /\ ~listed[p] /\ database = "empty" /\ database' = "migrated"
       \/ Stop(p, "apply", "schema") /\ ~listed[p] /\ database # "empty" /\ UNCHANGED database
    /\ UNCHANGED <<settings, listed, directory>>

SpawnCleanup(p) ==
    /\ Pass(p, "spawn", "router")
    /\ UNCHANGED <<settings, listed, directory, database>>

BuildRouter(p) ==
    /\ Pass(p, "router", "start")
    /\ UNCHANGED <<settings, listed, directory, database>>

\* topcoat::start: the port is free, or it is not.
Start(p) ==
    /\ \/ Pass(p, "start", "serving") /\ \A q \in Procs : stage[q] # "serving"
       \/ Stop(p, "start", "port") /\ \E q \in Procs : stage[q] = "serving"
    /\ UNCHANGED <<settings, listed, directory, database>>

\* A step fails, or the process is killed.
Die(p) ==
    /\ Running(p)
    /\ faults < MaxFaults
    /\ faults' = faults + 1
    /\ stage' = [stage EXCEPT ![p] = "down"]
    /\ why' = [why EXCEPT ![p] = "fault"]
    /\ UNCHANGED <<file, env, given, settings, listed, directory, database, edits>>

Step(p) ==
    \/ SyncAssets(p) \/ Load(p) \/ CreateDirectory(p) \/ CheckSettings(p) \/ Connect(p)
    \/ ListApplied(p) \/ Apply(p) \/ SpawnCleanup(p) \/ BuildRouter(p) \/ Start(p)

StartupNext ==
    \/ Edit \/ ProvisionPassword
    \/ \E p \in Procs : Launch(p) \/ Step(p) \/ Die(p)

StartupSpec == StartupInit /\ [][StartupNext]_startVars

\* main runs on; nobody has to launch, edit or fail.
StartupFairSpec == StartupSpec /\ \A p \in Procs : WF_startVars(Step(p))

---------------------------------------------------------------------------
(* Properties.                                                             *)

\* Whoever sweeps or serves has a migrated database, though another process
\* was killed in the middle of making it, and an administrator who can sign in
\* does so at an HTTPS origin ("Nonempty invalid hashes or non-HTTPS origins
\* prevent startup", README.md:209-210).
ServesReady ==
    \A p \in Procs : stage[p] \in Swept =>
        /\ database = "migrated"
        /\ settings[p].hash # Empty =>
            /\ settings[p].hash.variant = "argon2id" /\ settings[p].hash.version = 19
            /\ settings[p].hash.iterations >= 2
            /\ settings[p].origin = [scheme |-> "https", rest |-> "none"]

\* What --hash-admin-password prints is what a start accepts, and the password
\* it was printed for signs in: the limits of the three places agree.
PrintedHashWorks ==
    \A p \in Procs : settings[p] # NULL =>
        \A length \in Passwords : settings[p].hash = HashPassword(length) =>
            /\ why[p] # "hash"
            /\ stage[p] = "serving" => SignsIn(settings[p].hash, length)

\* The next start by itself, with settings that are right and without a fault,
\* serves: no start that was refused, killed or raced before has left anything
\* behind that stops it.
GoodStart(p) ==
    /\ Layered(file, env).port # Garbage
    /\ given[p] = env
    /\ AcceptsName(Layered(file, env).username)
    /\ AcceptsHash(Layered(file, env).hash)
    /\ Layered(file, env).hash = Empty \/ AcceptsOrigin(Layered(file, env).origin)
    /\ faults = MaxFaults
    /\ \A q \in Procs \ {p} : ~Running(q)
GoodStartServes ==
    \A p \in Procs :
        (stage[p] = "assets" /\ [](stage[p] # "off" /\ GoodStart(p))) ~> stage[p] = "serving"
===========================================================================
