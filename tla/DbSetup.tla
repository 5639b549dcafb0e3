------------------------------ MODULE DbSetup ------------------------------
(***************************************************************************)
(* What deploy/start.sh does to the database before it starts app_a:       *)
(* setup_database (database, user, grant) and init_database (db/01-schema, *)
(* db/02-seed), each behind a marker file.                                 *)
(*                                                                         *)
(* `psql -f` runs without ON_ERROR_STOP: a statement that fails is left    *)
(* out, the rest is run and psql returns 0.  It returns non-zero when it   *)
(* has no connection (any more), and then `set -e` with pipefail ends the  *)
(* script; `psql -c` ends it on any error.                                 *)
(***************************************************************************)
EXTENDS Naturals, FiniteSets

CONSTANTS
  Runs,       \* runs of start.sh
  Envs,       \* environments they are given
  SeedCount,  \* students of the seed file, 6
  Faults,     \* what may go wrong: "stop" (a script is killed), "lost" (psql
              \* loses its connection), "sql" (a statement of a file fails)
  Together    \* runs may overlap: start.sh:213 sees no PID file before line 243

Environment ==
  [SKIP_DB_SETUP : BOOLEAN, SKIP_DB_INIT : BOOLEAN, FORCE_REINIT : BOOLEAN,
   admin : BOOLEAN,  \* DB_ADMIN_PASSWORD is set
   psql : BOOLEAN]   \* PSQL_CMD is found

ASSUME SetupAssumption ==
  /\ SeedCount \in Nat \ {0}
  /\ Envs \subseteq Environment
  /\ Faults \subseteq {"stop", "lost", "sql"}
  /\ Together \in BOOLEAN

VARIABLES
  cluster,   \* what the server has of "database", "user", "grant"
  tables,    \* the tables there are
  students,  \* rows of students: id and which student of the seed it is
  nextId,    \* the sequence behind students.id
  scoreSets, \* how often the one INSERT into scores has succeeded
  markers,   \* marker files there are: "setup", "init"
  env, at,   \* environment of a run, and what it does next
  line       \* the line of the seed file a run is at

server == <<cluster, tables, students, nextId, scoreSets>>
setupVars   == <<server, markers, env, at, line>>

Seed == 1 .. SeedCount

SetupStages == {"off", "setup", "createdb", "createuser", "grant", "marksetup",
           "init", "schema", "schema2", "seed", "scores", "markinit",
           "launch", "failed"}

SetupTypeOK ==
  /\ cluster \subseteq {"database", "user", "grant"}
  /\ tables \subseteq {"students", "scores"}
  /\ students \subseteq [id : Nat \ {0}, who : Seed]
  /\ \A s, t \in students : s.id = t.id => s = t
  /\ \A s \in students : s.id < nextId
  /\ nextId \in Nat \ {0}
  /\ scoreSets \in Nat
  /\ markers \subseteq {"setup", "init"}
  /\ env \in [Runs -> Envs]
  /\ at \in [Runs -> SetupStages]
  /\ line \in [Runs -> 1 .. SeedCount + 1]

SetupInit ==
  /\ cluster \in {{}, {"database", "user", "grant"}}
  /\ tables = {}
  /\ students = {}
  /\ nextId = 1
  /\ scoreSets = 0
  /\ markers = {}
  /\ env \in [Runs -> Envs]
  /\ at = [r \in Runs |-> "off"]
  /\ line = [r \in Runs |-> 1]

Goto(r, s) == at' = [at EXCEPT ![r] = s]

-----------------------------------------------------------------------------
(* setup_database *)

Begin(r) ==
  /\ at[r] = "off"
  /\ Together \/ \A q \in Runs : at[q] \in {"off", "launch", "failed"}
  /\ Goto(r, "setup")
  /\ UNCHANGED <<server, markers, env, line>>

\* The early returns; FORCE_REINIT forgets the marker.
SetupDatabase(r) ==
  /\ at[r] = "setup"
  /\ IF env[r].SKIP_DB_SETUP
     THEN Goto(r, "init") /\ UNCHANGED markers
     ELSE LET kept == IF env[r].FORCE_REINIT THEN markers \ {"setup"} ELSE markers
          IN /\ markers' = kept
             /\ Goto(r, IF "setup" \in kept \/ ~ env[r].admin
                        THEN "init" ELSE "createdb")
  /\ UNCHANGED <<server, env, line>>

\* Between the SELECT and the CREATE another run may have made the same.
Overtaken(what) == Together /\ what \in cluster

\* Without psql the test finds no database, and the CREATE ends the script.
CreateDatabase(r) ==
  /\ at[r] = "createdb"
  /\ \/ /\ env[r].psql
        /\ cluster' = cluster \cup {"database"}
        /\ Goto(r, "createuser")
     \/ /\ ~ env[r].psql \/ Overtaken("database")
        /\ UNCHANGED cluster
        /\ Goto(r, "failed")
  /\ UNCHANGED <<tables, students, nextId, scoreSets, markers, env, line>>

\* A user that is there has been granted its rights, as far as the script
\* knows.
CreateUser(r) ==
  /\ at[r] = "createuser"
  /\ \/ /\ cluster' = cluster \cup {"user"}
        /\ Goto(r, IF "user" \in cluster THEN "marksetup" ELSE "grant")
     \/ /\ Overtaken("user")
        /\ UNCHANGED cluster
        /\ Goto(r, "failed")
  /\ UNCHANGED <<tables, students, nextId, scoreSets, markers, env, line>>

Grant(r) ==
  /\ at[r] = "grant"
  /\ cluster' = cluster \cup {"grant"}
  /\ Goto(r, "marksetup")
  /\ UNCHANGED <<tables, students, nextId, scoreSets, markers, env, line>>

MarkSetup(r) ==
  /\ at[r] = "marksetup"
  /\ markers' = markers \cup {"setup"}
  /\ Goto(r, "init")
  /\ UNCHANGED <<server, env, line>>

-----------------------------------------------------------------------------
(* init_database *)

\* Mutant: the marker is set before the files are run.
InitDatabase_MarksFirst(r) ==
  /\ at[r] = "init"
  /\ markers' = markers \cup {"init"}
  /\ Goto(r, IF env[r].SKIP_DB_INIT \/ "init" \in markers \/ ~ env[r].psql
             THEN "launch" ELSE "schema")
  /\ UNCHANGED <<server, env, line>>

\* Mutant: the marker is not looked at.
InitDatabase_Always(r) ==
  /\ at[r] = "init"
  /\ Goto(r, IF env[r].SKIP_DB_INIT \/ ~ env[r].psql THEN "launch" ELSE "schema")
  /\ UNCHANGED <<server, markers, env, line>>

InitDatabase(r) ==
  /\ at[r] = "init"
  /\ IF env[r].SKIP_DB_INIT
     THEN Goto(r, "launch") /\ UNCHANGED markers
     ELSE LET kept == IF env[r].FORCE_REINIT THEN markers \ {"init"} ELSE markers
          IN /\ markers' = kept
             /\ Goto(r, IF "init" \in kept \/ ~ env[r].psql
                        THEN "launch" ELSE "schema")
  /\ UNCHANGED <<server, env, line>>

\* psql_app needs the database and the user to connect.
CanConnect == {"database", "user"} \subseteq cluster

\* The CREATE TABLE IF NOT EXISTS of 01-schema.sql, one statement each.  The
\* second refers to the first.
CreateStudents(r) ==
  /\ at[r] = "schema"
  /\ IF CanConnect
     THEN /\ tables' \in {tables \cup {"students"}}
                         \cup (IF "sql" \in Faults THEN {tables} ELSE {})
          /\ Goto(r, "schema2")
     ELSE UNCHANGED tables /\ Goto(r, "failed")
  /\ UNCHANGED <<cluster, students, nextId, scoreSets, markers, env, line>>

CreateScores(r) ==
  /\ at[r] = "schema2"
  /\ tables' \in
       (IF "students" \in tables THEN {tables \cup {"scores"}} ELSE {tables})
       \cup (IF "sql" \in Faults THEN {tables} ELSE {})
  /\ Goto(r, "seed")
  /\ line' = [line EXCEPT ![r] = 1]
  /\ UNCHANGED <<cluster, students, nextId, scoreSets, markers, env>>

NextLine(r) ==
  /\ line' = [line EXCEPT ![r] = @ + 1]
  /\ Goto(r, IF line[r] = SeedCount THEN "scores" ELSE "seed")
  /\ UNCHANGED <<cluster, tables, scoreSets, markers, env>>

\* One INSERT of 02-seed.sql.  One that fails may have drawn its id.
InsertStudent(r) ==
  /\ at[r] = "seed"
  /\ \/ /\ "students" \in tables
        /\ students' = students \cup {[id |-> nextId, who |-> line[r]]}
        /\ nextId' = nextId + 1
     \/ /\ "students" \notin tables \/ "sql" \in Faults
        /\ nextId' \in {nextId} \cup
             (IF "students" \in tables THEN {nextId + 1} ELSE {})
        /\ UNCHANGED students
  /\ NextLine(r)

\* The ids 1 to 6 are written out in the file; a missing one fails the
\* foreign key, and with it the whole statement.
InsertScores(r) ==
  /\ at[r] = "scores"
  /\ LET fits == "scores" \in tables
                 /\ \A k \in Seed : \E s \in students : s.id = k
     IN scoreSets' \in (IF fits THEN {scoreSets + 1} ELSE {scoreSets})
                       \cup (IF "sql" \in Faults THEN {scoreSets} ELSE {})
  /\ Goto(r, "markinit")
  /\ UNCHANGED <<cluster, tables, students, nextId, markers, env, line>>

MarkInit(r) ==
  /\ at[r] = "markinit"
  /\ markers' = markers \cup {"init"}
  /\ Goto(r, "launch")
  /\ UNCHANGED <<server, env, line>>

-----------------------------------------------------------------------------
\* The script is killed between two statements, before its trap is set.
Stop(r) ==
  /\ "stop" \in Faults
  /\ at[r] \notin {"off", "launch", "failed"}
  /\ Goto(r, "failed")
  /\ UNCHANGED <<server, markers, env, line>>

\* psql loses its connection and set -e ends the script.  An INSERT that was
\* under way may have drawn its id.
LoseConnection(r) ==
  /\ "lost" \in Faults
  /\ at[r] \in {"createdb", "createuser", "grant", "schema", "schema2",
                "seed", "scores"}
  /\ nextId' \in {nextId} \cup
       (IF at[r] = "seed" /\ "students" \in tables THEN {nextId + 1} ELSE {})
  /\ Goto(r, "failed")
  /\ UNCHANGED <<cluster, tables, students, scoreSets, markers, env, line>>

Step(r) ==
  \/ Begin(r) \/ SetupDatabase(r) \/ CreateDatabase(r) \/ CreateUser(r)
  \/ Grant(r) \/ MarkSetup(r) \/ InitDatabase(r) \/ CreateStudents(r)
  \/ CreateScores(r) \/ InsertStudent(r) \/ InsertScores(r) \/ MarkInit(r)
  \/ Stop(r) \/ LoseConnection(r)

SetupNext == \E r \in Runs : Step(r)

SetupSpec == SetupInit /\ [][SetupNext]_setupVars

-----------------------------------------------------------------------------
(* Properties *)

Rows(k) == { s \in students : s.who = k }

\* A marker of init_database is never left by a seeding that was cut off: with
\* it there are the tables and every student of the seed, however often scripts
\* and connections died and whatever ran at the same time.
MarkedIsSeeded ==
  "init" \in markers =>
    tables = {"students", "scores"} /\ \A k \in Seed : Rows(k) # {}

\* "首次初始化 schema 和种子数据" (deploy/README.md:117): with the marker, the
\* seed is there once, every score with the student it was written for.
SeededOnce ==
  "init" \in markers =>
    /\ scoreSets = 1
    /\ students = { [id |-> k, who |-> k] : k \in Seed }

\* start.sh:22: FORCE_REINIT=1 empties what was there.  After a forced run
\* has gone through to the app, the seed is there once.
ReinitEmpties ==
  \A r \in Runs :
    at[r] = "launch" /\ env[r].FORCE_REINIT /\ env[r].psql /\ ~ env[r].SKIP_DB_INIT
      => \A k \in Seed : Cardinality(Rows(k)) <= 1
=============================================================================
