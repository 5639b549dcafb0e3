------------------------------- MODULE Startup -------------------------------
(***************************************************************************)
(* docker compose up: the database container, its health check, and the    *)
(* program that depends on it.  In scheme A its container runs app_a once  *)
(* the port answers; in scheme D supervisord runs app_d and starts it      *)
(* again: a few times in a row, and always once it has been running.       *)
(*                                                                         *)
(* The image postgres:14.9 is not in the repository.  On an empty volume   *)
(* it makes the database, runs the scripts of db/ with a server that only  *)
(* listens on its socket, stops that server and starts the real one.       *)
(* pg_isready asks on the socket.                                          *)
(***************************************************************************)
EXTENDS Naturals

CONSTANTS
  Scheme,        \* "A" or "D"
  Steps,         \* what is done to a new database: it is named, and the files
                 \* of db/ are run
  Retries,       \* failed probes that make the database unhealthy
  StartRetries,  \* failed starts after which supervisord gives up, less one
  Halts          \* whether containers may be stopped

ASSUME StartupAssumption ==
  /\ Scheme \in {"A", "D"}
  /\ Steps \in Nat \ {0}
  /\ Retries \in Nat \ {0}
  /\ StartRetries \in Nat
  /\ Halts \in BOOLEAN

VARIABLES
  made,    \* the volume has "no" database, one that was "broken" off, or one;
           \* the image takes the steps only if there is none
  ran,     \* steps that have been done to it
  dbms,    \* what runs in the container of the database
  health,  \* its state for docker
  failed,  \* probes that failed in a row
  compose, \* "idle", "waiting" for the database, "done" or "failed"
  program, \* what the container of the program does
  starts,  \* starts of app_d that failed in a row
  cut      \* the database was stopped before the last of them

volume == <<made, ran, cut>>
checks == <<health, failed>>
apps == <<program, starts>>
startupVars == <<volume, dbms, checks, compose, apps>>

StartupTypeOK ==
  /\ made \in {"no", "broken", "yes"} /\ cut \in BOOLEAN
  /\ ran \in 0 .. Steps
  /\ dbms \in {"down", "make", "steps", "closed", "opening", "up"}
  /\ health \in {"none", "starting", "healthy", "unhealthy"}
  /\ failed \in 0 .. Retries
  /\ compose \in {"idle", "waiting", "done", "failed"}
  /\ program \in {"none", "knocking", "connecting", "serving", "exited", "backoff", "fatal"}
  /\ starts \in 0 .. StartRetries

\* A volume that is new, or was made by an earlier up.
StartupInit ==
  /\ \/ made = "no" /\ ran = 0
     \/ made = "yes" /\ ran = Steps
  /\ cut = FALSE
  /\ dbms = "down" /\ health = "none" /\ failed = 0
  /\ compose = "idle"
  /\ program = "none" /\ starts = 0

-----------------------------------------------------------------------------
(* The database container. *)

\* Connections are accepted on the socket of the container; in the network.
OnSocket == dbms \in {"steps", "up"}
OnPort   == dbms \in {"opening", "up"}

\* Mutant: DB_HOST is the directory of the socket.
Accepts_OnSocket == OnSocket

\* PQconnectdb finds a server with a database of the name.
Accepts == dbms = "up" /\ ran > 0

MakeDatabase ==
  /\ dbms = "make"
  /\ made' = "yes" /\ dbms' = "steps"
  /\ UNCHANGED <<ran, cut, checks, compose, apps>>

RunStep ==
  /\ dbms = "steps" /\ ran < Steps
  /\ ran' = ran + 1
  /\ UNCHANGED <<made, cut, dbms, checks, compose, apps>>

StopTemporary ==
  /\ dbms = "steps" /\ ran = Steps
  /\ dbms' = "closed"
  /\ UNCHANGED <<volume, checks, compose, apps>>

StartServer ==
  /\ dbms = "closed"
  /\ dbms' = "opening"
  /\ UNCHANGED <<volume, checks, compose, apps>>

\* Until then it answers that it is starting up.
AcceptConnections ==
  /\ dbms = "opening" /\ made = "yes"
  /\ dbms' = "up"
  /\ UNCHANGED <<volume, checks, compose, apps>>

ServerFails ==
  /\ dbms = "opening" /\ made = "broken"
  /\ dbms' = "down" /\ health' = "none" /\ failed' = 0
  /\ UNCHANGED <<volume, compose, apps>>

\* The container is stopped, perhaps in the middle of making the database.
StopDb ==
  /\ Halts /\ dbms # "down"
  /\ dbms' = "down" /\ health' = "none" /\ failed' = 0
  /\ IF dbms = "make" THEN made' \in {"no", "broken"} ELSE UNCHANGED made
  /\ cut' = (cut \/ (dbms = "steps" /\ ran < Steps))
  /\ UNCHANGED <<ran, compose, apps>>

-----------------------------------------------------------------------------
(* docker compose. *)

\* pg_isready -U student_app, every three seconds.
ProbeHealth ==
  /\ health # "none"
  /\ IF OnSocket
     THEN health' = "healthy" /\ failed' = 0
     ELSE /\ failed' = IF failed < Retries THEN failed + 1 ELSE failed
          /\ health' = IF failed' = Retries THEN "unhealthy" ELSE health
  /\ UNCHANGED <<volume, dbms, compose, apps>>

\* A database that is down is started, and everything waits for it.
Up ==
  /\ compose # "waiting"
  /\ compose' = "waiting"
  /\ IF dbms = "down"
     THEN /\ dbms' = IF made = "no" THEN "make" ELSE "opening"
          /\ health' = "starting" /\ failed' = 0
     ELSE UNCHANGED <<dbms, checks>>
  /\ UNCHANGED <<volume, apps>>

\* Mutant: the program is started as soon as the database is.
StartApp_Unhealthy ==
  /\ compose = "waiting" /\ health \in {"starting", "healthy"}
  /\ compose' = "done"
  /\ IF program \in {"none", "exited"}
     THEN /\ program' = IF Scheme = "A" THEN "knocking" ELSE "connecting"
          /\ starts' = 0
     ELSE UNCHANGED apps
  /\ UNCHANGED <<volume, dbms, checks>>

\* condition: service_healthy.  A container that runs is left alone, also if
\* supervisord has given up in it.
StartApp ==
  /\ compose = "waiting" /\ health = "healthy"
  /\ compose' = "done"
  /\ IF program \in {"none", "exited"}
     THEN /\ program' = IF Scheme = "A" THEN "knocking" ELSE "connecting"
          /\ starts' = 0
     ELSE UNCHANGED apps
  /\ UNCHANGED <<volume, dbms, checks>>

UpFails ==
  /\ compose = "waiting" /\ health \in {"unhealthy", "none"}
  /\ compose' = "failed"
  /\ UNCHANGED <<volume, dbms, checks, apps>>

-----------------------------------------------------------------------------
(* The program. *)

\* The loop around /dev/tcp in Dockerfile.a.
Knock ==
  /\ program = "knocking" /\ OnPort
  /\ program' = "connecting"
  /\ UNCHANGED <<volume, dbms, checks, compose, starts>>

Connected ==
  /\ program = "connecting" /\ Accepts
  /\ program' = "serving" /\ starts' = 0
  /\ UNCHANGED <<volume, dbms, checks, compose>>

\* main() of main_a.cpp returns 1, and nothing starts the container again.
FailsA ==
  /\ Scheme = "A" /\ program = "connecting" /\ ~ Accepts
  /\ program' = "exited"
  /\ UNCHANGED <<volume, dbms, checks, compose, starts>>

\* main() of main_d.cpp returns 1 within startsecs.
FailsD ==
  /\ Scheme = "D" /\ program = "connecting" /\ ~ Accepts
  /\ IF starts < StartRetries
     THEN program' = "backoff" /\ starts' = starts + 1
     ELSE program' = "fatal" /\ UNCHANGED starts
  /\ UNCHANGED <<volume, dbms, checks, compose>>

\* It fails later than that (a host that does not answer): app_d counts as
\* having run and is started again.
FailsLateD ==
  /\ Scheme = "D" /\ program = "connecting" /\ dbms = "down"
  /\ starts' = 0
  /\ UNCHANGED <<volume, dbms, checks, compose, program>>

Retry ==
  /\ program = "backoff"
  /\ program' = "connecting"
  /\ UNCHANGED <<volume, dbms, checks, compose, starts>>

\* The program ends (RequestPath): supervisord starts app_d again.
ProgramEnds ==
  /\ Halts /\ program = "serving"
  /\ program' = IF Scheme = "A" THEN "exited" ELSE "connecting"
  /\ UNCHANGED <<volume, dbms, checks, compose, starts>>

\* The container of the program is stopped.
StopApp ==
  /\ Halts /\ program \notin {"none", "exited"}
  /\ program' = "exited"
  /\ UNCHANGED <<volume, dbms, checks, compose, starts>>

DbStep == MakeDatabase \/ RunStep \/ StopTemporary \/ StartServer \/ AcceptConnections
          \/ ServerFails

ProgramStep == Knock \/ Connected \/ FailsA \/ FailsD \/ FailsLateD \/ Retry

StartupNext ==
  \/ DbStep \/ StopDb
  \/ ProbeHealth \/ Up \/ StartApp \/ UpFails
  \/ ProgramStep \/ ProgramEnds \/ StopApp

StartupSpec == StartupInit /\ [][StartupNext]_startupVars

\* What runs makes progress; the operator need not do anything.
FairStartupSpec ==
  /\ StartupSpec
  /\ WF_startupVars(DbStep) /\ WF_startupVars(ProbeHealth)
  /\ WF_startupVars(StartApp) /\ WF_startupVars(UpFails)
  /\ WF_startupVars(ProgramStep)

-----------------------------------------------------------------------------
(* Properties *)

\* A program that serves is connected to a database to which every step was
\* done, although the database is called healthy while they are done; unless
\* it was stopped before the last: no later start does what is missing.
ServesWhatStepsMade == program = "serving" => ran = Steps \/ cut

\* If the database is not found healthy before its final server starts, the
\* page comes up, or docker compose says that it does not.  If it is found
\* healthy earlier, app_a may meet "the database system is starting up" and
\* end for good, and app_d may be given up.
ComesUp ==
  compose = "waiting" /\ health = "starting" /\ dbms = "opening" /\ program = "none"
    ~> program = "serving" \/ compose = "failed"
=============================================================================
