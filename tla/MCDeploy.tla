------------------------------ MODULE MCDeploy ------------------------------
(***************************************************************************)
(* The scripts around the PID file, what start.sh does to the database,    *)
(* and the start of the containers.  They share no variable, so one run    *)
(* checks them side by side: turn says which of them, and under which      *)
(* conditions, a behaviour is of, and the variables of the others keep a   *)
(* value that means nothing.                                               *)
(***************************************************************************)
EXTENDS StartStop, DbSetup, Startup

CONSTANTS
  s1, s2, t1, t2,
  CareStarts, CareStops  \* scripts of the careful operator

TwoStarts == {s1, s2}
OneStop == {t1}

ASSUME CareAssumption ==
  /\ CareStarts \cap CareStops = {}
  /\ None \notin CareStarts \cup CareStops
                \cup [by : CareStarts, text : CareStarts \cup {None}]

Unforced == { e \in Environment : ~ e.FORCE_REINIT }
Usual == { e \in Environment :
             e.admin /\ e.psql /\ ~ e.SKIP_DB_SETUP /\ ~ e.SKIP_DB_INIT }

VARIABLE turn

\* An operator who waits for the last start.sh to end.
Careful == INSTANCE StartStop WITH
  Starts <- CareStarts, Stops <- CareStops, Care <- "exit"

\* One app and two stop.sh.
Stopping == INSTANCE StartStop WITH
  Starts <- {s1}, Stops <- {t1, t2}, Care <- "none"

\* Nothing goes wrong, nothing is forced, and start.sh is run by one at a time.
Calm == INSTANCE DbSetup WITH
  Envs <- Unforced, Faults <- {}, Together <- FALSE

\* Scheme A, and both schemes where containers are left alone.
StackA == INSTANCE Startup WITH Scheme <- "A"
CalmA == INSTANCE Startup WITH Scheme <- "A", Halts <- FALSE
CalmD == INSTANCE Startup WITH Halts <- FALSE

scripts == vars
setup == setupVars
stack == startupVars

Turns == {"scripts", "careful", "stopping", "setup", "calm",
          "stack D", "stack A", "calm D", "calm A"}

MCInit ==
  /\ turn \in Turns
  /\ CASE turn = "careful" -> Careful!Init
       [] turn = "stopping" -> Stopping!Init
       [] OTHER -> Init
  /\ CASE turn = "setup" -> SetupInit
       [] turn = "calm" -> Calm!SetupInit
       [] OTHER ->
            /\ cluster = {} /\ tables = {} /\ students = {} /\ nextId = 1
            /\ scoreSets = 0 /\ markers = {} /\ env = <<>> /\ at = <<>>
            /\ line = <<>>
  /\ IF turn \in {"stack D", "stack A", "calm D", "calm A"} THEN StartupInit
     ELSE /\ made = "no" /\ ran = 0 /\ cut = FALSE /\ dbms = "down"
          /\ health = "none" /\ failed = 0 /\ compose = "idle"
          /\ program = "none" /\ starts = 0

ScriptsMove ==
  /\ \/ turn = "scripts" /\ Next
     \/ turn = "careful" /\ Careful!Next
     \/ turn = "stopping" /\ Stopping!Next
  /\ UNCHANGED <<turn, setup, stack>>

SetupMoves ==
  /\ \/ turn = "setup" /\ SetupNext
     \/ turn = "calm" /\ Calm!SetupNext
  /\ UNCHANGED <<turn, scripts, stack>>

StackMoves ==
  /\ \/ turn = "stack D" /\ StartupNext
     \/ turn = "stack A" /\ StackA!StartupNext
     \/ turn = "calm D" /\ CalmD!StartupNext
     \/ turn = "calm A" /\ CalmA!StartupNext
  /\ UNCHANGED <<turn, scripts, setup>>

MCNext == ScriptsMove \/ SetupMoves \/ StackMoves

all == <<turn, scripts, setup, stack>>

\* FairSpec of StartStop where it is about stopping, FairStartupSpec where the
\* containers are left alone, no fairness elsewhere.
InA(step) == turn = "calm A" /\ step /\ UNCHANGED <<turn, scripts, setup>>
InD(step) == turn = "calm D" /\ step /\ UNCHANGED <<turn, scripts, setup>>

MCSpec ==
  /\ MCInit /\ [][MCNext]_all
  /\ \A p \in {s1, t1, t2} :
       WF_all(turn = "stopping" /\ Stopping!StopStep(p)
                /\ UNCHANGED <<turn, setup, stack>>)
  /\ WF_all(InA(CalmA!DbStep)) /\ WF_all(InA(CalmA!ProbeHealth))
  /\ WF_all(InA(CalmA!StartApp)) /\ WF_all(InA(CalmA!UpFails))
  /\ WF_all(InA(CalmA!ProgramStep))
  /\ WF_all(InD(CalmD!DbStep)) /\ WF_all(InD(CalmD!ProbeHealth))
  /\ WF_all(InD(CalmD!StartApp)) /\ WF_all(InD(CalmD!UpFails))
  /\ WF_all(InD(CalmD!ProgramStep))

\* The behaviours of one of them, for the runs that show a counterexample.
ScriptsSpec == MCInit /\ turn = "scripts" /\ [][MCNext]_all
SetupOnlySpec == MCInit /\ turn = "setup" /\ [][MCNext]_all

-----------------------------------------------------------------------------
\* The variables keep their types.
TypesOK ==
  /\ turn = "scripts" => TypeOK
  /\ turn = "setup" => SetupTypeOK
  /\ turn \in {"stack D", "stack A"} => StartupTypeOK

\* If the operator waits, one server is up at most, and the PID file names it
\* when no script is busy, whatever was killed or crashed before.
OneNamedServerWithCare ==
  turn = "careful" => Careful!AtMostOneServer /\ Careful!PidFileNamesServer

\* SeededOnce, when all is calm.
SeededOnceWhenCalm == turn = "calm" => Calm!SeededOnce

\* StopStops and StopEnds: the app a stop.sh has found is signalled by the
\* time the script ends, and stop.sh and the trap of start.sh come to an end,
\* even if the app never does.  The two stop.sh are alike, so one stands for
\* both.
StopsCompletely ==
  /\ turn = "stopping" /\ pc[t1] = "probe" /\ pid[t1] = s1
       ~> pc[t1] = "over" /\ app[s1] \in {"dying", "gone"}
  /\ \A p \in {s1, t1} : turn = "stopping" /\ pc[p] = "read" ~> pc[p] = "over"

\* ComesUp, in both schemes, if nobody stops a container.
StackComesUp ==
  turn \in {"calm D", "calm A"} /\ compose = "waiting" /\ health = "starting"
    /\ dbms = "opening" /\ program = "none"
  ~> program = "serving" \/ compose = "failed"
=============================================================================
