----------------------------- MODULE StartStop -----------------------------
(***************************************************************************)
(* The scripts around app_a on a host without a supervisor: the main flow  *)
(* and the trap of deploy/start.sh, and deploy/stop.sh, on the one PID     *)
(* file they share.  A script is a run of one of them; it is started once. *)
(* The app of a start is named by that start: so is its PID.               *)
(*                                                                         *)
(* app_a sets no signal handler, so SIGTERM ends it as SIGKILL does.  Two  *)
(* of them can be up at once: httplib.h:2079 binds with SO_REUSEPORT.      *)
(***************************************************************************)
EXTENDS Naturals, FiniteSets

CONSTANTS
  Starts,    \* runs of start.sh
  Stops,     \* runs of stop.sh
  None,      \* no file; no text in the file; a process that is none
  Timeout,   \* probes before SIGKILL: 10 in start.sh, -t in stop.sh
  Care       \* what the operator waits for before the next command:
             \* "none", "return" (of the last one) or "exit" (of the last start)

ASSUME StartStopAssumption ==
  /\ Starts \cap Stops = {}
  /\ None \notin Starts \cup Stops \cup [by : Starts, text : Starts \cup {None}]
  /\ Timeout \in Nat
  /\ Care \in {"none", "return", "exit"}

VARIABLES
  file,   \* app_a.pid: None, or the run that created it and the text in it
  app,    \* the app of a start: "none", "up", "dying" or "gone"
  pc,     \* what a script does next
  pid,    \* what a script has read from the file
  fd,     \* the file a start has open for its echo
  tried,  \* probes made by a script's loop
  said    \* what a script's last log says: "", "running", "stopped", or
          \* "killed": SIGKILL was sent and its effect not looked at

vars == <<file, app, pc, pid, fd, tried, said>>

Scripts == Starts \cup Stops

Stages == {"off", "check", "ask", "clear", "setup", "launch", "open", "write",
           "wait", "end", "read", "probe", "kill", "force", "poll", "kill9",
           "verify", "remove", "discard", "over"}

TypeOK ==
  /\ file \in {None} \cup [by : Starts, text : Starts \cup {None}]
  /\ app \in [Starts -> {"none", "up", "dying", "gone"}]
  /\ pc \in [Scripts -> Stages]
  /\ pid \in [Scripts -> Starts \cup {None}]
  /\ fd \in [Starts -> Starts \cup {None}]
  /\ tried \in [Scripts -> 0 .. Timeout]
  /\ said \in [Scripts -> {"", "running", "stopped", "killed"}]

Init ==
  /\ file = None
  /\ app = [r \in Starts |-> "none"]
  /\ pc = [p \in Scripts |-> "off"]
  /\ pid = [p \in Scripts |-> None]
  /\ fd = [r \in Starts |-> None]
  /\ tried = [p \in Scripts |-> 0]
  /\ said = [p \in Scripts |-> ""]

\* kill -0: a process that is dying is still there.
Exists(r) == r # None /\ app[r] \in {"up", "dying"}

Text == IF file = None THEN None ELSE file.text

-----------------------------------------------------------------------------
(* The operator. *)

Busy(p) == pc[p] \notin {"off", "wait", "over"}

\* Nothing is under way: no script is but the starts that wait for their app.
Quiet == \A p \in Scripts : ~ Busy(p)

BeginStart(p) ==
  /\ pc[p] = "off"
  /\ Care # "none" => Quiet
  /\ Care = "exit" => \A q \in Scripts : pc[q] \in {"off", "over"}
  /\ pc' = [pc EXCEPT ![p] = "check"]
  /\ UNCHANGED <<file, app, pid, fd, tried, said>>

BeginStop(p) ==
  /\ pc[p] = "off"
  /\ Care # "none" => Quiet
  /\ pc' = [pc EXCEPT ![p] = "read"]
  /\ UNCHANGED <<file, app, pid, fd, tried, said>>

\* SIGTERM, SIGINT or SIGHUP to start.sh: before its trap is set it ends,
\* then it runs cleanup().
Signal(p) ==
  /\ Care # "none" => Quiet
  /\ \/ /\ pc[p] \in {"check", "ask", "clear", "setup"}
        /\ pc' = [pc EXCEPT ![p] = "over"]
     \/ /\ pc[p] \in {"launch", "open", "write", "wait", "end"}
        /\ pc' = [pc EXCEPT ![p] = "read"]
  /\ UNCHANGED <<file, app, pid, fd, tried, said>>

\* SIGKILL to start.sh: its app goes on.
KillScript(p) ==
  /\ pc[p] \notin {"off", "over"}
  /\ Care # "none" => Quiet
  /\ pc' = [pc EXCEPT ![p] = "over"]
  /\ UNCHANGED <<file, app, pid, fd, tried, said>>

-----------------------------------------------------------------------------
(* start.sh *)

\* [ -f ] and cat.
CheckFile(p) ==
  /\ pc[p] = "check"
  /\ pid' = [pid EXCEPT ![p] = Text]
  /\ pc' = [pc EXCEPT ![p] = IF file = None THEN "setup"
                             ELSE IF Text = None THEN "clear" ELSE "ask"]
  /\ UNCHANGED <<file, app, fd, tried, said>>

\* Mutant: the file is removed before it is known that the process is gone.
AskOld_Clears(p) ==
  /\ pc[p] = "ask"
  /\ file' = None
  /\ pc' = [pc EXCEPT ![p] = IF Exists(pid[p]) THEN "over" ELSE "setup"]
  /\ UNCHANGED <<app, pid, fd, tried, said>>

AskOld(p) ==
  /\ pc[p] = "ask"
  /\ IF Exists(pid[p])
     THEN /\ pc' = [pc EXCEPT ![p] = "over"]
          /\ said' = [said EXCEPT ![p] = "running"]
     ELSE /\ pc' = [pc EXCEPT ![p] = "clear"]
          /\ UNCHANGED said
  /\ UNCHANGED <<file, app, pid, fd, tried>>

ClearFile(p) ==
  /\ pc[p] = "clear"
  /\ file' = None
  /\ pc' = [pc EXCEPT ![p] = "setup"]
  /\ UNCHANGED <<app, pid, fd, tried, said>>

\* check_prereqs, wait_for_pg, setup_database, init_database (see DbSetup):
\* any of them may end the script.
SetUp(p) ==
  /\ pc[p] = "setup"
  /\ pc' \in { [pc EXCEPT ![p] = s] : s \in {"launch", "over"} }
  /\ UNCHANGED <<file, app, pid, fd, tried, said>>

Launch(p) ==
  /\ pc[p] = "launch"
  /\ app' = [app EXCEPT ![p] = "up"]
  /\ pc' = [pc EXCEPT ![p] = "open"]
  /\ UNCHANGED <<file, pid, fd, tried, said>>

\* > "${PID_FILE}": made, or emptied if another start has made it.
OpenFile(p) ==
  /\ pc[p] = "open"
  /\ file' = [by |-> IF file = None THEN p ELSE file.by, text |-> None]
  /\ fd' = [fd EXCEPT ![p] = file'.by]
  /\ pc' = [pc EXCEPT ![p] = "write"]
  /\ UNCHANGED <<app, pid, tried, said>>

\* echo: lost if the file has been removed in between.
WriteFile(p) ==
  /\ pc[p] = "write"
  /\ file' = IF file # None /\ file.by = fd[p]
             THEN [file EXCEPT !.text = p] ELSE file
  /\ pc' = [pc EXCEPT ![p] = "wait"]
  /\ UNCHANGED <<app, pid, fd, tried, said>>

WaitReturns(p) ==
  /\ pc[p] = "wait" /\ app[p] = "gone"
  /\ pc' = [pc EXCEPT ![p] = "end"]
  /\ UNCHANGED <<file, app, pid, fd, tried, said>>

RemoveAtEnd(p) ==
  /\ pc[p] = "end"
  /\ file' = None
  /\ pc' = [pc EXCEPT ![p] = "over"]
  /\ UNCHANGED <<app, pid, fd, tried, said>>

-----------------------------------------------------------------------------
(* stop.sh, and cleanup() of start.sh, which differ where p is asked for. *)

Over(p, says) ==
  /\ pc' = [pc EXCEPT ![p] = "over"]
  /\ said' = [said EXCEPT ![p] = says]

\* stop.sh says "maybe not running" where cleanup() says "stopped".
ReadFile(p) ==
  /\ pc[p] = "read"
  /\ pid' = [pid EXCEPT ![p] = Text]
  /\ IF file = None
     THEN Over(p, IF p \in Starts THEN "stopped" ELSE "")
     ELSE /\ pc' = [pc EXCEPT ![p] = IF Text = None THEN "remove" ELSE "probe"]
          /\ UNCHANGED said
  /\ UNCHANGED <<file, app, fd, tried>>

\* Mutant: the test of kill -0 is turned round.
Probe_Inverted(p) ==
  /\ pc[p] = "probe"
  /\ pc' = [pc EXCEPT ![p] = IF Exists(pid[p]) THEN "remove" ELSE "kill"]
  /\ UNCHANGED <<file, app, pid, fd, tried, said>>

\* stop.sh -f goes on to SIGKILL at once.
Probe(p) ==
  /\ pc[p] = "probe"
  /\ pc' \in { [pc EXCEPT ![p] = s] :
                 s \in IF ~ Exists(pid[p]) THEN {"remove"}
                       ELSE IF p \in Stops THEN {"kill", "force"} ELSE {"kill"} }
  /\ UNCHANGED <<file, app, pid, fd, tried, said>>

Dying(r) ==
  app' = IF app[r] = "up" THEN [app EXCEPT ![r] = "dying"] ELSE app

\* In cleanup() a kill that finds no process ends the script (set -e), and
\* the file stays.
Kill(p) ==
  /\ pc[p] = "kill"
  /\ Dying(pid[p])
  /\ pc' = [pc EXCEPT ![p] =
              IF p \in Starts /\ ~ Exists(pid[p]) THEN "over" ELSE "poll"]
  /\ UNCHANGED <<file, pid, fd, tried, said>>

\* Mutant: one probe too many.
Poll_Late(p) ==
  /\ pc[p] = "poll"
  /\ IF tried[p] > Timeout
     THEN pc' = [pc EXCEPT ![p] = "kill9"] /\ UNCHANGED tried
     ELSE IF Exists(pid[p])
     THEN tried' = [tried EXCEPT ![p] = @ + 1] /\ UNCHANGED pc
     ELSE pc' = [pc EXCEPT ![p] = "remove"] /\ UNCHANGED tried
  /\ UNCHANGED <<file, app, pid, fd, said>>

Poll(p) ==
  /\ pc[p] = "poll"
  /\ IF tried[p] = Timeout
     THEN pc' = [pc EXCEPT ![p] = "kill9"] /\ UNCHANGED tried
     ELSE IF Exists(pid[p])
     THEN tried' = [tried EXCEPT ![p] = @ + 1] /\ UNCHANGED pc
     ELSE pc' = [pc EXCEPT ![p] = "remove"] /\ UNCHANGED tried
  /\ UNCHANGED <<file, app, pid, fd, said>>

\* stop.sh, when it was not forced, looks whether SIGKILL had its effect.
Kill9(p) ==
  /\ pc[p] \in {"kill9", "force"}
  /\ Dying(pid[p])
  /\ pc' = [pc EXCEPT ![p] =
              IF p \in Stops /\ pc[p] = "kill9" THEN "verify" ELSE "discard"]
  /\ UNCHANGED <<file, pid, fd, tried, said>>

Verify(p) ==
  /\ pc[p] = "verify"
  /\ IF Exists(pid[p]) THEN Over(p, "running")
     ELSE pc' = [pc EXCEPT ![p] = "remove"] /\ UNCHANGED said
  /\ UNCHANGED <<file, app, pid, fd, tried>>

\* rm -f removes whatever file has the name by now.
Remove(p) ==
  /\ pc[p] \in {"remove", "discard"}
  /\ file' = None
  /\ Over(p, IF pc[p] = "remove" THEN "stopped" ELSE "killed")
  /\ UNCHANGED <<app, pid, fd, tried>>

-----------------------------------------------------------------------------
\* A signalled app ends; one that is up may end by itself (no database).
AppEnds(r) ==
  /\ app[r] \in {"up", "dying"}
  /\ app' = [app EXCEPT ![r] = "gone"]
  /\ UNCHANGED <<file, pc, pid, fd, tried, said>>

\* The host goes down: the file is all that is left.
HostCrash ==
  /\ \E p \in Scripts : pc[p] # "off"
  /\ app' = [r \in Starts |-> IF app[r] = "none" THEN "none" ELSE "gone"]
  /\ pc' = [p \in Scripts |-> IF pc[p] = "off" THEN "off" ELSE "over"]
  /\ UNCHANGED <<file, pid, fd, tried, said>>

StartStep(p) ==
  \/ CheckFile(p) \/ AskOld(p) \/ ClearFile(p) \/ SetUp(p) \/ Launch(p)
  \/ OpenFile(p) \/ WriteFile(p) \/ WaitReturns(p) \/ RemoveAtEnd(p)

StopStep(p) ==
  \/ ReadFile(p) \/ Probe(p) \/ Kill(p) \/ Poll(p) \/ Kill9(p) \/ Verify(p)
  \/ Remove(p)

Next ==
  \/ \E p \in Starts :
       BeginStart(p) \/ Signal(p) \/ KillScript(p) \/ StartStep(p) \/ AppEnds(p)
  \/ \E p \in Stops : BeginStop(p)
  \/ \E p \in Scripts : StopStep(p)
  \/ HostCrash

Spec == Init /\ [][Next]_vars

\* A script that can go on does.  Nothing is assumed of the app: a process
\* that was signalled may take for ever.
FairSpec == Spec /\ \A p \in Scripts : WF_vars(StopStep(p))

-----------------------------------------------------------------------------
(* Properties *)

\* At most one app_a is up.  start.sh:213-216 is the test that should see to
\* it.
AtMostOneServer == Cardinality({ r \in Starts : app[r] = "up" }) <= 1

\* When no script is busy, an app that is up is the one the PID file names:
\* stop.sh can find it, and so can the next start.sh.
PidFileNamesServer ==
  Quiet => \A r \in Starts : app[r] = "up" => file # None /\ file.text = r

\* A stop.sh that read a PID says that app has ended only when it has.
StoppedHasEnded ==
  \A p \in Stops : said[p] = "stopped" /\ pid[p] # None => app[pid[p]] = "gone"

\* A stop.sh that has found an app comes to an end, and that app has been
\* signalled by then, whatever other scripts do in between.
StopStops ==
  \A p \in Stops, r \in Starts :
    pc[p] = "probe" /\ pid[p] = r
      ~> pc[p] = "over" /\ app[r] \in {"dying", "gone"}

\* A script that begins to stop the app ends, even if the app never does.
StopEnds == \A p \in Scripts : pc[p] = "read" ~> pc[p] = "over"
=============================================================================
