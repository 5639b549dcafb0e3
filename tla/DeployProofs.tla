---------------------------- MODULE DeployProofs ----------------------------
(***************************************************************************)
(* The scripts around the PID file, for any number of runs of them and any *)
(* timeout: the variables keep their types, and stop.sh says "stopped" of  *)
(* an app that has ended only.  If the operator waits for start.sh to end  *)
(* before starting it again, one app is up at most, and the PID file names *)
(* it.                                                                     *)
(*                                                                         *)
(* What becomes of the database before a program serves from it: the start *)
(* of the containers, for any number of steps, probes and retries, in both *)
(* schemes; and start.sh, for any number of runs of it, any environments   *)
(* and any seed.                                                           *)
(***************************************************************************)
EXTENDS StartStop, DbSetup, Startup, FiniteSetTheorems, TLAPS

-----------------------------------------------------------------------------
(* The scripts around the PID file. *)

USE StartStopAssumption DEF Scripts, Stages, vars

LEMMA OneMore ==
  ASSUME NEW n \in Nat, NEW k \in 0 .. n, k # n
  PROVE  k + 1 \in 0 .. n
  OBVIOUS

LEMMA ScriptsTypeInitially == Init => TypeOK
<1> SUFFICES ASSUME Init PROVE TypeOK
  OBVIOUS
<1>1. /\ app \in [Starts -> {"none", "up", "dying", "gone"}]
      /\ pc \in [Scripts -> Stages]
      /\ said \in [Scripts -> {"", "running", "stopped", "killed"}]
  BY DEF Init
<1>2. /\ pid \in [Scripts -> Starts \cup {None}]
      /\ fd \in [Starts -> Starts \cup {None}]
  BY DEF Init
<1>3. tried \in [Scripts -> 0 .. Timeout]
  <2>1. 0 \in 0 .. Timeout
    OBVIOUS
  <2> QED
    BY <2>1 DEF Init
<1> QED
  BY <1>1, <1>2, <1>3 DEF Init, TypeOK

LEMMA ScriptsTypeKept == TypeOK /\ [Next]_vars => TypeOK'
<1> SUFFICES ASSUME TypeOK, [Next]_vars PROVE TypeOK'
  OBVIOUS
<1> USE DEF TypeOK
<1>1. CASE UNCHANGED vars
  BY <1>1
<1>2. Text \in Starts \cup {None}
  BY DEF Text
<1>3. ASSUME NEW p \in Starts, StartStep(p) PROVE TypeOK'
  <2>1. CASE CheckFile(p)
    BY <1>2, <2>1 DEF CheckFile
  <2>2. CASE AskOld(p)
    BY <2>2 DEF AskOld
  <2>3. CASE ClearFile(p)
    BY <2>3 DEF ClearFile
  <2>4. CASE SetUp(p)
    <3> PICK s \in {"launch", "over"} : pc' = [pc EXCEPT ![p] = s]
      BY <2>4 DEF SetUp
    <3> QED
      BY <2>4 DEF SetUp
  <2>5. CASE Launch(p)
    BY <2>5 DEF Launch
  <2>6. CASE OpenFile(p)
    <3>1. file' \in [by : Starts, text : Starts \cup {None}]
      BY <2>6 DEF OpenFile
    <3>2. fd' \in [Starts -> Starts \cup {None}]
      BY <2>6, <3>1 DEF OpenFile
    <3> QED
      BY <2>6, <3>1, <3>2 DEF OpenFile
  <2>7. CASE WriteFile(p)
    <3>1. file' \in {None} \cup [by : Starts, text : Starts \cup {None}]
      BY <2>7 DEF WriteFile
    <3> QED
      BY <2>7, <3>1 DEF WriteFile
  <2>8. CASE WaitReturns(p)
    BY <2>8 DEF WaitReturns
  <2>9. CASE RemoveAtEnd(p)
    BY <2>9 DEF RemoveAtEnd
  <2> QED
    BY <1>3, <2>1, <2>2, <2>3, <2>4, <2>5, <2>6, <2>7, <2>8, <2>9 DEF StartStep
<1>4. ASSUME NEW p \in Scripts, StopStep(p) PROVE TypeOK'
  <2>1. CASE ReadFile(p)
    BY <1>2, <2>1 DEF ReadFile, Over
  <2>2. CASE Probe(p)
    <3> PICK s \in {"remove", "kill", "force"} : pc' = [pc EXCEPT ![p] = s]
      BY <2>2 DEF Probe
    <3> QED
      BY <2>2 DEF Probe
  <2>3. CASE Kill(p)
    BY <2>3 DEF Kill, Dying
  <2>4. CASE Poll(p)
    <3>1. tried' \in [Scripts -> 0 .. Timeout]
      <4>1. tried[p] \in 0 .. Timeout /\ Timeout \in Nat
        BY DEF TypeOK
      <4>2. tried[p] # Timeout => tried[p] + 1 \in 0 .. Timeout
        BY <4>1, OneMore
      <4>3. tried' = tried \/ (tried[p] # Timeout /\ tried' = [tried EXCEPT ![p] = @ + 1])
        BY <2>4 DEF Poll
      <4> QED
        BY <4>2, <4>3
    <3> QED
      BY <2>4, <3>1 DEF Poll
  <2>5. CASE Kill9(p)
    BY <2>5 DEF Kill9, Dying
  <2>6. CASE Verify(p)
    BY <2>6 DEF Verify, Over
  <2>7. CASE Remove(p)
    BY <2>7 DEF Remove, Over
  <2> QED
    BY <1>4, <2>1, <2>2, <2>3, <2>4, <2>5, <2>6, <2>7 DEF StopStep
<1>5. ASSUME NEW p \in Starts, BeginStart(p) \/ Signal(p) \/ KillScript(p) \/ AppEnds(p)
      PROVE  TypeOK'
  <2>1. CASE BeginStart(p)
    BY <2>1 DEF BeginStart
  <2>2. CASE Signal(p)
    BY <2>2 DEF Signal
  <2>3. CASE KillScript(p)
    BY <2>3 DEF KillScript
  <2>4. CASE AppEnds(p)
    BY <2>4 DEF AppEnds
  <2> QED
    BY <1>5, <2>1, <2>2, <2>3, <2>4
<1>6. ASSUME NEW p \in Stops, BeginStop(p) PROVE TypeOK'
  BY <1>6 DEF BeginStop
<1>7. CASE HostCrash
  BY <1>7 DEF HostCrash
<1> QED
  BY <1>1, <1>3, <1>4, <1>5, <1>6, <1>7 DEF Next

\* The variables keep their types; the loops never probe more often than
\* their timeout allows.
THEOREM ScriptsTypeCorrect == Spec => []TypeOK
  BY ScriptsTypeInitially, ScriptsTypeKept, PTL DEF Spec

-----------------------------------------------------------------------------
BeforeLaunch == {"off", "check", "ask", "clear", "setup", "launch"}

\* An app is launched once, and a PID that is anywhere is that of an app that
\* has been launched.
Launched ==
  /\ \A r \in Starts : pc[r] \in BeforeLaunch => app[r] = "none"
  /\ \A r \in Starts : pc[r] \in {"open", "write"} => app[r] # "none"
  /\ Text # None => app[Text] # "none"
  /\ \A p \in Scripts : pid[p] # None => app[pid[p]] # "none"

\* A script that is about to say "stopped", or has said so, is right.
SaysTrue ==
  /\ \A p \in Scripts : pc[p] = "remove" /\ pid[p] # None => app[pid[p]] = "gone"
  /\ \A p \in Scripts : said[p] = "stopped" =>
       pc[p] = "over" /\ (pid[p] # None => app[pid[p]] = "gone")

EndInv == TypeOK /\ Launched /\ SaysTrue

USE DEF BeforeLaunch

\* What a step does to an app: it is launched by its start only, and what is
\* gone stays gone.
AppMoves(r) ==
  /\ app[r] = "gone" => app'[r] = "gone"
  /\ app[r] # "none" => app'[r] # "none"
  /\ app[r] = "none" /\ app'[r] # "none" => pc[r] = "launch" /\ pc'[r] = "open"

LEMMA AppsMove ==
  ASSUME EndInv, [Next]_vars, NEW r \in Starts
  PROVE  AppMoves(r)
<1> USE DEF EndInv, TypeOK
<1>1. ASSUME UNCHANGED vars PROVE app' = app
  BY <1>1
<1>2. ASSUME NEW p \in Starts, StartStep(p), ~ Launch(p) PROVE app' = app
  BY <1>2 DEF StartStep, CheckFile, AskOld, ClearFile, SetUp, OpenFile, WriteFile,
     WaitReturns, RemoveAtEnd
<1>3. ASSUME NEW p \in Starts, Launch(p)
      PROVE  app[p] = "none" /\ pc[p] = "launch" /\ pc'[p] = "open"
             /\ app' = [app EXCEPT ![p] = "up"]
  BY <1>3 DEF Launch, Launched
<1>4. ASSUME NEW p \in Scripts, StopStep(p)
      PROVE  \/ app' = app
             \/ \E q \in Starts : app[q] = "up" /\ app' = [app EXCEPT ![q] = "dying"]
  <2>1. CASE Kill(p) \/ Kill9(p)
    <3>1. Dying(pid[p])
      BY <2>1 DEF Kill, Kill9
    <3>2. CASE pid[p] \in Starts
      BY <3>1, <3>2 DEF Dying
    <3>3. CASE pid[p] \notin Starts
      <4>1. [app EXCEPT ![pid[p]] = "dying"] = app
        BY <3>3
      <4> QED
        BY <3>1, <4>1 DEF Dying
    <3> QED
      BY <3>2, <3>3
  <2>2. CASE ReadFile(p) \/ Probe(p) \/ Poll(p) \/ Verify(p) \/ Remove(p)
    BY <2>2 DEF ReadFile, Probe, Poll, Verify, Remove
  <2> QED
    BY <1>4, <2>1, <2>2 DEF StopStep
<1>5. ASSUME NEW p \in Starts, BeginStart(p) \/ Signal(p) \/ KillScript(p)
      PROVE  app' = app
  BY <1>5 DEF BeginStart, Signal, KillScript
<1>6. ASSUME NEW p \in Starts, AppEnds(p)
      PROVE  app[p] \in {"up", "dying"} /\ app' = [app EXCEPT ![p] = "gone"]
  BY <1>6 DEF AppEnds
<1>7. ASSUME NEW p \in Stops, BeginStop(p) PROVE app' = app
  BY <1>7 DEF BeginStop
<1>8. CASE HostCrash
  BY <1>8 DEF HostCrash, AppMoves
<1>9. ASSUME app' = app PROVE AppMoves(r)
  BY <1>9 DEF AppMoves
<1>10. ASSUME NEW p \in Starts, Launch(p) PROVE AppMoves(r)
  BY <1>3, <1>10 DEF AppMoves
<1>11. ASSUME NEW p \in Scripts, StopStep(p) PROVE AppMoves(r)
  <2>1. CASE \E q \in Starts : app[q] = "up" /\ app' = [app EXCEPT ![q] = "dying"]
    BY <2>1 DEF AppMoves
  <2> QED
    BY <1>4, <1>9, <1>11, <2>1
<1>12. ASSUME NEW p \in Starts, AppEnds(p) PROVE AppMoves(r)
  BY <1>6, <1>12 DEF AppMoves
<1> QED
  BY <1>1, <1>2, <1>5, <1>7, <1>8, <1>9, <1>10, <1>11, <1>12 DEF Next

\* What a step does to a script: the first half is not entered again, a PID is
\* read from the file, and "remove" is reached with the PID of a process that
\* does not exist, or with none.
ScriptMoves(q) ==
  /\ pc'[q] \in BeforeLaunch => pc[q] \in BeforeLaunch
  /\ q \in Starts /\ pc'[q] \in {"open", "write"} =>
       pc[q] \in {"open", "write"} \/ app'[q] # "none"
  /\ pid'[q] \in {pid[q], Text}
  /\ pc'[q] = "remove" /\ pid'[q] # None =>
       pid'[q] = pid[q] /\ (pc[q] = "remove" \/ ~ Exists(pid[q]))
  /\ said'[q] = "stopped" =>
       /\ pc'[q] = "over"
       /\ pid'[q] # None =>
            pid'[q] = pid[q] /\ (pc[q] = "remove" \/ said[q] = "stopped")

LEMMA EndScriptsMove ==
  ASSUME EndInv, [Next]_vars, NEW q \in Scripts
  PROVE  ScriptMoves(q)
<1> USE DEF ScriptMoves
<1>0. /\ DOMAIN pc = Scripts /\ DOMAIN pid = Scripts /\ DOMAIN said = Scripts
      /\ DOMAIN app = Starts
      /\ said[q] = "stopped" =>
           pc[q] = "over" /\ (pid[q] # None => app[pid[q]] = "gone")
  BY DEF EndInv, TypeOK, SaysTrue
<1> USE <1>0
<1>1. CASE UNCHANGED vars
  BY <1>1
<1>2. ASSUME NEW p \in Starts, StartStep(p) PROVE ScriptMoves(q)
  <2>1. CASE CheckFile(p)
    BY <2>1 DEF CheckFile
  <2>2. CASE AskOld(p)
    <3>1. /\ pc[p] = "ask" /\ UNCHANGED pid
          /\ \E s \in {"over", "clear"} : pc' = [pc EXCEPT ![p] = s]
          /\ said' = said \/ said' = [said EXCEPT ![p] = "running"]
      BY <2>2 DEF AskOld
    <3> QED
      BY <3>1
  <2>3. CASE ClearFile(p)
    BY <2>3 DEF ClearFile
  <2>4. CASE SetUp(p)
    <3>1. /\ pc[p] = "setup" /\ UNCHANGED <<pid, said>>
          /\ \E s \in {"launch", "over"} : pc' = [pc EXCEPT ![p] = s]
      BY <2>4 DEF SetUp
    <3> QED
      BY <3>1
  <2>5. CASE Launch(p)
    BY <2>5 DEF Launch
  <2>6. CASE OpenFile(p)
    BY <2>6 DEF OpenFile
  <2>7. CASE WriteFile(p)
    BY <2>7 DEF WriteFile
  <2>8. CASE WaitReturns(p)
    BY <2>8 DEF WaitReturns
  <2>9. CASE RemoveAtEnd(p)
    BY <2>9 DEF RemoveAtEnd
  <2> QED
    BY <1>2, <2>1, <2>2, <2>3, <2>4, <2>5, <2>6, <2>7, <2>8, <2>9 DEF StartStep
<1>3. ASSUME NEW p \in Scripts, StopStep(p) PROVE ScriptMoves(q)
  <2>1. CASE ReadFile(p)
    <3>1. pc[p] = "read" /\ pid' = [pid EXCEPT ![p] = Text]
      BY <2>1 DEF ReadFile
    <3>2. \/ /\ Text = None
             /\ \E t \in {"", "stopped"} : said' = [said EXCEPT ![p] = t]
             /\ pc' = [pc EXCEPT ![p] = "over"]
          \/ Text = None /\ said' = said /\ pc' = [pc EXCEPT ![p] = "remove"]
          \/ said' = said /\ pc' = [pc EXCEPT ![p] = "probe"]
      <4>1. file = None => Text = None
        BY DEF Text
      <4> QED
        BY <2>1, <4>1 DEF ReadFile, Over
    <3>3. CASE q = p
      BY <3>1, <3>2, <3>3
    <3>4. CASE q # p
      BY <3>1, <3>2, <3>4
    <3> QED
      BY <3>3, <3>4
  <2>2. CASE Probe(p)
    <3>1. /\ pc[p] = "probe" /\ UNCHANGED <<pid, said>>
          /\ \E s \in {"remove", "kill", "force"} :
               pc' = [pc EXCEPT ![p] = s] /\ (s = "remove" => ~ Exists(pid[p]))
      <4> PICK s \in IF ~ Exists(pid[p]) THEN {"remove"}
                      ELSE IF p \in Stops THEN {"kill", "force"} ELSE {"kill"} :
             pc' = [pc EXCEPT ![p] = s]
        BY <2>2 DEF Probe
      <4> QED
        BY <2>2 DEF Probe
    <3> QED
      BY <3>1
  <2>3. CASE Kill(p)
    BY <2>3 DEF Kill
  <2>4. CASE Poll(p)
    <3>1. /\ pc[p] = "poll" /\ UNCHANGED <<pid, said>>
          /\ \/ pc' = [pc EXCEPT ![p] = "kill9"]
             \/ pc' = pc
             \/ pc' = [pc EXCEPT ![p] = "remove"] /\ ~ Exists(pid[p])
      BY <2>4 DEF Poll
    <3> QED
      BY <3>1
  <2>5. CASE Kill9(p)
    BY <2>5 DEF Kill9
  <2>6. CASE Verify(p)
    <3>1. /\ pc[p] = "verify" /\ UNCHANGED pid
          /\ \/ /\ pc' = [pc EXCEPT ![p] = "over"]
                /\ said' = [said EXCEPT ![p] = "running"]
             \/ /\ pc' = [pc EXCEPT ![p] = "remove"]
                /\ said' = said /\ ~ Exists(pid[p])
      BY <2>6 DEF Verify, Over
    <3> QED
      BY <3>1
  <2>7. CASE Remove(p)
    BY <2>7 DEF Remove, Over
  <2> QED
    BY <1>3, <2>1, <2>2, <2>3, <2>4, <2>5, <2>6, <2>7 DEF StopStep
<1>4. ASSUME NEW p \in Starts, BeginStart(p) PROVE ScriptMoves(q)
  BY <1>4 DEF BeginStart
<1>5. ASSUME NEW p \in Starts, Signal(p) PROVE ScriptMoves(q)
  BY <1>5 DEF Signal
<1>6. ASSUME NEW p \in Starts, KillScript(p) PROVE ScriptMoves(q)
  BY <1>6 DEF KillScript
<1>7. ASSUME NEW p \in Starts, AppEnds(p) PROVE ScriptMoves(q)
  BY <1>7 DEF AppEnds
<1>8. ASSUME NEW p \in Stops, BeginStop(p) PROVE ScriptMoves(q)
  BY <1>8 DEF BeginStop
<1>9. CASE HostCrash
  BY <1>9 DEF HostCrash
<1> QED
  BY <1>1, <1>2, <1>3, <1>4, <1>5, <1>6, <1>7, <1>8, <1>9 DEF Next

\* The text of the file is what it was, or that of a start that has just
\* launched its app, or there is none.
LEMMA TextMoves ==
  ASSUME EndInv, [Next]_vars
  PROVE  \/ Text' \in {Text, None}
         \/ \E r \in Starts : pc[r] = "write" /\ Text' = r
<1>1. ASSUME NEW r \in Starts, WriteFile(r)
      PROVE  Text' \in {Text, None} \/ (pc[r] = "write" /\ Text' = r)
  <2>1. CASE file # None /\ file.by = fd[r]
    <3>1. file' = [file EXCEPT !.text = r] /\ file \in [by : Starts, text : Starts \cup {None}]
      BY <1>1, <2>1 DEF WriteFile, EndInv, TypeOK
    <3>2. file'.text = r
      BY <3>1
    <3>3. file' # None => Text' = r
      BY <3>2 DEF Text
    <3>4. file' = None => Text' = None
      BY DEF Text
    <3> QED
      BY <1>1, <3>3, <3>4 DEF WriteFile
  <2>2. CASE ~ (file # None /\ file.by = fd[r])
    BY <1>1, <2>2 DEF WriteFile, Text
  <2> QED
    BY <2>1, <2>2
<1>2. ASSUME NEW r \in Starts, OpenFile(r) PROVE Text' = None
  BY <1>2 DEF OpenFile, Text
<1>3. ASSUME file' = None PROVE Text' = None
  BY <1>3 DEF Text
<1>4. ASSUME file' = file PROVE Text' = Text
  BY <1>4 DEF Text
<1>5. ASSUME NEW p \in Starts, StartStep(p), ~ OpenFile(p), ~ WriteFile(p)
      PROVE  file' \in {file, None}
  BY <1>5 DEF StartStep, CheckFile, AskOld, ClearFile, SetUp, Launch, WaitReturns, RemoveAtEnd
<1>6. ASSUME NEW p \in Scripts, StopStep(p) PROVE file' \in {file, None}
  BY <1>6 DEF StopStep, ReadFile, Probe, Kill, Poll, Kill9, Verify, Remove
<1>7. ASSUME NEW p \in Starts, BeginStart(p) \/ Signal(p) \/ KillScript(p) \/ AppEnds(p)
      PROVE  file' = file
  BY <1>7 DEF BeginStart, Signal, KillScript, AppEnds
<1>8. ASSUME NEW p \in Stops, BeginStop(p) PROVE file' = file
  BY <1>8 DEF BeginStop
<1>9. ASSUME HostCrash \/ UNCHANGED vars PROVE file' = file
  BY <1>9 DEF HostCrash
<1> QED
  BY <1>1, <1>2, <1>3, <1>4, <1>5, <1>6, <1>7, <1>8, <1>9 DEF Next

LEMMA EndInvKept == EndInv /\ [Next]_vars => EndInv'
<1> SUFFICES ASSUME EndInv, [Next]_vars PROVE EndInv'
  OBVIOUS
<1>1. TypeOK'
  BY ScriptsTypeKept DEF EndInv
<1>2. /\ \A r \in Starts : AppMoves(r)
      /\ \A q \in Scripts : ScriptMoves(q)
  BY AppsMove, EndScriptsMove
<1>3. Text \in Starts \cup {None} /\ \A q \in Scripts : pid[q] \in Starts \cup {None}
  BY DEF EndInv, TypeOK, Text
<1>4. Launched'
  <2>1. \A r \in Starts : pc'[r] \in BeforeLaunch => app'[r] = "none"
    BY <1>2 DEF AppMoves, ScriptMoves, EndInv, Launched
  <2>2. \A r \in Starts : pc'[r] \in {"open", "write"} => app'[r] # "none"
    BY <1>2 DEF AppMoves, ScriptMoves, EndInv, Launched
  <2>3. Text' # None => app'[Text'] # "none"
    BY <1>2, <1>3, TextMoves DEF AppMoves, EndInv, Launched
  <2>4. \A q \in Scripts : pid'[q] # None => app'[pid'[q]] # "none"
    BY <1>2, <1>3 DEF AppMoves, ScriptMoves, EndInv, Launched
  <2> QED
    BY <2>1, <2>2, <2>3, <2>4 DEF Launched
<1>5. SaysTrue'
  <2>1. \A q \in Scripts : pid[q] # None /\ ~ Exists(pid[q]) => app[pid[q]] = "gone"
    <3> SUFFICES ASSUME NEW q \in Scripts, pid[q] # None, ~ Exists(pid[q])
                 PROVE  app[pid[q]] = "gone"
      OBVIOUS
    <3>1. pid[q] \in Starts /\ app[pid[q]] # "none"
      BY <1>3 DEF EndInv, Launched
    <3>2. app[pid[q]] \in {"none", "up", "dying", "gone"}
      BY <3>1 DEF EndInv, TypeOK
    <3> QED
      BY <3>1, <3>2 DEF Exists
  <2>2. \A q \in Scripts : pc'[q] = "remove" /\ pid'[q] # None => app'[pid'[q]] = "gone"
    BY <1>2, <1>3, <2>1 DEF AppMoves, ScriptMoves, EndInv, SaysTrue
  <2>3. \A q \in Scripts : said'[q] = "stopped" =>
          pc'[q] = "over" /\ (pid'[q] # None => app'[pid'[q]] = "gone")
    BY <1>2, <1>3 DEF AppMoves, ScriptMoves, EndInv, SaysTrue
  <2> QED
    BY <2>2, <2>3 DEF SaysTrue
<1> QED
  BY <1>1, <1>4, <1>5 DEF EndInv

\* stop.sh, and the trap of start.sh, say "stopped" of an app only when it has
\* ended, however scripts, signals, crashes and the PID file interleave.
THEOREM SaidStoppedIsTrue == Spec => []StoppedHasEnded
<1>1. Init => EndInv
  <2> SUFFICES ASSUME Init PROVE EndInv
    OBVIOUS
  <2>1. Launched /\ SaysTrue
    BY DEF Init, Launched, SaysTrue, Text
  <2> QED
    BY <2>1, ScriptsTypeInitially DEF EndInv
<1>2. EndInv => StoppedHasEnded
  BY DEF EndInv, SaysTrue, StoppedHasEnded
<1> QED
  BY <1>1, <1>2, EndInvKept, PTL DEF Spec

-----------------------------------------------------------------------------
(* The operator who waits. *)

IsUp(r) == app[r] = "up"

\* Doing something but removing the file after wait has returned, which may be
\* done while a stop.sh runs.
Active(p) == Busy(p) /\ pc[p] # "end"

\* Stages at which the app of the file is known not to be up, or never to have
\* been there; at which its PID is known; and at which it is the script's own.
NoneLeft == {"clear", "setup", "launch", "end", "poll", "kill9", "verify",
             "remove", "discard"}
Known == {"ask", "probe", "kill", "force"}
Own == {"open", "write", "wait"}

CareInv ==
  /\ \A p, q \in Scripts : Active(p) /\ Active(q) => p = q
  /\ \A p, q \in Starts : {pc[p], pc[q]} \cap {"off", "over"} = {} => p = q
  /\ \A p \in Scripts : pc[p] \in Own \cup {"launch", "end"} => p \in Starts
  /\ \A r \in Starts : IsUp(r) => Text = r \/ pc[r] \in {"open", "write"}
  /\ \A p \in Scripts, r \in Starts : IsUp(r) =>
       /\ pc[p] \notin NoneLeft
       /\ pc[p] \in Known => pid[p] = r
       /\ pc[p] \in Own => p = r
  /\ \A p \in Starts : pc[p] = "write" => file # None /\ file.by = fd[p]

USE DEF NoneLeft, Known, Own

\* A script goes on to s.
LEMMA GoesOn ==
  ASSUME TypeOK, CareInv, NEW p \in Scripts, NEW s \in Stages \ {"off"},
         pc' = [pc EXCEPT ![p] = s],
         \/ Active(p)
         \/ p \in Starts /\ pc[p] \in {"wait", "end"} /\ s \in {"over", "end"}
         \/ \A q \in Scripts : ~ Active(q),
         p \in Starts /\ s # "over" =>
           pc[p] \notin {"off", "over"} \/ \A q \in Starts : pc[q] \in {"off", "over"},
         s \in Own \cup {"launch", "end"} => p \in Starts,
         \A r \in Starts : IsUp(r)' => IsUp(r) \/ (r = p /\ pc[p] = "launch"),
         \A q \in Scripts : q # p => pid'[q] = pid[q],
         \A r \in Starts : IsUp(r)' =>
           /\ Text' = r \/ (r = p /\ s \in {"open", "write"})
           /\ s \notin NoneLeft
           /\ s \in Known => pid'[p] = r
           /\ s \in Own => p = r,
         s = "write" => file' # None /\ file'.by = fd'[p]
  PROVE  CareInv'
<1>1. /\ pc'[p] = s
      /\ \A q \in Scripts : q # p => pc'[q] = pc[q]
      /\ Starts \subseteq Scripts
  BY DEF TypeOK
<1>2. \A q \in Scripts : q # p => (Active(q)' <=> Active(q))
  BY <1>1 DEF Active, Busy
<1>3. s \in {"over", "end"} => ~ Active(p)'
  BY <1>1 DEF Active, Busy
<1>4. \A q, u \in Scripts : Active(q)' /\ Active(u)' => q = u
  BY <1>2, <1>3 DEF CareInv
<1>5. \A q, u \in Starts : {pc'[q], pc'[u]} \cap {"off", "over"} = {} => q = u
  BY <1>1 DEF CareInv
<1>6. \A q \in Scripts : pc'[q] \in Own \cup {"launch", "end"} => q \in Starts
  BY <1>1 DEF CareInv
<1>7. \A r \in Starts : IsUp(r)' => Text' = r \/ pc'[r] \in {"open", "write"}
  BY <1>1
<1>8. ASSUME NEW q \in Scripts, NEW r \in Starts, q # p, IsUp(r)'
      PROVE  /\ pc[q] \notin NoneLeft
             /\ pc[q] \in Known => pid[q] = r
             /\ pc[q] \in Own => q = r
  <2>1. CASE IsUp(r)
    BY <2>1 DEF CareInv
  <2>2. CASE pc[p] = "launch"
    <3>1. p \in Starts /\ Active(p)
      BY <2>2 DEF CareInv, Active, Busy
    <3>2. ~ Active(q)
      BY <1>8, <3>1 DEF CareInv
    <3>3. pc[q] \in {"off", "over", "wait", "end"}
      BY <3>2 DEF Active, Busy
    <3>4. pc[q] \notin {"wait", "end"}
      BY <1>8, <2>2, <3>1 DEF CareInv
    <3> QED
      BY <3>3, <3>4
  <2> QED
    BY <1>8, <2>1, <2>2
<1>9. \A q \in Scripts, r \in Starts : IsUp(r)' =>
        /\ pc'[q] \notin NoneLeft
        /\ pc'[q] \in Known => pid'[q] = r
        /\ pc'[q] \in Own => q = r
  BY <1>1, <1>8
<1>10. \A q \in Starts : pc'[q] = "write" => file' # None /\ file'.by = fd'[q]
  <2> SUFFICES ASSUME NEW q \in Starts, pc[q] = "write", q # p PROVE FALSE
    BY <1>1
  <2>1. Active(q) /\ ~ Active(p)
    BY DEF CareInv, Active, Busy
  <2>2. p \in Starts /\ pc[p] \in {"wait", "end"}
    BY <2>1
  <2> QED
    BY <2>2 DEF CareInv
<1> QED
  BY <1>4, <1>5, <1>6, <1>7, <1>9, <1>10 DEF CareInv

\* No script goes on.
LEMMA NoneGoesOn ==
  ASSUME TypeOK, CareInv, UNCHANGED <<pc, file, pid, fd>>,
         \A r \in Starts : IsUp(r)' => IsUp(r)
  PROVE  CareInv'
  BY DEF CareInv, Active, Busy, Text

\* What is known at a script that is active, or at its end.
LEMMA NoneElseActive ==
  ASSUME TypeOK, CareInv, NEW p \in Scripts, Active(p), pc[p] \notin {"open", "write"},
         NEW r \in Starts, IsUp(r)
  PROVE  Text = r
<1>1. CASE pc[r] \in {"open", "write"}
  <2>1. Active(r)
    BY <1>1 DEF Active, Busy
  <2> QED
    BY <1>1, <2>1 DEF CareInv
<1> QED
  BY <1>1 DEF CareInv

LEMMA StartStepCares ==
  ASSUME TypeOK, CareInv, NEW p \in Starts, StartStep(p)
  PROVE  CareInv'
<1>0. p \in Scripts
  OBVIOUS
<1>1. CASE CheckFile(p)
  <2>1. PICK s \in {"setup", "clear", "ask"} :
          /\ pc' = [pc EXCEPT ![p] = s]
          /\ s \in {"setup", "clear"} => Text = None
    BY <1>1 DEF CheckFile, Text
  <2>2. /\ Active(p) /\ pc[p] = "check"
        /\ pid'[p] = Text /\ \A q \in Scripts : q # p => pid'[q] = pid[q]
        /\ UNCHANGED <<app, file>>
    BY <1>1 DEF CheckFile, Active, Busy, TypeOK
  <2>3. \A r \in Starts : IsUp(r) => Text = r /\ r # None
    BY <2>2, NoneElseActive
  <2>4. Text' = Text /\ \A r \in Starts : IsUp(r)' <=> IsUp(r)
    BY <2>2 DEF Text, IsUp
  <2> QED
    BY <2>1, <2>2, <2>3, <2>4, GoesOn
<1>2. CASE AskOld(p)
  <2>1. PICK s \in {"over", "clear"} :
          pc' = [pc EXCEPT ![p] = s] /\ (s = "clear" => ~ Exists(pid[p]))
    BY <1>2 DEF AskOld
  <2>2. /\ Active(p) /\ pc[p] = "ask"
        /\ UNCHANGED <<app, file, pid>>
    BY <1>2 DEF AskOld, Active, Busy
  <2>3. \A r \in Starts : IsUp(r) => Text = r /\ pid[p] = r /\ Exists(pid[p])
    <3>1. \A r \in Starts : IsUp(r) => Text = r /\ pid[p] = r /\ r # None
      BY <2>2, NoneElseActive DEF CareInv
    <3> QED
      BY <3>1 DEF Exists, IsUp
  <2>4. Text' = Text /\ \A r \in Starts : IsUp(r)' <=> IsUp(r)
    BY <2>2 DEF Text, IsUp
  <2> QED
    BY <2>1, <2>2, <2>3, <2>4, GoesOn
<1>3. CASE ClearFile(p)
  <2>1. /\ Active(p) /\ pc[p] = "clear"
        /\ pc' = [pc EXCEPT ![p] = "setup"]
        /\ UNCHANGED <<app, pid>>
    BY <1>3 DEF ClearFile, Active, Busy
  <2>2. \A r \in Starts : ~ IsUp(r) /\ ~ IsUp(r)'
    BY <2>1 DEF CareInv, IsUp
  <2> QED
    BY <2>1, <2>2, GoesOn
<1>4. CASE SetUp(p)
  <2>1. PICK s \in {"launch", "over"} : pc' = [pc EXCEPT ![p] = s]
    BY <1>4 DEF SetUp
  <2>2. /\ Active(p) /\ pc[p] = "setup"
        /\ UNCHANGED <<app, pid>>
    BY <1>4 DEF SetUp, Active, Busy
  <2>3. \A r \in Starts : ~ IsUp(r) /\ ~ IsUp(r)'
    BY <2>2 DEF CareInv, IsUp
  <2> QED
    BY <2>1, <2>2, <2>3, GoesOn
<1>5. CASE Launch(p)
  <2>1. /\ Active(p) /\ pc[p] = "launch"
        /\ pc' = [pc EXCEPT ![p] = "open"]
        /\ UNCHANGED pid
    BY <1>5 DEF Launch, Active, Busy
  <2>2. \A r \in Starts : ~ IsUp(r)
    BY <2>1 DEF CareInv
  <2>3. \A r \in Starts : r # p => app'[r] = app[r]
    BY <1>5 DEF Launch, TypeOK
  <2>4. \A r \in Starts : IsUp(r)' => r = p
    BY <2>2, <2>3 DEF IsUp
  <2> QED
    BY <2>1, <2>4, GoesOn
<1>6. CASE OpenFile(p)
  <2>1. /\ Active(p) /\ pc[p] = "open"
        /\ pc' = [pc EXCEPT ![p] = "write"]
        /\ UNCHANGED <<app, pid>>
    BY <1>6 DEF OpenFile, Active, Busy
  <2>2. /\ file' \in [by : Starts, text : {None}]
        /\ fd'[p] = file'.by
    BY <1>6 DEF OpenFile, TypeOK
  <2>3. file' # None
    BY <2>2
  <2>4. \A r \in Starts : IsUp(r)' => IsUp(r) /\ r = p
    BY <2>1 DEF CareInv, IsUp
  <2>5. \A r \in Starts : IsUp(r)' =>
          /\ Text' = r \/ (r = p /\ "write" \in {"open", "write"})
          /\ "write" \notin NoneLeft
          /\ "write" \in Known => pid'[p] = r
          /\ "write" \in Own => p = r
    BY <2>4
  <2>6. file' # None /\ file'.by = fd'[p]
    BY <2>2, <2>3
  <2> HIDE DEF NoneLeft, Known, Own
  <2> QED
    BY <2>1, <2>4, <2>5, <2>6, GoesOn
<1>7. CASE WriteFile(p)
  <2>1. /\ Active(p) /\ pc[p] = "write"
        /\ pc' = [pc EXCEPT ![p] = "wait"]
        /\ UNCHANGED <<app, pid>>
    BY <1>7 DEF WriteFile, Active, Busy
  <2>2. \A r \in Starts : IsUp(r)' => IsUp(r) /\ r = p
    BY <2>1 DEF CareInv, IsUp
  <2>3. file # None /\ file.by = fd[p] /\ file \in [by : Starts, text : Starts \cup {None}]
    BY <2>1 DEF CareInv, TypeOK
  <2>4. file' = [file EXCEPT !.text = p]
    BY <1>7, <2>3 DEF WriteFile
  <2>5. file'.text = p /\ file' \in [by : Starts, text : Starts \cup {None}]
    BY <2>3, <2>4
  <2>6. Text' = p
    BY <2>5 DEF Text
  <2>7. \A r \in Starts : IsUp(r)' =>
          /\ Text' = r \/ (r = p /\ "wait" \in {"open", "write"})
          /\ "wait" \notin NoneLeft
          /\ "wait" \in Known => pid'[p] = r
          /\ "wait" \in Own => p = r
    BY <2>2, <2>6
  <2> HIDE DEF NoneLeft, Known, Own
  <2> QED
    BY <2>1, <2>2, <2>7, GoesOn
<1>8. CASE WaitReturns(p)
  <2>1. /\ pc[p] = "wait" /\ app[p] = "gone"
        /\ pc' = [pc EXCEPT ![p] = "end"]
        /\ UNCHANGED <<app, pid>>
    BY <1>8 DEF WaitReturns
  <2>2. \A r \in Starts : ~ IsUp(r) /\ ~ IsUp(r)'
    BY <2>1 DEF CareInv, IsUp
  <2> QED
    BY <2>1, <2>2, GoesOn
<1>9. CASE RemoveAtEnd(p)
  <2>1. /\ pc[p] = "end"
        /\ pc' = [pc EXCEPT ![p] = "over"]
        /\ UNCHANGED <<app, pid>>
    BY <1>9 DEF RemoveAtEnd
  <2>2. \A r \in Starts : ~ IsUp(r) /\ ~ IsUp(r)'
    BY <2>1 DEF CareInv, IsUp
  <2> QED
    BY <2>1, <2>2, GoesOn
<1> QED
  BY <1>1, <1>2, <1>3, <1>4, <1>5, <1>6, <1>7, <1>8, <1>9 DEF StartStep

\* A script that signals the app it knows leaves none that is up.
LEMMA DyingLeavesNone ==
  ASSUME TypeOK, CareInv, NEW p \in Scripts, pc[p] \in Known \cup {"kill9"},
         Dying(pid[p])
  PROVE  \A r \in Starts : ~ IsUp(r)'
<1> SUFFICES ASSUME NEW r \in Starts, IsUp(r)' PROVE FALSE
  OBVIOUS
<1>1. IsUp(r)
  BY DEF Dying, IsUp, TypeOK
<1>2. pid[p] = r
  BY <1>1 DEF CareInv
<1>3. app' = [app EXCEPT ![r] = "dying"]
  BY <1>1, <1>2 DEF Dying, IsUp
<1> QED
  BY <1>3 DEF IsUp, TypeOK

LEMMA StopStepCares ==
  ASSUME TypeOK, CareInv, NEW p \in Scripts, StopStep(p)
  PROVE  CareInv'
<1>1. CASE ReadFile(p)
  <2>1. PICK s \in {"over", "remove", "probe"} :
          /\ pc' = [pc EXCEPT ![p] = s]
          /\ s = "remove" => Text = None
    BY <1>1 DEF ReadFile, Over, Text
  <2>2. /\ Active(p) /\ pc[p] = "read"
        /\ pid'[p] = Text /\ \A q \in Scripts : q # p => pid'[q] = pid[q]
        /\ UNCHANGED <<app, file>>
    BY <1>1 DEF ReadFile, Active, Busy, TypeOK
  <2>3. \A r \in Starts : IsUp(r) => Text = r /\ r # None
    BY <2>2, NoneElseActive
  <2>4. Text' = Text /\ \A r \in Starts : IsUp(r)' <=> IsUp(r)
    BY <2>2 DEF Text, IsUp
  <2> QED
    BY <2>1, <2>2, <2>3, <2>4, GoesOn
<1>2. CASE Probe(p)
  <2>1. PICK s \in {"remove", "kill", "force"} :
          pc' = [pc EXCEPT ![p] = s] /\ (s = "remove" => ~ Exists(pid[p]))
    BY <1>2 DEF Probe
  <2>2. /\ Active(p) /\ pc[p] = "probe"
        /\ UNCHANGED <<app, file, pid>>
    BY <1>2 DEF Probe, Active, Busy
  <2>3. \A r \in Starts : IsUp(r) => Text = r /\ pid[p] = r /\ Exists(pid[p])
    <3>1. \A r \in Starts : IsUp(r) => Text = r /\ pid[p] = r /\ r # None
      BY <2>2, NoneElseActive DEF CareInv
    <3> QED
      BY <3>1 DEF Exists, IsUp
  <2>4. Text' = Text /\ \A r \in Starts : IsUp(r)' <=> IsUp(r)
    BY <2>2 DEF Text, IsUp
  <2> QED
    BY <2>1, <2>2, <2>3, <2>4, GoesOn
<1>3. CASE Kill(p)
  <2>1. PICK s \in {"over", "poll"} : pc' = [pc EXCEPT ![p] = s]
    BY <1>3 DEF Kill
  <2>2. /\ Active(p) /\ pc[p] = "kill"
        /\ UNCHANGED pid /\ Dying(pid[p])
    BY <1>3 DEF Kill, Active, Busy
  <2>3. \A r \in Starts : ~ IsUp(r)'
    BY <2>2, DyingLeavesNone
  <2> QED
    BY <2>1, <2>2, <2>3, GoesOn
<1>4. CASE Kill9(p)
  <2>1. PICK s \in {"verify", "discard"} : pc' = [pc EXCEPT ![p] = s]
    BY <1>4 DEF Kill9
  <2>2. /\ Active(p) /\ pc[p] \in {"kill9", "force"}
        /\ UNCHANGED pid /\ Dying(pid[p])
    BY <1>4 DEF Kill9, Active, Busy
  <2>3. \A r \in Starts : ~ IsUp(r)'
    BY <2>2, DyingLeavesNone
  <2> QED
    BY <2>1, <2>2, <2>3, GoesOn
<1>5. CASE Poll(p) \/ Verify(p) \/ Remove(p)
  <2>1. PICK s \in {"kill9", "poll", "remove", "over"} : pc' = [pc EXCEPT ![p] = s]
    <3>1. CASE Poll(p)
      <4>1. \/ pc' = [pc EXCEPT ![p] = "kill9"]
            \/ pc[p] = "poll" /\ pc' = pc
            \/ pc' = [pc EXCEPT ![p] = "remove"]
        BY <3>1 DEF Poll
      <4>2. pc = [pc EXCEPT ![p] = pc[p]]
        <5>1. pc \in [Scripts -> Stages]
          BY DEF TypeOK
        <5> HIDE StartStopAssumption DEF Scripts, Stages
        <5> QED
          BY <5>1
      <4> QED
        BY <4>1, <4>2
    <3>2. CASE Verify(p)
      BY <3>2 DEF Verify, Over
    <3>3. CASE Remove(p)
      BY <3>3 DEF Remove, Over
    <3> QED
      BY <1>5, <3>1, <3>2, <3>3
  <2>2. /\ Active(p) /\ pc[p] \in {"poll", "verify", "remove", "discard"}
        /\ UNCHANGED <<app, pid>>
    BY <1>5 DEF Poll, Verify, Remove, Active, Busy
  <2>3. \A r \in Starts : ~ IsUp(r) /\ ~ IsUp(r)'
    BY <2>2 DEF CareInv, IsUp
  <2> QED
    BY <2>1, <2>2, <2>3, GoesOn
<1> QED
  BY <1>1, <1>2, <1>3, <1>4, <1>5 DEF StopStep

\* The operator, who waits, and what happens to apps and host by itself.
LEMMA OperatorCares ==
  ASSUME TypeOK, CareInv, Care = "exit", NEW p \in Scripts,
         \/ p \in Starts /\ (BeginStart(p) \/ Signal(p) \/ KillScript(p))
         \/ p \in Stops /\ BeginStop(p)
  PROVE  CareInv'
<1>1. /\ Quiet
      /\ UNCHANGED <<file, app, pid, fd>>
  BY DEF BeginStart, Signal, KillScript, BeginStop
<1>2. PICK s \in {"check", "read", "over"} : pc' = [pc EXCEPT ![p] = s]
  BY DEF BeginStart, Signal, KillScript, BeginStop
<1>3. \A q \in Scripts : ~ Active(q) /\ pc[q] \in {"off", "wait", "over"}
  BY <1>1 DEF Quiet, Active, Busy
<1>4. \A r \in Starts : IsUp(r) => Text = r
  BY <1>3 DEF CareInv
<1>5. p \in Starts /\ s # "over" =>
        pc[p] \notin {"off", "over"} \/ \A q \in Starts : pc[q] \in {"off", "over"}
  <2>1. CASE BeginStart(p)
    BY <2>1 DEF BeginStart
  <2>2. CASE Signal(p) \/ KillScript(p)
    BY <2>2 DEF Signal, KillScript
  <2> QED
    BY <2>1, <2>2
<1>6. Text' = Text /\ \A r \in Starts : IsUp(r)' <=> IsUp(r)
  BY <1>1 DEF Text, IsUp
<1> QED
  BY <1>1, <1>2, <1>3, <1>4, <1>5, <1>6, GoesOn

LEMMA CareKept ==
  ASSUME TypeOK, CareInv, Care = "exit", [Next]_vars
  PROVE  CareInv'
<1>1. CASE UNCHANGED vars
  BY <1>1, NoneGoesOn DEF IsUp
<1>2. ASSUME NEW p \in Starts, AppEnds(p) PROVE CareInv'
  <2>1. UNCHANGED <<pc, file, pid, fd>> /\ \A r \in Starts : IsUp(r)' => IsUp(r)
    BY <1>2 DEF AppEnds, IsUp, TypeOK
  <2> QED
    BY <2>1, NoneGoesOn
<1>3. CASE HostCrash
  <2>1. \A r \in Starts : ~ IsUp(r)'
    BY <1>3 DEF HostCrash, IsUp
  <2>2. \A q \in Scripts : pc'[q] \in {"off", "over"}
    BY <1>3 DEF HostCrash
  <2> QED
    BY <2>1, <2>2 DEF CareInv, Active, Busy
<1> QED
  BY <1>1, <1>2, <1>3, StartStepCares, StopStepCares, OperatorCares DEF Next

\* If the operator waits for start.sh to end, which it does when the app has
\* ended or the script was killed, at most one app is up, and when no script is
\* busy the PID file names it: for any number of runs, killed scripts, crashed
\* hosts and apps that end by themselves.
THEOREM OneServerWithCare ==
  ASSUME Care = "exit"
  PROVE  Spec => [](AtMostOneServer /\ PidFileNamesServer)
<1>1. Init => TypeOK /\ CareInv
  <2> SUFFICES ASSUME Init PROVE CareInv
    BY ScriptsTypeInitially
  <2>1. \A q \in Scripts : pc[q] = "off"
    BY DEF Init
  <2>2. \A r \in Starts : ~ IsUp(r)
    BY DEF Init, IsUp
  <2> QED
    BY <2>1, <2>2 DEF CareInv, Active, Busy
<1>2. TypeOK /\ CareInv /\ [Next]_vars => (TypeOK /\ CareInv)'
  BY CareKept, ScriptsTypeKept
<1>3. TypeOK /\ CareInv => PidFileNamesServer
  <2> SUFFICES ASSUME TypeOK, CareInv, Quiet, NEW r \in Starts, IsUp(r)
               PROVE  file # None /\ file.text = r
    BY DEF PidFileNamesServer, IsUp
  <2>1. pc[r] \notin {"open", "write"}
    BY DEF Quiet, Busy
  <2>2. Text = r /\ r # None
    BY <2>1 DEF CareInv
  <2> QED
    BY <2>2 DEF Text
<1>4. TypeOK /\ CareInv => AtMostOneServer
  <2> SUFFICES ASSUME TypeOK, CareInv PROVE AtMostOneServer
    OBVIOUS
  <2> DEFINE S == { r \in Starts : app[r] = "up" }
  <2>1. \A r, t \in S : r = t
    <3> SUFFICES ASSUME NEW r \in Starts, NEW t \in Starts, IsUp(r), IsUp(t) PROVE r = t
      BY DEF IsUp
    <3>1. pc[r] \in {"open", "write"} => r = t
      BY DEF CareInv
    <3>2. pc[t] \in {"open", "write"} => r = t
      BY DEF CareInv
    <3> QED
      BY <3>1, <3>2 DEF CareInv
  <2>2. CASE S = {}
    BY <2>2, FS_EmptySet DEF AtMostOneServer
  <2>3. CASE S # {}
    <3> PICK r : r \in S
      BY <2>3
    <3>1. S = {r}
      BY <2>1
    <3>2. Cardinality(S) = 1
      BY <3>1, FS_Singleton
    <3> QED
      BY <3>2 DEF AtMostOneServer
  <2> QED
    BY <2>2, <2>3
<1> QED
  BY <1>1, <1>2, <1>3, <1>4, PTL DEF Spec

-----------------------------------------------------------------------------
(* The start of the containers. *)

HIDE StartStopAssumption DEF Scripts, Stages, vars, BeforeLaunch, NoneLeft, Known, Own
USE StartupAssumption

LEMMA StartupTypeInitially == StartupInit => StartupTypeOK
<1> SUFFICES ASSUME StartupInit PROVE StartupTypeOK
  OBVIOUS
<1>1. made \in {"no", "yes"} /\ ran \in 0 .. Steps /\ cut = FALSE
  BY DEF StartupInit
<1>2. failed = 0 /\ starts = 0 /\ 0 \in 0 .. Retries /\ 0 \in 0 .. StartRetries
  BY DEF StartupInit
<1> QED
  BY <1>1, <1>2 DEF StartupInit, StartupTypeOK

LEMMA StartupTypeKept ==
  StartupTypeOK /\ [StartupNext]_startupVars => StartupTypeOK'
<1> SUFFICES ASSUME StartupTypeOK, [StartupNext]_startupVars PROVE StartupTypeOK'
  OBVIOUS
<1> USE DEF StartupTypeOK, volume, checks, apps, startupVars
<1>1. CASE DbStep
  BY <1>1 DEF DbStep, MakeDatabase, RunStep, StopTemporary, StartServer,
              AcceptConnections, ServerFails
<1>2. CASE StopDb
  BY <1>2 DEF StopDb
<1>3. CASE ProbeHealth
  BY <1>3 DEF ProbeHealth
<1>4. CASE Up \/ StartApp \/ UpFails
  BY <1>4 DEF Up, StartApp, UpFails
<1>5. CASE ProgramStep
  BY <1>5 DEF ProgramStep, Knock, Connected, FailsA, FailsD, FailsLateD, Retry
<1>6. CASE ProgramEnds \/ StopApp
  BY <1>6 DEF ProgramEnds, StopApp
<1>7. CASE UNCHANGED startupVars
  BY <1>7
<1> QED
  BY <1>1, <1>2, <1>3, <1>4, <1>5, <1>6, <1>7 DEF StartupNext

\* The variables keep their types.
THEOREM StartupTypeCorrect == StartupSpec => []StartupTypeOK
BY StartupTypeInitially, StartupTypeKept, PTL DEF StartupSpec

\* A database of which a server runs in the network, or that waits on the
\* volume, is complete or was cut off; so is the one a program serves from.
\* One that is broken has had no step done to it.
StepsInv ==
  /\ dbms \in {"make", "steps"} \/ made # "yes" \/ ran = Steps \/ cut
  /\ dbms \in {"closed", "opening", "up"} => made # "no"
  /\ dbms \in {"closed", "up", "steps"} => made = "yes"
  /\ dbms = "make" => made = "no"
  /\ made # "yes" => ran = 0
  /\ ServesWhatStepsMade

\* A program never serves from a database that is still being set up: pg_isready
\* and the port of the container may say what they like.
THEOREM ServesComplete == StartupSpec => []ServesWhatStepsMade
<1>1. StartupInit => StepsInv
  BY DEF StartupInit, StepsInv, ServesWhatStepsMade
<1>2. StartupTypeOK /\ StepsInv /\ [StartupNext]_startupVars => StepsInv'
  <2> SUFFICES ASSUME StartupTypeOK, StepsInv, [StartupNext]_startupVars
               PROVE  StepsInv'
    OBVIOUS
  <2> USE DEF StepsInv, ServesWhatStepsMade, volume, checks, apps, startupVars
  <2>1. CASE DbStep
    BY <2>1 DEF DbStep, MakeDatabase, RunStep, StopTemporary, StartServer,
                AcceptConnections, ServerFails, StartupTypeOK
  <2>2. CASE StopDb
    <3>1. dbms' = "down" /\ ran' = ran /\ program' = program
      BY <2>2 DEF StopDb
    <3>2. dbms = "make" => made = "no" /\ made' # "yes"
      BY <2>2 DEF StopDb
    <3>3. dbms # "make" => made' = made
      BY <2>2 DEF StopDb
    <3>4. cut \/ (dbms = "steps" /\ ran < Steps) => cut'
      BY <2>2 DEF StopDb, StartupTypeOK
    <3>5. ran = Steps \/ ran < Steps
      BY DEF StartupTypeOK
    <3> QED
      BY <3>1, <3>2, <3>3, <3>4, <3>5
  <2>3. CASE ProbeHealth
    BY <2>3 DEF ProbeHealth
  <2>4. CASE Up \/ StartApp \/ UpFails
    BY <2>4 DEF Up, StartApp, UpFails, StartupTypeOK
  <2>5. CASE ProgramStep
    BY <2>5 DEF ProgramStep, Knock, Connected, FailsA, FailsD, FailsLateD,
                Retry, Accepts
  <2>6. CASE ProgramEnds \/ StopApp
    BY <2>6 DEF ProgramEnds, StopApp
  <2>7. CASE UNCHANGED startupVars
    BY <2>7
  <2> QED
    BY <2>1, <2>2, <2>3, <2>4, <2>5, <2>6, <2>7 DEF StartupNext
<1>3. StepsInv => ServesWhatStepsMade
  BY DEF StepsInv
<1> QED
  BY <1>1, <1>2, <1>3, StartupTypeCorrect, PTL DEF StartupSpec

-----------------------------------------------------------------------------
(***************************************************************************)
(* What start.sh does to the database, with every fault but a failing      *)
(* statement: the variables keep their types, and the marker of            *)
(* init_database means that the seed is there.                             *)
(***************************************************************************)
HIDE StartupAssumption
USE SetupAssumption DEF SetupStages, Seed, server, setupVars, Goto

\* A run that is at the students of the seed file is at one of them.
LineInv == \A r \in Runs : at[r] = "seed" => line[r] \in Seed

TypeInv == SetupTypeOK /\ LineInv

LEMMA TypeInitially == SetupInit => TypeInv
  BY DEF SetupInit, SetupTypeOK, TypeInv, LineInv

\* However runs overlap, ids are never given twice and every variable keeps
\* its type, even when statements fail.
LEMMA TypeKept == TypeInv /\ [SetupNext]_setupVars => TypeInv'
<1> SUFFICES ASSUME TypeInv, [SetupNext]_setupVars PROVE TypeInv'
  OBVIOUS
<1>1. CASE UNCHANGED setupVars
  BY <1>1 DEF TypeInv, LineInv, SetupTypeOK
<1>2. ASSUME NEW r \in Runs, Step(r) PROVE TypeInv'
  <2>1. CASE Begin(r)
    BY <2>1 DEF TypeInv, LineInv, SetupTypeOK, Begin
  <2>2. CASE SetupDatabase(r)
    BY <2>2 DEF TypeInv, LineInv, SetupTypeOK, SetupDatabase
  <2>3. CASE CreateDatabase(r)
    BY <2>3 DEF TypeInv, LineInv, SetupTypeOK, CreateDatabase
  <2>4. CASE CreateUser(r)
    BY <2>4 DEF TypeInv, LineInv, SetupTypeOK, CreateUser
  <2>5. CASE Grant(r)
    BY <2>5 DEF TypeInv, LineInv, SetupTypeOK, Grant
  <2>6. CASE MarkSetup(r)
    BY <2>6 DEF TypeInv, LineInv, SetupTypeOK, MarkSetup
  <2>7. CASE InitDatabase(r)
    BY <2>7 DEF TypeInv, LineInv, SetupTypeOK, InitDatabase
  <2>8. CASE CreateStudents(r)
    BY <2>8 DEF TypeInv, LineInv, SetupTypeOK, CreateStudents
  <2>9. CASE CreateScores(r)
    BY <2>9 DEF TypeInv, LineInv, SetupTypeOK, CreateScores
  <2>10. CASE InsertStudent(r)
    <3>1. /\ students' \subseteq [id : Nat \ {0}, who : Seed]
          /\ \A t, u \in students' : t.id = u.id => t = u
          /\ \A t \in students' : t.id < nextId'
          /\ nextId' \in Nat \ {0}
      BY <2>10 DEF TypeInv, LineInv, SetupTypeOK, InsertStudent
    <3>2. /\ at' \in [Runs -> SetupStages]
          /\ line' \in [Runs -> 1 .. SeedCount + 1]
          /\ LineInv'
      BY <2>10 DEF TypeInv, LineInv, SetupTypeOK, InsertStudent, NextLine
    <3> QED
      BY <2>10, <3>1, <3>2 DEF TypeInv, SetupTypeOK, InsertStudent, NextLine
  <2>11. CASE InsertScores(r)
    BY <2>11 DEF TypeInv, LineInv, SetupTypeOK, InsertScores
  <2>12. CASE MarkInit(r)
    BY <2>12 DEF TypeInv, LineInv, SetupTypeOK, MarkInit
  <2>13. CASE Stop(r)
    BY <2>13 DEF TypeInv, LineInv, SetupTypeOK, Stop
  <2>14. CASE LoseConnection(r)
    BY <2>14 DEF TypeInv, LineInv, SetupTypeOK, LoseConnection
  <2> QED
    BY <1>2, <2>1, <2>2, <2>3, <2>4, <2>5, <2>6, <2>7, <2>8, <2>9, <2>10,
       <2>11, <2>12, <2>13, <2>14 DEF Step
<1> QED
  BY <1>1, <1>2 DEF SetupNext

THEOREM SetupTypeCorrect == SetupSpec => []SetupTypeOK
<1>1. TypeInv => SetupTypeOK
  BY DEF TypeInv
<1> QED
  BY <1>1, TypeInitially, TypeKept, PTL DEF SetupSpec

-----------------------------------------------------------------------------
\* What a run has already done is done, and nobody undoes it.
SeedInv ==
  /\ \A r \in Runs :
       /\ at[r] = "schema2" => "students" \in tables
       /\ at[r] \in {"seed", "scores", "markinit"} => tables = {"students", "scores"}
       /\ at[r] = "seed" => \A k \in Seed : k < line[r] => Rows(k) # {}
       /\ at[r] \in {"scores", "markinit"} => \A k \in Seed : Rows(k) # {}
  /\ MarkedIsSeeded

\* A step that leaves the tables alone and goes to no place at which something
\* has been done.
LEMMA SeedUntouched ==
  ASSUME SeedInv, TypeInv, NEW r \in Runs, NEW s,
         UNCHANGED <<students, tables, line>>, Goto(r, s),
         s \notin {"schema2", "seed", "scores", "markinit"},
         "init" \in markers' => "init" \in markers
  PROVE  SeedInv'
  BY DEF SeedInv, MarkedIsSeeded, Rows, TypeInv, SetupTypeOK

LEMMA SeedKept ==
  ASSUME "sql" \notin Faults, SeedInv, TypeInv, [SetupNext]_setupVars
  PROVE  SeedInv'
<1>1. CASE UNCHANGED setupVars
  BY <1>1 DEF SeedInv, MarkedIsSeeded, Rows
<1>2. ASSUME NEW r \in Runs, Step(r) PROVE SeedInv'
  <2>1. CASE Begin(r)
    BY <2>1, SeedUntouched DEF Begin
  <2>2. CASE SetupDatabase(r)
    BY <2>2, SeedUntouched DEF SetupDatabase
  <2>3. CASE CreateDatabase(r)
    BY <2>3, SeedUntouched DEF CreateDatabase
  <2>4. CASE CreateUser(r)
    BY <2>4, SeedUntouched DEF CreateUser
  <2>5. CASE Grant(r)
    BY <2>5, SeedUntouched DEF Grant
  <2>6. CASE MarkSetup(r)
    BY <2>6, SeedUntouched DEF MarkSetup
  <2>7. CASE InitDatabase(r)
    BY <2>7, SeedUntouched DEF InitDatabase
  <2>8. CASE CreateStudents(r)
    BY <2>8 DEF CreateStudents, SeedInv, MarkedIsSeeded, Rows, TypeInv, SetupTypeOK
  <2>9. CASE CreateScores(r)
    <3>1. tables' = {"students", "scores"}
      <4>1. "students" \in tables
        BY <2>9 DEF CreateScores, SeedInv
      <4>2. tables' \in ({tables \cup {"scores"}} \cup {})
        BY <2>9, <4>1 DEF CreateScores
      <4>3. tables' = tables \cup {"scores"}
        BY <4>2
      <4>4. tables \subseteq {"students", "scores"}
        BY DEF TypeInv, SetupTypeOK
      <4> QED
        BY <4>1, <4>3, <4>4
    <3>2. /\ UNCHANGED <<students, markers>>
          /\ \A k \in Seed : Rows(k)' = Rows(k)
      BY <2>9 DEF CreateScores, Rows
    <3>3. at'[r] = "seed" /\ line'[r] = 1
      BY <2>9 DEF CreateScores, TypeInv, SetupTypeOK
    <3>4. \A q \in Runs : q # r => at'[q] = at[q] /\ line'[q] = line[q]
      BY <2>9 DEF CreateScores, TypeInv, SetupTypeOK
    <3>5. MarkedIsSeeded'
      BY <3>1, <3>2 DEF SeedInv, MarkedIsSeeded
    <3>6. \A k \in Seed : ~ (k < 1)
      OBVIOUS
    <3> QED
      BY <3>1, <3>2, <3>3, <3>4, <3>5, <3>6 DEF SeedInv
  <2>10. CASE InsertStudent(r)
    <3>1. /\ students' = students \cup {[id |-> nextId, who |-> line[r]]}
          /\ UNCHANGED <<tables, markers>>
          /\ tables = {"students", "scores"}
      BY <2>10 DEF InsertStudent, NextLine, SeedInv
    <3>2. ASSUME NEW k \in Seed, Rows(k) # {} \/ k = line[r]
          PROVE  Rows(k)' # {}
      <4>1. CASE k = line[r]
        <5>1. [id |-> nextId, who |-> line[r]] \in students'
          BY <3>1
        <5> QED
          BY <4>1, <5>1 DEF Rows
      <4>2. CASE Rows(k) # {}
        BY <3>1, <4>2 DEF Rows
      <4> QED
        BY <3>2, <4>1, <4>2
    <3>3. ASSUME NEW q \in Runs
          PROVE  /\ at'[q] = "seed" => \A k \in Seed : k < line'[q] => Rows(k)' # {}
                 /\ at'[q] \in {"scores", "markinit"} => \A k \in Seed : Rows(k)' # {}
                 /\ at'[q] # "schema2" \/ at[q] = "schema2"
      <4>1. CASE q # r
        BY <2>10, <3>2, <4>1 DEF InsertStudent, NextLine, SeedInv, TypeInv, SetupTypeOK
      <4>2. CASE q = r
        <5>1. /\ at[r] = "seed"
              /\ line[r] \in Seed
              /\ line'[r] = line[r] + 1
              /\ at'[r] = IF line[r] = SeedCount THEN "scores" ELSE "seed"
          BY <2>10 DEF InsertStudent, NextLine, TypeInv, LineInv, SetupTypeOK
        <5>2. \A k \in Seed : k < line'[r] => k < line[r] \/ k = line[r]
          BY <5>1
        <5>3. \A k \in Seed : k < line'[r] => Rows(k)' # {}
          BY <3>2, <5>1, <5>2 DEF SeedInv
        <5>4. at'[r] = "scores" => \A k \in Seed : k < line'[r]
          BY <5>1
        <5> QED
          BY <4>2, <5>1, <5>3, <5>4
      <4> QED
        BY <4>1, <4>2
    <3>4. MarkedIsSeeded'
      BY <3>1, <3>2 DEF SeedInv, MarkedIsSeeded
    <3> QED
      BY <3>1, <3>3, <3>4 DEF SeedInv
  <2>11. CASE InsertScores(r)
    BY <2>11 DEF InsertScores, SeedInv, MarkedIsSeeded, Rows, TypeInv, SetupTypeOK
  <2>12. CASE MarkInit(r)
    BY <2>12 DEF MarkInit, SeedInv, MarkedIsSeeded, Rows, TypeInv, SetupTypeOK
  <2>13. CASE Stop(r)
    BY <2>13, SeedUntouched DEF Stop
  <2>14. CASE LoseConnection(r)
    BY <2>14, SeedUntouched DEF LoseConnection
  <2> QED
    BY <1>2, <2>1, <2>2, <2>3, <2>4, <2>5, <2>6, <2>7, <2>8, <2>9, <2>10,
       <2>11, <2>12, <2>13, <2>14 DEF Step
<1> QED
  BY <1>1, <1>2 DEF SetupNext

\* Whatever is killed, loses its connection or runs at the same time: with the
\* marker of init_database there are both tables and every student of the
\* seed, as long as no statement of a file fails.
THEOREM MarkedMeansSeeded ==
  ASSUME "sql" \notin Faults
  PROVE  SetupSpec => []MarkedIsSeeded
<1>1. SetupInit => SeedInv
  BY DEF SetupInit, SeedInv, MarkedIsSeeded
<1>2. SeedInv /\ TypeInv /\ [SetupNext]_setupVars => SeedInv'
  BY SeedKept
<1>3. SeedInv => MarkedIsSeeded
  BY DEF SeedInv
<1> QED
  BY <1>1, <1>2, <1>3, TypeInitially, TypeKept, PTL DEF SetupSpec

-----------------------------------------------------------------------------
(***************************************************************************)
(* When nothing goes wrong, nothing is forced and one start.sh runs at a   *)
(* time, the seed file is run once, from its first line to its last, on    *)
(* empty tables whose ids have not been drawn yet.                         *)
(***************************************************************************)
\* The first n students of the seed file, each with the id written for it.
First(n) == { [id |-> k, who |-> k] : k \in 1 .. n }

AtWork(r) == at[r] \notin {"off", "launch", "failed"}

Fresh == students = {} /\ nextId = 1 /\ scoreSets = 0

CalmInv ==
  /\ \A q, r \in Runs : AtWork(q) /\ AtWork(r) => q = r
  /\ \A r \in Runs :
       /\ at[r] \in {"schema", "schema2", "seed", "scores", "markinit"}
            => "init" \notin markers
       /\ at[r] = "seed" =>
            students = First(line[r] - 1) /\ nextId = line[r] /\ scoreSets = 0
       /\ at[r] = "scores" => students = First(SeedCount) /\ scoreSets = 0
       /\ at[r] = "markinit" => students = First(SeedCount) /\ scoreSets = 1
  /\ "init" \notin markers /\ (\A r \in Runs : at[r] \notin {"seed", "scores", "markinit"})
       => Fresh
  /\ SeededOnce

LEMMA FirstOnes ==
  /\ First(0) = {} /\ First(SeedCount) = { [id |-> k, who |-> k] : k \in Seed }
  /\ \A n \in Nat : First(n + 1) = First(n) \cup {[id |-> n + 1, who |-> n + 1]}
<1>1. \A n \in Nat : First(n + 1) = First(n) \cup {[id |-> n + 1, who |-> n + 1]}
  <2> TAKE n \in Nat
  <2>1. 1 .. n + 1 = (1 .. n) \cup {n + 1}
    OBVIOUS
  <2> QED
    BY <2>1 DEF First
<1> QED
  BY <1>1 DEF First

\* The hypothesis of this part.
AllCalm == Faults = {} /\ ~ Together /\ \A e \in Envs : ~ e.FORCE_REINIT

\* A step of a run that is not at the seed and does not go there.
LEMMA CalmUntouched ==
  ASSUME CalmInv, TypeInv, NEW r \in Runs, NEW s, Goto(r, s),
         UNCHANGED <<students, nextId, scoreSets, line>>,
         at[r] \notin {"seed", "scores", "markinit"},
         s \notin {"seed", "scores", "markinit"},
         "init" \in markers' <=> "init" \in markers,
         s \in {"schema", "schema2"} => "init" \notin markers,
         \A q \in Runs : AtWork(q) => q = r
  PROVE  CalmInv'
<1>1. at'[r] = s /\ \A q \in Runs : q # r => at'[q] = at[q]
  BY DEF TypeInv, SetupTypeOK
<1>2. \A q \in Runs : q # r => at'[q] \in {"off", "launch", "failed"}
  BY <1>1 DEF AtWork
<1>3. \A q \in Runs : at[q] \notin {"seed", "scores", "markinit"}
  BY DEF AtWork
<1> QED
  BY <1>1, <1>2, <1>3 DEF CalmInv, AtWork, Fresh, SeededOnce

LEMMA CalmKept ==
  ASSUME AllCalm, CalmInv, SeedInv, TypeInv, [SetupNext]_setupVars
  PROVE  CalmInv'
<1>1. CASE UNCHANGED setupVars
  BY <1>1 DEF CalmInv, AtWork, Fresh, SeededOnce
<1>2. ASSUME NEW r \in Runs, Step(r) PROVE CalmInv'
  <2>0. /\ Faults = {} /\ ~ Together /\ ~ env[r].FORCE_REINIT
        /\ at[r] # "off" => \A q \in Runs : AtWork(q) => q = r
    BY <1>2 DEF AllCalm, TypeInv, SetupTypeOK, CalmInv, AtWork, Step, Begin, SetupDatabase,
       CreateDatabase, CreateUser, Grant, MarkSetup, InitDatabase, CreateStudents,
       CreateScores, InsertStudent, InsertScores, MarkInit, Stop, LoseConnection
  <2>1. CASE Begin(r)
    <3>1. \A q \in Runs : ~ AtWork(q)
      BY <2>0, <2>1 DEF Begin, AtWork
    <3> QED
      BY <2>1, <3>1, CalmUntouched DEF Begin
  <2>2. CASE SetupDatabase(r)
    BY <2>0, <2>2, CalmUntouched DEF SetupDatabase
  <2>3. CASE CreateDatabase(r)
    BY <2>0, <2>3, CalmUntouched DEF CreateDatabase
  <2>4. CASE CreateUser(r)
    BY <2>0, <2>4, CalmUntouched DEF CreateUser
  <2>5. CASE Grant(r)
    BY <2>0, <2>5, CalmUntouched DEF Grant
  <2>6. CASE MarkSetup(r)
    BY <2>0, <2>6, CalmUntouched DEF MarkSetup
  <2>7. CASE InitDatabase(r)
    BY <2>0, <2>7, CalmUntouched DEF InitDatabase
  <2>8. CASE CreateStudents(r)
    BY <2>0, <2>8, CalmUntouched DEF CreateStudents, CalmInv
  <2>9. ASSUME NEW s \in {"seed", "scores", "markinit"},
               at'[r] = s, \A q \in Runs : q # r => at'[q] = at[q],
               at[r] \in {"schema2", "seed", "scores"}, markers' = markers,
               s = "seed" => /\ students' = First(line'[r] - 1)
                             /\ nextId' = line'[r] /\ scoreSets' = 0,
               s = "scores" => students' = First(SeedCount) /\ scoreSets' = 0,
               s = "markinit" => students' = First(SeedCount) /\ scoreSets' = 1
        PROVE  CalmInv'
    <3>1. \A q \in Runs : q # r => at'[q] \in {"off", "launch", "failed"}
      BY <2>0, <2>9 DEF AtWork
    <3>2. "init" \notin markers'
      BY <2>9 DEF CalmInv
    <3> QED
      BY <2>9, <3>1, <3>2 DEF CalmInv, AtWork, Fresh, SeededOnce
  <2>10. CASE CreateScores(r)
    <3>1. /\ at[r] = "schema2" /\ at'[r] = "seed" /\ line'[r] = 1
          /\ \A q \in Runs : q # r => at'[q] = at[q]
          /\ UNCHANGED <<students, nextId, scoreSets, markers>>
      BY <2>10 DEF CreateScores, TypeInv, SetupTypeOK
    <3>2. Fresh
      BY <2>0, <3>1 DEF CalmInv, AtWork
    <3>3. First(line'[r] - 1) = {}
      BY <3>1, FirstOnes
    <3> QED
      BY <2>9, <3>1, <3>2, <3>3 DEF Fresh
  <2>11. CASE InsertStudent(r)
    <3>1. /\ at[r] = "seed" /\ line[r] \in Seed /\ line'[r] = line[r] + 1
          /\ at'[r] = IF line[r] = SeedCount THEN "scores" ELSE "seed"
          /\ \A q \in Runs : q # r => at'[q] = at[q]
          /\ UNCHANGED <<scoreSets, markers>>
      BY <2>11 DEF InsertStudent, NextLine, TypeInv, LineInv, SetupTypeOK
    <3>2. /\ students' = students \cup {[id |-> nextId, who |-> line[r]]}
          /\ nextId' = nextId + 1
      BY <2>0, <2>11, <3>1 DEF InsertStudent, SeedInv
    <3>3. students = First(line[r] - 1) /\ nextId = line[r] /\ scoreSets = 0
      BY <3>1 DEF CalmInv
    <3>4. students' = First(line[r])
      <4>1. line[r] - 1 \in Nat /\ (line[r] - 1) + 1 = line[r]
        BY <3>1
      <4> QED
        BY <3>2, <3>3, <4>1, FirstOnes
    <3>5. students' = First(line'[r] - 1)
      BY <3>1, <3>4
    <3> QED
      BY <2>9, <3>1, <3>2, <3>3, <3>4, <3>5
  <2>12. CASE InsertScores(r)
    <3>1. /\ at[r] = "scores" /\ at'[r] = "markinit"
          /\ \A q \in Runs : q # r => at'[q] = at[q]
          /\ UNCHANGED <<students, markers>>
      BY <2>12 DEF InsertScores, TypeInv, SetupTypeOK
    <3>2. students = First(SeedCount) /\ scoreSets = 0 /\ "scores" \in tables
      BY <3>1 DEF CalmInv, SeedInv
    <3>3. \A k \in Seed : \E s \in students : s.id = k
      <4> TAKE k \in Seed
      <4>1. [id |-> k, who |-> k] \in students
        BY <3>2, FirstOnes
      <4> QED
        BY <4>1
    <3>4. scoreSets' = 1
      BY <2>0, <2>12, <3>2, <3>3 DEF InsertScores
    <3> QED
      BY <2>9, <3>1, <3>2, <3>4
  <2>13. CASE MarkInit(r)
    <3>1. /\ at[r] = "markinit" /\ at'[r] = "launch" /\ "init" \in markers'
          /\ \A q \in Runs : q # r => at'[q] = at[q]
          /\ UNCHANGED <<students, scoreSets>>
      BY <2>13 DEF MarkInit, TypeInv, SetupTypeOK
    <3>2. \A q \in Runs : at'[q] \in {"off", "launch", "failed"}
      BY <2>0, <3>1 DEF AtWork
    <3>3. SeededOnce'
      BY <3>1, FirstOnes DEF CalmInv, SeededOnce
    <3> QED
      BY <3>1, <3>2, <3>3 DEF CalmInv, AtWork
  <2>14. CASE Stop(r) \/ LoseConnection(r)
    BY <2>0, <2>14 DEF Stop, LoseConnection
  <2> QED
    BY <1>2, <2>1, <2>2, <2>3, <2>4, <2>5, <2>6, <2>7, <2>8, <2>10, <2>11, <2>12,
       <2>13, <2>14 DEF Step
<1> QED
  BY <1>1, <1>2 DEF SetupNext

\* For any number of runs of start.sh one after another, each with settings of
\* its own, a seed of any length and a server that has the database and the
\* user or not: with the marker, every student of the seed is there once, with
\* the id its scores are written for, and the scores are there once.
THEOREM CalmSeedsOnce ==
  ASSUME AllCalm
  PROVE  SetupSpec => []SeededOnce
<1>1. SetupInit => CalmInv /\ SeedInv /\ TypeInv
  BY TypeInitially
  DEF SetupInit, CalmInv, AtWork, Fresh, SeededOnce, SeedInv, MarkedIsSeeded
<1>2. CalmInv /\ SeedInv /\ TypeInv /\ [SetupNext]_setupVars
        => CalmInv' /\ SeedInv' /\ TypeInv'
  BY SeedKept, TypeKept, CalmKept DEF AllCalm
<1>3. CalmInv => SeededOnce
  BY DEF CalmInv
<1> QED
  BY <1>1, <1>2, <1>3, PTL DEF SetupSpec
=============================================================================
