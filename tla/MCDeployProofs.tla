--------------------------- MODULE MCDeployProofs ---------------------------
(***************************************************************************)
(* Theorems about MCDeploy: of its parts, what DeployProofs shows of the   *)
(* modules they are instances of.                                          *)
(***************************************************************************)
EXTENDS MCDeploy, DeployProofs

\* DeployProofs for the careful operator, for start.sh when all is calm, and for
\* scheme A.
Proved == INSTANCE DeployProofs WITH
  Starts <- CareStarts, Stops <- CareStops, Care <- "exit",
  Envs <- Unforced, Faults <- {}, Together <- FALSE, Scheme <- "A"

\* What DeployProofs assumes of the constants is so with these.
LEMMA ProvedAssumptions ==
  /\ /\ CareStarts \cap CareStops = {}
     /\ None \notin CareStarts \cup CareStops
                   \cup [by : CareStarts, text : CareStarts \cup {None}]
     /\ Timeout \in Nat
     /\ "exit" \in {"none", "return", "exit"}
  /\ /\ SeedCount \in Nat \ {0}
     /\ Unforced \subseteq Proved!Environment
     /\ {} \subseteq {"stop", "lost", "sql"}
     /\ FALSE \in BOOLEAN
  /\ /\ "A" \in {"A", "D"}
     /\ Steps \in Nat \ {0}
     /\ Retries \in Nat \ {0}
     /\ StartRetries \in Nat
     /\ Halts \in BOOLEAN
BY CareAssumption, StartStopAssumption, SetupAssumption, StartupAssumption
DEF Unforced, Environment, Proved!Environment

-----------------------------------------------------------------------------
(* The instances of MCDeploy and those above are the same. *)

LEMMA CarefulInitSame == Careful!Init => Proved!Init
BY DEF Careful!Init, Proved!Init, Careful!Scripts, Proved!Scripts

LEMMA CarefulNextSame == Careful!Next => Proved!Next
BY DEF Careful!Scripts, Proved!Scripts, Careful!Exists, Proved!Exists, Careful!Text,
  Proved!Text, Careful!Busy, Proved!Busy, Careful!Quiet, Proved!Quiet,
  Careful!BeginStart, Proved!BeginStart, Careful!BeginStop, Proved!BeginStop,
  Careful!Signal, Proved!Signal, Careful!KillScript, Proved!KillScript,
  Careful!CheckFile, Proved!CheckFile, Careful!AskOld, Proved!AskOld,
  Careful!ClearFile, Proved!ClearFile, Careful!SetUp, Proved!SetUp, Careful!Launch,
  Proved!Launch, Careful!OpenFile, Proved!OpenFile, Careful!WriteFile,
  Proved!WriteFile, Careful!WaitReturns, Proved!WaitReturns, Careful!RemoveAtEnd,
  Proved!RemoveAtEnd, Careful!Over, Proved!Over, Careful!ReadFile, Proved!ReadFile,
  Careful!Probe, Proved!Probe, Careful!Dying, Proved!Dying, Careful!Kill, Proved!Kill,
  Careful!Poll, Proved!Poll, Careful!Kill9, Proved!Kill9, Careful!Verify,
  Proved!Verify, Careful!Remove, Proved!Remove, Careful!AppEnds, Proved!AppEnds,
  Careful!HostCrash, Proved!HostCrash, Careful!StartStep, Proved!StartStep,
  Careful!StopStep, Proved!StopStep, Careful!Next, Proved!Next

LEMMA CarefulSame ==
  Proved!AtMostOneServer /\ Proved!PidFileNamesServer
    => Careful!AtMostOneServer /\ Careful!PidFileNamesServer
BY DEF Careful!AtMostOneServer, Proved!AtMostOneServer, Careful!PidFileNamesServer,
  Proved!PidFileNamesServer, Careful!Quiet, Proved!Quiet, Careful!Busy, Proved!Busy,
  Careful!Scripts, Proved!Scripts, Careful!Cardinality, Proved!Cardinality

LEMMA CalmInitSame == Calm!SetupInit => Proved!SetupInit
BY DEF Calm!SetupInit, Proved!SetupInit

LEMMA CalmNextSame == Calm!SetupNext => Proved!SetupNext
BY DEF Calm!Seed, Proved!Seed, Calm!Goto, Proved!Goto, Calm!Begin, Proved!Begin,
  Calm!SetupDatabase, Proved!SetupDatabase, Calm!Overtaken, Proved!Overtaken,
  Calm!CreateDatabase, Proved!CreateDatabase, Calm!CreateUser, Proved!CreateUser,
  Calm!Grant, Proved!Grant, Calm!MarkSetup, Proved!MarkSetup, Calm!InitDatabase,
  Proved!InitDatabase, Calm!CanConnect, Proved!CanConnect, Calm!CreateStudents,
  Proved!CreateStudents, Calm!CreateScores, Proved!CreateScores, Calm!NextLine,
  Proved!NextLine, Calm!InsertStudent, Proved!InsertStudent, Calm!InsertScores,
  Proved!InsertScores, Calm!MarkInit, Proved!MarkInit, Calm!Stop, Proved!Stop,
  Calm!LoseConnection, Proved!LoseConnection, Calm!Step, Proved!Step, Calm!SetupNext,
  Proved!SetupNext, Calm!server, Proved!server

LEMMA CalmSame == Proved!SeededOnce => Calm!SeededOnce
BY DEF Calm!SeededOnce, Proved!SeededOnce, Calm!Rows, Proved!Rows, Calm!Seed, Proved!Seed

LEMMA StackNextSame == StackA!StartupNext => Proved!StartupNext
BY DEF StackA!volume, Proved!volume, StackA!checks, Proved!checks, StackA!apps,
  Proved!apps, StackA!OnSocket, Proved!OnSocket, StackA!Accepts, Proved!Accepts,
  StackA!MakeDatabase, Proved!MakeDatabase, StackA!RunStep, Proved!RunStep,
  StackA!StopTemporary, Proved!StopTemporary, StackA!StartServer, Proved!StartServer,
  StackA!AcceptConnections, Proved!AcceptConnections, StackA!ServerFails,
  Proved!ServerFails, StackA!StopDb, Proved!StopDb, StackA!ProbeHealth,
  Proved!ProbeHealth, StackA!Up, Proved!Up, StackA!StartApp, Proved!StartApp,
  StackA!UpFails, Proved!UpFails, StackA!Knock, Proved!Knock, StackA!Connected,
  Proved!Connected, StackA!FailsA, Proved!FailsA, StackA!FailsD, Proved!FailsD,
  StackA!FailsLateD, Proved!FailsLateD, StackA!Retry, Proved!Retry,
  StackA!ProgramEnds, Proved!ProgramEnds, StackA!StopApp, Proved!StopApp,
  StackA!DbStep, Proved!DbStep, StackA!ProgramStep, Proved!ProgramStep,
  StackA!StartupNext, Proved!StartupNext, StackA!OnPort, Proved!OnPort

LEMMA StackSame == StartupTypeOK <=> Proved!StartupTypeOK
BY DEF StartupTypeOK, Proved!StartupTypeOK

-----------------------------------------------------------------------------
(* What turn says stays so, and steps are those of its part. *)

LEMMA TurnStays == [MCNext]_all => turn' = turn
BY DEF MCNext, ScriptsMove, SetupMoves, StackMoves, all

LEMMA StepsOfTurn ==
  [MCNext]_all =>
    /\ turn = "scripts" => [Next]_vars
    /\ turn = "careful" => [Careful!Next]_vars
    /\ turn = "setup" => [SetupNext]_setupVars
    /\ turn = "calm" => [Calm!SetupNext]_setupVars
    /\ turn = "stack D" => [StartupNext]_startupVars
    /\ turn = "stack A" => [StackA!StartupNext]_startupVars
BY DEF MCNext, ScriptsMove, SetupMoves, StackMoves, all, scripts, setup, stack

LEMMA StartsOfTurn ==
  MCInit =>
    /\ turn = "scripts" => Init
    /\ turn = "careful" => Careful!Init
    /\ turn = "setup" => SetupInit
    /\ turn = "calm" => Calm!SetupInit
    /\ turn \in {"stack D", "stack A"} => StartupInit
BY DEF MCInit

-----------------------------------------------------------------------------
\* The variables keep their types, in both schemes.
THEOREM DeployTypesCorrect == MCSpec => []TypesOK
<1>1. /\ turn = "scripts" /\ MCInit => TypeOK
      /\ turn = "setup" /\ MCInit => TypeInv
      /\ turn \in {"stack D", "stack A"} /\ MCInit => StartupTypeOK
  BY StartsOfTurn, ScriptsTypeInitially, TypeInitially, StartupTypeInitially
<1>2. turn = "scripts" /\ [MCNext]_all /\ TypeOK => TypeOK'
  BY StepsOfTurn, ScriptsTypeKept
<1>3. turn = "setup" /\ [MCNext]_all /\ TypeInv => TypeInv'
  BY StepsOfTurn, TypeKept
<1>4. turn \in {"stack D", "stack A"} /\ [MCNext]_all /\ StartupTypeOK => StartupTypeOK'
  <2>1. turn = "stack D" /\ [MCNext]_all /\ StartupTypeOK => StartupTypeOK'
    BY StepsOfTurn, StartupTypeKept
  <2>2. turn = "stack A" /\ [MCNext]_all /\ StartupTypeOK => StartupTypeOK'
    <3>1. turn = "stack A" /\ [MCNext]_all => [Proved!StartupNext]_startupVars
      BY StepsOfTurn, StackNextSame
    <3>2. Proved!StartupTypeOK /\ [Proved!StartupNext]_startupVars
            => (Proved!StartupTypeOK)'
      BY ProvedAssumptions, Proved!StartupTypeKept
      DEF startupVars, Proved!startupVars, volume, checks, apps, Proved!volume,
      Proved!checks, Proved!apps
    <3>3. StartupTypeOK' <=> (Proved!StartupTypeOK)'
      BY StackSame, PTL
    <3> QED
      BY <3>1, <3>2, <3>3, StackSame
  <2> QED
    BY <2>1, <2>2
<1>5. /\ turn = "setup" /\ TypeInv => TypesOK
      /\ turn = "scripts" /\ TypeOK => TypesOK
      /\ turn \in {"stack D", "stack A"} /\ StartupTypeOK => TypesOK
      /\ turn \notin {"setup", "scripts", "stack D", "stack A"} => TypesOK
  BY DEF TypesOK, TypeInv
<1>6. [MCNext]_all => turn' = turn
  BY TurnStays
<1> DEFINE S == turn = "scripts"
           U == turn = "setup"
           K == turn \in {"stack D", "stack A"}
<1>7. [MCNext]_all => (S' <=> S) /\ (U' <=> U) /\ (K' <=> K)
  BY <1>6
<1>8. ~ S /\ ~ U /\ ~ K => TypesOK
  BY <1>5
<1>9. /\ U /\ TypeInv => TypesOK
      /\ S /\ TypeOK => TypesOK
      /\ K /\ StartupTypeOK => TypesOK
  BY <1>5
<1>10. /\ S /\ MCInit => TypeOK
       /\ U /\ MCInit => TypeInv
       /\ K /\ MCInit => StartupTypeOK
  BY <1>1
<1>11. /\ S /\ [MCNext]_all /\ TypeOK => TypeOK'
       /\ U /\ [MCNext]_all /\ TypeInv => TypeInv'
       /\ K /\ [MCNext]_all /\ StartupTypeOK => StartupTypeOK'
  BY <1>2, <1>3, <1>4
<1> HIDE DEF S, U, K
<1> QED
  BY <1>7, <1>8, <1>9, <1>10, <1>11, PTL DEF MCSpec

\* If the operator waits, one server is up at most and the PID file names it when
\* no script is busy: for any number of scripts and any timeout.
THEOREM CarefulOperatorIsSafe == MCSpec => []OneNamedServerWithCare
<1> DEFINE C == turn = "careful"
           V == Proved!AtMostOneServer /\ Proved!PidFileNamesServer
<1>1. C /\ MCInit => Proved!Init
  BY StartsOfTurn, CarefulInitSame
<1>2. C /\ [MCNext]_all => [Proved!Next]_(Proved!vars)
  <2>1. C /\ [MCNext]_all => [Proved!Next]_vars
    BY StepsOfTurn, CarefulNextSame
  <2> QED
    BY <2>1 DEF vars, Proved!vars
<1>3. [MCNext]_all => (C' <=> C)
  BY TurnStays
<1>4. Proved!Spec => []V
  BY ProvedAssumptions, Proved!OneServerWithCare
<1>5. (C => V) => OneNamedServerWithCare
  BY CarefulSame DEF OneNamedServerWithCare
<1> HIDE DEF C, V
<1> QED
  BY <1>1, <1>2, <1>3, <1>4, <1>5, PTL DEF MCSpec, Proved!Spec

\* When nothing goes wrong and nothing is forced, the seed is in the tables once
\* with the marker: for any number of runs of start.sh and any seed.
THEOREM CalmRunsSeedOnce == MCSpec => []SeededOnceWhenCalm
<1> DEFINE C == turn = "calm"
           V == Proved!SeededOnce
<1>1. C /\ MCInit => Proved!SetupInit
  BY StartsOfTurn, CalmInitSame
<1>2. C /\ [MCNext]_all => [Proved!SetupNext]_(Proved!setupVars)
  <2>1. C /\ [MCNext]_all => [Proved!SetupNext]_setupVars
    BY StepsOfTurn, CalmNextSame
  <2> QED
    BY <2>1 DEF setupVars, server, Proved!setupVars, Proved!server
<1>3. [MCNext]_all => (C' <=> C)
  BY TurnStays
<1>4. Proved!SetupSpec => []V
  <2>1. Proved!AllCalm
    BY DEF Proved!AllCalm, Unforced
  <2> QED
    BY <2>1, ProvedAssumptions, Proved!CalmSeedsOnce
<1>5. (C => V) => SeededOnceWhenCalm
  BY CalmSame DEF SeededOnceWhenCalm
<1> HIDE DEF C, V
<1> QED
  BY <1>1, <1>2, <1>3, <1>4, <1>5, PTL DEF MCSpec, Proved!SetupSpec
=============================================================================
