----------------------------- MODULE PageService -----------------------------
(***************************************************************************)
(* What the grade page promises to one client at a time: a request is      *)
(* answered with a page made of two reads, the classes and then the grades *)
(* of the class asked for.  Each is a read of the contents the database    *)
(* has at one moment after the request; they are two moments, and the      *)
(* contents may change between them.  Without a connection a read finds    *)
(* nothing.  There is no statement, no result and no order of messages     *)
(* here: RequestPath, with one worker, implements this (LoopRefinement).   *)
(***************************************************************************)
EXTENDS Grades

CONSTANTS Filters, DbStates, DbMoves

VARIABLES
  contents,   \* of the database
  connected,  \* whether the program has a working connection to it
  phase,      \* of the request: "idle", "asked", "listed" or "found"
  filter,     \* the class asked for
  listed,     \* the classes read
  found,      \* the rows read
  answer      \* the last answer: a set, empty or of one

vars == <<contents, connected, phase, filter, listed, found, answer>>

Init ==
  /\ contents \in DbStates
  /\ connected = FALSE
  /\ phase = "idle"
  /\ filter = EmptyText
  /\ listed = << >>
  /\ found = << >>
  /\ answer = {}

Connect ==
  /\ phase = "idle"
  /\ ~ connected
  /\ connected' = TRUE
  /\ UNCHANGED <<contents, phase, filter, listed, found, answer>>

Cut ==
  /\ connected
  /\ connected' = FALSE
  /\ UNCHANGED <<contents, phase, filter, listed, found, answer>>

Change ==
  /\ \E m \in DbMoves : m[1] = contents /\ contents' = m[2]
  /\ UNCHANGED <<connected, phase, filter, listed, found, answer>>

Ask(f) ==
  /\ phase = "idle"
  /\ phase' = "asked"
  /\ filter' = f
  /\ answer' = {}
  /\ UNCHANGED <<contents, connected, listed, found>>

\* What a read of the database may give now.
Readable(call) ==
  IF connected THEN QueryResults(contents, call, filter) ELSE {Failed}

ListClasses ==
  /\ phase = "asked"
  /\ phase' = "listed"
  /\ \E r \in Readable("classes") : listed' = ReadClasses(r)
  /\ UNCHANGED <<contents, connected, filter, found, answer>>

FindGrades ==
  /\ phase = "listed"
  /\ phase' = "found"
  /\ \E r \in Readable("pivot") : found' = ReadPivot(r)
  /\ UNCHANGED <<contents, connected, filter, listed, answer>>

Forget == filter' = EmptyText /\ listed' = << >> /\ found' = << >>

Answer ==
  /\ phase = "found"
  /\ phase' = "idle"
  /\ answer' = {[ status |-> 200, filter |-> filter,
                  page |-> RenderPage(listed, found, filter) ]}
  /\ Forget
  /\ UNCHANGED <<contents, connected>>

\* The program ends: a request in progress gets no answer.
Abandon ==
  /\ phase' = "idle"
  /\ connected' = FALSE
  /\ Forget
  /\ UNCHANGED <<contents, answer>>

Next ==
  \/ Connect \/ Cut \/ Change
  \/ \E f \in Filters : Ask(f)
  \/ ListClasses \/ FindGrades \/ Answer \/ Abandon

Spec == Init /\ [][Next]_vars

\* Every request is answered unless the program ends.
FairSpec == Spec /\ WF_vars(ListClasses \/ FindGrades \/ Answer)
=============================================================================
