----------------------------- MODULE TaskQueue -----------------------------
(***************************************************************************)
(* What httplib::TaskQueue promises the thread that feeds it               *)
(* (httplib.h:854): a job that enqueue() took is run exactly once, jobs    *)
(* begin in the order they were given, and shutdown() returns when every   *)
(* one of them has ended.  It refuses a job only when the list is full.    *)
(* No threads, no mutex, no condition variable.                            *)
(***************************************************************************)
EXTENDS Naturals, Sequences

CONSTANTS
  Jobs,
  MaxQueued  \* jobs the list may hold; 0 for no limit

VARIABLES
  queue,    \* jobs taken and not begun
  running,  \* jobs begun and not ended
  given,    \* jobs that enqueue() was called with
  phase     \* "open", "closing" (in shutdown()) or "closed"

vars == <<queue, running, given, phase>>

Init == queue = <<>> /\ running = {} /\ given = {} /\ phase = "open"

Full == MaxQueued > 0 /\ Len(queue) >= MaxQueued

Take(j) ==
  /\ phase = "open" /\ j \notin given /\ ~ Full
  /\ given' = given \cup {j}
  /\ queue' = Append(queue, j)
  /\ UNCHANGED <<running, phase>>

Refuse(j) ==
  /\ phase = "open" /\ j \notin given /\ Full
  /\ given' = given \cup {j}
  /\ UNCHANGED <<queue, running, phase>>

BeginJob ==
  /\ queue # <<>>
  /\ running' = running \cup {Head(queue)}
  /\ queue' = Tail(queue)
  /\ UNCHANGED <<given, phase>>

EndJob(j) ==
  /\ j \in running
  /\ running' = running \ {j}
  /\ UNCHANGED <<queue, given, phase>>

Shutdown ==
  /\ phase = "open"
  /\ phase' = "closing"
  /\ UNCHANGED <<queue, running, given>>

Return ==
  /\ phase = "closing" /\ queue = <<>> /\ running = {}
  /\ phase' = "closed"
  /\ UNCHANGED <<queue, running, given>>

Next ==
  \/ \E j \in Jobs : Take(j) \/ Refuse(j) \/ EndJob(j)
  \/ BeginJob \/ Shutdown \/ Return

Spec == Init /\ [][Next]_vars

FairSpec ==
  /\ Spec
  /\ WF_vars(BeginJob) /\ WF_vars(Return)
  /\ \A j \in Jobs : WF_vars(EndJob(j))
=============================================================================
