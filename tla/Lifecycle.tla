----------------------------- MODULE Lifecycle -----------------------------
(***************************************************************************)
(* What main() of main_a.cpp relies on: requests are handled only between  *)
(* ConnectDb and DisconnectDb.  HttpServer shows that cpp-httplib keeps it *)
(* for its threads, and RequestPath that the program built on it does.     *)
(***************************************************************************)
CONSTANT Workers

VARIABLES
  phase,  \* "init", "serving", "draining" (listen() is returning) or "down"
  busy    \* workers inside a request

vars == <<phase, busy>>

Init == phase \in {"init", "serving"} /\ busy = {}

Listen == phase = "init" /\ phase' = "serving" /\ UNCHANGED busy

Receive(w) ==
  /\ phase \in {"serving", "draining"} /\ w \notin busy
  /\ busy' = busy \cup {w} /\ UNCHANGED phase

Answer(w) == w \in busy /\ busy' = busy \ {w} /\ UNCHANGED phase

StopListening == phase = "serving" /\ phase' = "draining" /\ UNCHANGED busy

\* listen() returns, and with it main(): nobody is in a request.
Return == phase = "draining" /\ busy = {} /\ phase' = "down" /\ UNCHANGED busy

\* The process ends otherwise, and may be started again.
Die == phase # "down" /\ phase' = "down" /\ busy' = {}
Start == phase = "down" /\ phase' = "init" /\ UNCHANGED busy

Next ==
  \/ Listen \/ StopListening \/ Return \/ Die \/ Start
  \/ \E w \in Workers : Receive(w) \/ Answer(w)

Spec == Init /\ [][Next]_vars
=============================================================================
