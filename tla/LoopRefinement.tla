---------------------------- MODULE LoopRefinement ----------------------------
(***************************************************************************)
(* With one worker, the steps of HandleIndex on the connection amount to   *)
(* the two reads of PageService.  A read happens when the server executes  *)
(* the statement; a read that fails happens when the worker learns of it.  *)
(***************************************************************************)
EXTENDS RequestPath

\* The one worker there is.
TheWorker == CHOOSE w \in Workers : TRUE

\* The result of the query in progress has been computed.
Executed(c) == call[TheWorker] = c /\ exchange.kind = "reply"

ReadPhase ==
  IF stage[TheWorker] = "idle" THEN "idle"
  ELSE IF stage[TheWorker] = "render" \/ Executed("pivot") THEN "found"
  ELSE IF call[TheWorker] = "pivot" \/ Executed("classes") THEN "listed"
  ELSE "asked"

ReadListed ==
  IF Executed("classes") THEN ReadClasses(exchange.res) ELSE classes[TheWorker]

ReadFound ==
  IF Executed("pivot") THEN ReadPivot(exchange.res) ELSE rows[TheWorker]

Service == INSTANCE PageService WITH
  contents  <- db,
  connected <- link = "up",
  phase     <- ReadPhase,
  filter    <- req[TheWorker],
  listed    <- ReadListed,
  found     <- ReadFound,
  answer    <- response[TheWorker]

\* Every page of the one-worker program is a page of PageService: its menu
\* and its table each show one moment of the database during the request,
\* and they are empty only for want of a connection or of tables.
ImplementsService == Service!Spec

\* And every request is answered as PageService promises.
ImplementsFairService == Service!FairSpec
=============================================================================
