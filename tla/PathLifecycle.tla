--------------------------- MODULE PathLifecycle ---------------------------
(***************************************************************************)
(* RequestPath seen as a Lifecycle: what its workers do is what HttpServer *)
(* lets the threads of cpp-httplib do.                                     *)
(***************************************************************************)
EXTENDS RequestPath

PathLife ==
  INSTANCE Lifecycle WITH
    phase <- app,
    busy <- { w \in Workers : stage[w] # "idle" }

\* A request is in HandleIndex only between ConnectDb and DisconnectDb of one
\* life of the process, whatever fails, and however it ends.
PathKeepsLifecycle == PathLife!Spec
=============================================================================
