------------------------------- MODULE MCLoop -------------------------------
(* The instances of MCRequestPath with one worker, as PageService sees them. *)
EXTENDS MCRequestPath, LoopRefinement
=============================================================================
