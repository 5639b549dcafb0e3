---------------------------- MODULE MCHttpServer ----------------------------
(* HttpServer with two workers and two or three connections. *)
EXTENDS HttpServer, TLC

CONSTANTS w1, w2, j1, j2, j3

TwoThreads == {w1, w2}
TwoJobs == {j1, j2}
ThreeJobs == {j1, j2, j3}

Alike == Permutations(Threads) \cup Permutations(Jobs)
=============================================================================
