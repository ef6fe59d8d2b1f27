----------------------------- MODULE MCCrunchFor -----------------------------
(* CrunchFor on a machine with two cores and three threads, with the three  *)
(* ways to ask for threads: per thread, per core, and a number.             *)
EXTENDS CrunchFor

MCRequests == {0, -1, 1}
=============================================================================
