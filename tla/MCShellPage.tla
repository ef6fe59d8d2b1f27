----------------------------- MODULE MCShellPage -----------------------------
(* ShellPage with the sensors (two fields, rescanned), a page of the module  *)
(* "Network" (reloaded) and a benchmark.                                     *)
EXTENDS ShellPage
MCFields == [e \in 1..3 |-> IF e = 1 THEN 2 ELSE 0]
=============================================================================
