----------------------------- MODULE MCBenchScan -----------------------------
(* BenchScan with two benchmarks: one stopped or failed, one after it. *)
EXTENDS BenchScan
=============================================================================
