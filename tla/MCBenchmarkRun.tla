--------------------------- MODULE MCBenchmarkRun ---------------------------
(***************************************************************************)
(* Model checking of BenchmarkRun: stop and delete calls are model values. *)
(***************************************************************************)
EXTENDS BenchmarkRun
=============================================================================
