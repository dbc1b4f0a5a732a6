---------------------------- MODULE MCBenchmark ----------------------------
(* Benchmark with a few dates, portfolios and ticks.                       *)
EXTENDS Benchmark
=============================================================================
