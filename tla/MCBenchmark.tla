----------------------------- MODULE MCBenchmark -----------------------------
(***************************************************************************)
(* Benchmark with a backend that shows its counters late and an exporter   *)
(* that answers or does not answer.                                        *)
(***************************************************************************)
EXTENDS Benchmark

MCExporterPages == {Null, [flags |-> {"comparable"}, ratio |-> 50]}
=============================================================================
