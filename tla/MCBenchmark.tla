---------------------------- MODULE MCBenchmark ----------------------------
(* Small instances of Benchmark for TLC. *)
EXTENDS Benchmark, TLC

TestCase(id, max, setup) == [id |-> id, MaxAttempts |-> max, setup |-> setup]

\* Two suites that have a case in common; one has it twice.
TwoSuites == "s1" :> <<TestCase("a", 1, TRUE), TestCase("a", 0, FALSE)>>
          @@ "s2" :> <<TestCase("a", 1, FALSE)>>
=============================================================================
