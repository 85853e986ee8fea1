---------------------------- MODULE MCBenchmarks ----------------------------
(* Benchmarks for TLC: names that collide, and symmetry of the requests. *)
EXTENDS Benchmarks, TLC

CONSTANTS capp1, capp2, job1

\* Two Capps whose names agree on their first 57 characters.
SharedName == [c \in Capps |-> job1]

JobSymmetry == Permutations(Triggers) \cup Permutations(Capps)

=============================================================================
