----------------------------- MODULE MCCappSync -----------------------------
(* CappSync for TLC: fault sets and symmetry. *)
EXTENDS CappSync, TLC

AllFaults == {"k8s", "k8s_lost", "git", "git_lost", "crash"}

\* Requests and specs are only compared for equality.
Symmetry == Permutations(Requests) \cup Permutations(Specs)

=============================================================================
