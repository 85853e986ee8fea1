--------------------------- MODULE MCGitOpsClient ---------------------------
(* GitOpsClient for TLC: fault sets and symmetry. *)
EXTENDS GitOpsClient, TLC

NetworkFaults == {"net", "lost", "crash"}
\* Replicas, calls, paths and contents are only compared for equality.
Symmetry ==
    Permutations(Replicas) \cup Permutations(Calls) \cup Permutations(Paths)
        \cup Permutations(Contents)

=============================================================================
