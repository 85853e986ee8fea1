------------------------------ MODULE MCMigrate ------------------------------
(* Migrate for TLC: fault sets and symmetry. *)
EXTENDS Migrate, TLC

AllFaults ==
    {"read", "create", "delete", "patch", "cleanup", "answer", "crash"}

\* Everything but the kinds of the resources is only compared for equality.
Symmetry ==
    Permutations(Migrations) \cup Permutations(Places)
        \cup Permutations(Hostnames)

==============================================================================
