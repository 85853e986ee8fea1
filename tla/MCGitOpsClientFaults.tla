------------------------ MODULE MCGitOpsClientFaults ------------------------
(***************************************************************************)
(* TornClones, and the GitOpsClient in it, for TLC: with a local clone     *)
(* that fails as well.                                                     *)
(***************************************************************************)
EXTENDS TornClones

LocalFaults == {"net", "stage", "commit", "reset"}

\* SYMMETRY is not sound for liveness.  As replicas and paths may be renamed
\* in every behaviour, one of the calls is taken to be made at a given
\* replica for a given path.
MCInit ==
    /\ TornInit
    /\ LET c == CHOOSE c \in Calls : TRUE
       IN  /\ call[c].at = CHOOSE r \in Replicas : TRUE
           /\ call[c].path = CHOOSE p \in Paths : TRUE

MCFairSpec == MCInit /\ [][Next /\ TornNext]_<<vars, torn>> /\ Fairness

=============================================================================
