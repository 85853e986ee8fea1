----------------------------- MODULE TornClones -----------------------------
(***************************************************************************)
(* GitOpsClient with a history variable.  When a pull is refused because a *)
(* tracked file was changed on disk, it depends on the order of go-git's   *)
(* own steps whether HEAD has been moved: client.go does not look.  `torn` *)
(* names the clones in which it was, so that what is promised of the       *)
(* others can be said.                                                     *)
(***************************************************************************)
EXTENDS GitOpsClient

VARIABLE torn   \* the replicas whose HEAD was moved by a refused pull, and
                \* which have held changes of their own ever since

\* A pull that is refused moves HEAD to another version of the remote, without
\* its files.
MovesHeadOnly(r) ==
    /\ \E c \in Calls : /\ call[c].at = r
                        /\ call[c].pc = "pull" /\ call'[c].pc = "failed"
    /\ clone'[r].base # clone[r].base
    /\ clone'[r].head # clone[r].head
    /\ clone'[r].index = clone[r].index

\* The clone has no commit of its own and nothing is staged in it.
NothingOfItsOwn(cl) == cl.local = 0 /\ cl.index = cl.head

TornNext ==
    torn' = {r \in Replicas : \/ MovesHeadOnly(r)
                              \/ r \in torn /\ ~NothingOfItsOwn(clone'[r])}

TornInit == Init /\ torn = {}

TornSpec == TornInit /\ [][Next /\ TornNext]_<<vars, torn>>

-----------------------------------------------------------------------------
(* Properties. *)

\* Some call was made for the file, with this value (NoFile: to delete it).
Requested(p, v) ==
    \E d \in Calls : /\ call[d].pc # "idle"
                     /\ call[d].path = p
                     /\ call[d].value = v

\* A push changes a file of the branch only to what some call asked for: it
\* never reverts what another replica has pushed in the meantime, whatever
\* stages, commits and resets have failed before.
OnlyRequestedChangesArePushed ==
    [][\A c \in Calls, p \in Paths :
         (/\ call[c].pc = "push" /\ call'[c].pc # "push"
          /\ call[c].at \notin torn
          /\ remote'.files[p] # remote.files[p]) =>
            Requested(p, remote'.files[p])]_vars

=============================================================================
