------------------------------ MODULE GitStore ------------------------------
(***************************************************************************)
(* What the GitOps client (internal/gitops) promises its callers: the      *)
(* remote repository is a map from paths to values files, and a call of    *)
(* SyncValues or DeleteValues                                              *)
(*   - takes effect in one step, at most once, between its invocation and  *)
(*     its return, and changes no other file;                              *)
(*   - has taken effect when it returns without an error;                  *)
(*   - may or may not have taken effect when it returns an error.          *)
(***************************************************************************)
CONSTANTS
    Calls,      \* the calls of SyncValues and DeleteValues
    Paths,      \* the repository-relative paths of the values files
    Contents,   \* what a values file may hold
    NoFile      \* the file does not exist

VARIABLES
    files,      \* the values files of the remote branch
    status,     \* where each call is
    target      \* what each call is to establish: a path and what it holds

vars == <<files, status, target>>

FileMap == [Paths -> Contents \cup {NoFile}]
Target == [path: Paths, value: Contents \cup {NoFile}]

Init ==
    /\ files \in FileMap
    /\ status = [c \in Calls |-> "idle"]
    /\ target \in [Calls -> Target]

\* A handler calls SyncValues (a value) or DeleteValues (no file).
Invoke(c) ==
    /\ status[c] = "idle"
    /\ status' = [status EXCEPT ![c] = "pending"]
    /\ UNCHANGED <<files, target>>

\* The call takes effect; it returns without an error ("ok") or goes on to
\* fail although it has taken effect ("applied").
TakeEffect(c) ==
    /\ status[c] = "pending"
    /\ \E s \in {"ok", "applied"} : status' = [status EXCEPT ![c] = s]
    /\ files' = [files EXCEPT ![target[c].path] = target[c].value]
    /\ UNCHANGED target

\* Calls return errors; the calls of a process that dies fail together.
Fail(C) ==
    /\ \A c \in C : status[c] \in {"pending", "applied"}
    /\ status' = [c \in Calls |-> IF c \in C THEN "failed" ELSE status[c]]
    /\ UNCHANGED <<files, target>>

Next ==
    \/ \E c \in Calls : Invoke(c) \/ TakeEffect(c)
    \/ \E C \in SUBSET Calls : Fail(C)

Spec == Init /\ [][Next]_vars

=============================================================================
