------------------------------ MODULE CappSync ------------------------------
(***************************************************************************)
(* The handlers of internal/resources/namespaced/capps that change a Capp  *)
(* and its backup, and the rollback handler of .../capps/revisions.        *)
(*                                                                         *)
(* The model follows one Capp, the object of one cluster, namespace and    *)
(* name, and the one values file SyncValues and DeleteValues keep for it:  *)
(* requests for other Capps touch other objects and other files.  A        *)
(* handler is a sequence of calls to the API server and to the GitOps      *)
(* client; every call is one action, so that the calls of concurrent       *)
(* requests (of one replica or of several) interleave.  The GitOps client  *)
(* is its abstract specification, GitStore: a call takes effect in one     *)
(* step, and an error says nothing about whether it did.                   *)
(***************************************************************************)
EXTENDS Naturals, FiniteSets

CONSTANTS
    Requests,       \* the HTTP requests of one behaviour
    Specs,          \* the specs a Capp may have
    GitOpsEnabled,  \* gitops.enabled in the configuration
    MaxConcurrent,  \* how many requests may be in flight at once
    Faults          \* the kinds of fault the environment may inject:
                    \*   "k8s"      an API call fails and has no effect
                    \*   "k8s_lost" an API call takes effect, its reply is lost
                    \*   "git"      a git operation fails and has no effect
                    \*   "git_lost" a push is accepted, its reply is lost
                    \*   "crash"    the process serving a request dies

CONSTANTS
    NoCapp,         \* there is no such Capp in the cluster
    NoFile,         \* there is no values file in the repository
    NoSpec          \* the spec of an object that has not been read

VARIABLES
    capp,       \* the live Capp: NoCapp or an object
    lastRV,     \* the last resourceVersion the API server handed out
    revisions,  \* the CappRevisions: the specs and labels the Capp has had
    file,       \* the values file in the remote repository: NoFile or a spec
    request,    \* the requests, each with the local state of its handler
    overlapped  \* history: the requests that were in flight with another one

vars == <<capp, lastRV, revisions, file, request, overlapped>>

Ops == {"create", "update", "rollback", "delete", "sync", "unsync"}
Toggles == {"sync", "unsync"}

\* Where a handler stands: the call it makes next.
Steps == {"find", "get", "write", "git", "patch"}

\* What the caller is told.  "rejected" is an answer given before anything
\* was written; "lost" is no answer at all.
Replies == {"none", "ok", "warning", "failed", "rejected", "lost"}

Object == [spec: Specs, label: BOOLEAN, rv: Nat]

\* The markers for what is absent are no objects and no specs.
ASSUME ConstantsAssumption ==
    /\ NoCapp \notin Object
    /\ NoFile \notin Specs
    /\ NoSpec \notin Specs
    /\ GitOpsEnabled \in BOOLEAN
    /\ MaxConcurrent \in Nat

NotRead == [spec |-> NoSpec, label |-> FALSE, rv |-> 0]

Request == [op: Ops \cup {"none"}, pc: Steps \cup {"idle", "done"},
            spec: Specs \cup {NoSpec}, template: BOOLEAN,
            read: Object \cup {NotRead}, reply: Replies]

Idle == [op |-> "none", pc |-> "idle", spec |-> NoSpec, template |-> FALSE,
         read |-> NotRead, reply |-> "none"]

-----------------------------------------------------------------------------
(* Helpers. *)

InFlight == {r \in Requests : request[r].pc \in Steps}

At(r, op, pc) == request[r].op = op /\ request[r].pc = pc

Reply(r, code) ==
    request' = [request EXCEPT ![r].pc = "done", ![r].reply = code]

\* isGitSyncEnabledForCapp
IsGitSyncEnabled(obj) == GitOpsEnabled /\ obj.label

\* ToK8s(req, &existing): the metadata, with the labels and the
\* resourceVersion, is the existing object's; the spec is the request's.
ToK8s(spec, existing) == [existing EXCEPT !.spec = spec]

\* Mutant of ApplyTemplate: the rollback restores the backup label too.
ApplyWholeTemplate(live, spec, template) ==
    [live EXCEPT !.spec = spec, !.label = template]

\* applyTemplate: the spec and the labels are the revision's, but the
\* backup label stays what it is on the live Capp.
ApplyTemplate(live, spec, template) ==
    [live EXCEPT !.spec = spec, !.label = live.label]

-----------------------------------------------------------------------------
(* The API server: optimistic concurrency on resourceVersion, which grows  *)
(* with every change of the object and never returns to an old value.      *)

\* The write changes the object: it gets a new resourceVersion and the
\* operator records a revision.  A write of what is there changes nothing.
Store(spec, label) ==
    IF capp # NoCapp /\ capp.spec = spec /\ capp.label = label
    THEN UNCHANGED <<capp, lastRV, revisions>>
    ELSE /\ lastRV' = lastRV + 1
         /\ capp' = [spec |-> spec, label |-> label, rv |-> lastRV + 1]
         /\ revisions' = revisions \cup {[spec |-> spec, label |-> label]}

\* Mutant of VersionMatches: the update carries no resourceVersion.
AnyVersion(obj) == capp # NoCapp

\* Update succeeds on the version it carries and on no other.
VersionMatches(obj) == capp # NoCapp /\ capp.rv = obj.rv

-----------------------------------------------------------------------------
Init ==
    /\ \/ capp = NoCapp /\ lastRV = 0 /\ revisions = {} /\ file = NoFile
       \/ \E s \in Specs, b \in BOOLEAN :
             /\ capp = [spec |-> s, label |-> b, rv |-> 1]
             /\ lastRV = 1
             /\ revisions = {[spec |-> s, label |-> b]}
             /\ file = IF b THEN s ELSE NoFile
    /\ request = [r \in Requests |-> Idle]
    /\ overlapped = {}

\* A request arrives and is dispatched to its handler.  setGitSync answers
\* 501 at once when GitOps is not configured.
Start(r) ==
    /\ request[r].pc = "idle"
    /\ Cardinality(InFlight) < MaxConcurrent
    /\ \E op \in Ops, s \in Specs :
          LET first == CASE op = "create" -> "write"
                         [] op = "rollback" -> "find"
                         [] OTHER -> "get"
              wanted == IF op \in {"create", "update"} THEN s ELSE NoSpec
          IN  request' = [request EXCEPT ![r] =
                IF op \in Toggles /\ ~GitOpsEnabled
                THEN [Idle EXCEPT !.op = op, !.pc = "done",
                                  !.reply = "rejected"]
                ELSE [Idle EXCEPT !.op = op, !.pc = first, !.spec = wanted]]
    /\ overlapped' = IF InFlight = {} THEN overlapped
                     ELSE overlapped \cup InFlight \cup {r}
    /\ UNCHANGED <<capp, lastRV, revisions, file>>

\* findRevision: the template of one of the Capp's revisions, or 404.
FindRevision(r) ==
    /\ At(r, "rollback", "find")
    /\ \/ \E rev \in revisions :
             request' = [request EXCEPT ![r].pc = "get",
                                        ![r].spec = rev.spec,
                                        ![r].template = rev.label]
       \/ Reply(r, "rejected")
    /\ UNCHANGED <<capp, lastRV, revisions, file, overlapped>>

\* Mutant of Get: sync does not write a Capp that is marked as synced.
GetSkippingSynced(r) ==
    /\ request[r].pc = "get"
    /\ capp # NoCapp
    /\ request' = [request EXCEPT ![r].read = capp,
          ![r].pc = IF request[r].op \notin Toggles THEN "write"
                    ELSE IF request[r].op = "sync" /\ capp.label
                         THEN "patch" ELSE "git"]
    /\ UNCHANGED <<capp, lastRV, revisions, file, overlapped>>

\* k8sClient.Get of the live Capp, 404 when there is none.  The toggles
\* write git next, the other handlers write the Capp.
Get(r) ==
    /\ request[r].pc = "get"
    /\ \/ /\ capp # NoCapp
          /\ request' = [request EXCEPT ![r].read = capp,
                ![r].pc = IF request[r].op \in Toggles THEN "git" ELSE "write"]
       \/ /\ capp = NoCapp \/ "k8s" \in Faults
          /\ Reply(r, "rejected")
    /\ UNCHANGED <<capp, lastRV, revisions, file, overlapped>>

\* create: a Capp carries no backup label when it is created.
Create(r) ==
    /\ At(r, "create", "write")
    /\ \/ /\ capp = NoCapp
          /\ Store(request[r].spec, FALSE)
          /\ \/ Reply(r, "ok")
             \/ "k8s_lost" \in Faults /\ Reply(r, "failed")
       \/ /\ capp # NoCapp \/ "k8s" \in Faults
          /\ Reply(r, "rejected")
          /\ UNCHANGED <<capp, lastRV, revisions>>
    /\ UNCHANGED <<file, overlapped>>

\* The object update and rollback send: built from the one they have read.
Updated(r) ==
    IF request[r].op = "rollback"
    THEN ApplyTemplate(request[r].read, request[r].spec, request[r].template)
    ELSE ToK8s(request[r].spec, request[r].read)

\* Mutant of Update: no return after the error of the Update call.
UpdateWithoutReturn(r) ==
    /\ request[r].op \in {"update", "rollback"} /\ request[r].pc = "write"
    /\ IF VersionMatches(Updated(r))
       THEN Store(Updated(r).spec, Updated(r).label)
       ELSE UNCHANGED <<capp, lastRV, revisions>>
    /\ IF IsGitSyncEnabled(request[r].read)
       THEN request' = [request EXCEPT ![r].pc = "git",
                                       ![r].read = Updated(r)]
       ELSE Reply(r, "ok")
    /\ UNCHANGED <<file, overlapped>>

\* k8sClient.Update of update and rollback.  Whether the values are then
\* backed up was decided from the Capp that was read.
Update(r) ==
    /\ request[r].op \in {"update", "rollback"} /\ request[r].pc = "write"
    /\ LET updated == Updated(r)
           backup  == IsGitSyncEnabled(request[r].read)
       IN  \/ /\ VersionMatches(updated)
              /\ Store(updated.spec, updated.label)
              /\ \/ /\ backup
                    /\ request' = [request EXCEPT ![r].pc = "git",
                                                  ![r].read = updated]
                 \/ ~backup /\ Reply(r, "ok")
                 \/ "k8s_lost" \in Faults /\ Reply(r, "failed")
           \/ /\ ~VersionMatches(updated) \/ "k8s" \in Faults
              /\ Reply(r, "rejected")
              /\ UNCHANGED <<capp, lastRV, revisions>>
    /\ UNCHANGED <<file, overlapped>>

\* k8sClient.Delete of delete: by name, without a precondition on the
\* version or the identity of the Capp that was read.
Delete(r) ==
    /\ At(r, "delete", "write")
    /\ \/ /\ capp # NoCapp
          /\ capp' = NoCapp
          /\ \/ /\ IsGitSyncEnabled(request[r].read)
                /\ request' = [request EXCEPT ![r].pc = "git"]
             \/ ~IsGitSyncEnabled(request[r].read) /\ Reply(r, "ok")
             \/ "k8s_lost" \in Faults /\ Reply(r, "failed")
       \/ /\ capp = NoCapp \/ "k8s" \in Faults
          /\ Reply(r, "rejected")
          /\ UNCHANGED capp
    /\ UNCHANGED <<lastRV, revisions, file, overlapped>>

\* Mutant of Values: the values come from the request body.
ValuesOfBody(r) ==
    IF request[r].op \in {"delete", "unsync"} THEN NoFile ELSE request[r].spec

\* What the handler's git call leaves in the repository.
Values(r) ==
    IF request[r].op \in {"delete", "unsync"} THEN NoFile
    ELSE request[r].read.spec

\* The git call has succeeded: the toggles go on to the label, the others
\* are done.
AfterGit(r) ==
    IF request[r].op \in Toggles
    THEN request' = [request EXCEPT ![r].pc = "patch"]
    ELSE Reply(r, "ok")

\* Mutant of AfterGitError: a failed backup is not reported.
BackupErrorIgnored(r) ==
    Reply(r, IF request[r].op \in Toggles THEN "failed" ELSE "ok")

\* It has failed: 502 from the toggles, a warning from the others.
AfterGitError(r) ==
    Reply(r, IF request[r].op \in Toggles THEN "failed" ELSE "warning")

\* SyncValues or DeleteValues.
Git(r) ==
    /\ request[r].pc = "git"
    /\ \/ file' = Values(r) /\ AfterGit(r)
       \/ "git" \in Faults /\ UNCHANGED file /\ AfterGitError(r)
       \/ "git_lost" \in Faults /\ file' = Values(r) /\ AfterGitError(r)
    /\ UNCHANGED <<capp, lastRV, revisions, overlapped>>

\* The label after the merge patch: the patch is the difference between the
\* Capp that was read and the one wanted, so it is empty, and changes
\* nothing, when the Capp had the wanted label when it was read.
PatchedLabel(r) ==
    LET wanted == request[r].op = "sync"
    IN  IF request[r].read.label = wanted THEN capp.label ELSE wanted

\* k8sClient.Patch of setGitSync, without optimistic locking.
Patch(r) ==
    /\ request[r].pc = "patch"
    /\ \/ /\ capp # NoCapp
          /\ Store(capp.spec, PatchedLabel(r))
          /\ \/ Reply(r, "ok")
             \/ "k8s_lost" \in Faults /\ Reply(r, "failed")
       \/ /\ capp = NoCapp \/ "k8s" \in Faults
          /\ Reply(r, "failed")
          /\ UNCHANGED <<capp, lastRV, revisions>>
    /\ UNCHANGED <<file, overlapped>>

\* The process serving the request dies: the handler stops where it is.
Crash(r) ==
    /\ "crash" \in Faults
    /\ request[r].pc \in Steps
    /\ Reply(r, "lost")
    /\ UNCHANGED <<capp, lastRV, revisions, file, overlapped>>

\* Every request has been answered: nothing more happens.
Finished ==
    /\ \A r \in Requests : request[r].pc = "done"
    /\ UNCHANGED vars

Step(r) ==
    \/ FindRevision(r) \/ Get(r) \/ Create(r) \/ Update(r) \/ Delete(r)
    \/ Git(r) \/ Patch(r)

Next ==
    \/ \E r \in Requests : Start(r) \/ Step(r) \/ Crash(r)
    \/ Finished

Spec == Init /\ [][Next]_vars

-----------------------------------------------------------------------------
(* Properties. *)

\* The type invariant of the module.
TypeOK ==
    /\ capp \in Object \cup {NoCapp}
    /\ lastRV \in Nat
    /\ revisions \subseteq [spec: Specs, label: BOOLEAN]
    /\ file \in Specs \cup {NoFile}
    /\ request \in [Requests -> Request]
    /\ overlapped \subseteq Requests

\* No request is between its first and its last call.
Quiet == InFlight = {}

\* The backup label and the values file tell the same story, and the file
\* holds the live spec.
InAgreement ==
    file = IF capp # NoCapp /\ capp.label THEN capp.spec ELSE NoFile

\* The values file never holds a spec the cluster has not accepted: whatever
\* interleaves and fails, what is in the repository was once the live spec.
BackupWasLive == file # NoFile => \E rev \in revisions : rev.spec = file

\* A handler that overwrites the Capp (update, rollback) overwrites exactly
\* the object it has read, also when the Capp was deleted and created again
\* in between: update "[doesn't] clobber concurrent changes".
OverwritesOnlyWhatWasRead ==
    [][\A r \in Requests :
         (/\ request[r].op \in {"update", "rollback"}
          /\ request[r].pc = "write"
          /\ request'[r].pc # "write"
          /\ capp' # capp) => capp = request[r].read]_vars

\* The backup label of a live Capp changes only in the patch of a sync or an
\* unsync; no update and no rollback, however it interleaves with them,
\* brings an old label back.
LabelChangesOnlyByToggle ==
    [][(/\ capp # NoCapp /\ capp' # NoCapp
        /\ capp'.label # capp.label)
       => \E r \in Requests : /\ request[r].op \in Toggles
                              /\ request[r].pc = "patch"
                              /\ request'[r].pc = "done"]_vars

\* The label and the values file disagree only after some caller was told of
\* a failure, or after requests have overlapped.
DriftIsReported ==
    (Quiet /\ ~InAgreement) =>
        \E r \in Requests : \/ request[r].reply \in {"warning", "failed", "lost"}
                           \/ r \in overlapped

\* A sync or an unsync that runs alone and is answered without an error
\* leaves the label and the file in agreement, whatever earlier failures and
\* races had left behind: this is what the warning promises ("sync/unsync to
\* refresh it").
ToggleRestoresAgreement ==
    [][\A r \in Requests \ overlapped :
         (/\ request[r].op \in Toggles
          /\ request[r].pc # "done"
          /\ request'[r].reply = "ok") => InAgreement']_vars

\* No fault has been reported to any caller, and no caller has switched Git
\* sync on or off.
NoFailureReported ==
    \A r \in Requests : /\ request[r].reply \in {"none", "ok", "rejected"}
                        /\ request[r].op \notin Toggles

\* docs/cappctl.md: "While enabled, updates made through capp-backend are
\* committed to the GitOps repository."  When no request is running and none
\* has reported a failure, the file of a labelled Capp holds its spec.
SyncedUpdatesAreCommitted ==
    (Quiet /\ NoFailureReported /\ capp # NoCapp) =>
        (capp.label => file = capp.spec)

=============================================================================
