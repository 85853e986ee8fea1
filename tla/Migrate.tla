------------------------------ MODULE Migrate ------------------------------
(***************************************************************************)
(* The migrate handler of internal/resources/namespaced/capps: a Capp and  *)
(* the managed Secrets and ConfigMaps of its namespace are copied to       *)
(* another place (a cluster and a namespace of it), and the source Capp is *)
(* deleted if the caller asked for that.  No transaction spans the two     *)
(* places; every API call is one action, and migrations between the places *)
(* interleave.                                                             *)
(*                                                                         *)
(* The model follows the Capps of one name.  What the handler checks of    *)
(* the request alone (the body, the target cluster, its health, the        *)
(* namespace) is answered before any of this and is left out.              *)
(***************************************************************************)
EXTENDS Naturals, FiniteSets

CONSTANTS
    Migrations,     \* the migrate requests of one behaviour
    Places,         \* the pairs of a cluster and a namespace
    Secrets,        \* the names of managed Secrets
    ConfigMaps,     \* the names of managed ConfigMaps
    Hostnames,      \* the hostnames a Capp may have
    MaxConcurrent,  \* how many migrations may be in flight at once
    Faults,         \* the kinds of fault the environment may inject:
                    \*   "read"    a Get or List fails
                    \*   "create"  a Create fails, or a webhook rejects it
                    \*   "delete"  the Delete of the source Capp fails
                    \*   "patch"   the Patch of the target Capp fails
                    \*   "cleanup" a Delete of a copied resource fails
                    \*   "answer"  a call that writes takes effect, but it is
                    \*             answered with an error
                    \*   "crash"   the process serving a request dies
    UserCreates,    \* what others may create at a place while migrations
                    \* run: a subset of {"capp", "dep"}
    NoCapp, NoDep, NoHost,
    User            \* whoever creates resources besides the migrations

Deps == Secrets \cup ConfigMaps
Hosts == Hostnames \cup {NoHost}
Capp == [host: Hosts, label: BOOLEAN, bypass: BOOLEAN]

ASSUME ConstantsAssumption ==
    /\ NoCapp \notin Capp
    /\ NoHost \notin Hostnames
    /\ User \notin Migrations
    /\ NoDep \notin Migrations \cup {User}
    /\ Secrets \cap ConfigMaps = {}
    /\ Deps \cap {"none", "capp", "delete", "patch"} = {}  \* apart in Writes
    /\ MaxConcurrent \in Nat
    /\ IsFiniteSet(Migrations) /\ IsFiniteSet(Places)

VARIABLES
    capp,       \* the Capp of each place
    dep,        \* the managed resources of each place: who created them
    backup,     \* the places whose Capp has a values file in the GitOps repo
    request     \* the requests, each with the local state of its handler

vars == <<capp, dep, backup, request>>

Steps == {"source", "target", "secrets", "configMaps", "check", "copy",
          "cleanup", "capp", "delete", "patch"}

\* "kept": answered 200 with sourceDeleted = false.  "leftover": answered
\* with an error, after a clean-up that failed too; at most the log tells.
\* "unpatched": answered 200, but the patch failed; only the log tells.
Replies == {"none", "ok", "kept", "conflict", "failed", "leftover", "unpatched",
            "lost"}

\* The calls of a migration that write: the Create of a copied resource or of
\* the Capp, the Delete of the source Capp, the Patch of the target Capp.
Writes == Deps \cup {"capp", "delete", "patch"}

\* left: the resources still to be checked, created or cleaned up.
\* copied: the resources whose Create was answered with success.
\* unanswered: what no variable of the handler knows, the write that took
\* effect though it was answered with an error.
Request == [pc: Steps \cup {"idle", "done"}, from: Places, to: Places,
            host: Hosts, move: BOOLEAN, read: Capp \cup {NoCapp},
            effective: Hosts, listed: SUBSET Deps, left: SUBSET Deps,
            copied: SUBSET Deps, unanswered: Writes \cup {"none"},
            reply: Replies]

-----------------------------------------------------------------------------
(* Helpers. *)

InFlight == {m \in Migrations : request[m].pc \in Steps}
At(m, pc) == request[m].pc = pc
Target(m) == capp[request[m].to]

Goto(m, pc) == request' = [request EXCEPT ![m].pc = pc]
Reply(m, code) ==
    request' = [request EXCEPT ![m].pc = "done", ![m].reply = code]

\* Secrets are dealt with before ConfigMaps.
Due(m) ==
    LET left == request[m].left
    IN  IF left \cap Secrets # {} THEN left \cap Secrets ELSE left

\* The resource d is dealt with; `next` follows the last one, with the
\* resources `again` to be dealt with there.
Advance(m, d, next, again) ==
    LET left == request[m].left \ {d}
    IN  [request EXCEPT ![m].left = IF left = {} THEN again ELSE left,
                        ![m].pc = IF left = {} THEN next ELSE @]

\* resolveTargetHostname rejects the request.
HostnameRejected(source, wanted, move) ==
    \/ wanted # NoHost /\ source = NoHost
    \/ source # NoHost /\ ~move /\ wanted \in {NoHost, source}

\* resolveTargetHostname: the hostname prepareCapp is to set, if any.
EffectiveHostname(source, wanted, move) ==
    IF move /\ wanted = source THEN NoHost ELSE wanted

\* prepareCapp: a copy of the Capp that was read, labels and annotations
\* included; the bypass annotation is added when the hostname stays.
PrepareCapp(read, effective) ==
    IF effective # NoHost THEN [read EXCEPT !.host = effective]
    ELSE [read EXCEPT !.bypass = read.bypass \/ read.host # NoHost]

-----------------------------------------------------------------------------
Init ==
    /\ \E p \in Places :
          /\ capp \in {[q \in Places |-> IF q = p THEN c ELSE NoCapp] :
                         c \in {c \in Capp : ~c.bypass}}
          /\ backup = IF capp[p].label THEN {p} ELSE {}
    /\ dep \in [Places -> [Deps -> {NoDep, User}]]
    /\ request \in [Migrations ->
          {[pc |-> "idle", from |-> p, to |-> q, host |-> h, move |-> b,
            read |-> NoCapp, effective |-> NoHost, listed |-> {}, left |-> {},
            copied |-> {}, unanswered |-> "none", reply |-> "none"] :
              p \in Places, q \in Places, h \in Hosts, b \in BOOLEAN}]
    /\ \A m \in Migrations : request[m].from # request[m].to

Start(m) ==
    /\ At(m, "idle")
    /\ Cardinality(InFlight) < MaxConcurrent
    /\ Goto(m, "source")
    /\ UNCHANGED <<capp, dep, backup>>

\* Mutant of GetSource: no return after the 404.
GetSourceWithoutReturn(m) ==
    /\ At(m, "source")
    /\ request' = [request EXCEPT ![m].read = capp[request[m].from],
                                  ![m].pc = "target"]
    /\ UNCHANGED <<capp, dep, backup>>

\* sourceClient.Get of the Capp, 404 when there is none.
GetSource(m) ==
    /\ At(m, "source")
    /\ LET source == capp[request[m].from]
       IN  \/ /\ source # NoCapp
              /\ request' = [request EXCEPT ![m].read = source,
                                            ![m].pc = "target"]
           \/ (source = NoCapp \/ "read" \in Faults) /\ Reply(m, "failed")
    /\ UNCHANGED <<capp, dep, backup>>

\* The Capp must not exist at the target; then the hostname is resolved.
GetTarget(m) ==
    /\ At(m, "target")
    /\ LET source == request[m].read.host
           wanted == request[m].host
           move   == request[m].move
       IN  \/ Target(m) # NoCapp /\ Reply(m, "conflict")
           \/ /\ Target(m) = NoCapp
              /\ HostnameRejected(source, wanted, move)
              /\ Reply(m, "failed")
           \/ /\ Target(m) = NoCapp
              /\ ~HostnameRejected(source, wanted, move)
              /\ request' = [request EXCEPT ![m].pc = "secrets",
                    ![m].effective = EffectiveHostname(source, wanted, move)]
           \/ "read" \in Faults /\ Reply(m, "failed")
    /\ UNCHANGED <<capp, dep, backup>>

\* The managed resources of m's source, of the given names.
AtSource(m, names) == {d \in names : dep[request[m].from][d] # NoDep}

\* listManagedResources: the Secrets.
ListSecrets(m) ==
    /\ At(m, "secrets")
    /\ \/ request' = [request EXCEPT ![m].listed = AtSource(m, Secrets),
                                     ![m].pc = "configMaps"]
       \/ "read" \in Faults /\ Reply(m, "failed")
    /\ UNCHANGED <<capp, dep, backup>>

\* listManagedResources: then the ConfigMaps.
ListConfigMaps(m) ==
    /\ At(m, "configMaps")
    /\ LET names == request[m].listed \cup AtSource(m, ConfigMaps)
       IN  \/ request' = [request EXCEPT
                 ![m].listed = names, ![m].left = names,
                 ![m].pc = IF names = {} THEN "capp" ELSE "check"]
           \/ "read" \in Faults /\ Reply(m, "failed")
    /\ UNCHANGED <<capp, dep, backup>>

\* copyDependentResources, first half: none of them exists at the target.
Check(m) ==
    /\ At(m, "check")
    /\ \E d \in Due(m) :
          \/ /\ dep[request[m].to][d] = NoDep
             /\ request' = Advance(m, d, "copy", request[m].listed)
          \/ dep[request[m].to][d] # NoDep /\ Reply(m, "conflict")
          \/ "read" \in Faults /\ Reply(m, "failed")
    /\ UNCHANGED <<capp, dep, backup>>

\* Mutant of ToCleanUp: all the resources of the source are cleaned up.
AllListed(m) == request[m].listed

\* cleanupResources is given the resources whose Create has succeeded.
ToCleanUp(m) == request[m].copied

\* A Create was answered with an error: what was created before it is cleaned
\* up, and then the error is passed on.  `effect` is what the Create has made
\* all the same, if anything.
CreateFailed(m, error, effect) ==
    request' = [request EXCEPT
        ![m].left = ToCleanUp(m), ![m].reply = error, ![m].unanswered = effect,
        ![m].pc = IF ToCleanUp(m) = {} THEN "done" ELSE "cleanup"]

\* copyDependentResources, second half: they are created one by one.
Copy(m) ==
    /\ At(m, "copy")
    /\ \E d \in Due(m) :
          LET found == dep[request[m].to][d]
          IN  \/ /\ found = NoDep
                 /\ dep' = [dep EXCEPT ![request[m].to][d] = m]
                 /\ request' = [Advance(m, d, "capp", {}) EXCEPT
                                  ![m].copied = @ \cup {d}]
              \/ /\ found # NoDep
                 /\ CreateFailed(m, "conflict", "none")
                 /\ UNCHANGED dep
              \/ /\ "create" \in Faults
                 /\ CreateFailed(m, "failed", "none")
                 /\ UNCHANGED dep
              \/ /\ found = NoDep /\ "answer" \in Faults
                 /\ dep' = [dep EXCEPT ![request[m].to][d] = m]
                 /\ CreateFailed(m, "failed", d)
    /\ UNCHANGED <<capp, backup>>

\* Mutant of Cleanup: the error is passed on at once.
NoCleanup(m) ==
    /\ At(m, "cleanup")
    /\ Goto(m, "done")
    /\ UNCHANGED <<capp, dep, backup>>

\* One Delete of cleanupResources: by name; the resource may be gone, and an
\* error does not stop the others.
Cleanup(m) ==
    /\ At(m, "cleanup")
    /\ \E d \in Due(m) :
          \/ /\ dep' = [dep EXCEPT ![request[m].to][d] = NoDep]
             /\ request' = Advance(m, d, "done", {})
          \/ /\ \/ "cleanup" \in Faults /\ UNCHANGED dep
                \/ /\ "answer" \in Faults
                   /\ dep' = [dep EXCEPT ![request[m].to][d] = NoDep]
             /\ request' = [Advance(m, d, "done", {}) EXCEPT
                              ![m].reply = "leftover"]
    /\ UNCHANGED <<capp, backup>>

\* What follows the creation of the target Capp.
AfterCreate(m) == IF request[m].move THEN Goto(m, "delete") ELSE Reply(m, "ok")

\* Mutant of CreateCapp: the error of the Create is not returned.
CreateCappWithoutReturn(m) ==
    /\ At(m, "capp")
    /\ AfterCreate(m)
    /\ \/ /\ Target(m) = NoCapp
          /\ capp' = [capp EXCEPT ![request[m].to] =
                        PrepareCapp(request[m].read, request[m].effective)]
       \/ (Target(m) # NoCapp \/ "create" \in Faults) /\ UNCHANGED capp
    /\ UNCHANGED <<dep, backup>>

CreateCapp(m) ==
    /\ At(m, "capp")
    /\ \/ /\ Target(m) = NoCapp
          /\ capp' = [capp EXCEPT ![request[m].to] =
                        PrepareCapp(request[m].read, request[m].effective)]
          /\ AfterCreate(m)
       \/ /\ Target(m) # NoCapp
          /\ CreateFailed(m, "conflict", "none")
          /\ UNCHANGED capp
       \/ /\ "create" \in Faults
          /\ CreateFailed(m, "failed", "none")
          /\ UNCHANGED capp
       \/ /\ Target(m) = NoCapp /\ "answer" \in Faults
          /\ capp' = [capp EXCEPT ![request[m].to] =
                        PrepareCapp(request[m].read, request[m].effective)]
          /\ CreateFailed(m, "failed", "capp")
    /\ UNCHANGED <<dep, backup>>

\* Mutant of Bypassed: the annotations of the source Capp are looked at.
BypassedAtSource(m) == request[m].read.bypass

\* The annotations the handler knows the target Capp to have.
Bypassed(m) == PrepareCapp(request[m].read, request[m].effective).bypass

\* The request is answered as if the last write had not taken effect.
Unanswered(m, write, code) ==
    request' = [request EXCEPT ![m].pc = "done", ![m].reply = code,
                               ![m].unanswered = write]

\* sourceClient.Delete: by name.  When it fails the answer is 200 and the
\* annotation stays.
DeleteSource(m) ==
    /\ At(m, "delete")
    /\ LET from == request[m].from
       IN  \/ /\ capp[from] # NoCapp
              /\ capp' = [capp EXCEPT ![from] = NoCapp]
              /\ IF Bypassed(m) THEN Goto(m, "patch") ELSE Reply(m, "ok")
           \/ /\ capp[from] = NoCapp \/ "delete" \in Faults
              /\ Reply(m, "kept")
              /\ UNCHANGED capp
           \/ /\ capp[from] # NoCapp /\ "answer" \in Faults
              /\ capp' = [capp EXCEPT ![from] = NoCapp]
              /\ Unanswered(m, "delete", "kept")
    /\ UNCHANGED <<dep, backup>>

\* The annotation is removed by a merge patch; an error is only recorded.
PatchBypass(m) ==
    /\ At(m, "patch")
    /\ \/ /\ Target(m) # NoCapp
          /\ capp' = [capp EXCEPT ![request[m].to].bypass = FALSE]
          /\ Reply(m, "ok")
       \/ /\ Target(m) = NoCapp \/ "patch" \in Faults
          /\ UNCHANGED capp
          /\ Reply(m, "unpatched")
       \/ /\ Target(m) # NoCapp /\ "answer" \in Faults
          /\ capp' = [capp EXCEPT ![request[m].to].bypass = FALSE]
          /\ Unanswered(m, "patch", "unpatched")
    /\ UNCHANGED <<dep, backup>>

Crash(m) ==
    /\ "crash" \in Faults
    /\ request[m].pc \in Steps
    /\ Reply(m, "lost")
    /\ UNCHANGED <<capp, dep, backup>>

\* The create handlers of Secrets and ConfigMaps, at a target that is free.
CreateDep(p, d) ==
    /\ "dep" \in UserCreates
    /\ dep[p][d] = NoDep
    /\ dep' = [dep EXCEPT ![p][d] = User]
    /\ UNCHANGED <<capp, backup, request>>

\* The create handler of Capps, without a hostname.
CreateOther(p) ==
    /\ "capp" \in UserCreates
    /\ capp[p] = NoCapp
    /\ capp' = [capp EXCEPT ![p] = [host |-> NoHost, label |-> FALSE,
                                    bypass |-> FALSE]]
    /\ UNCHANGED <<dep, backup, request>>

\* Every request has been answered: nothing more happens.
Finished ==
    /\ \A m \in Migrations : At(m, "done")
    /\ UNCHANGED vars

Step(m) ==
    \/ GetSource(m) \/ GetTarget(m) \/ ListSecrets(m) \/ ListConfigMaps(m)
    \/ Check(m) \/ Copy(m) \/ Cleanup(m) \/ CreateCapp(m) \/ DeleteSource(m) \/ PatchBypass(m)

Next ==
    \/ \E m \in Migrations : Start(m) \/ Step(m) \/ Crash(m)
    \/ \E p \in Places : CreateOther(p) \/ \E d \in Deps : CreateDep(p, d)
    \/ Finished

Spec == Init /\ [][Next]_vars

-----------------------------------------------------------------------------
(* Properties. *)

\* The type invariant of the module: the handler has a Capp when it needs one.
TypeOK ==
    /\ capp \in [Places -> Capp \cup {NoCapp}]
    /\ dep \in [Places -> [Deps -> Migrations \cup {User, NoDep}]]
    /\ backup \subseteq Places
    /\ request \in [Migrations -> Request]
    /\ \A m \in Migrations :
          request[m].pc \in Steps \ {"source"} => request[m].read \in Capp

\* A Capp that migrates is never lost: however migrations between the places
\* interleave and whatever fails, and wherever a process dies, there is a
\* place that has the Capp.
CappIsNeverLost == \E p \in Places : capp[p] # NoCapp

\* A migration that is answered with an error leaves at the target none of the
\* resources it has created, "already-created resources are best-effort
\* deleted", but for the one whose Create took effect and was answered with the
\* error: the handler does not count that one as created.  Best effort is
\* enough as long as the Deletes succeed.
FailedMigrationCleansUp ==
    \A m \in Migrations :
        (At(m, "done") /\ request[m].reply \in {"conflict", "failed"})
            => \A d \in Deps :
                  dep[request[m].to][d] = m => d = request[m].unanswered

\* A Capp that was migrated has its Secrets and ConfigMaps: the resources a
\* migration has copied are still there when it is answered, and later,
\* whatever the clean-up of other migrations to the same place deletes.
TargetHasDependents ==
    \A m \in Migrations :
        (At(m, "done") /\ request[m].reply \in {"ok", "kept", "unpatched"})
            => \A d \in request[m].listed : dep[request[m].to][d] = m

\* The copy of m is to carry the annotation if it has kept its hostname: m has
\* not removed it yet, or is not to remove it, as its Create or the Delete of
\* the source was answered with an error, or has failed to.
KeepsBypass(m) ==
    \/ At(m, "delete") \/ At(m, "patch")
    \/ At(m, "done") /\ request[m].reply = "kept"
    \/ /\ At(m, "done") /\ request[m].reply = "unpatched"
       /\ request[m].unanswered # "patch"
    \/ request[m].unanswered = "capp"

\* m has created a Capp at its target.  Where it has died it may have.
HasCreated(m) ==
    \/ KeepsBypass(m)
    \/ At(m, "done") /\ request[m].reply \in {"ok", "unpatched", "lost"}

\* A copy that has kept the hostname of its source carries the annotation
\* until its own migration removes it, and so as long as the source is there:
\* whatever other migrations do, unless one of them has come to the same place,
\* which can remove it by name.
CopyIsBypassed ==
    \A m \in Migrations :
        (/\ KeepsBypass(m)
         /\ \A n \in Migrations \ {m} :
               request[n].to = request[m].to => ~HasCreated(n)
         /\ Target(m) # NoCapp /\ Target(m).host # NoHost
         /\ Target(m).host = request[m].read.host)
            => Target(m).bypass

\* Two migrations have come to one place, and a third one has left it.
ThreeHaveCrossed ==
    \E m, n, r \in Migrations :
        /\ m # n /\ request[m].to = request[n].to
        /\ request[r].from = request[m].to
        /\ HasCreated(m) /\ HasCreated(n) /\ HasCreated(r)

\* Between two places, one of two Capps with the same hostname carries the
\* annotation, so the operator's webhook lets it pass.  Three migrations may
\* break this: the patch is by name, so the one of a first move takes off the
\* annotation that a third has just set at the same place.  So may three places,
\* where two copies may be given one new hostname; the webhook itself, which is
\* not modelled, keeps such Capps away.
SharedHostIsBypassed ==
    (Cardinality(Places) <= 2 /\ ~ThreeHaveCrossed) =>
        \A p, q \in Places :
            (/\ p # q /\ capp[p] # NoCapp /\ capp[q] # NoCapp
             /\ capp[p].host = capp[q].host /\ capp[p].host # NoHost)
                => capp[p].bypass \/ capp[q].bypass

\* A Capp carries the annotation only during the move, or after one that did
\* not end well: the source was kept, the patch failed, the process died or the
\* Create of the Capp was answered with an error though it took effect; or the
\* Capp is a copy of one that carried it at that time.  Otherwise the webhook
\* would no longer see that others take its hostname.
BypassHasAReason ==
    \A p \in Places :
        (capp[p] # NoCapp /\ capp[p].bypass) =>
            \E m \in Migrations :
                /\ request[m].to = p
                /\ \/ At(m, "delete") \/ At(m, "patch")
                   \/ request[m].reply \in {"kept", "unpatched", "lost"}
                   \/ request[m].unanswered = "capp"
                   \/ /\ At(m, "done") /\ request[m].reply = "ok"
                      /\ ~request[m].move /\ request[m].read.bypass

\* docs/migration.md: "the existing hostname is preserved via a bypass
\* annotation that is removed after the source is deleted".
BypassLastsAsLongAsTheMove ==
    CopyIsBypassed /\ SharedHostIsBypassed /\ BypassHasAReason

=============================================================================
