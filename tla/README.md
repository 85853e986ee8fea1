# TLA+ models of capp-backend

capp-backend is a stateless HTTP server between a frontend, a CLI (`cappctl`)
and an MCP server on one side, and several Kubernetes clusters, a GitOps
repository and an identity provider on the other.  Its state is in the
clusters, in the repository and in a few in-memory structures; its difficulty
is that a handler is a sequence of calls to systems that know nothing of each
other, that handlers overlap, and that any call can fail, time out or succeed
unheard.  The modules here model those sequences call by call.

## 1. The system

| Component | State | Operations | Interacts with | What is hard |
|---|---|---|---|---|
| Capp handlers (`internal/resources/namespaced/capps`, `.../revisions`) | none of its own: the Capp and its `backup-to-git` label in a cluster, its values file in the repository | create, update, delete, sync, unsync, rollback | API server, GitOps client | two stores without a transaction; overlapping requests; half-done requests |
| GitOps client (`internal/gitops`) | one clone per process, a mutex | SyncValues, DeleteValues, restart | the remote branch, the clones of other replicas | a clone that keeps what failed; lost acknowledgements; races for the branch |
| Migration (`capps/migrate.go`) | none: Capps, Secrets, ConfigMaps of two places | migrate | two API servers, the operator's webhook | no transaction across clusters; clean-up by name; crash between create and delete |
| Benchmarks (`.../benchmarks`) | none: one Job per Capp | trigger, status, dashboards, query | API server, Job controller, Prometheus | list-then-delete; names that are cut off; TTL |
| Namespaces (`internal/resources/cluster/namespaces`) | none: Namespace, ResourceQuota, RoleBinding | POST, PUT, PATCH, DELETE, GET | API server, quota admission, namespace controller | check-then-act on usage and on Capps; order of quota and permissions |
| Rate limiting (`internal/middleware/ratelimit.go`) | a bounded map of limiters, a mutex | one request | every other request | eviction at the limit; a limiter used after it was evicted |
| OpenShift authentication (`internal/auth/openshift.go`) | the token cache; stateless signed OAuth state | Authenticate, StartCleanup, login, authorize, callback, refresh | home cluster (TokenReview), OAuth server | expiry, revocation, answers that overtake each other |
| LDAP authentication (`internal/auth/ldap*.go`) | none: signed tokens, the directory | login, authenticate, refresh | directory | users that vanish between issue and use; token types; clock |
| Cluster manager and middleware (`internal/cluster`, `internal/middleware/cluster.go`) | a health flag per cluster | health checks, lookup, client per request, readiness | every cluster | sequential probes, stale flags |
| Server (`internal/server`, `cmd/server`) | none | start, stop, routing | everything | what holds up a start or a stop; what a stop cuts off |
| Configuration (`internal/config`) | none | load, validate | operators, every constructor | three sources that see different keys; early returns of the validation |
| Secrets, ConfigMaps (`.../secrets`, `.../configmaps`) | none: managed objects | create, get, update, delete, list | API server | managed-label guard, read-modify-write |
| Conversion (`capps/convert.go`) | none | ToK8s, FromK8s | every Capp handler, cappctl's update, other writers of the Capp | what a round trip loses |
| Errors (`internal/apierrors`) | none | pure functions | everything | nothing a model would find |
| cappctl (`internal/cli`) | a configuration file with contexts and tokens; a callback server during a browser login | login, logout, use-context, refresh, requests | the backend, other cappctl processes | the file is read and written without a lock; updates are fetched, changed and put back |
| MCP server, metrics, logging, CORS, UI, dashboards | none | forwarding and output | the backend | nothing a model would find |

The properties that make each modelled component correct are listed with its
module in section 3; section 6 says what is left out.
`PROJECT.json` names every hazard at its line.

## 2. Layout

For a component `X` there are

* `X.tla`: constants and their assumptions, state, `Init`, one action per call
  a handler makes to the outside (or per critical section), `Next`, `Spec`, and
  the properties at the end.  Next to a definition stands, where there is one,
  a *mutant* of it: an operator that repeats it with a plausible bug, which the
  runs must find when it takes the definition's place;
* `MCX.tla` and `X*.cfg`: fault sets, symmetry and bounds for TLC.  Small
  components that share no state have an MC module together
  (`MCSessionsAndObjects`, `MCRequestPath`): `part` says which of them moves in
  a behaviour, so that their state spaces are added instead of multiplied;
* `XProofs.tla`: theorems, proved with TLAPS.  `SessionsAndObjectsProofs` and
  `RequestPathProofs` hold those of the small components that are checked
  together, one section each.

A handler is modelled from its first call to the outside to its answer.  What
it checks before (body, parameters, access reviews) only chooses whether it
starts.  The local variables of a handler that are used after a call are part
of its record in `request` (`call`, `trigger`, `asked`, `caller`), the others
are gone with the answer.  A request whose process dies is answered `lost`.

`Faults` says what the environment may do.  A call "fails" when it is answered
with an error and has had no effect; its reply is "lost" (in Migrate: the fault
"answer") when it has had its effect all the same: the code cannot tell the two
apart.  `Finished` steps let TLC's deadlock check stay on:
a behaviour may stop only when every request has been answered.

Some promises the code can only keep for a request that has the component to
itself.  `overlapped` is a history variable with the requests that were in
flight together with another one; a property that exempts them still covers
every behaviour in which others overlap before or after.  What overlapping
requests do to such a promise is a run of its own (section 5).

## 3. What is modelled, and what the runs show

### CappSync -- a Capp and its backup

State: `capp` (spec, backup label, resourceVersion), `revisions` (the
CappRevisions the operator records), `file` (the values file in the remote
branch), `request`.  Actions: `FindRevision`, `Get`, `Create`, `Update`,
`Delete`, `Git`, `Patch`, each the call of that name in `create`, `update`,
`delete`, `setGitSync` and `rollback`, and `Crash`.  The GitOps client is used
by what `GitStore` promises: its calls take effect in one step and an error
says nothing about whether they did.  `GitOpsEnabled = FALSE` makes sync and
unsync answer 501 and everything else skip git.  The theorems hold for both
values, except that of `DriftIsReported`, which is about a file there has to be.

* `CappSyncConcurrent` -- three requests interleave freely, all faults.
  `BackupWasLive`: the file only holds specs the cluster has accepted;
  `OverwritesOnlyWhatWasRead`: update and rollback never clobber a change they
  have not seen (also across delete and re-create);
  `LabelChangesOnlyByToggle`: a rollback or update never brings an old label
  back; `DriftIsReported`: label and file disagree only after some caller was
  told, or after requests have overlapped; `ToggleRestoresAgreement`: a sync
  or unsync that runs alone and succeeds puts them right, whatever failed
  before.
* `CappSyncStaleBackup` -- section 5.

Bounds: two specs distinguish old from new; three requests are enough for
"read, somebody else writes, write" with a third that deletes or re-creates.

### GitStore and GitOpsClient -- the repository

`GitStore` promises: a call changes its own file, in one step, between its
invocation and its return, and has done so if it returns without an error.
`GitOpsClient` has the clones (`head`, `index`, `disk`, the remote-tracking
reference, commits on top of it), the mutex, and the steps `Lock`, `Pull`,
`Commit` (from the comparison of the file to the commit), `Push`, `Reset`,
`Restart`.  go-git is outside the repository and modelled from how `client.go`
calls it: a pull fast-forwards or is refused, and a push is accepted only on
top of the branch.

* `GitOpsClientNetwork` -- two replicas, network faults, lost acknowledgements,
  restarts: `UnlockedCloneIsClean`, `ImplementsGitStore` (refinement).
* `GitOpsClientFaults` -- stages, commits and resets fail as well, under
  `FairSpec`.  `OnlyRequestedChangesArePushed`: nobody's change is reverted by
  somebody else's push; `EveryCallReturns`.  The refinement no longer holds
  with these faults (section 5).  Weak fairness of a call's own steps is the
  timeout around its context (`gitops.timeoutSeconds`, 20 s by default) and that
  local file operations end; strong fairness of `Lock` is Go's mutex, which
  hands over to the longest waiter after 1 ms.  The environment (faults, restarts, new calls) has no fairness.
* `GitOpsClientStaleClone` -- section 5.

go-git may move HEAD before it refuses a pull for unstaged changes.  A clone
this has happened to, and that cannot be reset afterwards, commits old files on
top of a new HEAD, and with a fourth call its push reverts what others have
pushed in between.  `TornClones` extends the client by a history variable,
`torn`, that marks these clones until they hold nothing of their own again, and
`OnlyRequestedChangesArePushed` exempts their pushes: the order of go-git's own
steps is not this repository's to decide.  (TLC finds the revert with four
calls when the exemption is taken away; with it, section 4 proves the property
for any number of calls.)  `SYMMETRY` is not sound for liveness, so `MCInit`
fixes one call by hand.  A file that is half written when the process dies is
not modelled: a restart clones afresh, so nobody reads it.

### Benchmarks -- the trigger

State: the UID of each Capp, the Job of each name (owner, creator, finished),
the triggers.  Actions: `List`, `Delete`, `Get`, `Create` as in `trigger`;
`Finish`, `Expire`, `CollectGarbage` for Kubernetes.  Two Capps share a job
name (`NameOf`), which the cut at 63 bytes allows.

* Part "jobs" of `SessionsAndObjects` -- three triggers, all in flight, a Capp
  that is deleted, lost answers.  `CreatedJobIsThere`: until a Job has ended, the
  Job of a trigger that was answered 201 is there, so one at most is answered so,
  also of triggers for different Capps that share the name.
* `BenchmarksRace` -- section 5.

### Migrate

State: the Capp and the dependents of each place (with who created them), which
places have a values file, the migrations.  Actions follow `migrate` and
`copyDependentResources`: `GetSource`, `GetTarget`, `ListSecrets`,
`ListConfigMaps`, `Check` (one Get each), `Copy` (one Create each), `Cleanup` (one Delete each), `CreateCapp`,
`DeleteSource`, `PatchBypass`, `Crash`; users create Capps and Secrets beside
them.  A migration whose clean-up has failed as well is answered like any that
failed, and one whose last patch has failed like any that went well; only the
log tells the difference: the model's replies "leftover" and "unpatched".  Each
of the handler's writes may take effect and be answered with an error;
`unanswered` is the one this has happened to, which no variable of the handler
knows (it is history: no action looks at it).

* `MigrateFaults` -- two migrations, in both directions or in one, with every
  fault.  `CappIsNeverLost`: some place always has the Capp;
  `FailedMigrationCleansUp`: the clean-up removes what this migration has
  created, unless it fails itself; all that may stay is the one resource whose
  Create was answered with the error though it took effect, as that one is not
  in `createdSecrets`.  `TargetHasDependents`: and nothing that belongs to
  another one.  `BypassLastsAsLongAsTheMove` has three parts.  A copy
  that has the hostname of its source carries the annotation that lets it past
  the webhook until its own migration takes it off, and so as long as the source
  is there (`CopyIsBypassed`); of two Capps with one hostname one carries it
  (`SharedHostIsBypassed`); and a Capp carries it only as long as its move lasts
  (`BypassHasAReason`), unless that did not end well (the source was kept, the
  patch failed, the process died, or the Create of the Capp was not answered as
  what it was: then nobody takes the annotation off) or the Capp is a copy of one that carried it.

Two migrations and two places give both conflicts there are: to one place, and
back to where the other one has come from.  `CopyIsBypassed` and
`BypassHasAReason` hold for more of both (section 4).  The first exempts a copy
at a place that two migrations have come to: the annotation is taken off by
name, so the patch of one may take off what the other's copy relies on.  For the
same reason `SharedHostIsBypassed` is said of two places and of what fewer than
three crossing migrations do (`ThreeHaveCrossed`): of three moves that overlap --
there, back, and there again -- the first one's patch may take off what the
third has just set, before the third has deleted its source.  With a third place
two moves are enough: when the Delete of the first one's source fails and the
copy is moved on, there is nothing at the end that carries the annotation, and
two Capps that have the hostname.  Two copies may also be given the same new
hostname there, which only the operator's webhook prevents.

### Namespaces

State: the phase of one namespace, its quota (limits and usage, each key may be
absent), its binding, whether it has Capps, and `fresh`: which requests have
read an object's present resourceVersion (a set instead of a counter keeps the
state finite).  Actions: one per API call of POST, PUT, PATCH and DELETE;
`Account` for quota admission, `Terminated` for the namespace controller.

* Part "namespace" of `SessionsAndObjects` -- all four handlers, two requests
  in flight, three in all, every fault.  `LimitsStayAboveUsage`: no request sets
  a limit below the usage; `UsersAreRemovedByPutOnly`: overlapping PATCHes lose
  nobody; `DeleteTakesNewCappsOnly`: a DELETE may take Capps with the namespace
  that were created after it came, since its Delete has no precondition, and
  none that were there before.

The first request is a POST: as long as there is no namespace the others only
fail.  A later one names a quota or users, but not both: what one request does
to the two objects it does to one after the other, and neither looks at the
other.  One resource with amounts 0 and 1 distinguishes absent, zero, lowered
and raised; two users are one who is kept and one who is left out.  Users are
only compared, and are symmetric.

That a POST gives its users permissions only under the quota it was asked for
is true of behaviours without a DELETE only, and is not claimed: when a DELETE
comes between the two creates of a POST and another POST re-creates the
namespace, the first POST binds its users without a quota; a PUT of users that
overlaps a POST can do the same.

### Startup -- the life of a server process

State: what the operator wants (mode, GitOps, benchmarks), the settings in the
configuration file and in the environment, what happens to a call to each
cluster and to the repository, the process (how far `main` has come, which
cluster is next, whether it listens, its exit code and what ended it), the
report of Load or Validate, the requests, and as history what was reported
before.  A setting stands for the keys the code treats alike; its value is
absent, blank, wrong or right, and in the environment unset, wrong or right.
`EnvReaches` is the rule of Viper's AutomaticEnv: a variable is seen for a key
that has a default, is in the file, or is read by name; the token of a cluster
is read by name only when the file has an inline credential for it.  The keys of
auth.ldap are several settings, since the check that no verification key
conflicts with the signing key is skipped without a usable signing key
(`KeyConflicts`).

Actions, in the order of `main`: `LoadConfig`, `ValidateConfig`, `BuildLogger`,
`ConnectCluster` and `DetectOpenShift` for one cluster after the other,
`NewAuthManager`, `NewGitOpsClient`, `Listen` (a goroutine of its own, so it may
come late or fail), `Notify`; `Signal` or `SignalKills`, `Drained` or
`DrainTimeout`.  `Repair` is the operator: everything the last errors name is
mended where they say, and the process starts again.

Checked in two parts of `RequestPath`.

* Part "settings": any two settings (`MaxOff`) that are off in any of five ways
  (missing, blank or wrong in the file; missing there and right in the
  environment; right there and wrong in the environment), for three wishes that
  cover the modes and the GitOps methods, and up to four starts.
  `NothingIsToldLate`: what is told after a repair was hidden by an unreadable
  file, an unknown mode or method, an empty list of clusters, or (a conflict
  with it) an unusable signing key, or is a variable that is not seen -- two settings are enough for one error to hide
  another.  `AcceptedSettingsStart`: what Validate has accepted the constructors
  refuse only for what Validate does not look at.
* Part "life": the settings are right, two clusters and the repository answer,
  refuse or hang at any time, two requests come, signals come at any point, the
  port is taken or the process is not in a cluster.  `CleanExitAnswersAll`: exit
  code 0 means that no request was cut off; `StopEnds`: a process that drains
  ends, whatever its handlers do.
* `StartupEnvironment`, `StartupHangs` -- section 5.

Fairness: the boot goes on whenever nothing holds it up (strong: a cluster that
answers again answers the call that waits for it, `main` does nothing else),
and the drain ends by itself or by its 30 s context (weak).  Handlers, clusters,
the repository and operators have none.  The other timeouts on the way (5 s for
a health check, 10 s for the OAuth discovery) are what lets `ConnectCluster` and
`NewAuthManager` be single steps.  A process whose port is taken ends with exit
code 0: the code treats the listener's error like a signal.  The 30 s of the
drain are also the grace Kubernetes gives by default; which of them comes first
is not the code's to say, and a kill by the kubelet is not modelled.

### RateLimit, TokenCache, ClusterHealth -- before the handler

Three small components a request meets one after the other, checked with
Startup in the run `RequestPath`.

`RateLimit`: `GetLimiter` is the critical section of `ipLimiterStore.get` with
its eviction, `Allow` asks the limiter that the request holds by then.  Tokens
are counted in fractions (`Price` of them are one request), time in ticks.

* `ClientsAreLimited`: while every client has a place in the store, none passes
  more often than its bucket and the refill allow, in any span of time.  With
  more clients than places the code promises less: an evicted client starts
  with a full bucket.  `RefusedForOwnRequestsOnly`: nobody is refused because
  of others, even by a limiter that was evicted in between.
* Three clients for two places, four requests, half a token a tick; requests
  and clients are numbered in the order they come, which replaces `SYMMETRY`.

`TokenCache`: `Load`, `DeleteExpired`, `Review`, `Store` are the steps of
`Authenticate` on the `sync.Map`, `BeginSweep`, `VisitEntry`, `Evict` those of
`StartCleanup`; the home cluster may change what a token stands for at any
time.  Times are relative (what is left, how long ago), so nothing needs a
bound but the TTL and the timeout of a review.

* `AuthenticatedWasValid`: an identity that is given to a request was valid
  less than TTL + review timeout ago -- not TTL: an answer may be older than
  the moment it is stored, and may overwrite a newer one.  `ExpiredEntriesGo`
  under weak fairness of the sweeper, whose goroutine runs as long as the
  server.  Tokens do not influence each other, so one is enough.

`ClusterHealth`: `BeginChecks`, `Probe`, `RecordHealth`, in any order of the
clusters, which change at any time.

* `FlagIsRecent`: a flag shows a state its cluster was in since the last pass
  began.  `FlagsFollowClusters`: a cluster that stays up (down) is marked so in
  the end, whatever the others do, under weak fairness of the checks: their
  goroutine runs as long as the server and a probe ends after 5 s.

### CliConfig, LdapLogin, OAuthLogin, ManagedObjects, CappUpdate -- small parts

These share nothing either, and are checked in the run `SessionsAndObjects`
together with Benchmarks and Namespaces: `part` in `MCSessionsAndObjects` is
"file", "directory" or "keys" (both LdapLogin), "browser" (OAuthLogin),
"objects", "capp", "jobs" or "namespace".  TLC's check for deadlocks is on;
`Finished` lets a part stop when all its requests have been answered.

`CliConfig`: the configuration file (`cfgFile`: contexts with their pairs of
tokens, and which is current), the token pairs that were issued (`aged`: the
token has expired; `redeemable`: the refresh token is still accepted), and the
cappctl processes with the copy each has read.  Actions are the steps between a
process's calls: read the file, ask user or backend, save.

* `RefreshTokenIsAccepted`: the refresh token in the file is one the backend
  still takes; `PairsStayWithTheirContext`: no context gets the tokens of
  another one.  The file is read and written whole and without a lock, so the
  first exempts what ran beside other commands, and a refresh whose answer was
  not heard or could not be saved.  Nothing is claimed of a logout that runs
  beside another command: what it clears may come back.
* Three commands, two at once (`MaxRunning`), for "one reads, another writes,
  the first one writes"; two contexts.

`LdapLogin`: the directory's entries, the keys each replica signs with and
trusts, the logins (search, bind, search for groups: one action each) and the
tokens.  Time is relative.

* `TokenSaysWhatWasTrue`: name, password and groups were those of one entry,
  each at some moment of the login: the directory is asked three times.
  `TokensSurviveRotation`: an operator who rotates keys in the documented order
  never has a token refused before it expires, although replicas change one
  after the other.
* `MaxUserChanges` bounds what happens to the entries while a login runs: two
  changes are a rename and a replacement.

`OAuthLogin`: the browser login.  `browserLogin` is `cappctl login` with its
callback server on a fixed port, `tab` the tab each command has opened with the
state it carries (the key that signed it, its age), `oauthReplica` the client
secret and endpoints of each backend process, `registered` the secret the OAuth
server knows.  Actions: `StartCallbackServer`, `Authorize`, `Redirect` (the user
signs in, or reloads the page), `RedirectWithError`, `AwaitCallback`, `Callback`
(`ValidateState`, then `Exchange`), `RequestFails`; `RestartReplica` with a newer
secret or with endpoints it had to guess, `RegisterSecret`.

* `OwnCallbackIsAccepted`: whichever replicas serve the two halves of a login,
  whatever restarts and however late the user signs in, when a command's own tab
  calls back its state is refused only while the client secret is being changed.
* Two logins (the second one gets what the first one's tab sends late), two
  replicas, two secrets.  A tick is longer than the 30 s a request may take; a
  command waits 2 ticks for its tab and a state lives 4, which keeps the order
  of the code's 5 and 10 minutes with room for the requests before and after.
  A replica is only compared with others, so replicas are symmetric.

`ManagedObjects`: one name of a Secret or ConfigMap (both handlers are the
same), with its label, and the accesses, each call by call.

* `OnlyManagedObjectsChange`: an object without the label is neither changed
  nor deleted, and a changed one not overwritten.  A delete is by name and
  without precondition, so what has taken the object's name since the read goes
  with it: the property allows that.
* Two accesses, and others that change the object while a request runs.

`CappUpdate`: a Capp as the cluster has it, the document the API shows of it
(`FromK8s`), the Capp a request makes (`ToK8s`), and `cappctl update capps`:
`BeginUpdate`, `FetchCapp` (GET, then flags), `PutUpdate`.  The backend's read
and Update are one step here, their interleavings are CappSync's.  Others POST,
PUT, and write the Capp past the backend (`Apply`).  A field of the model
stands for all the fields the code treats alike: `plain` for what is shown and
written as it is, `rest` for what is not shown and kept, `env` for what must
have exactly one kind of source, `amounts` for requests and limits, `extras` for
the pull secrets, NFS volumes and event sources, each of which `ToK8s` may
refuse.  Images, sizes and quantities on the command line and in requests may be
blank or malformed: cappctl does not look at them, `ToK8s` and the binding do
(`IsAcceptable`).  The sizes of the configuration are looked at by nobody before
`ToK8s`, and may be malformed too.

* `UpdateChangesWhatFlagsName`: an update nobody comes between changes nothing
  else that is shown, except the requests, of which the property says when they
  stay; `RefusedForACause`: it is refused for the value of a flag, for a size
  that the configuration gets wrong, or for what the fetched Capp has and no flag
  replaces -- never because flags and document, each good, do not go together,
  nor for what others have made of the Capp since.
* `CappctlUpdate` -- section 5.
* One command, Capps that differ from a plain one in at most two fields
  (`SomeCapps`), requests and command lines likewise: fields meet in pairs at
  most (size and requests, mounts and volumes, type and host).

There is no fairness in this run: nothing is promised to happen by itself.
Both runs of several parts check the parts' type invariants as one
(`SessionsAndObjectsTypeOK`, `RequestPathTypeOK`).

## 4. What is proved

For every value of the constants that satisfies the modules' assumptions:

| Theorem | Says | Argument |
|---|---|---|
| `CappSyncProofs!TypeCorrect`, `BackupIsOfAcceptedSpec`, `NoUnseenChangeIsOverwritten`, `LabelIsChangedByTogglesOnly` | `[]TypeOK`, `[]BackupWasLive`, `OverwritesOnlyWhatWasRead`, `LabelChangesOnlyByToggle` | `IInv`: besides the types, versions grow and name one content (`VersionNamesContent`), and the spec a handler may still commit is that of a revision (`SpecToBackUpWasLive`). Without the first, a re-created Capp could be taken for the one that was read; without the second, a late backup could write anything. |
| `CappSyncProofs!DriftIsNeverSilent`, `ToggleRepairs` | `[]DriftIsReported`, assuming `GitOpsEnabled`; `ToggleRestoresAgreement` | `DriftInv`: a request that nobody has overlapped is the only one in flight and knows the Capp and the file at each of its steps (`AloneState`), and as long as there is nothing to report and nobody is half-way between cluster and repository, they agree. Agreement is not inductive without the first part: the step that ends a toggle restores it only because nothing has moved since its read. |
| `GitOpsClientProofs!TypeCorrect` | `[]TypeOK` | inductive as it stands |
| `GitOpsClientProofs!UnlockedCloneStaysClean`, `ClientImplementsGitStore` | `[]UnlockedCloneIsClean`, `Spec => Store!Spec`, assuming `NetworkFaultsOnly` | `NetInv`: a clone's view of the remote is one the remote has had (equal files at equal versions), the mutex is held by exactly the call that is past `Lock`, and at each step the clone is clean, or differs from its base by exactly the call's own file. |
| `GitOpsClientProofs!AcknowledgementsAreTrue` | `Spec => AcknowledgedIsPushed`, assuming `NetworkFaultsOnly` | From the refinement: only its effect lets a call of GitStore return without an error (`OkIsAnEffect`). With failures of the local clone it is what `GitOpsClientStaleClone` refutes. |
| `GitOpsClientProofs!PushesWhatWasAskedFor` | `TornSpec => OnlyRequestedChangesArePushed`, whatever fails | `TornInv`: in a clone that is not torn, what is staged but not committed was asked for by some call, and so was what is committed on top of the version the remote still is at (`HoldsOnlyRequests`). The mutex is not needed, nor are clean clones; what restores the invariant for a clone that was torn is that a clone without commits of its own has the remote's files at the remote's version (`KnowsRemote`). |
| `MigrateProofs!TypeCorrect`, `CappNeverLost` | `[]TypeOK`, `[]CappIsNeverLost` | `HomesInv`: there are more places with a Capp than migrations about to delete their source. `CappIsNeverLost` is not inductive: the Create and the Delete of a move are several steps apart, and two moves in opposite directions must each have created one. |
| `MigrateProofs!FailureCleansUp`, `DependentsStay` | `[]FailedMigrationCleansUp`, `[]TargetHasDependents` | `CopiesInv`: at each step of its handler, the resources of the target that a migration has created are exactly those it remembers (`Remembers`), and the one whose Create was answered with an error. Others neither remove them, since a clean-up deletes only what its own migration has created, nor replace them, since nothing is created over what is there. |
| `MigrateProofs!BypassLasts` | `[]BypassLastsAsLongAsTheMove`, its three parts | `BypassInv`: a migration that is about to delete the source explains the annotation only if it will remove it, and a copy that keeps the hostname had none to keep (`HostSettled`, from `resolveTargetHostname`). `CopyInv`: the hostname a handler has decided to set is not the one it has read, so a copy that keeps its source's is created with the annotation (`HostDecided`); who comes to that place later finds it taken, unless it was taken away. `CrossInv`, for two places: as long as no three migrations have crossed, what a handler has read is still the Capp it moves until somebody has come from the other side, and one that is about to patch has left a place behind that only a copy with the annotation can fill (`Crossing`). |
| `RequestPathProofs!StoreIsBounded`, `BucketsLimit`, `RefusalsAreDeserved` | `[]RateLimitTypeOK`, `[]ClientsAreLimited`, `[]RefusedForOwnRequestsOnly` | `RateInv`: every limiter, evicted or not, was full at some moment, and what it lacks since has passed for its client (`BucketsInv`); as long as every client that has come has a place in the store nobody was evicted, and then, seen from any moment, what has passed is missing (`FewClientsInv`). The first gives the lower bound for a refusal, the second the upper bound for a window; neither follows from the properties, which only speak of answers that were given. |
| `RequestPathProofs!TokenCacheTypeCorrect`, `AuthenticatedIdentityWasValid` | `[]TokenCacheTypeOK`, `AuthenticatedWasValid` | `ValidInv`: the age of a cached identity and what its entry has left make up at most TTL + review timeout, and a review's answer is no older than the request has waited for it. |
| `RequestPathProofs!ClusterHealthTypeCorrect`, `FlagsAreRecent` | `[]ClusterHealthTypeOK`, `[]FlagIsRecent` | `RecentInv`: the history contains a cluster's present state and what a probe under way has seen. |
| `SessionsAndObjectsProofs!WritesFollowALook`, `OthersObjectsAreSafe` | `[]ManagedObjectsTypeOK`, `OnlyManagedObjectsChange` | `ManagedObjectsInv`: an access whose copy is of the present version has the present object, and it was managed. |
| `SessionsAndObjectsProofs!OneTriggerWins` | `[]CreatedJobIsThere` | `BenchmarksInv`: until a Job has ended, all Jobs run and nobody has found one to delete (`JobsRun`), so a second Create finds the name taken; who creates has read a UID (`OwnerIsRead`), without which the Job could be garbage at once. |
| `SessionsAndObjectsProofs!TriggersOneByOneKeepJobs` | `RunningJobIsKept`, assuming `MaxTriggers = 1` | A trigger that nobody overlaps finds what it has listed finished or gone (`DeletesFinishedJobs`), however long it takes. With two in flight it is what `BenchmarksRace` refutes. |
| `SessionsAndObjectsProofs!TabsWereOpened`, `OwnStateIsGood` | `[]OAuthLoginTypeOK`, `OwnCallbackIsAccepted` | `OAuthInv`: a tab is no older than its command has waited (`TabIsYoung`), so that a state lives longer than anybody waits for it; the rest is that equal secrets verify what they have signed. |
| `SessionsAndObjectsProofs!TokensTellTheTruth` | `[]TokenSaysWhatWasTrue` | `TruthInv`: what the directory says now is part of what a login under way may have seen (`DirectoryIsSeen`), and what the login has learnt so far was true of one entry (`LoginKnows`). |
| `SessionsAndObjectsProofs!RotationKeepsTokens` | `[]TokensSurviveRotation` | `KeysInv`: every key that a replica signs with, that a login under way was given, or that a token still lives under, is verified by all replicas. |
| `SessionsAndObjectsProofs!CurrentContextIsThere`, `TokensStayInTheirContext`, `SpentTokensHaveAReason` | `[]CliConfigTypeOK`, `[]PairsStayWithTheirContext`, `[]RefreshTokenIsAccepted` | `CliInv`: what holds of the file holds of every copy of it that a command may still save (`FileOK`, `CommandOK`), and two commands that run at one time are both marked (`RunTogether`). A stale copy is then harmless, or its command ran beside others. |
| `CappUpdateProofs!CappUpdateTypeCorrect`, `RefusalsHaveACause`, `UpdateKeepsTheRest` | `[]CappUpdateTypeOK`, `[]RefusedForACause`, `UpdateChangesWhatFlagsName` | Lemmas about the two conversions (`SeedType`, `ToK8sType`, `PutBackStays`, `RefusalHasACause`) for every Capp; `UpdateInv` adds that a command with a copy has a Capp and flags that do not exclude each other, without which it could be refused for a size and resources at once. |
| `NamespacesProofs!NamespacesTypeCorrect`, `LimitsStay`, `UsersStay`, `OlderCappsStay` | `[]NamespacesTypeOK`, `LimitsStayAboveUsage`, `UsersAreRemovedByPutOnly`, `DeleteTakesNewCappsOnly` | `NamespacesInv`: as long as a request holds the present resourceVersion of an object, what it has read is what is there, and what it is about to write has been checked against that (`QuotaIsAsRead`, `BindingIsAsRead`); a request that goes to Delete has seen the Capps older than itself go (`OlderAreGone`).  Every step keeps it for the request that moves and for the others (`OthersKeepWhatTheyKnow`). |
| `StartupProofs!StartupTypeCorrect`, `AcceptedIsBuilt`, `CleanExitIsClean` | `[]StartupTypeOK`, `[]AcceptedSettingsStart`, `[]CleanExitAnswersAll` | `StartupInv`: past Validate there is nothing to complain of (`PastChecksNothingIsWrong`), because settings change between two starts only; and nothing is open before the process listens, nor cut off before it ends (`RequestsFitProcess`).  What a constructor refuses is then compared with what Validate asks for, mode by mode and method by method. |
| `StartupProofs!NothingLeftForLater` | `[]NothingIsToldLate` | `ReportInv`: a report is all that Load, or Validate, complains of, and after a repair every error there still is was hidden by something told before, or is a variable that is not seen (`RepairExcuses`). That needs a lemma for each section of the validation: what it complains of is bad (`OnlyBadSettingsAreErrors`), and a new error was hidden before (`NewErrorsWereHidden`). So the bound of the run, two settings that are off, hides nothing. |
| `RequestPathProofs!RequestPathTypes`, `SessionsAndObjectsProofs!SessionsAndObjectsTypes` | `[]RequestPathTypeOK`, `[]SessionsAndObjectsTypeOK` of the composed specifications | They begin and move as each part's own specification says (`PartsBegin`, `PartsMove`, `SessionPartsBegin`, `SessionPartsMove`): what narrows a part down for TLC adds no step. So all that is proved of a part holds where the runs check it. |

The assumptions are those each module states of its constants (markers for what
is absent are not values, bounds are numbers, sets are finite where they are
counted, a command waits for its tab for at least one tick and the state lives
longer) and, where it is named, the restriction of the faults; TLC evaluates
them in every run.  `NetworkFaultsOnly` cannot be dropped: with a failing file
system the refinement is false (`GitOpsClientStaleClone`).  Nor can
`GitOpsEnabled`: without a repository nothing keeps label and file in agreement,
and nobody promises it.

Every invariant and every action property of the passing runs is proved.  Only
model-checked is liveness -- `EveryCallReturns`, `ExpiredEntriesGo`,
`FlagsFollowClusters`, `StopEnds` -- since TLAPS proves nothing about fairness
or `ENABLED` here.

## 5. Where the code and what is said of it differ

Each is a run that expects a violation; `PROJECT.json` quotes the sentence.
Where the sentence is right after all, a theorem of section 4 says: of an update
that nothing overlaps (`DriftIsNeverSilent`), of a clone that does not fail
(`AcknowledgementsAreTrue`), of triggers that come one after the other
(`TriggersOneByOneKeepJobs`), of what `cappctl update` shows
(`UpdateKeepsTheRest`), of settings that are not set by an unseen variable
(`NothingLeftForLater`).

* `CappSyncStaleBackup`: the backup of an update is not ordered with the
  backups of other requests.
* `GitOpsClientStaleClone`: a retry after a failed commit finds the file it has
  left in the worktree, and reports success.
* `BenchmarksRace`: overlapping triggers delete a running Job.
* `CappctlUpdate`: `cappctl update` fetches a size that is read off the limits,
  and puts back the size's requests.
* `StartupEnvironment`: the error for a missing `gitops.token` names a variable
  that is not seen as long as the file does not have the key, so the operator
  who sets it is told the same again.  The same goes for `gitops.sshKeyPath` and
  `auth.openshift.clientSecret`.
* `StartupHangs`: a cluster that takes the connection and does not answer is
  given up by the health check after 5 s, and then asked by `IsOpenShift` without
  any timeout: the server does not start while it hangs.  (A connection that
  cannot be set up is given up by client-go's own limits; the clone of the
  GitOps repository has none either, but nothing is said of that.)

Seen while modelling, in states the models have, without a run of their own:

* for the same reason as in `CappSyncStaleBackup`, an update's backup may come
  after the `DeleteValues` of a delete, and the file of a Capp that is gone
  stays (`handler.go:252`);
* a Capp created between the list and the Delete of a namespace's DELETE goes
  with the namespace (`namespaces/handler.go:484`);
* a Capp with a mounted Secret or ConfigMap volume cannot be updated by
  `cappctl update` at all: the document lists the volume's mount a second time
  under `volumeMounts`, and `ToK8s` answers 400 (`convert.go:103`, `:120`).
  The same goes for environment variables from other sources than Secrets and
  ConfigMaps, and for a Capp that was written past the backend without an image
  or with an NFS volume without a capacity;
* the quantities of `cappSizes` are not validated at the start: a wrong one is
  answered with 400 whenever its size is asked for, or read off a Capp that
  somebody updates (`convert.go:210`); `cappctl` sends `--size`, the quantities
  and `--image ""` as they are (`capps.go:312`);
* `--cpu-limit` and its like replace all the resources; log settings without a
  type, other volumes and further containers are not shown, and go with the
  next update;
* two `cappctl update`s that overlap lose one's change, as a PUT carries no
  version of the document it was made from;
* a refresh that is answered without a new refresh token erases the one in the
  file;
* a sync whose label patch fails after the commit leaves the file without the
  label (a repetition repairs it: `ToggleRestoresAgreement`);
* a delete whose `DeleteValues` fails is answered with a warning that names a
  Capp no sync can name any more (`handler.go:253`);
* a migration may answer 409 after writes, when a resource appears between the
  check and the create, and cleans up then, where `docs/migration.md:55` and
  `:108` say otherwise;
* a Secret or ConfigMap whose Create takes effect and is answered with an error
  (a timeout, a cut connection) is not in `createdSecrets`, so it stays at the
  target, and stands in the way of the next attempt (`migrate.go:143`);
  `copyDependentResources` also drops the error of its clean-up, which not even
  the log has (`:144`);
* a Capp whose Create is answered so stays at the target without its resources,
  which are cleaned up, and with the bypass annotation (`handler.go:493`); a
  Delete of the source that is answered so leaves one Capp, whose annotation
  nobody takes off, and the caller with `sourceDeleted: false`
  (`handler.go:517`);
* the bypass annotation stays for good when its removal fails, and `prepareCapp`
  copies a leftover one, and the backup label, to the target, where
  `docs/migration.md` says of a copy that it has none;
* of three moves of one Capp that overlap, the annotation the third relies on
  may be taken off by the first, whose patch is by name (`handler.go:527`); and
  when a copy whose source was kept is moved on to a third place, nothing
  carries the annotation at the end, and two Capps have the hostname;
* `docs/migration.md` says under Limitations that a failed create leaves the
  resources created before it; the code cleans them up;
* `login.go:292` says that a callback whose state is not the command's own is
  rejected by the backend, but the command sends on the state of the callback,
  which is good for any login: a tab that an earlier command has opened
  completes a later one;
* `loader.go:24` says that an empty CA disables verification, `:57` refuses it;
* `validateCredential` asks for "exactly one" credential and takes two;
* a verification key that conflicts with the signing key is reported only once
  the signing key is good (`validation.go:297`), in spite of "All validation
  errors are collected and returned together" (`validation.go:33`);
* an empty `auth.mode` is passthrough, without a word;
* a port that is taken ends the process with exit code 0.

## 6. What is not modelled, and why

Parts of modelled components:

* what only reads: list and get of every resource, the benchmarks' status,
  dashboards and PromQL proxy.  They make one call and keep nothing;
* header checks of the middlewares, which route has which of them, and the
  timeouts of `net/http` (a handler that runs past the write timeout loses its
  answer, which its client cannot tell from a lost one);
* the parsing (beyond whether it fails) and printing of quantities, URLs, filters, keys and YAML, log
  lines and audit entries; what cappctl's other commands send and print;
* `PasswordLogin` of mode openshift (an implicit grant), beyond being one answer
  of the token endpoint in CliConfig.

Components without state of their own, and without a property a state could
break: the MCP server (one HTTP call per tool), `apierrors` (a table), metrics,
logging, CORS, recovery and the UI.

Of the world: real time, except as the order of events and the ticks of
section 3; the Kubernetes API server beyond optimistic concurrency, names that
are taken, and the controllers named above; go-git beyond what `client.go`
relies on.

What would come next, in this order: a composition of CappSync and Migrate, for
updates that are lost when a move deletes the source by name (the one hazard of
`PROJECT.json` without a property), with its proof; the webhook in Migrate, so
that `SharedHostIsBypassed` can be said, and proved, of any number of places.
