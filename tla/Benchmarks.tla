----------------------------- MODULE Benchmarks -----------------------------
(***************************************************************************)
(* The trigger handler of internal/resources/namespaced/benchmarks: one    *)
(* Job per Capp, a running Job blocks another trigger, a finished Job is   *)
(* replaced.  A trigger is a sequence of calls to the API server, one      *)
(* action each; the Job controller, its TTL and the garbage collector run  *)
(* beside it.                                                              *)
(***************************************************************************)
EXTENDS Naturals, FiniteSets

CONSTANTS
    Triggers,       \* the POST .../benchmark requests
    Capps,          \* the Capps of one namespace
    JobNames,       \* the names Jobs may have
    NameOf,         \* jobName: the name of the Job of each Capp; long names
                    \* are cut off at 63 characters, so two may share one
    MaxTriggers,    \* how many triggers may be in flight at once
    MaxDeletions,   \* how often Capps are deleted and created again
    NoJob,          \* there is no Job of that name
    JobFaults       \* the kinds of fault the environment may inject:
                    \*   "k8s"      an API call fails and has no effect
                    \*   "k8s_lost" an API call takes effect, its reply is lost

ASSUME BenchmarksAssumption ==
    /\ NameOf \in [Capps -> JobNames]
    /\ NoJob \notin [capp: Capps, owner: Nat \ {0}, by: Triggers,
                    finished: BOOLEAN]
    /\ MaxTriggers \in Nat
    /\ MaxDeletions \in Nat

VARIABLES
    uid,        \* the UID of each Capp: 0 when there is no such Capp
    lastUID,    \* the last UID the API server handed out
    job,        \* the Job of each name
    trigger,    \* the requests, each with the local state of its handler
    ended       \* the Jobs (by the trigger that created them) that have
                \* finished or were garbage collected with their Capp

benchmarkVars == <<uid, lastUID, job, trigger, ended>>

TriggerSteps == {"list", "delete", "get", "create"}
TriggerReplies == {"none", "created", "running", "notfound", "exists", "failed"}

\* owner: the UID of the Capp that owns the Job.  by: who created it.
Job == [capp: Capps, owner: Nat \ {0}, by: Triggers, finished: BOOLEAN]

Trigger == [pc: TriggerSteps \cup {"idle", "done"}, capp: Capps,
            listed: SUBSET JobNames, owner: Nat, reply: TriggerReplies]

TriggersInFlight == {t \in Triggers : trigger[t].pc \in TriggerSteps}

AnswerTrigger(t, code) ==
    trigger' = [trigger EXCEPT ![t].pc = "done", ![t].reply = code]

\* An API call that would leave `effect` as the Jobs fails.
JobCallFails(t, effect) ==
    /\ AnswerTrigger(t, "failed")
    /\ \/ "k8s" \in JobFaults /\ UNCHANGED job
       \/ "k8s_lost" \in JobFaults /\ job' = effect

-----------------------------------------------------------------------------
BenchmarksInit ==
    /\ uid = [c \in Capps |-> 1]
    /\ lastUID = 1
    /\ job = [n \in JobNames |-> NoJob]
    /\ trigger \in [Triggers -> {[pc |-> "idle", capp |-> c, listed |-> {},
                                  owner |-> 0, reply |-> "none"] : c \in Capps}]
    /\ ended = {}

StartTrigger(t) ==
    /\ trigger[t].pc = "idle"
    /\ Cardinality(TriggersInFlight) < MaxTriggers
    /\ trigger' = [trigger EXCEPT ![t].pc = "list"]
    /\ UNCHANGED <<uid, lastUID, job, ended>>

\* listBenchmarkJobs: the Jobs annotated with the name of the Capp.
Listed(c) == {n \in JobNames : job[n] # NoJob /\ job[n].capp = c}

\* jobOutcome: neither Complete nor Failed.
RunningJob(names) == \E n \in names : ~job[n].finished

\* The list, and the 409 for a Job that is still running.
ListJobs(t) ==
    LET names == Listed(trigger[t].capp)
    IN  /\ trigger[t].pc = "list"
        /\ \/ RunningJob(names) /\ AnswerTrigger(t, "running")
           \/ /\ ~RunningJob(names)
              /\ trigger' = [trigger EXCEPT ![t].listed = names,
                    ![t].pc = IF names = {} THEN "get" ELSE "delete"]
           \/ "k8s" \in JobFaults /\ AnswerTrigger(t, "failed")
        /\ UNCHANGED <<uid, lastUID, job, ended>>

\* One Delete of deleteJobs: by name, whatever Job has the name by now.
DeleteJob(t) ==
    /\ trigger[t].pc = "delete"
    /\ \/ \E n \in trigger[t].listed :
             LET left == trigger[t].listed \ {n}
             IN  \/ /\ job[n] # NoJob
                    /\ job' = [job EXCEPT ![n] = NoJob]
                    /\ trigger' = [trigger EXCEPT ![t].listed = left,
                          ![t].pc = IF left = {} THEN "get" ELSE "delete"]
                 \/ /\ job[n] = NoJob
                    /\ AnswerTrigger(t, "notfound")
                    /\ UNCHANGED job
                 \/ JobCallFails(t, [job EXCEPT ![n] = NoJob])
    /\ UNCHANGED <<uid, lastUID, ended>>

\* The Capp is read for its UID, after its old Job is gone.
GetOwner(t) ==
    /\ trigger[t].pc = "get"
    /\ LET c == trigger[t].capp
       IN  \/ /\ uid[c] # 0
              /\ trigger' = [trigger EXCEPT ![t].owner = uid[c],
                                            ![t].pc = "create"]
           \/ uid[c] = 0 /\ AnswerTrigger(t, "notfound")
           \/ "k8s" \in JobFaults /\ AnswerTrigger(t, "failed")
    /\ UNCHANGED <<uid, lastUID, job, ended>>

\* The Job BuildJob makes for the trigger.
NewJob(t) == [capp |-> trigger[t].capp, owner |-> trigger[t].owner, by |-> t,
              finished |-> FALSE]

\* Mutant of CreateJob: a Job of the same name is overwritten.
CreateOrReplaceJob(t) ==
    /\ trigger[t].pc = "create"
    /\ job' = [job EXCEPT ![NameOf[trigger[t].capp]] = NewJob(t)]
    /\ AnswerTrigger(t, "created")
    /\ UNCHANGED <<uid, lastUID, ended>>

\* k8sClient.Create: refused when the name is taken.
CreateJob(t) ==
    LET n == NameOf[trigger[t].capp]
        with == [job EXCEPT ![n] = NewJob(t)]
    IN  /\ trigger[t].pc = "create"
        /\ \/ /\ job[n] = NoJob
              /\ \/ job' = with /\ AnswerTrigger(t, "created")
                 \/ JobCallFails(t, with)
           \/ /\ job[n] # NoJob
              /\ AnswerTrigger(t, "exists")
              /\ UNCHANGED job
        /\ UNCHANGED <<uid, lastUID, ended>>

-----------------------------------------------------------------------------
(* The cluster. *)

\* The Job completes or fails.
FinishJob(n) ==
    /\ job[n] # NoJob /\ ~job[n].finished
    /\ job' = [job EXCEPT ![n].finished = TRUE]
    /\ ended' = ended \cup {job[n].by}
    /\ UNCHANGED <<uid, lastUID, trigger>>

\* ttlSecondsAfterFinished has passed.
ExpireJob(n) ==
    /\ job[n] # NoJob /\ job[n].finished
    /\ job' = [job EXCEPT ![n] = NoJob]
    /\ UNCHANGED <<uid, lastUID, trigger, ended>>

\* The Capp that owns the Job is gone.
Orphaned(n) == job[n] # NoJob /\ uid[job[n].capp] # job[n].owner

CollectGarbage(n) ==
    /\ Orphaned(n)
    /\ ended' = ended \cup {job[n].by}
    /\ job' = [job EXCEPT ![n] = NoJob]
    /\ UNCHANGED <<uid, lastUID, trigger>>

RemoveCapp(c) ==
    /\ uid[c] # 0
    /\ lastUID <= MaxDeletions
    /\ uid' = [uid EXCEPT ![c] = 0]
    /\ UNCHANGED <<lastUID, job, trigger, ended>>

AddCapp(c) ==
    /\ uid[c] = 0
    /\ uid' = [uid EXCEPT ![c] = lastUID + 1]
    /\ lastUID' = lastUID + 1
    /\ UNCHANGED <<job, trigger, ended>>

TriggerStep(t) == ListJobs(t) \/ DeleteJob(t) \/ GetOwner(t) \/ CreateJob(t)

\* Every trigger has been answered and the cluster is at rest.
TriggersAreAnswered ==
    /\ \A t \in Triggers : trigger[t].pc = "done"
    /\ UNCHANGED benchmarkVars

BenchmarksNext ==
    \/ \E t \in Triggers : StartTrigger(t) \/ TriggerStep(t)
    \/ \E n \in JobNames : FinishJob(n) \/ ExpireJob(n) \/ CollectGarbage(n)
    \/ \E c \in Capps : RemoveCapp(c) \/ AddCapp(c)
    \/ TriggersAreAnswered

BenchmarksSpec == BenchmarksInit /\ [][BenchmarksNext]_benchmarkVars

-----------------------------------------------------------------------------
(* Properties. *)

\* The type invariant of the module.
BenchmarksTypeOK ==
    /\ uid \in [Capps -> Nat]
    /\ lastUID \in Nat
    /\ job \in [JobNames -> Job \cup {NoJob}]
    /\ trigger \in [Triggers -> Trigger]
    /\ ended \subseteq Triggers

\* The trigger t makes a running Job disappear.
RemovesRunningJob(t) ==
    \E n \in JobNames : /\ job[n] # NoJob /\ ~job[n].finished
                        /\ job'[n] # job[n]
                        /\ trigger'[t] # trigger[t]

\* Package benchmarks: "A Job that is still running blocks another trigger."
\* No trigger makes a running Job disappear, whatever overlaps.
RunningJobIsKept == [][\A t \in Triggers : ~RemovesRunningJob(t)]_benchmarkVars

\* However triggers interleave, and whatever is retried: until some Job has
\* ended, the Job of every trigger that was answered 201 is there.  So of the
\* triggers for one Capp (or for Capps that share a name) one at most is
\* answered 201; nobody is told of a Job that another one has replaced.
CreatedJobIsThere ==
    \A t \in Triggers :
        (trigger[t].reply = "created" /\ ended = {})
            => /\ job[NameOf[trigger[t].capp]] # NoJob
               /\ job[NameOf[trigger[t].capp]].by = t

=============================================================================
