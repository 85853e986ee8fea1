--------------------------- MODULE ClusterHealth ---------------------------
(***************************************************************************)
(* The health flags of internal/cluster/manager.go.  New probes every      *)
(* cluster once; StartHealthChecks then probes them one after the other,   *)
(* in any order, at every tick.  A probe takes time: the cluster may have  *)
(* changed when its result is stored.  Requests read the flags without     *)
(* waiting: the Cluster middleware turns requests to an unhealthy cluster  *)
(* away, and /readyz answers 503 when no flag is set.                      *)
(***************************************************************************)
EXTENDS Naturals

CONSTANTS
    Clusters,       \* the names of the configured clusters
    Nobody          \* no cluster is being probed

ASSUME ClusterHealthAssumption == Nobody \notin Clusters

VARIABLES
    answers,        \* does a cluster answer /version with 200, within 5 s?
    healthy,        \* ClusterClient.healthy
    check,          \* the pass of runHealthChecks: the clusters it still has
                    \* to probe, the one it is probing, and what that said
    states          \* history: the states each cluster was in during the last
                    \* pass and since it began, and since this one began

clusterHealthVars == <<answers, healthy, check, states>>

\* New: the first probes.  What happens between them happens after them.
ClusterHealthInit ==
    /\ answers \in [Clusters -> BOOLEAN]
    /\ healthy = answers
    /\ check = [todo |-> {}, cluster |-> Nobody, ok |-> FALSE]
    /\ states = [c \in Clusters |-> [last |-> {answers[c]}, now |-> {answers[c]}]]

\* A cluster goes down, hangs, or comes back.
ClusterChanges(c) ==
    /\ answers' = [answers EXCEPT ![c] = ~@]
    /\ states' = [states EXCEPT ![c].now = @ \cup {answers'[c]}]
    /\ UNCHANGED <<healthy, check>>

\* The ticker fires.  A tick in the middle of a pass waits for its end.
BeginChecks ==
    /\ check.todo = {} /\ check.cluster = Nobody
    /\ check' = [check EXCEPT !.todo = Clusters]
    /\ states' = [c \in Clusters |-> [last |-> states[c].now,
                                      now |-> {answers[c]}]]
    /\ UNCHANGED <<answers, healthy>>

\* The clusters that are still to be probed after c.
After(c) == check.todo \ {c}

\* checkHealth: the cluster answers, or does not.
Probe(c) ==
    /\ check.cluster = Nobody
    /\ c \in check.todo
    /\ check' = [todo |-> After(c), cluster |-> c, ok |-> answers[c]]
    /\ UNCHANGED <<answers, healthy, states>>

\* Mutant of Flag: a probe that succeeds does not set it again.
FlagOnFailureOnly(c) == IF check.ok THEN healthy[c] ELSE FALSE

\* What a probe makes of the flag.
Flag(c) == check.ok

\* Mutant of Todo: returns at the first cluster that fails.
TodoUpToFailure == IF check.ok THEN check.todo ELSE {}

\* A probe that fails does not end the pass.
Todo == check.todo

RecordHealth(c) ==
    /\ check.cluster = c
    /\ healthy' = [healthy EXCEPT ![c] = Flag(c)]
    /\ check' = [todo |-> Todo, cluster |-> Nobody, ok |-> FALSE]
    /\ UNCHANGED <<answers, states>>

ClusterHealthNext ==
    \/ \E c \in Clusters : ClusterChanges(c) \/ Probe(c) \/ RecordHealth(c)
    \/ BeginChecks

HealthCheck == BeginChecks \/ \E c \in Clusters : Probe(c) \/ RecordHealth(c)

\* The goroutine of StartHealthChecks runs as long as the server does, and a
\* probe ends after 5 s.
ClusterHealthFairness == WF_clusterHealthVars(HealthCheck)

ClusterHealthSpec ==
    /\ ClusterHealthInit
    /\ [][ClusterHealthNext]_clusterHealthVars
    /\ ClusterHealthFairness

-----------------------------------------------------------------------------
\* A pass probes every cluster once.
ClusterHealthTypeOK ==
    /\ answers \in [Clusters -> BOOLEAN]
    /\ healthy \in [Clusters -> BOOLEAN]
    /\ check \in [todo: SUBSET Clusters, cluster: Clusters \cup {Nobody},
                  ok: BOOLEAN]
    /\ check.cluster \notin check.todo
    /\ states \in [Clusters -> [last: SUBSET BOOLEAN, now: SUBSET BOOLEAN]]

\* A flag is not older than one pass: the cluster has been in the state the
\* flag shows since the last pass began, or within this one if it has had its
\* turn.  (ClusterMeta.Healthy, "the result of the most recent background
\* health check".)
FlagIsRecent ==
    \A c \in Clusters :
        \/ healthy[c] \in states[c].now
        \/ healthy[c] \in states[c].last /\ c \in check.todo \cup {check.cluster}

\* A cluster that stays up is used in the end, and one that stays down is
\* not, whatever happens to the other clusters.
FlagsFollowClusters ==
    \A c \in Clusters : /\ <>[]answers[c] => <>[]healthy[c]
                        /\ <>[]~answers[c] => <>[]~healthy[c]

=============================================================================
