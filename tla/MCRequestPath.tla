--------------------------- MODULE MCRequestPath ---------------------------
(***************************************************************************)
(* RateLimit, TokenCache, ClusterHealth and Startup for TLC.  They share   *)
(* nothing: a process starts, and then a request meets the others one      *)
(* after the other.  So it is enough that one of them moves in a behaviour *)
(* while the others rest, and `part` says which one.  Startup has two      *)
(* parts: one about settings, one about what else can happen.              *)
(***************************************************************************)
EXTENDS RateLimit, TokenCache, ClusterHealth, MCStartup

VARIABLE part   \* the component that moves

MCvars == <<part, rateLimitVars, tokenCacheVars, clusterHealthVars, startupVars>>

\* SYMMETRY is not sound for liveness.  Instead requests and clients, both
\* numbers, are named in the order in which they come to the store.
ClientsInOrder ==
    \A r \in Requests : \/ asked[r].client = 1
                        \/ \E q \in 1..(r - 1) :
                              asked[q].client >= asked[r].client - 1

ComesInOrder(r) == \A q \in 1..(r - 1) : asked[q].at # "idle"

MCInit ==
    /\ part \in {"limit", "cache", "health", "settings", "life"}
    /\ RateLimitInit /\ TokenCacheInit /\ ClusterHealthInit
    /\ ClientsInOrder
    /\ part # "limit" => \A r \in Requests : asked[r].client = 1
    /\ part # "cache" => \A t \in Tokens : identity[t] = Invalid
    /\ part # "health" => \A c \in Clusters : healthy[c]
    /\ IF part = "settings" THEN SettingsInit ELSE LifeInit

LimitMoves ==
    /\ part = "limit"
    /\ RateLimitNext
    /\ \A r \in Requests : asked'[r].at # asked[r].at =>
                               asked[r].at # "idle" \/ ComesInOrder(r)
    /\ UNCHANGED <<part, tokenCacheVars, clusterHealthVars, startupVars>>

CacheMoves ==
    /\ part = "cache"
    /\ TokenCacheNext
    /\ UNCHANGED <<part, rateLimitVars, clusterHealthVars, startupVars>>

HealthMoves ==
    /\ part = "health"
    /\ ClusterHealthNext
    /\ UNCHANGED <<part, rateLimitVars, tokenCacheVars, startupVars>>

StartupMoves ==
    /\ \/ part = "settings" /\ SettingsMove
       \/ part = "life" /\ LifeMoves
    /\ UNCHANGED <<part, rateLimitVars, tokenCacheVars, clusterHealthVars>>

Finished ==
    /\ \/ /\ part = "limit"
          /\ now = MaxTime
          /\ \A r \in Requests : asked[r].at \in {"passed", "refused"}
       \/ part \in {"settings", "life"} /\ StartupRests
    /\ UNCHANGED MCvars

MCNext == LimitMoves \/ CacheMoves \/ HealthMoves \/ StartupMoves \/ Finished

\* The fairness of the part that moves: of TokenCacheFairness,
\* ClusterHealthFairness and StartupFairness.
MCFairness ==
    /\ WF_MCvars(CacheMoves /\ Sweep)
    /\ WF_MCvars(HealthMoves /\ HealthCheck)
    /\ SF_MCvars(StartupMoves /\ Boot)
    /\ WF_MCvars(StartupMoves /\ (Drained \/ DrainTimeout))

MCSpec == MCInit /\ [][MCNext]_MCvars /\ MCFairness

\* The type invariants of the four modules; the store of limiters never
\* exceeds its bound, whatever clients come.
RequestPathTypeOK ==
    RateLimitTypeOK /\ TokenCacheTypeOK /\ ClusterHealthTypeOK /\ StartupTypeOK

=============================================================================
