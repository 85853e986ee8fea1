----------------------------- MODULE TokenCache -----------------------------
(***************************************************************************)
(* The cache of validated tokens in internal/auth/openshift.go:            *)
(* Authenticate looks a token up, has it reviewed by the home cluster when *)
(* there is no valid entry, and stores the answer; StartCleanup removes    *)
(* expired entries.  The cache is a sync.Map: each of its operations is    *)
(* atomic, nothing else is.  Times are relative, so that they stay         *)
(* bounded: what an entry has left, and how long ago something was true.   *)
(***************************************************************************)
EXTENDS Integers

CONSTANTS
    Callers,        \* requests that may be authenticated at the same time
    Tokens,         \* bearer tokens (their hashes are the keys of the cache)
    Identities,     \* a user name and groups, as a TokenReview returns them
    Invalid,        \* the answer of a TokenReview to a token that is not valid
    NoEntry,        \* there is nothing in the cache for a token
    TTL,            \* cacheTTL, in ticks
    ReviewTime      \* the timeout of a TokenReview (10 s), in ticks

ASSUME TokenCacheAssumption ==
    /\ Invalid \notin Identities
    /\ TTL \in Nat \ {0}        \* openshift.go:123
    /\ ReviewTime \in Nat

VARIABLES
    identity,       \* what each token stands for, according to the cluster
    validAgo,       \* history: how long ago it stood for each identity, up
                    \* to a tick more than AuthenticatedWasValid allows
    entry,          \* tokenCache
    caller,         \* the requests that are in Authenticate
    sweep           \* the tokens a pass of StartCleanup still has to visit,
                    \* and those it has found expired

tokenCacheVars == <<identity, validAgo, entry, caller, sweep>>

Answers == Identities \cup {Invalid}
MostStale == TTL + ReviewTime

Cached == [identity: Identities, left: -1..TTL]
Caller == [at: {"idle", "delete", "review", "answer"}, token: Tokens,
           review: Answers, waited: 0..ReviewTime, got: Answers]

Overdue(t) == entry[t] # NoEntry /\ entry[t].left < 0

TokenCacheInit ==
    /\ identity \in [Tokens -> Answers]
    /\ validAgo = [t \in Tokens |-> [i \in Identities |->
                      IF identity[t] = i THEN 0 ELSE MostStale]]
    /\ entry = [t \in Tokens |-> NoEntry]
    /\ \E t \in Tokens :
          caller = [c \in Callers |-> [at |-> "idle", token |-> t,
                       review |-> Invalid, waited |-> 0, got |-> Invalid]]
    /\ sweep = [todo |-> {}, expired |-> {}]

-----------------------------------------------------------------------------
\* Authenticate.  A request is answered with an identity, or refused; a new
\* request takes its place.

IsHitAtExpiry(t) == entry[t] # NoEntry /\ entry[t].left >= 0

\* time.Now().Before(cached.expiresAt)
IsHit(t) == entry[t] # NoEntry /\ entry[t].left > 0

Load(c, t) ==
    LET Go(to, got) == caller' = [caller EXCEPT ![c].at = to, ![c].token = t,
                                                ![c].got = got]
    IN  /\ caller[c].at = "idle"
        /\ \/ IsHit(t) /\ Go("idle", entry[t].identity)
           \/ ~IsHit(t) /\ entry[t] # NoEntry /\ Go("delete", Invalid)
           \/ entry[t] = NoEntry /\ Go("review", Invalid)
        /\ UNCHANGED <<identity, validAgo, entry, sweep>>

\* Removes the expired entry, or the one that has replaced it.
DeleteExpired(c) ==
    /\ caller[c].at = "delete"
    /\ entry' = [entry EXCEPT ![caller[c].token] = NoEntry]
    /\ caller' = [caller EXCEPT ![c].at = "review"]
    /\ UNCHANGED <<identity, validAgo, sweep>>

\* The home cluster reviews the token; its answer is on the way.
Review(c) ==
    /\ caller[c].at = "review"
    /\ caller' = [caller EXCEPT ![c].at = "answer",
                                ![c].review = identity[caller[c].token]]
    /\ UNCHANGED <<identity, validAgo, entry, sweep>>

Leave(c, got) ==
    caller' = [caller EXCEPT ![c] = [at |-> "idle", token |-> @.token, got |-> got,
                                     review |-> Invalid, waited |-> 0]]

\* The review fails, its answer does not arrive in time, or it says that the
\* token is not valid: nothing is stored.
Refuse(c) ==
    /\ caller[c].at \in {"review", "answer"}
    /\ Leave(c, Invalid)
    /\ UNCHANGED <<identity, validAgo, entry, sweep>>

IsAuthenticated(c) == caller[c].at = "answer" /\ caller[c].review # Invalid

\* The answer is stored over whatever is there by now.
Store(c) ==
    /\ IsAuthenticated(c)
    /\ entry' = [entry EXCEPT ![caller[c].token] =
                    [identity |-> caller[c].review, left |-> TTL]]
    /\ Leave(c, caller[c].review)
    /\ UNCHANGED <<identity, validAgo, sweep>>

-----------------------------------------------------------------------------
\* StartCleanup.  A pass reads the clock once and takes no time, but requests
\* go on beside it: it removes an entry in one step and reads it in another.

BeginSweep ==
    /\ sweep.todo = {} /\ sweep.expired = {}
    /\ sweep' = [sweep EXCEPT !.todo = Tokens]
    /\ UNCHANGED <<identity, validAgo, entry, caller>>

\* Mutant of IsExpired: the comparison is the other way round.
IsExpiredNotYet(t) == entry[t] # NoEntry /\ entry[t].left > 0

\* now.After(cached.expiresAt)
IsExpired(t) == entry[t] # NoEntry /\ entry[t].left < 0

VisitEntry(t) ==
    /\ t \in sweep.todo /\ sweep.expired = {}
    /\ sweep' = [todo |-> sweep.todo \ {t},
                 expired |-> {x \in {t} : IsExpired(x)}]
    /\ UNCHANGED <<identity, validAgo, entry, caller>>

Evict(t) ==
    /\ t \in sweep.expired
    /\ entry' = [entry EXCEPT ![t] = NoEntry]
    /\ sweep' = [sweep EXCEPT !.expired = {}]
    /\ UNCHANGED <<identity, validAgo, caller>>

Sweep == BeginSweep \/ \E t \in Tokens : VisitEntry(t) \/ Evict(t)

-----------------------------------------------------------------------------
\* The token is revoked, or its user's groups change.
ChangeIdentity(t, i) ==
    /\ i # identity[t]
    /\ identity' = [identity EXCEPT ![t] = i]
    /\ validAgo' = [validAgo EXCEPT ![t] =
                       [j \in Identities |-> IF j = i THEN 0 ELSE @[j]]]
    /\ UNCHANGED <<entry, caller, sweep>>

\* A tick passes: not within a pass of the sweeper, nor beyond the timeout of
\* a review.
TokensAge ==
    /\ sweep.todo = {} /\ sweep.expired = {}
    /\ \A c \in Callers : caller[c].waited < ReviewTime \/ caller[c].at # "answer"
    /\ validAgo' = [t \in Tokens |-> [i \in Identities |->
          IF identity[t] = i THEN 0
          ELSE IF validAgo[t][i] = MostStale THEN MostStale
          ELSE validAgo[t][i] + 1]]
    /\ entry' = [t \in Tokens |->
          IF entry[t] = NoEntry \/ Overdue(t) THEN entry[t]
          ELSE [entry[t] EXCEPT !.left = @ - 1]]
    /\ caller' = [c \in Callers |->
          IF caller[c].at = "answer" THEN [caller[c] EXCEPT !.waited = @ + 1]
          ELSE caller[c]]
    /\ UNCHANGED <<identity, sweep>>

TokenCacheNext ==
    \/ \E c \in Callers : \/ \E t \in Tokens : Load(c, t)
                          \/ DeleteExpired(c) \/ Review(c)
                          \/ Refuse(c) \/ Store(c)
    \/ Sweep
    \/ \E t \in Tokens, i \in Answers : ChangeIdentity(t, i)
    \/ TokensAge

\* The goroutine of StartCleanup runs as long as the server does.
TokenCacheFairness == WF_tokenCacheVars(Sweep)

TokenCacheSpec ==
    TokenCacheInit /\ [][TokenCacheNext]_tokenCacheVars /\ TokenCacheFairness

-----------------------------------------------------------------------------
\* The cache holds identities of tokens that were valid, never a refusal.
TokenCacheTypeOK ==
    /\ identity \in [Tokens -> Answers]
    /\ validAgo \in [Tokens -> [Identities -> 0..MostStale]]
    /\ entry \in [Tokens -> Cached \cup {NoEntry}]
    /\ caller \in [Callers -> Caller]
    /\ sweep \in [todo: SUBSET Tokens, expired: SUBSET Tokens]

\* A request is only given an identity that its token stood for less than the
\* cache's TTL and the time of a review ago, however the answers of several
\* reviews overtake each other and whatever is stored over what.
AuthenticatedWasValid ==
    [][\A c \in Callers :
          (caller[c] # caller'[c] /\ caller'[c].at = "idle"
                                  /\ caller'[c].got # Invalid) =>
              validAgo[caller'[c].token][caller'[c].got] < MostStale]_tokenCacheVars

\* An expired entry does not stay for ever, whether its token comes again or
\* not (StartCleanup, "evicts expired token-validation cache entries").
ExpiredEntriesGo ==
    \A t \in Tokens : Overdue(t) ~> ~Overdue(t)

=============================================================================
