----------------------------- MODULE RateLimit -----------------------------
(***************************************************************************)
(* internal/middleware/ratelimit.go: a token bucket per client, in a store *)
(* that holds at most MaxEntries of them.  A request takes its client's    *)
(* limiter from the store under a mutex and asks it afterwards, without    *)
(* the mutex: by then the limiter may have been evicted and replaced.      *)
(* A limiter is known by the request that created it.                      *)
(***************************************************************************)
EXTENDS Integers, FiniteSets

CONSTANTS
    Clients,        \* client IPs
    Requests,       \* the requests to the server
    Burst,          \* the size of a bucket, in requests
    Rate,           \* how many tokens flow into a bucket in a tick
    Price,          \* how many tokens a request takes: rps may be below 1
    MaxEntries,     \* maxIPTracked
    MaxTime         \* the bound on the clock

ASSUME RateLimitAssumption ==
    /\ Burst \in Nat /\ Rate \in Nat /\ Price \in Nat \ {0}
    /\ MaxEntries \in Nat \ {0}     \* config/validation.go:126
    /\ MaxTime \in Nat

VARIABLES
    now,        \* the clock, in ticks
    gets,       \* how many requests have been to the store: the order in
                \* which entries were last seen
    store,      \* the entries, by client
    limiter,    \* what is in each limiter that was created, and since when
    asked       \* the requests: their client, place, limiter, and when they
                \* were answered

rateLimitVars == <<now, gets, store, limiter, asked>>

Full == Burst * Price
Bucket == [tokens: 0..Full, at: 0..MaxTime]
Asked == [at: {"idle", "allow", "passed", "refused"}, client: Clients,
          limiter: Requests, time: 0..MaxTime]

Tracked == DOMAIN store

-----------------------------------------------------------------------------
RateLimitInit ==
    /\ now = 0
    /\ gets = 0
    /\ store = [c \in {} |-> 0]
    /\ limiter = [r \in {} |-> 0]
    /\ \E client \in [Requests -> Clients] :
          asked = [r \in Requests |-> [at |-> "idle", client |-> client[r],
                                       limiter |-> r, time |-> 0]]

\* evictOldest: the entry that has not been seen for the longest time.
Oldest(c) == \A d \in Tracked : store[c].lastSeen <= store[d].lastSeen

\* Mutant of StayTracked: evicts when the store is over its limit.
StayTrackedBeyondLimit ==
    IF Cardinality(Tracked) > MaxEntries
    THEN Tracked \ {CHOOSE c \in Tracked : Oldest(c)}
    ELSE Tracked

\* Mutant of StayTracked: evicts one entry too early.
StayTrackedBelowLimit ==
    IF Cardinality(Tracked) + 1 >= MaxEntries /\ Tracked # {}
    THEN Tracked \ {CHOOSE c \in Tracked : Oldest(c)}
    ELSE Tracked

\* The clients whose entries stay when a new one is added.
StayTracked ==
    IF Cardinality(Tracked) >= MaxEntries
    THEN Tracked \ {CHOOSE c \in Tracked : Oldest(c)}
    ELSE Tracked

\* ipLimiterStore.get: one section of the mutex.
GetLimiter(r) ==
    LET c == asked[r].client
        Holds(l) == asked' = [asked EXCEPT ![r].at = "allow", ![r].limiter = l]
    IN  /\ asked[r].at = "idle"
        /\ gets' = gets + 1
        /\ UNCHANGED now
        /\ \/ /\ c \in Tracked
              /\ store' = [store EXCEPT ![c].lastSeen = gets + 1]
              /\ Holds(store[c].limiter)
              /\ UNCHANGED limiter
           \/ /\ c \notin Tracked
              /\ limiter' = [l \in DOMAIN limiter \cup {r} |->
                    IF l = r THEN [tokens |-> Full, at |-> now] ELSE limiter[l]]
              /\ store' = [d \in StayTracked \cup {c} |->
                    IF d = c THEN [limiter |-> r, lastSeen |-> gets + 1]
                    ELSE store[d]]
              /\ Holds(r)

\* What is in a limiter now: it is filled when it is asked, never above Full.
Level(l) ==
    LET t == limiter[l].tokens + Rate * (now - limiter[l].at)
    IN  IF t > Full THEN Full ELSE t

\* Mutant of Remaining: a refused request empties the bucket.
RemainingAfterReservation(l) ==
    IF Level(l) >= Price THEN Level(l) - Price ELSE 0

\* A request that is refused takes nothing.
Remaining(l) == IF Level(l) >= Price THEN Level(l) - Price ELSE Level(l)

\* rate.Limiter.Allow, on the limiter the request holds.
Allow(r) ==
    LET l == asked[r].limiter
        answer == IF Level(l) >= Price THEN "passed" ELSE "refused"
    IN  /\ asked[r].at = "allow"
        /\ asked' = [asked EXCEPT ![r].at = answer, ![r].time = now]
        /\ limiter' = [limiter EXCEPT ![l] = [tokens |-> Remaining(l), at |-> now]]
        /\ UNCHANGED <<now, gets, store>>

PassTime ==
    /\ now < MaxTime
    /\ now' = now + 1
    /\ UNCHANGED <<gets, store, limiter, asked>>

RateLimitNext ==
    \/ \E r \in Requests : GetLimiter(r) \/ Allow(r)
    \/ PassTime

RateLimitSpec == RateLimitInit /\ [][RateLimitNext]_rateLimitVars

-----------------------------------------------------------------------------
Passed(c, s, e) == {r \in Requests : /\ asked[r].at = "passed"
                                     /\ asked[r].client = c
                                     /\ asked[r].time \in s..e}

Arrived == {r \in Requests : asked[r].at # "idle"}

\* The store is bounded (ratelimit.go:46), and an entry is that of its client.
RateLimitTypeOK ==
    /\ now \in 0..MaxTime
    /\ gets \in Nat
    /\ asked \in [Requests -> Asked]
    /\ limiter \in [DOMAIN limiter -> Bucket]
    /\ store \in [Tracked -> [limiter: DOMAIN limiter, lastSeen: Nat]]
    /\ Cardinality(Tracked) <= MaxEntries

\* As long as every client that has come has a place in the store, no client
\* passes more often in any span of time than a bucket and what has flowed
\* into it allow (RateLimit, "per-client-IP token-bucket rate limit").
ClientsAreLimited ==
    Cardinality({asked[r].client : r \in Arrived}) <= MaxEntries =>
        \A c \in Clients, s, e \in 0..now : s <= e =>
            Cardinality(Passed(c, s, e)) * Price <= Full + Rate * (e - s)

\* A client is refused for its own requests only, those that passed: whatever
\* others send and whoever is evicted, there is a span of time before the
\* refusal in which it has used up its bucket.  In particular, a client that
\* was never seen before is not refused.
RefusedForOwnRequestsOnly ==
    \A r \in Requests : asked[r].at = "refused" =>
        \E s \in 0..asked[r].time :
            Cardinality(Passed(asked[r].client, s, asked[r].time)) * Price
                + Price > Full + Rate * (asked[r].time - s)

=============================================================================
