------------------------- MODULE RequestPathProofs -------------------------
(***************************************************************************)
(* What a request meets before its handler: for any number of clients,     *)
(* tokens and clusters, what the rate limiter lets through and what it     *)
(* refuses, how old an identity can be that a request is given, and how    *)
(* old the flag of a cluster.  Last, that MCRequestPath, which puts these  *)
(* beside the start of the process, adds no step to any of them.           *)
(***************************************************************************)
EXTENDS MCRequestPath, StartupProofs, FiniteSetTheorems, WellFoundedInduction

-----------------------------------------------------------------------------
(* RateLimit.  What is in a bucket, together with what its client was let  *)
(* through since some moment, makes up what a bucket holds and what has    *)
(* flowed into it since: never more, as long as nobody is evicted, and     *)
(* never less, whoever is.                                                 *)

Seen == {asked[r].client : r \in Arrived}

\* Passed and Level, of the requests in as and of the limiters in ls.
PassedIn(as, c, s, e) ==
    {r \in Requests : as[r].at = "passed" /\ as[r].client = c /\ as[r].time \in s..e}
NPassed(as, c, s, e) == Cardinality(PassedIn(as, c, s, e))
LevelIn(ls, l, t) ==
    LET n == ls[l].tokens + Rate * (t - ls[l].at) IN IF n > Full THEN Full ELSE n

\* A limiter is used for requests of the client of the one that created it.
StoreInv ==
    /\ RateLimitTypeOK
    /\ IsFiniteSet(Tracked) /\ IsFiniteSet(Arrived) /\ IsFiniteSet(Seen)
    /\ Tracked \subseteq Seen
    /\ \A r \in Requests : asked[r].time <= now
    /\ DOMAIN limiter \subseteq Arrived
    /\ \A l \in DOMAIN limiter : limiter[l].at <= now
    /\ \A c \in Tracked : asked[store[c].limiter].client = c
    /\ \A r \in Arrived : /\ asked[r].limiter \in DOMAIN limiter
                          /\ asked[asked[r].limiter].client = asked[r].client

\* A bucket was full at some moment, and what is missing since has passed.
BucketsInv ==
    \A l \in DOMAIN limiter :
        \E s \in 0..now :
            Full + Rate * (now - s) <=
                LevelIn(limiter, l, now) + NPassed(asked, asked[l].client, s, now) * Price

\* What has passed is missing from the bucket.
LevelIsLeft(as, ls, c, l, t) ==
    \A s \in 0..t :
        LevelIn(ls, l, t) + NPassed(as, c, s, t) * Price <= Full + Rate * (t - s)

\* Nobody is evicted.
FewClientsInv ==
    Cardinality(Seen) <= MaxEntries =>
        /\ Seen = Tracked
        /\ \A r \in Arrived : asked[r].limiter = store[asked[r].client].limiter
        /\ \A c \in Tracked : LevelIsLeft(asked, limiter, c, store[c].limiter, now)

RateInv ==
    /\ StoreInv /\ BucketsInv /\ FewClientsInv
    /\ ClientsAreLimited /\ RefusedForOwnRequestsOnly

LEMMA LeastNumber ==
    ASSUME NEW S, S \subseteq Nat, S # {}
    PROVE  \E x \in S : \A y \in S : x <= y
<1> DEFINE Less == OpToRel(<, Nat)
<1>1. IsWellFoundedOn(Less, Nat)
  BY NatLessThanWellFounded
<1>2. \A x, y \in Nat : y < x => <<y, x>> \in Less
  BY DEF OpToRel
<1> HIDE DEF Less
<1>3. PICK x \in S : \A y \in S : ~(<<y, x>> \in Less)
  BY <1>1, WFMin
<1>4. \A y \in S : ~(y < x)
  BY <1>2, <1>3
<1>. QED
  BY <1>3, <1>4

LEMMA ConstantsAreNat ==
    Full \in Nat /\ Rate \in Nat /\ Price \in Nat /\ Price > 0 /\ MaxEntries \in Nat
<1>1. \A x \in Nat, y \in Nat : x * y \in Nat
  OBVIOUS
<1>. QED
  BY <1>1, RateLimitAssumption DEF Full

\* What flows in a tick, and what a request takes.
LEMMA RateArithmetic ==
    /\ \A a \in Int, s \in Int : Rate * (a + 1 - s) = Rate * (a - s) + Rate
    /\ \A a \in Nat, s \in Nat : s <= a => Rate * (a - s) \in Nat
    /\ \A n \in Int : (n + 1) * Price = n * Price + Price
    /\ \A n \in Nat : n * Price \in Nat
    /\ \A m, n \in Int : m <= n => m * Price <= n * Price
    /\ \A a \in Int : Rate * (a - a) = 0
    /\ Full \in Nat /\ Rate \in Nat /\ Price \in Nat /\ Price > 0
<1>1. /\ Rate \in Nat /\ Price \in Nat /\ Price > 0 /\ Burst \in Nat
  BY RateLimitAssumption
<1>2. \A a \in Int, s \in Int : Rate * (a + 1 - s) = Rate * (a - s) + Rate
  BY <1>1
<1>3. \A x \in Nat, y \in Nat : x * y \in Nat
  OBVIOUS
<1>4. \A a \in Nat, s \in Nat : s <= a => Rate * (a - s) \in Nat
  <2> SUFFICES ASSUME NEW a \in Nat, NEW s \in Nat, s <= a
               PROVE  Rate * (a - s) \in Nat
    OBVIOUS
  <2>1. a - s \in Nat
    OBVIOUS
  <2>. QED
    BY <1>1, <1>3, <2>1
<1>5. \A n \in Int : (n + 1) * Price = n * Price + Price
  BY <1>1
<1>6. \A n \in Nat : n * Price \in Nat
  BY <1>1, <1>3
<1>7. \A m, n \in Int : m <= n => m * Price <= n * Price
  BY <1>1
<1>8. Full \in Nat
  BY <1>1, <1>3 DEF Full
<1>. QED
  BY <1>1, <1>2, <1>4, <1>5, <1>6, <1>7, <1>8

LEMMA RateFlows ==
    \A a, s, u \in Int : u = a + 1 => Rate * (u - s) = Rate * (a - s) + Rate
<1> SUFFICES ASSUME NEW a \in Int, NEW s \in Int, NEW u \in Int, u = a + 1
             PROVE  Rate * (u - s) = Rate * (a - s) + Rate
  OBVIOUS
<1>1. PICK d \in Int : d = a - s
  OBVIOUS
<1>2. u - s = d + 1
  BY <1>1
<1>3. Rate * (d + 1) = Rate * d + Rate
  BY ConstantsAreNat
<1>. QED
  BY <1>1, <1>2, <1>3

LEMMA PassedIsFinite ==
    ASSUME NEW as, IsFiniteSet({r \in Requests : as[r].at # "idle"}),
           NEW c, NEW s, NEW e
    PROVE  IsFiniteSet(PassedIn(as, c, s, e)) /\ NPassed(as, c, s, e) \in Nat
<1>1. PassedIn(as, c, s, e) \in SUBSET {r \in Requests : as[r].at # "idle"}
  BY DEF PassedIn
<1>2. IsFiniteSet(PassedIn(as, c, s, e))
  BY <1>1, FS_Subset
<1>. QED
  BY <1>2, FS_CardinalityType DEF NPassed

LEMMA CountIsNat ==
    ASSUME StoreInv
    PROVE  \A c, s, e : NPassed(asked, c, s, e) \in Nat
BY PassedIsFinite DEF StoreInv, Arrived

LEMMA LevelRange ==
    ASSUME StoreInv, NEW l \in DOMAIN limiter
    PROVE  /\ LevelIn(limiter, l, now) \in 0..Full
           /\ limiter[l].at \in 0..now /\ limiter[l].tokens \in 0..Full
           /\ now \in Nat /\ Rate * (now - limiter[l].at) \in Nat
<1>1. /\ limiter[l] \in Bucket /\ limiter[l].at <= now /\ now \in Nat
      /\ limiter[l].tokens \in 0..Full /\ limiter[l].at \in Nat
  BY RateLimitAssumption DEF StoreInv, RateLimitTypeOK, Bucket
<1>2. Rate * (now - limiter[l].at) \in Nat
  BY <1>1, RateArithmetic
<1>. QED
  BY <1>1, <1>2, RateArithmetic DEF LevelIn

\* There is room for one more among those that stay.
LEMMA RoomForOneMore ==
    ASSUME StoreInv
    PROVE  /\ StayTracked \subseteq Tracked /\ IsFiniteSet(StayTracked)
           /\ Cardinality(StayTracked) + 1 <= MaxEntries
           /\ Cardinality(Tracked) < MaxEntries => StayTracked = Tracked
<1>1. /\ IsFiniteSet(Tracked) /\ Cardinality(Tracked) \in Nat
      /\ Cardinality(Tracked) <= MaxEntries /\ MaxEntries \in Nat /\ MaxEntries > 0
      /\ store \in [Tracked -> [limiter: DOMAIN limiter, lastSeen: Nat]]
  BY FS_CardinalityType, RateLimitAssumption DEF StoreInv, RateLimitTypeOK
<1>2. CASE Cardinality(Tracked) < MaxEntries
  BY <1>1, <1>2 DEF StayTracked
<1>3. CASE Cardinality(Tracked) >= MaxEntries
  <2> DEFINE times == {store[d].lastSeen : d \in Tracked}
             gone == CHOOSE c \in Tracked : Oldest(c)
  <2>1. Tracked # {}
    BY <1>1, <1>3, FS_EmptySet
  <2>2. times \subseteq Nat /\ times # {}
    BY <1>1, <2>1
  <2>3. PICK x \in times : \A y \in times : x <= y
    <3> HIDE DEF times
    <3>. QED
      BY <2>2, LeastNumber
  <2>4. \E c \in Tracked : Oldest(c)
    BY <2>3 DEF Oldest
  <2>5. gone \in Tracked
    BY <2>4
  <2>6. StayTracked = Tracked \ {gone}
    BY <1>3 DEF StayTracked
  <2> HIDE DEF gone
  <2>7. /\ IsFiniteSet(Tracked \ {gone})
        /\ Cardinality(Tracked \ {gone}) = Cardinality(Tracked) - 1
    BY <1>1, <2>5, FS_RemoveElement
  <2>. QED
    BY <1>1, <1>3, <2>6, <2>7
<1>. QED
  BY <1>1, <1>2, <1>3

\* What a request changes that takes its limiter from the store.
LEMMA RequestArrives ==
    ASSUME StoreInv, NEW r \in Requests, GetLimiter(r)
    PROVE  /\ asked[r].at = "idle" /\ asked[r].client \in Clients
           /\ asked'[r].at = "allow" /\ asked'[r].client = asked[r].client
           /\ asked'[r].time = asked[r].time
           /\ asked' = [asked EXCEPT ![r] = asked'[r]]
           /\ \A x \in Requests \ {r} : asked'[x] = asked[x]
           /\ UNCHANGED now
           /\ Arrived' = Arrived \cup {r} /\ r \notin Arrived
           /\ Seen' = Seen \cup {asked[r].client}
           /\ \A c, s, e : PassedIn(asked', c, s, e) = PassedIn(asked, c, s, e)
           /\ IsFiniteSet(Arrived') /\ IsFiniteSet(Seen')
<1>1. /\ asked \in [Requests -> Asked] /\ asked[r] \in Asked
      /\ asked[r].at = "idle" /\ asked[r].client \in Clients /\ UNCHANGED now
  BY DEF StoreInv, RateLimitTypeOK, GetLimiter, Asked
<1>2. PICK l : asked' = [asked EXCEPT ![r].at = "allow", ![r].limiter = l]
  BY DEF GetLimiter
<1>3. /\ asked'[r].at = "allow" /\ asked'[r].client = asked[r].client
      /\ asked'[r].time = asked[r].time
      /\ asked' = [asked EXCEPT ![r] = asked'[r]]
      /\ \A x \in Requests \ {r} : asked'[x] = asked[x]
  <2>1. asked' = [asked EXCEPT ![r] = [asked[r] EXCEPT !.at = "allow", !.limiter = l]]
    BY <1>1, <1>2
  <2>. QED
    BY <1>1, <2>1 DEF Asked
<1>4. \A x \in Requests : asked'[x].client = asked[x].client
  BY <1>3
<1>5. Arrived' = Arrived \cup {r} /\ r \notin Arrived
  BY <1>1, <1>3 DEF Arrived
<1>6. Seen' = Seen \cup {asked[r].client}
  <2>1. Seen' = {asked'[x].client : x \in Arrived \cup {r}}
    BY <1>5 DEF Seen
  <2>2. Arrived \cup {r} \subseteq Requests
    BY DEF Arrived
  <2>. QED
    BY <1>4, <2>1, <2>2 DEF Seen
<1>7. \A c, s, e : PassedIn(asked', c, s, e) = PassedIn(asked, c, s, e)
  BY <1>1, <1>3 DEF PassedIn
<1>8. IsFiniteSet(Arrived') /\ IsFiniteSet(Seen')
  BY <1>5, <1>6, FS_AddElement DEF StoreInv
<1>. QED
  BY <1>1, <1>3, <1>5, <1>6, <1>7, <1>8

\* The client's limiter is there, or a new one takes a place for it.
LEMMA GetHit ==
    ASSUME StoreInv, NEW r \in Requests, GetLimiter(r), asked[r].client \in Tracked
    PROVE  /\ asked'[r].limiter = store[asked[r].client].limiter
           /\ UNCHANGED limiter /\ Tracked' = Tracked
           /\ \A d \in Tracked : store'[d].limiter = store[d].limiter
           /\ store' \in [Tracked -> [limiter: DOMAIN limiter, lastSeen: Nat]]
           /\ gets' \in Nat
<1> DEFINE c == asked[r].client
           held == [limiter |-> store[c].limiter, lastSeen |-> gets + 1]
<1>1. /\ asked \in [Requests -> Asked] /\ asked[r] \in Asked /\ gets \in Nat
      /\ store \in [Tracked -> [limiter: DOMAIN limiter, lastSeen: Nat]]
      /\ gets' = gets + 1
  BY DEF StoreInv, RateLimitTypeOK, GetLimiter
<1>2. /\ store' = [store EXCEPT ![c].lastSeen = gets + 1] /\ UNCHANGED limiter
      /\ asked' = [asked EXCEPT ![r].at = "allow", ![r].limiter = store[c].limiter]
  BY DEF GetLimiter
<1>3. store' = [store EXCEPT ![c] = held] /\ Tracked' = Tracked
  <2>1. store[c] \in [limiter: DOMAIN limiter, lastSeen: Nat]
    BY <1>1
  <2>2. [store[c] EXCEPT !.lastSeen = gets + 1] = held
    BY <2>1
  <2>3. store' = [store EXCEPT ![c] = [store[c] EXCEPT !.lastSeen = gets + 1]]
    BY <1>2
  <2>4. store' = [store EXCEPT ![c] = held]
    BY <2>2, <2>3
  <2>. QED
    BY <2>4 DEF Tracked
<1>4. held \in [limiter: DOMAIN limiter, lastSeen: Nat]
      /\ held.limiter = store[c].limiter
  BY <1>1
<1>5. asked'[r].limiter = store[c].limiter
  BY <1>1, <1>2 DEF Asked
<1> HIDE DEF held
<1>. QED
  BY <1>1, <1>2, <1>3, <1>4, <1>5

LEMMA GetMiss ==
    ASSUME StoreInv, NEW r \in Requests, GetLimiter(r),
           asked[r].client \notin Tracked
    PROVE  /\ asked'[r].limiter = r
           /\ DOMAIN limiter' = DOMAIN limiter \cup {r} /\ r \notin DOMAIN limiter
           /\ limiter'[r] = [tokens |-> Full, at |-> now]
           /\ \A l \in DOMAIN limiter : limiter'[l] = limiter[l]
           /\ limiter' \in [DOMAIN limiter' -> Bucket]
           /\ Tracked' = StayTracked \cup {asked[r].client}
           /\ store'[asked[r].client].limiter = r
           /\ \A d \in StayTracked : store'[d] = store[d]
           /\ store' \in [Tracked' -> [limiter: DOMAIN limiter', lastSeen: Nat]]
           /\ IsFiniteSet(Tracked') /\ Cardinality(Tracked') <= MaxEntries
           /\ gets' \in Nat
<1> DEFINE c == asked[r].client
<1>1. /\ asked \in [Requests -> Asked] /\ asked[r] \in Asked /\ gets \in Nat
      /\ store \in [Tracked -> [limiter: DOMAIN limiter, lastSeen: Nat]]
      /\ limiter \in [DOMAIN limiter -> Bucket] /\ now \in 0..MaxTime
      /\ gets' = gets + 1 /\ r \notin Arrived /\ DOMAIN limiter \subseteq Arrived
  BY DEF StoreInv, RateLimitTypeOK, GetLimiter, Arrived
<1>2. /\ limiter' = [l \in DOMAIN limiter \cup {r} |->
            IF l = r THEN [tokens |-> Full, at |-> now] ELSE limiter[l]]
      /\ store' = [d \in StayTracked \cup {c} |->
            IF d = c THEN [limiter |-> r, lastSeen |-> gets + 1] ELSE store[d]]
      /\ asked' = [asked EXCEPT ![r].at = "allow", ![r].limiter = r]
  BY DEF GetLimiter
<1>3. asked'[r].limiter = r
  BY <1>1, <1>2 DEF Asked
<1>4. [tokens |-> Full, at |-> now] \in Bucket
  BY <1>1, RateArithmetic DEF Bucket
<1>5. /\ DOMAIN limiter' = DOMAIN limiter \cup {r} /\ r \notin DOMAIN limiter
      /\ limiter'[r] = [tokens |-> Full, at |-> now]
      /\ \A l \in DOMAIN limiter : limiter'[l] = limiter[l]
      /\ limiter' \in [DOMAIN limiter' -> Bucket]
  BY <1>1, <1>2, <1>4
<1>6. /\ StayTracked \subseteq Tracked /\ IsFiniteSet(StayTracked)
      /\ Cardinality(StayTracked) + 1 <= MaxEntries /\ MaxEntries \in Nat
      /\ Cardinality(StayTracked) \in Nat
  BY RoomForOneMore, FS_CardinalityType, RateLimitAssumption
<1>7. c \notin StayTracked
  BY <1>6
<1>8. /\ IsFiniteSet(StayTracked \cup {c})
      /\ Cardinality(StayTracked \cup {c}) = Cardinality(StayTracked) + 1
  BY <1>6, <1>7, FS_AddElement
<1>9. /\ Tracked' = StayTracked \cup {c} /\ store'[c].limiter = r
      /\ \A d \in StayTracked : store'[d] = store[d]
  BY <1>2, <1>7 DEF Tracked
<1>10. store' \in [Tracked' -> [limiter: DOMAIN limiter', lastSeen: Nat]]
  <2>1. ASSUME NEW d \in StayTracked \cup {c}
        PROVE  store'[d] \in [limiter: DOMAIN limiter', lastSeen: Nat]
    BY <1>1, <1>2, <1>5, <1>6
  <2>. QED
    BY <1>2, <1>9, <2>1
<1>. QED
  BY <1>1, <1>3, <1>5, <1>6, <1>8, <1>9, <1>10

LEMMA GetKeepsStore ==
    ASSUME StoreInv, NEW r \in Requests, GetLimiter(r)
    PROVE  /\ StoreInv'
           /\ DOMAIN limiter \subseteq DOMAIN limiter'
           /\ \A l \in DOMAIN limiter : limiter'[l] = limiter[l]
<1> DEFINE c == asked[r].client
           l == asked'[r].limiter
<1>1. /\ asked \in [Requests -> Asked] /\ asked[r] \in Asked /\ now \in 0..MaxTime
      /\ \A x \in Requests : asked'[x].client = asked[x].client
      /\ \A x \in Requests : asked'[x].time = asked[x].time
      /\ Arrived \subseteq Requests
  BY RequestArrives DEF StoreInv, RateLimitTypeOK, Arrived
<1>2. /\ DOMAIN limiter \subseteq DOMAIN limiter' /\ DOMAIN limiter' \subseteq Arrived'
      /\ \A x \in DOMAIN limiter : limiter'[x] = limiter[x]
      /\ \A x \in DOMAIN limiter' : limiter'[x].at <= now
      /\ limiter' \in [DOMAIN limiter' -> Bucket]
      /\ l \in DOMAIN limiter' /\ asked[l].client = c
      /\ Tracked' \subseteq Tracked \cup {c}
      /\ \A d \in Tracked' : asked[store'[d].limiter].client = d
      /\ store' \in [Tracked' -> [limiter: DOMAIN limiter', lastSeen: Nat]]
      /\ IsFiniteSet(Tracked') /\ Cardinality(Tracked') <= MaxEntries
      /\ gets' \in Nat
  <2>1. CASE c \in Tracked
    <3>1. /\ l = store[c].limiter /\ UNCHANGED limiter /\ Tracked' = Tracked
          /\ \A d \in Tracked : store'[d].limiter = store[d].limiter
          /\ store' \in [Tracked -> [limiter: DOMAIN limiter, lastSeen: Nat]]
          /\ gets' \in Nat
      BY <2>1, GetHit
    <3>2. store[c].limiter \in DOMAIN limiter
      BY <2>1 DEF StoreInv, RateLimitTypeOK
    <3>. QED
      BY <2>1, <3>1, <3>2, RequestArrives DEF StoreInv, RateLimitTypeOK
  <2>2. CASE c \notin Tracked
    <3>1. /\ l = r
          /\ DOMAIN limiter' = DOMAIN limiter \cup {r} /\ r \notin DOMAIN limiter
          /\ limiter'[r] = [tokens |-> Full, at |-> now]
          /\ \A x \in DOMAIN limiter : limiter'[x] = limiter[x]
          /\ limiter' \in [DOMAIN limiter' -> Bucket]
          /\ Tracked' = StayTracked \cup {c}
          /\ store'[c].limiter = r
          /\ \A d \in StayTracked : store'[d] = store[d]
          /\ store' \in [Tracked' -> [limiter: DOMAIN limiter', lastSeen: Nat]]
          /\ IsFiniteSet(Tracked') /\ Cardinality(Tracked') <= MaxEntries
          /\ gets' \in Nat
      BY <2>2, GetMiss
    <3>2. StayTracked \subseteq Tracked
      BY RoomForOneMore
    <3>3. \A x \in DOMAIN limiter' : limiter'[x].at <= now
      BY <1>1, <3>1 DEF StoreInv
    <3>4. \A d \in Tracked' : asked[store'[d].limiter].client = d
      BY <2>2, <3>1, <3>2 DEF StoreInv
    <3>5. DOMAIN limiter' \subseteq Arrived'
      BY <3>1, RequestArrives DEF StoreInv
    <3> HIDE DEF l, c
    <3>6. asked[l].client = c
      BY <3>1 DEF c
    <3>. QED
      BY <3>1, <3>2, <3>3, <3>4, <3>5, <3>6
  <2>. QED
    BY <2>1, <2>2
<1> HIDE DEF l
<1>3. asked'[r] \in Asked
  <2>1. l \in Requests
    BY <1>1, <1>2, RequestArrives
  <2>2. \E k : asked'[r] = [asked[r] EXCEPT !.at = "allow", !.limiter = k]
    BY <1>1 DEF GetLimiter
  <2>3. PICK k : asked'[r] = [asked[r] EXCEPT !.at = "allow", !.limiter = k]
    BY <2>2
  <2>4. k = l
    BY <1>1, <2>3 DEF l, Asked
  <2>. QED
    BY <1>1, <2>1, <2>3, <2>4 DEF Asked
<1>4. asked' \in [Requests -> Asked]
  BY <1>1, <1>3, RequestArrives
<1>5. Tracked' \subseteq Seen'
  BY <1>2, RequestArrives DEF StoreInv
<1>6. RateLimitTypeOK'
  BY <1>1, <1>2, <1>4, RequestArrives DEF RateLimitTypeOK
<1>7. \A x \in Requests : asked'[x].time <= now'
  BY <1>1, RequestArrives DEF StoreInv
<1>8. \A d \in Tracked' : asked'[store'[d].limiter].client = d
  <2>1. \A d \in Tracked' : store'[d].limiter \in Requests
    BY <1>1, <1>2, RequestArrives
  <2>. QED
    BY <1>1, <1>2, <2>1
<1>9. \A x \in Arrived' : /\ asked'[x].limiter \in DOMAIN limiter'
                          /\ asked'[asked'[x].limiter].client = asked'[x].client
  <2> SUFFICES ASSUME NEW x \in Arrived'
               PROVE  /\ asked'[x].limiter \in DOMAIN limiter'
                      /\ asked'[asked'[x].limiter].client = asked'[x].client
    OBVIOUS
  <2>1. CASE x = r
    <3>1. l \in Requests
      BY <1>1, <1>2, RequestArrives
    <3>. QED
      BY <1>1, <1>2, <2>1, <3>1 DEF l
  <2>2. CASE x # r
    <3>1. /\ x \in Arrived /\ x \in Requests /\ asked'[x] = asked[x]
          /\ asked[x].limiter \in DOMAIN limiter
          /\ asked[asked[x].limiter].client = asked[x].client
      BY <1>1, <2>2, RequestArrives DEF StoreInv
    <3>2. asked[x].limiter \in Requests
      BY <1>1, <3>1 DEF StoreInv
    <3>. QED
      BY <1>1, <1>2, <3>1, <3>2
  <2>. QED
    BY <2>1, <2>2
<1>. QED
  BY <1>2, <1>5, <1>6, <1>7, <1>8, <1>9, RequestArrives DEF StoreInv

LEMMA GetLeavesRest ==
    ASSUME StoreInv, NEW r \in Requests, GetLimiter(r)
    PROVE  /\ \A x \in DOMAIN limiter : limiter'[x] = limiter[x]
           /\ now' = now /\ now \in 0..MaxTime /\ now \in Nat
           /\ \A d, s, e : NPassed(asked', d, s, e) = NPassed(asked, d, s, e)
           /\ \A x \in Requests : asked'[x].client = asked[x].client
           /\ \A x \in Requests \ {r} : asked'[x] = asked[x]
           /\ Arrived' = Arrived \cup {r} /\ Arrived \subseteq Requests
           /\ Seen' = Seen \cup {asked[r].client}
           /\ IsFiniteSet(Seen) /\ IsFiniteSet(Seen')
           /\ \A d \in Tracked : store[d].limiter \in DOMAIN limiter
           /\ DOMAIN limiter \subseteq Requests
<1>1. \A x \in DOMAIN limiter : limiter'[x] = limiter[x]
  BY GetKeepsStore
<1>2. /\ asked'[r].client = asked[r].client /\ now' = now
      /\ \A x \in Requests \ {r} : asked'[x] = asked[x]
      /\ Arrived' = Arrived \cup {r} /\ Seen' = Seen \cup {asked[r].client}
      /\ IsFiniteSet(Seen')
  BY RequestArrives
<1>3. \A d, s, e : NPassed(asked', d, s, e) = NPassed(asked, d, s, e)
  <2>1. \A d, s, e : PassedIn(asked', d, s, e) = PassedIn(asked, d, s, e)
    BY RequestArrives
  <2>. QED
    BY <2>1 DEF NPassed
<1>4. /\ now \in 0..MaxTime /\ now \in Nat /\ IsFiniteSet(Seen)
      /\ Arrived \subseteq Requests /\ DOMAIN limiter \subseteq Requests
      /\ \A d \in Tracked : store[d].limiter \in DOMAIN limiter
  BY RateLimitAssumption DEF StoreInv, RateLimitTypeOK, Arrived
<1>. QED
  BY <1>1, <1>2, <1>3, <1>4

\* Requests that go to the store leave the buckets and what passed alone.
LEMMA GetKeepsBuckets ==
    ASSUME StoreInv, BucketsInv, NEW r \in Requests, GetLimiter(r)
    PROVE  BucketsInv'
<1>1. /\ \A x \in DOMAIN limiter : limiter'[x] = limiter[x]
      /\ now' = now /\ now \in Nat
      /\ \A c, s, e : NPassed(asked', c, s, e) = NPassed(asked, c, s, e)
      /\ \A x \in Requests : asked'[x].client = asked[x].client
      /\ DOMAIN limiter \subseteq Requests
  BY GetLeavesRest
<1> SUFFICES ASSUME NEW l \in DOMAIN limiter'
             PROVE  \E s \in 0..now : Full + Rate * (now - s) <=
                        LevelIn(limiter', l, now)
                            + NPassed(asked, asked'[l].client, s, now) * Price
  BY <1>1 DEF BucketsInv
<1>2. CASE l \in DOMAIN limiter
  <2>1. LevelIn(limiter', l, now) = LevelIn(limiter, l, now)
        /\ asked'[l].client = asked[l].client
    BY <1>1, <1>2 DEF LevelIn
  <2>. QED
    BY <1>2, <2>1 DEF BucketsInv
<1>3. CASE l \notin DOMAIN limiter
  <2>1. asked[r].client \notin Tracked
    BY <1>3, GetHit
  <2>2. l = r /\ limiter'[l] = [tokens |-> Full, at |-> now]
    <3>1. /\ DOMAIN limiter' = DOMAIN limiter \cup {r}
          /\ limiter'[r] = [tokens |-> Full, at |-> now]
      BY <2>1, GetMiss
    <3>2. l \in DOMAIN limiter \cup {r}
      BY <3>1
    <3>. QED
      BY <1>3, <3>1, <3>2
  <2>3. Rate * (now - now) = 0 /\ Full \in Nat
    BY <1>1, RateArithmetic
  <2>4. LevelIn(limiter', l, now) = Full
    BY <2>2, <2>3 DEF LevelIn
  <2>5. NPassed(asked, asked'[l].client, now, now) * Price \in Nat
    BY CountIsNat, RateArithmetic
  <2>6. now \in 0..now
    BY <1>1
  <2>. QED
    BY <2>3, <2>4, <2>5, <2>6
<1>. QED
  BY <1>2, <1>3

\* A client that is seen for the first time takes a place that is free, or
\* else there are too many of them.
LEMMA GetKeepsFewClients ==
    ASSUME StoreInv, FewClientsInv, NEW r \in Requests, GetLimiter(r)
    PROVE  FewClientsInv'
<1> DEFINE c == asked[r].client
<1>1. /\ \A x \in DOMAIN limiter : limiter'[x] = limiter[x]
      /\ now' = now /\ now \in 0..MaxTime /\ now \in Nat
      /\ \A d, s, e : NPassed(asked', d, s, e) = NPassed(asked, d, s, e)
      /\ \A x \in Requests : asked'[x].client = asked[x].client
      /\ \A x \in Requests \ {r} : asked'[x] = asked[x]
      /\ Arrived' = Arrived \cup {r} /\ Arrived \subseteq Requests
      /\ Seen' = Seen \cup {c} /\ IsFiniteSet(Seen) /\ IsFiniteSet(Seen')
      /\ \A d \in Tracked : store[d].limiter \in DOMAIN limiter
  BY GetLeavesRest
<1> SUFFICES ASSUME Cardinality(Seen') <= MaxEntries
             PROVE  /\ Seen' = Tracked'
                    /\ \A x \in Arrived' : asked'[x].limiter = store'[asked'[x].client].limiter
                    /\ \A d \in Tracked' : LevelIsLeft(asked', limiter', d, store'[d].limiter, now')
  BY DEF FewClientsInv
<1>2. Cardinality(Seen) <= MaxEntries
  <2>1. Cardinality(Seen) <= Cardinality(Seen')
        /\ Cardinality(Seen) \in Nat /\ Cardinality(Seen') \in Nat
    BY <1>1, FS_Subset, FS_CardinalityType
  <2>. QED
    BY <2>1, RateLimitAssumption
<1>3. /\ Seen = Tracked
      /\ \A x \in Arrived : asked[x].limiter = store[asked[x].client].limiter
      /\ \A d \in Tracked : LevelIsLeft(asked, limiter, d, store[d].limiter, now)
  BY <1>2 DEF FewClientsInv
<1>4. \A x \in Arrived : asked[x].client \in Tracked
  BY <1>3 DEF Seen
<1>5. ASSUME NEW d, NEW l \in DOMAIN limiter, LevelIsLeft(asked, limiter, d, l, now)
      PROVE  LevelIsLeft(asked', limiter', d, l, now')
  <2>1. LevelIn(limiter', l, now) = LevelIn(limiter, l, now)
    BY <1>1 DEF LevelIn
  <2>. QED
    BY <1>1, <1>5, <2>1 DEF LevelIsLeft
<1>6. CASE c \in Tracked
  <2>1. /\ asked'[r].limiter = store[c].limiter /\ Tracked' = Tracked
        /\ \A d \in Tracked : store'[d].limiter = store[d].limiter
    BY <1>6, GetHit
  <2>2. \A x \in Arrived' : asked'[x].limiter = store'[asked'[x].client].limiter
    BY <1>1, <1>3, <1>4, <1>6, <2>1
  <2>3. \A d \in Tracked' : LevelIsLeft(asked', limiter', d, store'[d].limiter, now')
    BY <1>1, <1>3, <1>5, <2>1
  <2>. QED
    BY <1>1, <1>3, <1>6, <2>1, <2>2, <2>3
<1>7. CASE c \notin Tracked
  <2>1. /\ asked'[r].limiter = r /\ Tracked' = StayTracked \cup {c}
        /\ store'[c].limiter = r /\ limiter'[r] = [tokens |-> Full, at |-> now]
        /\ \A d \in StayTracked : store'[d] = store[d]
    BY <1>7, GetMiss
  <2>2. StayTracked = Tracked
    <3>1. Cardinality(Seen \cup {c}) = Cardinality(Seen) + 1
          /\ Cardinality(Seen) \in Nat
      BY <1>1, <1>3, <1>7, FS_AddElement, FS_CardinalityType
    <3>2. Cardinality(Tracked) < MaxEntries
      BY <1>1, <1>3, <3>1, RateLimitAssumption
    <3>. QED
      BY <3>2, RoomForOneMore
  <2>3. \A x \in Arrived' : asked'[x].limiter = store'[asked'[x].client].limiter
    BY <1>1, <1>3, <1>4, <1>7, <2>1, <2>2
  <2>4. LevelIsLeft(asked', limiter', c, r, now')
    <3>1. \A s : NPassed(asked', c, s, now) = 0
      <4> SUFFICES ASSUME NEW s PROVE NPassed(asked, c, s, now) = 0
        BY <1>1
      <4>1. \A x \in Requests : asked[x].at = "passed" => asked[x].client # c
        BY <1>4, <1>7 DEF Arrived
      <4>2. PassedIn(asked, c, s, now) = {}
        BY <4>1 DEF PassedIn
      <4>. QED
        BY <4>2, FS_EmptySet DEF NPassed
    <3>2. LevelIn(limiter', r, now) = Full
      BY <1>1, <2>1, RateArithmetic DEF LevelIn
    <3>3. ASSUME NEW s \in 0..now
          PROVE  Full + 0 * Price <= Full + Rate * (now - s)
      <4>1. now \in Nat /\ s \in Nat /\ s <= now
        BY <1>1
      <4>2. Rate * (now - s) \in Nat /\ Full \in Nat /\ 0 * Price = 0
        BY ONLY <4>1, RateArithmetic
      <4>. QED
        BY <4>2
    <3>. QED
      BY <1>1, <3>1, <3>2, <3>3 DEF LevelIsLeft
  <2>5. \A d \in Tracked' : LevelIsLeft(asked', limiter', d, store'[d].limiter, now')
    BY <1>1, <1>3, <1>5, <2>1, <2>2, <2>4
  <2>. QED
    BY <1>1, <1>3, <2>1, <2>2, <2>3, <2>5
<1>. QED
  BY <1>6, <1>7

LEMMA GetKeepsLimits ==
    ASSUME StoreInv, ClientsAreLimited, RefusedForOwnRequestsOnly,
           NEW r \in Requests, GetLimiter(r)
    PROVE  ClientsAreLimited' /\ RefusedForOwnRequestsOnly'
<1>1. /\ now' = now /\ asked'[r].at = "allow"
      /\ \A d, s, e : PassedIn(asked', d, s, e) = PassedIn(asked, d, s, e)
      /\ \A x \in Requests \ {r} : asked'[x] = asked[x]
      /\ Seen \subseteq Seen' /\ IsFiniteSet(Seen')
  BY RequestArrives
<1>2. Cardinality(Seen) <= Cardinality(Seen')
      /\ Cardinality(Seen) \in Nat /\ Cardinality(Seen') \in Nat
  BY <1>1, FS_Subset, FS_CardinalityType
<1>3. ClientsAreLimited'
  <2> SUFFICES ASSUME Cardinality(Seen') <= MaxEntries,
                      NEW d \in Clients, NEW s \in 0..now, NEW e \in 0..now, s <= e
               PROVE  Cardinality(PassedIn(asked', d, s, e)) * Price <= Full + Rate * (e - s)
    BY <1>1 DEF ClientsAreLimited, Seen, Passed, PassedIn
  <2>1. Cardinality(Seen) <= MaxEntries
    BY <1>2, RateLimitAssumption
  <2>2. Cardinality(PassedIn(asked, d, s, e)) * Price <= Full + Rate * (e - s)
    BY <2>1 DEF ClientsAreLimited, Seen, Passed, PassedIn
  <2>. QED
    BY <1>1, <2>2
<1>4. RefusedForOwnRequestsOnly'
  <2> SUFFICES ASSUME NEW x \in Requests, asked'[x].at = "refused"
               PROVE  \E s \in 0..asked'[x].time :
                  Cardinality(PassedIn(asked', asked'[x].client, s, asked'[x].time)) * Price
                      + Price > Full + Rate * (asked'[x].time - s)
    BY DEF RefusedForOwnRequestsOnly, Passed, PassedIn
  <2>1. asked'[x] = asked[x]
    BY <1>1
  <2>2. \E s \in 0..asked[x].time :
           Cardinality(PassedIn(asked, asked[x].client, s, asked[x].time)) * Price
               + Price > Full + Rate * (asked[x].time - s)
    BY <2>1 DEF RefusedForOwnRequestsOnly, Passed, PassedIn
  <2>. QED
    BY <1>1, <2>1, <2>2
<1>. QED
  BY <1>3, <1>4

\* What a request changes that asks its limiter.
LEMMA RequestIsAnswered ==
    ASSUME StoreInv, NEW r \in Requests, Allow(r)
    PROVE  LET c == asked[r].client
               l == asked[r].limiter
           IN  /\ r \in Arrived /\ l \in DOMAIN limiter /\ asked[l].client = c
               /\ now' = now /\ gets' = gets /\ store' = store
               /\ asked' \in [Requests -> Asked]
               /\ asked'[r].time = now
               /\ asked'[r].at = IF LevelIn(limiter, l, now) >= Price
                                 THEN "passed" ELSE "refused"
               /\ \A x \in Requests : /\ asked'[x].client = asked[x].client
                                       /\ asked'[x].limiter = asked[x].limiter
               /\ \A x \in Requests \ {r} : asked'[x] = asked[x]
               /\ Arrived' = Arrived /\ Seen' = Seen
               /\ DOMAIN limiter' = DOMAIN limiter
               /\ limiter' \in [DOMAIN limiter -> Bucket]
               /\ limiter'[l].at = now
               /\ \A x \in DOMAIN limiter \ {l} : limiter'[x] = limiter[x]
               /\ LevelIn(limiter', l, now) =
                     IF LevelIn(limiter, l, now) >= Price
                     THEN LevelIn(limiter, l, now) - Price ELSE LevelIn(limiter, l, now)
<1> DEFINE c == asked[r].client
           l == asked[r].limiter
           v == LevelIn(limiter, l, now)
           left == IF v >= Price THEN v - Price ELSE v
           answer == IF v >= Price THEN "passed" ELSE "refused"
<1>1. /\ asked \in [Requests -> Asked] /\ asked[r] \in Asked
      /\ limiter \in [DOMAIN limiter -> Bucket]
      /\ now \in 0..MaxTime /\ now \in Nat
  BY RateLimitAssumption DEF StoreInv, RateLimitTypeOK
<1>2. r \in Arrived
  BY DEF Allow, Arrived
<1>3. l \in DOMAIN limiter /\ asked[l].client = c
  BY <1>2 DEF StoreInv
<1>4. Level(l) = v
  BY DEF Level, LevelIn
<1>5. v \in 0..Full /\ Price \in Nat /\ Full \in Nat
  BY <1>3, LevelRange, RateArithmetic
<1>6. left \in 0..Full
  BY <1>5
<1>7. /\ now' = now /\ gets' = gets /\ store' = store
      /\ asked' = [asked EXCEPT ![r].at = answer, ![r].time = now]
      /\ limiter' = [limiter EXCEPT ![l] = [tokens |-> left, at |-> now]]
  BY <1>4 DEF Allow, Remaining
<1> HIDE DEF v, left
<1>8. /\ DOMAIN limiter' = DOMAIN limiter
      /\ limiter' \in [DOMAIN limiter -> Bucket]
      /\ limiter'[l] = [tokens |-> left, at |-> now]
      /\ \A x \in DOMAIN limiter \ {l} : limiter'[x] = limiter[x]
  <2>1. [tokens |-> left, at |-> now] \in Bucket
    BY <1>1, <1>6 DEF Bucket
  <2>. QED
    BY <1>1, <1>3, <1>7, <2>1
<1>9. LevelIn(limiter', l, now) = left
  <2>1. Rate * (now - now) = 0
    BY <1>1, RateArithmetic
  <2>. QED
    BY <1>5, <1>6, <1>8, <2>1 DEF LevelIn
<1>10. answer \in {"passed", "refused"}
  OBVIOUS
<1> HIDE DEF answer
<1>11. /\ asked'[r] = [asked[r] EXCEPT !.at = answer, !.time = now]
       /\ asked' = [asked EXCEPT ![r] = [asked[r] EXCEPT !.at = answer, !.time = now]]
  BY <1>1, <1>7
<1>12. [asked[r] EXCEPT !.at = answer, !.time = now] \in Asked
  BY <1>1, <1>10 DEF Asked
<1>13. /\ asked'[r].at = answer /\ asked'[r].time = now
       /\ asked'[r].client = c /\ asked'[r].limiter = l
  BY <1>1, <1>11 DEF Asked
<1>14. asked' \in [Requests -> Asked] /\ \A x \in Requests \ {r} : asked'[x] = asked[x]
  BY <1>1, <1>11, <1>12
<1>15. \A x \in Requests : /\ asked'[x].client = asked[x].client
                           /\ asked'[x].limiter = asked[x].limiter
  BY <1>13, <1>14
<1>16. Arrived' = Arrived
  BY <1>2, <1>10, <1>13, <1>14 DEF Arrived
<1>17. Seen' = Seen
  <2>1. \A x \in Arrived : asked'[x].client = asked[x].client
    BY <1>15 DEF Arrived
  <2>. QED
    BY <1>16, <2>1 DEF Seen
<1>. QED
  BY <1>2, <1>3, <1>7, <1>8, <1>9, <1>13, <1>14, <1>15, <1>16, <1>17 DEF answer, left, v

\* The request that passes is one more, and nothing else passes.
LEMMA OneMorePasses ==
    ASSUME StoreInv, NEW r \in Requests, Allow(r)
    PROVE  /\ \A d, s, e : /\ NPassed(asked, d, s, e) \in Nat
                           /\ NPassed(asked', d, s, e) \in Nat
                           /\ NPassed(asked, d, s, e) <= NPassed(asked', d, s, e)
           /\ \A d, s, e : asked'[r].at # "passed" \/ d # asked[r].client \/ now \notin s..e
                  => NPassed(asked', d, s, e) = NPassed(asked, d, s, e)
           /\ \A s \in 0..now : asked'[r].at = "passed" =>
                  NPassed(asked', asked[r].client, s, now) =
                      NPassed(asked, asked[r].client, s, now) + 1
<1> DEFINE c == asked[r].client
<1>1. /\ r \in Arrived /\ asked'[r].time = now /\ asked'[r].client = c
      /\ \A x \in Requests \ {r} : asked'[x] = asked[x]
      /\ Arrived' = Arrived
  BY RequestIsAnswered
<1>2. asked[r].at = "allow" /\ now \in Nat
  BY RateLimitAssumption DEF Allow, StoreInv, RateLimitTypeOK
<1>3. IsFiniteSet({x \in Requests : asked[x].at # "idle"})
      /\ IsFiniteSet({x \in Requests : asked'[x].at # "idle"})
  BY <1>1 DEF StoreInv, Arrived
<1>4. ASSUME NEW d, NEW s, NEW e
      PROVE  /\ NPassed(asked, d, s, e) \in Nat
             /\ NPassed(asked', d, s, e) \in Nat
             /\ NPassed(asked, d, s, e) <= NPassed(asked', d, s, e)
  <2>1. PassedIn(asked, d, s, e) \subseteq PassedIn(asked', d, s, e)
    BY <1>1, <1>2 DEF PassedIn
  <2>2. /\ IsFiniteSet(PassedIn(asked', d, s, e))
        /\ NPassed(asked', d, s, e) \in Nat /\ NPassed(asked, d, s, e) \in Nat
    BY <1>3, PassedIsFinite
  <2>. QED
    BY <2>1, <2>2, FS_Subset DEF NPassed
<1>5. ASSUME NEW d, NEW s, NEW e,
             asked'[r].at # "passed" \/ d # c \/ now \notin s..e
      PROVE  NPassed(asked', d, s, e) = NPassed(asked, d, s, e)
  <2>1. PassedIn(asked', d, s, e) = PassedIn(asked, d, s, e)
    BY <1>1, <1>2, <1>5 DEF PassedIn
  <2>. QED
    BY <2>1 DEF NPassed
<1>6. ASSUME NEW s \in 0..now, asked'[r].at = "passed"
      PROVE  NPassed(asked', c, s, now) = NPassed(asked, c, s, now) + 1
  <2>1. now \in s..now
    BY <1>2
  <2>2. PassedIn(asked', c, s, now) = PassedIn(asked, c, s, now) \cup {r}
        /\ r \notin PassedIn(asked, c, s, now)
    BY <1>1, <1>2, <1>6, <2>1 DEF PassedIn
  <2>3. IsFiniteSet(PassedIn(asked, c, s, now))
    BY <1>3, PassedIsFinite
  <2>. QED
    BY <2>2, <2>3, FS_AddElement DEF NPassed
<1>. QED
  BY <1>4, <1>5, <1>6

LEMMA AllowKeepsStore ==
    ASSUME StoreInv, NEW r \in Requests, Allow(r)
    PROVE  StoreInv'
<1>1. \A x \in DOMAIN limiter : limiter'[x].at <= now
  BY RequestIsAnswered, RateLimitAssumption DEF StoreInv, RateLimitTypeOK
<1>2. RateLimitTypeOK' /\ Tracked' = Tracked
  BY RequestIsAnswered DEF StoreInv, RateLimitTypeOK, Tracked
<1>3. \A x \in Requests : asked'[x].time <= now
  BY RequestIsAnswered, RateLimitAssumption DEF StoreInv, RateLimitTypeOK
<1>4. \A d \in Tracked : store[d].limiter \in Requests
  BY DEF StoreInv, RateLimitTypeOK, Arrived
<1>5. \A x \in Arrived : x \in Requests /\ asked[x].limiter \in Requests
  BY DEF StoreInv, Arrived
<1>6. /\ Arrived' = Arrived /\ Seen' = Seen /\ DOMAIN limiter' = DOMAIN limiter
      /\ now' = now /\ store' = store
      /\ \A x \in Requests : /\ asked'[x].client = asked[x].client
                              /\ asked'[x].limiter = asked[x].limiter
  BY RequestIsAnswered
<1>7. \A d \in Tracked : asked'[store[d].limiter].client = d
  BY <1>4, <1>6 DEF StoreInv
<1>8. \A x \in Arrived : /\ asked'[x].limiter \in DOMAIN limiter
                         /\ asked'[asked'[x].limiter].client = asked'[x].client
  BY <1>5, <1>6 DEF StoreInv
<1>9. /\ IsFiniteSet(Tracked) /\ IsFiniteSet(Arrived) /\ IsFiniteSet(Seen)
      /\ Tracked \subseteq Seen /\ DOMAIN limiter \subseteq Arrived
  BY DEF StoreInv
<1>. QED
  BY <1>1, <1>2, <1>3, <1>6, <1>7, <1>8, <1>9 DEF StoreInv

\* A request takes from the bucket what it is let through for.
LEMMA AllowKeepsBuckets ==
    ASSUME StoreInv, BucketsInv, NEW r \in Requests, Allow(r)
    PROVE  BucketsInv'
<1> DEFINE c == asked[r].client
           l == asked[r].limiter
<1>1. /\ l \in DOMAIN limiter /\ asked[l].client = c /\ now' = now
      /\ DOMAIN limiter' = DOMAIN limiter /\ DOMAIN limiter \subseteq Requests
      /\ \A x \in Requests : asked'[x].client = asked[x].client
      /\ \A x \in DOMAIN limiter \ {l} : limiter'[x] = limiter[x]
  BY RequestIsAnswered DEF StoreInv, Arrived
<1> SUFFICES ASSUME NEW m \in DOMAIN limiter
             PROVE  \E s \in 0..now : Full + Rate * (now - s) <=
                        LevelIn(limiter', m, now)
                            + NPassed(asked', asked[m].client, s, now) * Price
  BY <1>1 DEF BucketsInv
<1>2. PICK s \in 0..now : Full + Rate * (now - s) <=
          LevelIn(limiter, m, now) + NPassed(asked, asked[m].client, s, now) * Price
  BY DEF BucketsInv
<1> DEFINE n == NPassed(asked, asked[m].client, s, now)
           k == NPassed(asked', asked[m].client, s, now)
           flown == Full + Rate * (now - s)
           v == LevelIn(limiter, m, now)
<1>3. /\ n \in Nat /\ k \in Nat /\ n <= k /\ v \in Nat /\ Price \in Nat /\ flown \in Nat
      /\ n * Price <= k * Price /\ n * Price \in Nat /\ k * Price \in Nat
      /\ (n + 1) * Price = n * Price + Price
  <2>1. n \in Nat /\ k \in Nat /\ n <= k
    BY OneMorePasses
  <2>2. v \in Nat /\ now \in Nat
    BY LevelRange
  <2>3. flown \in Nat /\ Price \in Nat
    BY <2>2, RateArithmetic
  <2> HIDE DEF n, k, v, flown
  <2>. QED
    BY <2>1, <2>2, <2>3, RateArithmetic
<1>4. CASE m # l
  <2>1. LevelIn(limiter', m, now) = v
    BY <1>1, <1>4 DEF LevelIn
  <2> HIDE DEF n, k, v, flown
  <2>2. flown <= v + k * Price
    BY <1>2, <1>3 DEF n, v, flown
  <2>. QED
    BY <2>1, <2>2 DEF k, flown
<1>5. CASE m = l /\ v >= Price
  <2>1. LevelIn(limiter', m, now) = v - Price /\ asked'[r].at = "passed"
    BY <1>5, RequestIsAnswered
  <2>2. k = n + 1
    BY <1>1, <1>5, <2>1, OneMorePasses
  <2> HIDE DEF n, k, v, flown
  <2>3. flown <= (v - Price) + k * Price
    BY <1>2, <1>3, <2>2 DEF n, v, flown
  <2>. QED
    BY <2>1, <2>3 DEF k, flown
<1>6. CASE m = l /\ ~(v >= Price)
  <2>1. LevelIn(limiter', m, now) = v
    BY <1>6, RequestIsAnswered
  <2> HIDE DEF n, k, v, flown
  <2>2. flown <= v + k * Price
    BY <1>2, <1>3 DEF n, v, flown
  <2>. QED
    BY <2>1, <2>2 DEF k, flown
<1>. QED
  BY <1>4, <1>5, <1>6

LEMMA AllowKeepsFewClients ==
    ASSUME StoreInv, FewClientsInv, NEW r \in Requests, Allow(r)
    PROVE  FewClientsInv'
<1> DEFINE c == asked[r].client
           l == asked[r].limiter
<1>1. /\ r \in Arrived /\ l \in DOMAIN limiter /\ asked[l].client = c
      /\ now' = now /\ store' = store /\ Tracked' = Tracked
      /\ \A x \in Requests : /\ asked'[x].client = asked[x].client
                              /\ asked'[x].limiter = asked[x].limiter
      /\ Arrived' = Arrived /\ Seen' = Seen /\ Arrived \subseteq Requests
      /\ \A x \in DOMAIN limiter \ {l} : limiter'[x] = limiter[x]
      /\ \A d \in Tracked : /\ store[d].limiter \in DOMAIN limiter
                             /\ asked[store[d].limiter].client = d
  BY RequestIsAnswered DEF StoreInv, RateLimitTypeOK, Arrived, Tracked
<1> SUFFICES ASSUME Cardinality(Seen) <= MaxEntries
             PROVE  /\ Seen = Tracked
                    /\ \A x \in Arrived : asked[x].limiter = store[asked[x].client].limiter
                    /\ \A d \in Tracked : LevelIsLeft(asked', limiter', d, store[d].limiter, now)
  BY <1>1 DEF FewClientsInv
<1>2. /\ Seen = Tracked
      /\ \A x \in Arrived : asked[x].limiter = store[asked[x].client].limiter
      /\ \A d \in Tracked : LevelIsLeft(asked, limiter, d, store[d].limiter, now)
  BY DEF FewClientsInv
<1>3. ASSUME NEW d \in Tracked, NEW s \in 0..now
      PROVE  LevelIn(limiter', store[d].limiter, now) + NPassed(asked', d, s, now) * Price
                <= Full + Rate * (now - s)
  <2> DEFINE m == store[d].limiter
             n == NPassed(asked, d, s, now)
             k == NPassed(asked', d, s, now)
             flown == Full + Rate * (now - s)
             v == LevelIn(limiter, m, now)
  <2>1. v + n * Price <= flown
    BY <1>2 DEF LevelIsLeft
  <2>2. /\ n \in Nat /\ k \in Nat /\ v \in Nat /\ Price \in Nat /\ flown \in Nat
        /\ n * Price \in Nat /\ (n + 1) * Price = n * Price + Price
    <3>1. n \in Nat /\ k \in Nat
      BY OneMorePasses
    <3>2. v \in Nat /\ now \in Nat
      BY <1>1, LevelRange
    <3>. QED
      BY <3>1, <3>2, RateArithmetic
  <2>3. CASE d # c
    <3>1. m # l /\ m \in DOMAIN limiter
      BY <1>1, <2>3
    <3>2. LevelIn(limiter', m, now) = v
      BY <1>1, <3>1 DEF LevelIn
    <3>3. k = n
      BY <2>3, OneMorePasses
    <3>. QED
      BY <2>1, <3>2, <3>3
  <2>4. CASE d = c
    <3>1. m = l
      BY <1>1, <1>2, <2>4
    <3>2. CASE v >= Price
      <4>1. LevelIn(limiter', m, now) = v - Price /\ asked'[r].at = "passed"
        BY <3>1, <3>2, RequestIsAnswered
      <4>2. k = n + 1
        BY <2>4, <4>1, OneMorePasses
      <4> HIDE DEF n, k, v, flown
      <4>3. (v - Price) + k * Price <= flown
        BY <2>1, <2>2, <4>2
      <4>. QED
        BY <4>1, <4>3 DEF k, flown
    <3>3. CASE ~(v >= Price)
      <4>1. LevelIn(limiter', m, now) = v /\ asked'[r].at # "passed"
        BY <3>1, <3>3, RequestIsAnswered
      <4>2. k = n
        BY <4>1, OneMorePasses
      <4>. QED
        BY <2>1, <4>1, <4>2
    <3>. QED
      BY <3>2, <3>3
  <2>. QED
    BY <2>3, <2>4
<1>. QED
  BY <1>2, <1>3 DEF LevelIsLeft

\* What a tick adds to a bucket.
LEMMA LevelFlows ==
    ASSUME NEW ls, NEW l, NEW t \in Nat, ls[l].tokens \in 0..Full, ls[l].at \in 0..t
    PROVE  /\ LevelIn(ls, l, t) \in Nat
           /\ \A u \in Nat : u = t + 1 =>
                 /\ LevelIn(ls, l, u) \in Nat
                 /\ LevelIn(ls, l, u) <= Full
                 /\ LevelIn(ls, l, u) <= LevelIn(ls, l, t) + Rate
                 /\ \/ LevelIn(ls, l, u) = Full
                    \/ LevelIn(ls, l, u) = LevelIn(ls, l, t) + Rate
<1>1. Full \in Nat /\ Rate \in Nat
  BY ConstantsAreNat
<1>2. PICK a \in Nat, k \in Nat : ls[l].at = a /\ ls[l].tokens = k /\ a <= t
  BY <1>1
<1>3. PICK f \in Nat : Rate * (t - a) = f
  BY <1>2, RateArithmetic
<1>4. LevelIn(ls, l, t) = IF k + f > Full THEN Full ELSE k + f
  BY <1>2, <1>3 DEF LevelIn
<1>5. ASSUME NEW u \in Nat, u = t + 1
      PROVE  LevelIn(ls, l, u) = IF k + (f + Rate) > Full THEN Full ELSE k + (f + Rate)
  <2>1. Rate * (u - a) = f + Rate
    <3>1. t \in Int /\ a \in Int /\ u \in Int /\ u = t + 1
      BY <1>5
    <3>2. Rate * (u - a) = Rate * (t - a) + Rate
      BY ONLY <3>1, RateFlows
    <3>. QED
      BY <1>3, <3>2
  <2>. QED
    BY <1>2, <2>1 DEF LevelIn
<1>. QED
  BY <1>1, <1>2, <1>3, <1>4, <1>5

\* A request that passes takes what its limiter holds, and one that is refused
\* finds too little in it.
LEMMA AllowKeepsLimits ==
    ASSUME RateInv, NEW r \in Requests, Allow(r), StoreInv', FewClientsInv'
    PROVE  ClientsAreLimited' /\ RefusedForOwnRequestsOnly'
<1> DEFINE c == asked[r].client
           l == asked[r].limiter
<1>0. /\ StoreInv /\ BucketsInv /\ FewClientsInv
      /\ ClientsAreLimited /\ RefusedForOwnRequestsOnly
  BY DEF RateInv
<1>1. /\ r \in Arrived /\ l \in DOMAIN limiter /\ asked[l].client = c
      /\ now' = now /\ Seen' = Seen /\ now \in Nat
      /\ asked'[r].time = now /\ asked'[r].client = c
      /\ \A x \in Requests \ {r} : asked'[x] = asked[x]
  BY <1>0, RequestIsAnswered, RateLimitAssumption DEF StoreInv, RateLimitTypeOK
<1>2. ClientsAreLimited'
  <2> SUFFICES ASSUME Cardinality(Seen') <= MaxEntries,
                      NEW d \in Clients, NEW s \in 0..now, NEW e \in 0..now, s <= e
               PROVE  Cardinality(PassedIn(asked', d, s, e)) * Price <= Full + Rate * (e - s)
    BY <1>1 DEF ClientsAreLimited, Seen, Passed, PassedIn
  <2> SUFFICES NPassed(asked', d, s, e) * Price <= Full + Rate * (e - s)
    BY DEF NPassed
  <2>a. Cardinality(Seen) <= MaxEntries
    BY <1>1
  <2>1. CASE asked'[r].at # "passed" \/ d # c \/ now \notin s..e
    <3>1. NPassed(asked', d, s, e) = NPassed(asked, d, s, e)
      BY <1>0, <2>1, OneMorePasses
    <3>2. NPassed(asked, d, s, e) * Price <= Full + Rate * (e - s)
      BY <1>0, <2>a DEF ClientsAreLimited, Seen, Passed, PassedIn, NPassed
    <3>. QED
      BY <3>1, <3>2
  <2>2. CASE d = c /\ now \in s..e
    <3>1. e = now
      BY <1>1, <2>2
    <3>2. c \in Seen
      BY <1>1 DEF Seen
    <3>3. Tracked' = Seen /\ \A b \in Tracked' :
             LevelIsLeft(asked', limiter', b, store'[b].limiter, now)
      BY <1>1 DEF FewClientsInv
    <3> DEFINE m == store'[c].limiter
    <3>4. LevelIn(limiter', m, now) + NPassed(asked', c, s, now) * Price
              <= Full + Rate * (now - s)
      BY <3>2, <3>3 DEF LevelIsLeft
    <3>5. LevelIn(limiter', m, now) \in Nat
      <4>1. limiter'[m] \in Bucket /\ limiter'[m].at <= now
        BY <1>1, <3>2, <3>3 DEF StoreInv, RateLimitTypeOK
      <4>2. /\ limiter'[m].tokens \in 0..Full /\ limiter'[m].at \in 0..now
        BY <4>1, <1>1, RateLimitAssumption DEF Bucket
      <4> HIDE DEF m
      <4>. QED
        BY <1>1, <4>2, LevelFlows
    <3>6. NPassed(asked', c, s, now) * Price \in Nat /\ Full + Rate * (now - s) \in Nat
      BY <1>0, <1>1, OneMorePasses, RateArithmetic
    <3> HIDE DEF m
    <3>. QED
      BY <2>2, <3>1, <3>4, <3>5, <3>6
  <2>. QED
    BY <2>1, <2>2
<1>3. RefusedForOwnRequestsOnly'
  <2> SUFFICES ASSUME NEW x \in Requests, asked'[x].at = "refused"
               PROVE  \E s \in 0..asked'[x].time :
                  NPassed(asked', asked'[x].client, s, asked'[x].time) * Price
                      + Price > Full + Rate * (asked'[x].time - s)
    BY DEF RefusedForOwnRequestsOnly, Passed, PassedIn, NPassed
  <2>1. CASE x = r
    <3>1. PICK s \in 0..now : Full + Rate * (now - s) <=
              LevelIn(limiter, l, now) + NPassed(asked, c, s, now) * Price
      BY <1>0, <1>1 DEF BucketsInv
    <3> DEFINE n == NPassed(asked, c, s, now) * Price
               flown == Full + Rate * (now - s)
               v == LevelIn(limiter, l, now)
    <3>2. v < Price /\ v \in Nat /\ Price \in Nat
      <4>1. v \in Nat /\ Price \in Nat
        BY <1>0, <1>1, LevelRange, ConstantsAreNat
      <4>2. ~(v >= Price)
        BY <1>0, <2>1, RequestIsAnswered
      <4>. QED
        BY <4>1, <4>2
    <3>3. NPassed(asked', c, s, now) = NPassed(asked, c, s, now)
      BY <1>0, <2>1, OneMorePasses
    <3>4. n \in Nat /\ flown \in Nat
      BY <1>0, <1>1, OneMorePasses, RateArithmetic
    <3>5. n + Price > flown
      <4> HIDE DEF n, flown, v
      <4>. QED
        BY <3>1, <3>2, <3>4 DEF n, flown, v
    <3>. QED
      BY <1>1, <2>1, <3>3, <3>5
  <2>2. CASE x # r
    <3>1. asked'[x] = asked[x]
      BY <1>1, <2>2
    <3>2. PICK s \in 0..asked[x].time :
              NPassed(asked, asked[x].client, s, asked[x].time) * Price
                  + Price > Full + Rate * (asked[x].time - s)
      BY <1>0, <3>1 DEF RefusedForOwnRequestsOnly, Passed, PassedIn, NPassed
    <3> DEFINE t == asked[x].time
               n == NPassed(asked, asked[x].client, s, t)
               k == NPassed(asked', asked[x].client, s, t)
               flown == Full + Rate * (t - s)
    <3>3. /\ n \in Nat /\ k \in Nat /\ n <= k /\ Price \in Nat
          /\ n * Price <= k * Price /\ n * Price \in Nat /\ k * Price \in Nat
      <4>1. n \in Nat /\ k \in Nat /\ n <= k
        BY <1>0, OneMorePasses
      <4>. QED
        BY <4>1, RateArithmetic
    <3>4. t \in Nat /\ s \in Nat /\ s <= t
      BY <1>0, RateLimitAssumption DEF StoreInv, RateLimitTypeOK, Asked
    <3>5. flown \in Nat
      <4>1. Rate * (t - s) \in Nat
        BY <3>4, RateArithmetic
      <4>. QED
        BY <4>1, ConstantsAreNat
    <3>6. k * Price + Price > flown
      <4> HIDE DEF n, k, flown
      <4>. QED
        BY <3>2, <3>3, <3>5 DEF n, flown
    <3>. QED
      BY <3>1, <3>6
  <2>. QED
    BY <2>1, <2>2
<1>. QED
  BY <1>2, <1>3

\* What a tick adds to a bucket, and that nothing passes in it.
LEMMA TimeFlows ==
    ASSUME StoreInv, PassTime, NEW u \in Nat, u = now + 1
    PROVE  /\ now' = u /\ now \in Nat /\ now' \in 0..MaxTime
           /\ \A l \in DOMAIN limiter :
                 /\ LevelIn(limiter, l, now) \in Nat
                 /\ LevelIn(limiter, l, u) \in Nat
                 /\ LevelIn(limiter, l, u) <= Full
                 /\ LevelIn(limiter, l, u) <= LevelIn(limiter, l, now) + Rate
                 /\ \/ LevelIn(limiter, l, u) = Full
                    \/ LevelIn(limiter, l, u) = LevelIn(limiter, l, now) + Rate
           /\ \A c, s : NPassed(asked, c, s, u) = NPassed(asked, c, s, now)
                  \/ s \notin 0..now
           /\ \A c : NPassed(asked, c, u, u) = 0
<1>1. now' = u /\ now \in Nat /\ now' \in 0..MaxTime
  BY RateLimitAssumption DEF PassTime, StoreInv, RateLimitTypeOK
<1>2. ASSUME NEW l \in DOMAIN limiter
      PROVE  /\ LevelIn(limiter, l, now) \in Nat
             /\ LevelIn(limiter, l, u) \in Nat
             /\ LevelIn(limiter, l, u) <= Full
             /\ LevelIn(limiter, l, u) <= LevelIn(limiter, l, now) + Rate
             /\ \/ LevelIn(limiter, l, u) = Full
                \/ LevelIn(limiter, l, u) = LevelIn(limiter, l, now) + Rate
  <2>1. limiter[l].at \in 0..now /\ limiter[l].tokens \in 0..Full /\ u \in Nat
    BY <1>1, LevelRange
  <2>. QED
    BY <1>1, <2>1, LevelFlows
<1>3. \A x \in Requests : asked[x].time \in Nat /\ asked[x].time <= now
  BY RateLimitAssumption DEF StoreInv, RateLimitTypeOK, Asked
<1>4. ASSUME NEW c, NEW s \in 0..now
      PROVE  NPassed(asked, c, s, u) = NPassed(asked, c, s, now)
  <2>1. \A x \in Requests : asked[x].time \in s..(u) <=> asked[x].time \in s..now
    BY <1>1, <1>3
  <2>2. PassedIn(asked, c, s, u) = PassedIn(asked, c, s, now)
    BY <2>1 DEF PassedIn
  <2>. QED
    BY <2>2 DEF NPassed
<1>5. ASSUME NEW c PROVE NPassed(asked, c, u, u) = 0
  <2>1. \A x \in Requests : asked[x].time \notin (u)..(u)
    BY <1>1, <1>3
  <2>2. PassedIn(asked, c, u, u) = {}
    BY <2>1 DEF PassedIn
  <2>. QED
    BY <2>2, FS_EmptySet DEF NPassed
<1>. QED
  BY <1>1, <1>2, <1>4, <1>5

\* A bucket that has become full was full then; another has what has flowed in.
LEMMA TimeKeepsRateInv ==
    ASSUME RateInv, PassTime
    PROVE  RateInv'
<1>0. PICK u \in Nat : u = now + 1
  BY RateLimitAssumption DEF RateInv, StoreInv, RateLimitTypeOK
<1> USE DEF RateInv
<1>1. /\ UNCHANGED <<gets, store, limiter, asked>>
      /\ now' = u /\ u = now + 1 /\ now \in Nat /\ now' \in 0..MaxTime
      /\ Arrived' = Arrived /\ Seen' = Seen /\ Tracked' = Tracked
  BY <1>0, TimeFlows DEF PassTime, Arrived, Seen, Tracked
<1>2. StoreInv'
  <2>1. \A l \in DOMAIN limiter : limiter[l].at <= u
    BY <1>1, LevelRange
  <2>2. \A x \in Requests : asked[x].time <= u
    BY <1>1, RateLimitAssumption DEF StoreInv, RateLimitTypeOK, Asked
  <2>3. RateLimitTypeOK'
    BY <1>1 DEF StoreInv, RateLimitTypeOK
  <2>. QED
    BY <1>1, <2>1, <2>2, <2>3 DEF StoreInv
<1>3. \A s \in 0..now : /\ Rate * (u - s) = Rate * (now - s) + Rate
                        /\ Rate * (now - s) \in Nat
  <2> SUFFICES ASSUME NEW s \in 0..now
               PROVE  /\ Rate * (u - s) = Rate * (now - s) + Rate
                      /\ Rate * (now - s) \in Nat
    OBVIOUS
  <2>1. Rate * (u - s) = Rate * (now - s) + Rate
    <3>1. now \in Int /\ s \in Int /\ u \in Int /\ u = now + 1
      BY <1>1
    <3>. QED
      BY ONLY <3>1, RateFlows
  <2>2. Rate * (now - s) \in Nat
    BY <1>1, RateArithmetic
  <2>. QED
    BY <1>1, <2>1, <2>2
<1>4. /\ Rate * (u - u) = 0 /\ Full \in Nat /\ Rate \in Nat
      /\ 0 * Price = 0
  BY <1>1, RateArithmetic
<1>5. \A c, s, e : NPassed(asked, c, s, e) \in Nat /\ NPassed(asked, c, s, e) * Price \in Nat
  BY CountIsNat, RateArithmetic
<1>6. BucketsInv'
  <2> SUFFICES ASSUME NEW l \in DOMAIN limiter
               PROVE  \E s \in 0..u : Full + Rate * (u - s) <=
                          LevelIn(limiter, l, u)
                              + NPassed(asked, asked[l].client, s, u) * Price
    BY <1>1 DEF BucketsInv
  <2> DEFINE c == asked[l].client
  <2>1. CASE LevelIn(limiter, l, u) = Full
    <3>1. NPassed(asked, c, u, u) = 0
      BY <1>0, TimeFlows
    <3>2. Full + Rate * (u - u) <=
              LevelIn(limiter, l, u) + NPassed(asked, c, u, u) * Price
      BY <1>4, <2>1, <3>1
    <3>3. u \in 0..u
      BY <1>1
    <3>. QED
      BY <3>2, <3>3
  <2>2. CASE LevelIn(limiter, l, u) = LevelIn(limiter, l, now) + Rate
    <3>1. PICK s \in 0..now : Full + Rate * (now - s) <=
              LevelIn(limiter, l, now) + NPassed(asked, c, s, now) * Price
      BY DEF BucketsInv
    <3> DEFINE n == NPassed(asked, c, s, now) * Price
               f == Rate * (now - s)
               v == LevelIn(limiter, l, now)
    <3>2. NPassed(asked, c, s, u) = NPassed(asked, c, s, now)
      BY <1>0, TimeFlows
    <3>3. n \in Nat /\ f \in Nat /\ v \in Nat
      BY <1>0, <1>3, <1>5, TimeFlows
    <3>4. Full + (f + Rate) <= (v + Rate) + n
      <4> HIDE DEF n, f, v
      <4>. QED
        BY <1>4, <3>1, <3>3 DEF n, f, v
    <3>5. s \in 0..u
      BY <1>1
    <3>. QED
      BY <1>3, <2>2, <3>2, <3>4, <3>5
  <2>. QED
    BY <1>0, <2>1, <2>2, TimeFlows
<1>7. FewClientsInv'
  <2> SUFFICES ASSUME Cardinality(Seen) <= MaxEntries
               PROVE  /\ Seen = Tracked
                      /\ \A x \in Arrived : asked[x].limiter = store[asked[x].client].limiter
                      /\ \A d \in Tracked :
                            LevelIsLeft(asked, limiter, d, store[d].limiter, u)
    BY <1>1 DEF FewClientsInv
  <2>1. /\ Seen = Tracked
        /\ \A x \in Arrived : asked[x].limiter = store[asked[x].client].limiter
        /\ \A d \in Tracked : LevelIsLeft(asked, limiter, d, store[d].limiter, now)
    BY DEF FewClientsInv
  <2>2. ASSUME NEW d \in Tracked, NEW s \in 0..u
        PROVE  LevelIn(limiter, store[d].limiter, u)
                   + NPassed(asked, d, s, u) * Price <= Full + Rate * (u - s)
    <3> DEFINE m == store[d].limiter
    <3>1. m \in DOMAIN limiter
      BY DEF StoreInv, RateLimitTypeOK
    <3>2. CASE s = u
      <4>1. NPassed(asked, d, s, u) = 0 /\ LevelIn(limiter, m, u) <= Full
            /\ LevelIn(limiter, m, u) \in Nat
        BY <1>0, <3>1, <3>2, TimeFlows
      <4>2. Rate * (u - s) = 0
        BY <1>4, <3>2
      <4>. QED
        BY <1>4, <4>1, <4>2
    <3>3. CASE s \in 0..now
      <4> DEFINE n == NPassed(asked, d, s, now) * Price
                 f == Rate * (now - s)
                 v == LevelIn(limiter, m, now)
                 w == LevelIn(limiter, m, u)
      <4>1. NPassed(asked, d, s, u) = NPassed(asked, d, s, now)
        BY <1>0, <3>3, TimeFlows
      <4>2. v + n <= Full + f
        BY <2>1, <3>3 DEF LevelIsLeft
      <4>3. n \in Nat /\ f \in Nat /\ v \in Nat /\ w \in Nat /\ w <= v + Rate
        BY <1>0, <1>3, <1>5, <3>1, <3>3, TimeFlows
      <4>4. w + n <= Full + (f + Rate)
        <5> HIDE DEF n, f, v, w
        <5>. QED
          BY <1>4, <4>2, <4>3
      <4>. QED
        BY <1>3, <3>3, <4>1, <4>4
    <3>. QED
      BY <1>1, <3>2, <3>3
  <2>. QED
    BY <2>1, <2>2 DEF LevelIsLeft
<1>8. ClientsAreLimited'
  <2> SUFFICES ASSUME Cardinality(Seen) <= MaxEntries,
                      NEW d \in Clients, NEW s \in 0..u, NEW e \in 0..u, s <= e
               PROVE  NPassed(asked, d, s, e) * Price <= Full + Rate * (e - s)
    BY <1>1 DEF ClientsAreLimited, Seen, Passed, PassedIn, NPassed
  <2>1. \A i, j \in 0..now : i <= j => NPassed(asked, d, i, j) * Price <= Full + Rate * (j - i)
    BY DEF ClientsAreLimited, Seen, Passed, PassedIn, NPassed
  <2>2. CASE e \in 0..now
    BY <1>1, <2>1, <2>2
  <2>3. CASE e = u /\ s = u
    <3>1. NPassed(asked, d, s, e) = 0 /\ Rate * (e - s) = 0
      BY <1>0, <1>4, <2>3, TimeFlows
    <3>. QED
      BY <1>4, <3>1
  <2>4. CASE e = u /\ s \in 0..now
    <3> DEFINE n == NPassed(asked, d, s, now) * Price
               f == Rate * (now - s)
    <3>1. NPassed(asked, d, s, e) = NPassed(asked, d, s, now)
      BY <1>0, <2>4, TimeFlows
    <3>2. n <= Full + f
      <4>1. now \in 0..now /\ s <= now
        BY <1>1, <2>4
      <4>. QED
        BY <2>1, <2>4, <4>1
    <3>3. n \in Nat /\ f \in Nat
      BY <1>3, <1>5, <2>4
    <3>4. n <= Full + (f + Rate)
      <4> HIDE DEF n, f
      <4>. QED
        BY <1>4, <3>2, <3>3
    <3>. QED
      BY <1>3, <2>4, <3>1, <3>4
  <2>. QED
    BY <1>1, <2>2, <2>3, <2>4
<1>9. RefusedForOwnRequestsOnly'
  BY <1>1 DEF RefusedForOwnRequestsOnly, Passed
<1>. QED
  BY <1>2, <1>6, <1>7, <1>8, <1>9

LEMMA RateInvInit == RateLimitInit => RateInv
<1> SUFFICES ASSUME RateLimitInit PROVE RateInv
  OBVIOUS
<1>1. PICK client \in [Requests -> Clients] :
         asked = [r \in Requests |-> [at |-> "idle", client |-> client[r],
                                      limiter |-> r, time |-> 0]]
  BY DEF RateLimitInit
<1>2. /\ asked \in [Requests -> Asked] /\ now = 0 /\ gets = 0
      /\ \A r \in Requests : asked[r].at = "idle" /\ asked[r].time = 0
  BY <1>1, RateLimitAssumption DEF RateLimitInit, Asked
<1>3. Tracked = {} /\ DOMAIN limiter = {} /\ Arrived = {} /\ Seen = {}
  BY <1>2 DEF RateLimitInit, Tracked, Arrived, Seen
<1>4. Cardinality({}) = 0 /\ IsFiniteSet({})
  BY FS_EmptySet
<1>5. RateLimitTypeOK
  BY <1>2, <1>3, <1>4, RateLimitAssumption DEF RateLimitTypeOK, Tracked
<1>6. StoreInv
  BY <1>2, <1>3, <1>4, <1>5 DEF StoreInv
<1>7. BucketsInv /\ FewClientsInv
  BY <1>3 DEF BucketsInv, FewClientsInv
<1>8. ClientsAreLimited
  <2>1. \A c, s, e : Passed(c, s, e) = {}
    BY <1>2 DEF Passed
  <2>2. 0 * Price = 0 /\ Full \in Nat /\ Rate * (0 - 0) = 0
    BY RateArithmetic
  <2>3. ASSUME NEW c \in Clients, NEW s \in 0..now, NEW e \in 0..now
        PROVE  Cardinality(Passed(c, s, e)) * Price <= Full + Rate * (e - s)
    <3>1. s = 0 /\ e = 0
      BY <1>2
    <3>2. Cardinality(Passed(c, s, e)) = 0
      BY <1>4, <2>1
    <3>. QED
      BY <2>2, <3>1, <3>2
  <2>. QED
    BY <2>3 DEF ClientsAreLimited
<1>9. RefusedForOwnRequestsOnly
  BY <1>2 DEF RefusedForOwnRequestsOnly
<1>. QED
  BY <1>6, <1>7, <1>8, <1>9 DEF RateInv

LEMMA RateInvStep == RateInv /\ [RateLimitNext]_rateLimitVars => RateInv'
<1> SUFFICES ASSUME RateInv, [RateLimitNext]_rateLimitVars PROVE RateInv'
  OBVIOUS
<1>1. ASSUME NEW r \in Requests, GetLimiter(r) PROVE RateInv'
  BY <1>1, GetKeepsStore, GetKeepsBuckets, GetKeepsFewClients, GetKeepsLimits DEF RateInv
<1>2. ASSUME NEW r \in Requests, Allow(r) PROVE RateInv'
  BY <1>2, AllowKeepsStore, AllowKeepsBuckets, AllowKeepsFewClients, AllowKeepsLimits
  DEF RateInv
<1>3. CASE PassTime
  BY <1>3, TimeKeepsRateInv
<1>4. CASE UNCHANGED rateLimitVars
  <2>1. /\ now' = now /\ gets' = gets /\ store' = store /\ limiter' = limiter
        /\ asked' = asked /\ Tracked' = Tracked /\ Arrived' = Arrived /\ Seen' = Seen
    BY <1>4 DEF rateLimitVars, Tracked, Arrived, Seen
  <2>2. StoreInv'
    BY <2>1 DEF RateInv, StoreInv, RateLimitTypeOK
  <2>3. BucketsInv' /\ FewClientsInv'
    BY <2>1 DEF RateInv, BucketsInv, FewClientsInv
  <2>4. ClientsAreLimited' /\ RefusedForOwnRequestsOnly'
    BY <2>1 DEF RateInv, ClientsAreLimited, RefusedForOwnRequestsOnly, Passed, Arrived
  <2>. QED
    BY <2>2, <2>3, <2>4 DEF RateInv
<1>. QED
  BY <1>1, <1>2, <1>3, <1>4 DEF RateLimitNext

LEMMA RateInvHolds == RateLimitSpec => []RateInv
BY RateInvInit, RateInvStep, PTL DEF RateLimitSpec

\* However many clients come, the store holds an entry for at most MaxEntries
\* of them: a new one evicts the oldest before it is added (ratelimit.go:46).
THEOREM StoreIsBounded == RateLimitSpec => []RateLimitTypeOK
<1>1. RateInv => RateLimitTypeOK
  BY DEF RateInv, StoreInv
<1>. QED
  BY <1>1, RateInvHolds, PTL

\* Whatever requests come, however they are held up between the store and the
\* limiter: as long as there is an entry for every client, none of them passes
\* more often in a span of time than its bucket and what has flowed into it
\* since allow.
THEOREM BucketsLimit == RateLimitSpec => []ClientsAreLimited
<1>1. RateInv => ClientsAreLimited
  BY DEF RateInv
<1>. QED
  BY <1>1, RateInvHolds, PTL

\* Whoever is evicted, and whatever others send: who is refused has used up a
\* bucket and what has flowed into it since.
THEOREM RefusalsAreDeserved == RateLimitSpec => []RefusedForOwnRequestsOnly
<1>1. RateInv => RefusedForOwnRequestsOnly
  BY DEF RateInv
<1>. QED
  BY <1>1, RateInvHolds, PTL

-----------------------------------------------------------------------------
(* TokenCache.                                                             *)

\* What a token stands for now was valid just now.
CurrentIsValid ==
    \A t \in Tokens, i \in Identities : identity[t] = i => validAgo[t][i] = 0

\* What an entry has left and the age of its identity make up less than
\* MostStale together.
EntriesWereValid ==
    \A t \in Tokens : (entry[t] # NoEntry /\ entry[t].left >= 0) =>
        validAgo[t][entry[t].identity] + entry[t].left <= MostStale

\* The answer of a review is as old as the request has waited for it.
AnswersWereValid ==
    \A c \in Callers : IsAuthenticated(c) =>
        validAgo[caller[c].token][caller[c].review] <= caller[c].waited

ValidInv == TokenCacheTypeOK /\ CurrentIsValid /\ EntriesWereValid
                             /\ AnswersWereValid

LEMMA MostStaleIsNat == MostStale \in Nat /\ ReviewTime < MostStale
  BY TokenCacheAssumption DEF MostStale

\* With an empty cache the invariant holds.
LEMMA ValidInit == TokenCacheInit => ValidInv
<1> SUFFICES ASSUME TokenCacheInit PROVE ValidInv
  OBVIOUS
<1> USE MostStaleIsNat, TokenCacheAssumption
<1>1. /\ identity \in [Tokens -> Answers]
      /\ validAgo = [t \in Tokens |-> [i \in Identities |->
                       IF identity[t] = i THEN 0 ELSE MostStale]]
      /\ entry = [t \in Tokens |-> NoEntry]
      /\ sweep = [todo |-> {}, expired |-> {}]
  BY DEF TokenCacheInit
<1>2. PICK t \in Tokens :
         caller = [c \in Callers |-> [at |-> "idle", token |-> t,
                      review |-> Invalid, waited |-> 0, got |-> Invalid]]
  BY DEF TokenCacheInit
<1>3. validAgo \in [Tokens -> [Identities -> 0..MostStale]]
  BY <1>1
<1>4. caller \in [Callers -> Caller]
  BY <1>2 DEF Caller, Answers
<1>5. TokenCacheTypeOK
  BY <1>1, <1>3, <1>4 DEF TokenCacheTypeOK
<1>6. CurrentIsValid /\ EntriesWereValid
  BY <1>1 DEF CurrentIsValid, EntriesWereValid
<1>7. AnswersWereValid
  BY <1>2 DEF AnswersWereValid, IsAuthenticated
<1> QED
  BY <1>5, <1>6, <1>7 DEF ValidInv

-----------------------------------------------------------------------------
\* A step that leaves the identities and their history alone, and the entries
\* as they are or empty, and brings no answer of a review, keeps the invariant
\* if it keeps the types.
LEMMA HarmlessStep ==
    ASSUME ValidInv, TokenCacheTypeOK', UNCHANGED <<identity, validAgo>>,
           \A t \in Tokens : entry'[t] = entry[t] \/ entry'[t] = NoEntry,
           \A c \in Callers : caller'[c] = caller[c] \/ caller'[c].at # "answer"
    PROVE  ValidInv'
<1>1. CurrentIsValid'
  BY DEF ValidInv, CurrentIsValid
<1>2. EntriesWereValid'
  BY DEF ValidInv, EntriesWereValid
<1>3. AnswersWereValid'
  BY DEF ValidInv, AnswersWereValid, IsAuthenticated
<1> QED
  BY <1>1, <1>2, <1>3 DEF ValidInv

\* Leave keeps the types and leaves no answer behind.
LEMMA LeaveType ==
    ASSUME TokenCacheTypeOK, NEW c \in Callers, NEW got \in Answers, Leave(c, got)
    PROVE  /\ caller' \in [Callers -> Caller]
           /\ caller'[c].at = "idle" /\ caller'[c].got = got
           /\ caller'[c].token = caller[c].token
           /\ \A d \in Callers \ {c} : caller'[d] = caller[d]
<1> DEFINE left == [at |-> "idle", token |-> caller[c].token, got |-> got,
                    review |-> Invalid, waited |-> 0]
<1>1. left \in Caller
  BY TokenCacheAssumption DEF TokenCacheTypeOK, Caller, Answers
<1>2. caller' = [caller EXCEPT ![c] = left]
  BY DEF Leave
<1> QED
  BY <1>1, <1>2 DEF TokenCacheTypeOK

\* Every step of a request keeps the invariant.
LEMMA CallerStep ==
    ASSUME ValidInv, NEW c \in Callers,
           \/ \E t \in Tokens : Load(c, t)
           \/ DeleteExpired(c) \/ Review(c) \/ Refuse(c) \/ Store(c)
    PROVE  ValidInv'
<1> USE MostStaleIsNat, TokenCacheAssumption
<1>0. TokenCacheTypeOK
  BY DEF ValidInv
<1>1. ASSUME NEW t \in Tokens, Load(c, t)
      PROVE ValidInv'
  <2>1. PICK to \in {"idle", "delete", "review"}, got \in Answers :
           caller' = [caller EXCEPT ![c].at = to, ![c].token = t, ![c].got = got]
    BY <1>0, <1>1 DEF Load, IsHit, TokenCacheTypeOK, Cached, Answers
  <2>2. UNCHANGED <<identity, validAgo, entry, sweep>>
    BY <1>1 DEF Load
  <2>3. caller' \in [Callers -> Caller]
    <3>1. \A x \in Caller : [x EXCEPT !.at = to, !.token = t, !.got = got] \in Caller
      BY DEF Caller
    <3> QED
      BY <1>0, <2>1, <3>1 DEF TokenCacheTypeOK
  <2>4. TokenCacheTypeOK'
    BY <1>0, <2>2, <2>3 DEF TokenCacheTypeOK
  <2>5. \A d \in Callers : caller'[d] = caller[d] \/ caller'[d].at # "answer"
    BY <1>0, <2>1 DEF TokenCacheTypeOK, Caller
  <2> QED
    BY <2>2, <2>4, <2>5, HarmlessStep
<1>2. CASE DeleteExpired(c)
  <2>1. entry' = [entry EXCEPT ![caller[c].token] = NoEntry]
    BY <1>2 DEF DeleteExpired
  <2>2. caller' = [caller EXCEPT ![c].at = "review"]
    BY <1>2 DEF DeleteExpired
  <2>3. UNCHANGED <<identity, validAgo, sweep>>
    BY <1>2 DEF DeleteExpired
  <2>4. \A t \in Tokens : entry'[t] = entry[t] \/ entry'[t] = NoEntry
    BY <1>0, <2>1 DEF TokenCacheTypeOK
  <2>5. caller' \in [Callers -> Caller]
    BY <1>0, <2>2 DEF TokenCacheTypeOK, Caller
  <2>6. TokenCacheTypeOK'
    BY <1>0, <2>1, <2>3, <2>4, <2>5 DEF TokenCacheTypeOK
  <2>7. \A d \in Callers : caller'[d] = caller[d] \/ caller'[d].at # "answer"
    BY <1>0, <2>2 DEF TokenCacheTypeOK, Caller
  <2> QED
    BY <2>3, <2>4, <2>6, <2>7, HarmlessStep
<1>3. CASE Review(c)
  <2> DEFINE t == caller[c].token
  <2>1. t \in Tokens /\ identity[t] \in Answers
    BY <1>0 DEF TokenCacheTypeOK, Caller
  <2>2. caller' = [caller EXCEPT ![c].at = "answer", ![c].review = identity[t]]
    BY <1>3 DEF Review
  <2>3. UNCHANGED <<identity, validAgo, entry, sweep>>
    BY <1>3 DEF Review
  <2>4. caller' \in [Callers -> Caller]
    <3>1. \A x \in Caller : [x EXCEPT !.at = "answer", !.review = identity[t]] \in Caller
      BY <2>1 DEF Caller
    <3> QED
      BY <1>0, <2>2, <3>1 DEF TokenCacheTypeOK
  <2>5. TokenCacheTypeOK'
    BY <1>0, <2>3, <2>4 DEF TokenCacheTypeOK
  <2>6. /\ caller'[c].token = t /\ caller'[c].review = identity[t]
        /\ caller'[c].waited \in 0..ReviewTime
        /\ \A d \in Callers \ {c} : caller'[d] = caller[d]
    BY <1>0, <2>2 DEF TokenCacheTypeOK, Caller
  <2>7. identity[t] # Invalid => validAgo[t][identity[t]] = 0
    BY <2>1 DEF ValidInv, CurrentIsValid, Answers
  <2>8. AnswersWereValid'
    BY <2>3, <2>6, <2>7 DEF ValidInv, AnswersWereValid, IsAuthenticated
  <2> QED
    BY <2>3, <2>5, <2>8 DEF ValidInv, CurrentIsValid, EntriesWereValid
<1>4. CASE Refuse(c)
  <2>1. Leave(c, Invalid) /\ UNCHANGED <<identity, validAgo, entry, sweep>>
    BY <1>4 DEF Refuse
  <2>2. /\ caller' \in [Callers -> Caller] /\ caller'[c].at = "idle"
        /\ \A d \in Callers \ {c} : caller'[d] = caller[d]
    BY <1>0, <2>1, LeaveType DEF Answers
  <2>3. TokenCacheTypeOK'
    BY <1>0, <2>1, <2>2 DEF TokenCacheTypeOK
  <2> QED
    BY <2>1, <2>2, <2>3, HarmlessStep
<1>5. CASE Store(c)
  <2> DEFINE t == caller[c].token
             i == caller[c].review
             e == [identity |-> i, left |-> TTL]
  <2>1. t \in Tokens /\ i \in Identities /\ IsAuthenticated(c)
    BY <1>0, <1>5 DEF Store, IsAuthenticated, TokenCacheTypeOK, Caller, Answers
  <2>2. entry' = [entry EXCEPT ![t] = e]
    BY <1>5 DEF Store
  <2>3. Leave(c, i) /\ UNCHANGED <<identity, validAgo, sweep>>
    BY <1>5 DEF Store
  <2>4. /\ caller' \in [Callers -> Caller] /\ caller'[c].at = "idle"
        /\ \A d \in Callers \ {c} : caller'[d] = caller[d]
    BY <1>0, <2>1, <2>3, LeaveType DEF Answers
  <2>5. e \in Cached
    BY <2>1 DEF Cached
  <2>6. TokenCacheTypeOK'
    BY <1>0, <2>2, <2>3, <2>4, <2>5 DEF TokenCacheTypeOK
  <2>7. validAgo[t][i] \in 0..ReviewTime
    BY <1>0, <2>1 DEF ValidInv, AnswersWereValid, TokenCacheTypeOK, Caller
  <2>8. entry'[t] = e /\ \A u \in Tokens \ {t} : entry'[u] = entry[u]
    BY <1>0, <2>1, <2>2 DEF TokenCacheTypeOK
  <2>9. EntriesWereValid'
    <3> SUFFICES ASSUME NEW u \in Tokens, entry'[u] # NoEntry, entry'[u].left >= 0
                 PROVE validAgo'[u][entry'[u].identity] + entry'[u].left <= MostStale
      BY DEF EntriesWereValid
    <3>1. CASE u = t
      BY <2>3, <2>7, <2>8, <3>1 DEF MostStale
    <3>2. CASE u # t
      BY <2>3, <2>8, <3>2 DEF ValidInv, EntriesWereValid
    <3> QED
      BY <3>1, <3>2
  <2>10. CurrentIsValid' /\ AnswersWereValid'
    BY <2>3, <2>4 DEF ValidInv, CurrentIsValid, AnswersWereValid, IsAuthenticated
  <2> QED
    BY <2>6, <2>9, <2>10 DEF ValidInv
<1> QED
  BY <1>1, <1>2, <1>3, <1>4, <1>5

\* Every step of the sweeper keeps it: it only removes entries.
LEMMA SweepStep == ASSUME ValidInv, Sweep PROVE ValidInv'
<1>0. TokenCacheTypeOK
  BY DEF ValidInv
<1>1. UNCHANGED <<identity, validAgo, caller>>
  BY DEF Sweep, BeginSweep, VisitEntry, Evict
<1>2. /\ entry' \in [Tokens -> Cached \cup {NoEntry}]
      /\ \A t \in Tokens : entry'[t] = entry[t] \/ entry'[t] = NoEntry
  BY <1>0 DEF Sweep, BeginSweep, VisitEntry, Evict, TokenCacheTypeOK
<1>3. sweep' \in [todo: SUBSET Tokens, expired: SUBSET Tokens]
  <2>1. CASE BeginSweep
    BY <1>0, <2>1 DEF BeginSweep, TokenCacheTypeOK
  <2>2. ASSUME NEW t \in Tokens, VisitEntry(t)
        PROVE sweep' \in [todo: SUBSET Tokens, expired: SUBSET Tokens]
    <3>1. {x \in {t} : IsExpired(x)} \in SUBSET Tokens
      OBVIOUS
    <3>2. sweep.todo \ {t} \in SUBSET Tokens
      BY <1>0 DEF TokenCacheTypeOK
    <3> QED
      BY <2>2, <3>1, <3>2 DEF VisitEntry
  <2>3. ASSUME NEW t \in Tokens, Evict(t)
        PROVE sweep' \in [todo: SUBSET Tokens, expired: SUBSET Tokens]
    BY <1>0, <2>3 DEF Evict, TokenCacheTypeOK
  <2> QED
    BY <2>1, <2>2, <2>3 DEF Sweep
<1>4. TokenCacheTypeOK'
  BY <1>0, <1>1, <1>2, <1>3 DEF TokenCacheTypeOK
<1> QED
  BY <1>1, <1>2, <1>4, HarmlessStep

\* So does a change of what a token stands for: nothing grows older by it.
LEMMA ChangeStep ==
    ASSUME ValidInv, NEW t \in Tokens, NEW i \in Answers, ChangeIdentity(t, i)
    PROVE  ValidInv'
<1> USE MostStaleIsNat
<1>0. TokenCacheTypeOK
  BY DEF ValidInv
<1>1. identity' = [identity EXCEPT ![t] = i] /\ UNCHANGED <<entry, caller, sweep>>
  BY DEF ChangeIdentity
<1>2. validAgo' = [validAgo EXCEPT ![t] =
                      [j \in Identities |-> IF j = i THEN 0 ELSE validAgo[t][j]]]
  BY DEF ChangeIdentity
<1>3. validAgo' \in [Tokens -> [Identities -> 0..MostStale]]
  <2>1. [j \in Identities |-> IF j = i THEN 0 ELSE validAgo[t][j]]
            \in [Identities -> 0..MostStale]
    BY <1>0 DEF TokenCacheTypeOK
  <2> QED
    BY <1>0, <1>2, <2>1 DEF TokenCacheTypeOK
<1>4. TokenCacheTypeOK'
  BY <1>0, <1>1, <1>3 DEF TokenCacheTypeOK
<1>5. \A u \in Tokens, j \in Identities : validAgo'[u][j] <= validAgo[u][j]
  BY <1>0, <1>2 DEF TokenCacheTypeOK
<1>6. CurrentIsValid'
  BY <1>0, <1>1, <1>2 DEF ValidInv, CurrentIsValid, TokenCacheTypeOK
<1>7. EntriesWereValid'
  <2> SUFFICES ASSUME NEW u \in Tokens, entry[u] # NoEntry, entry[u].left >= 0
               PROVE validAgo'[u][entry[u].identity] + entry[u].left <= MostStale
    BY <1>1 DEF EntriesWereValid
  <2>1. entry[u].identity \in Identities /\ entry[u].left \in Int
    BY <1>0, TokenCacheAssumption DEF TokenCacheTypeOK, Cached
  <2>2. validAgo[u][entry[u].identity] + entry[u].left <= MostStale
    BY DEF ValidInv, EntriesWereValid
  <2>3. /\ validAgo[u][entry[u].identity] \in Int
        /\ validAgo'[u][entry[u].identity] \in Int
    BY <1>0, <1>3, <2>1 DEF TokenCacheTypeOK
  <2> QED
    BY <1>5, <2>1, <2>2, <2>3
<1>8. AnswersWereValid'
  <2> SUFFICES ASSUME NEW c \in Callers, IsAuthenticated(c)
               PROVE validAgo'[caller[c].token][caller[c].review] <= caller[c].waited
    BY <1>1 DEF AnswersWereValid, IsAuthenticated
  <2>1. /\ caller[c].token \in Tokens /\ caller[c].review \in Identities
        /\ caller[c].waited \in Int
    BY <1>0, TokenCacheAssumption
    DEF TokenCacheTypeOK, Caller, Answers, IsAuthenticated
  <2>2. validAgo[caller[c].token][caller[c].review] <= caller[c].waited
    BY DEF ValidInv, AnswersWereValid
  <2>3. /\ validAgo[caller[c].token][caller[c].review] \in Int
        /\ validAgo'[caller[c].token][caller[c].review] \in Int
    BY <1>0, <1>3, <2>1 DEF TokenCacheTypeOK
  <2> QED
    BY <1>5, <2>1, <2>2, <2>3
<1> QED
  BY <1>4, <1>6, <1>7, <1>8 DEF ValidInv

\* So does a tick: what grows older by one has one less left, or has waited
\* for one more.
LEMMA TickStep == ASSUME ValidInv, TokensAge PROVE ValidInv'
<1> USE MostStaleIsNat, TokenCacheAssumption
<1> DEFINE older(t, i) == IF identity[t] = i THEN 0
                          ELSE IF validAgo[t][i] = MostStale THEN MostStale
                          ELSE validAgo[t][i] + 1
           e(t) == IF entry[t] = NoEntry \/ Overdue(t) THEN entry[t]
                   ELSE [entry[t] EXCEPT !.left = @ - 1]
           n(c) == IF caller[c].at = "answer"
                   THEN [caller[c] EXCEPT !.waited = @ + 1] ELSE caller[c]
<1>0. TokenCacheTypeOK
  BY DEF ValidInv
<1>1. validAgo' = [t \in Tokens |-> [i \in Identities |-> older(t, i)]]
  BY DEF TokensAge
<1>2. entry' = [t \in Tokens |-> e(t)]
  BY DEF TokensAge
<1>3. caller' = [c \in Callers |-> n(c)]
  BY DEF TokensAge
<1>4. UNCHANGED <<identity, sweep>>
  BY DEF TokensAge
<1>5. \A t \in Tokens, i \in Identities :
          older(t, i) \in 0..MostStale /\ older(t, i) <= validAgo[t][i] + 1
  <2>1. \A t \in Tokens, i \in Identities : validAgo[t][i] \in 0..MostStale
    BY <1>0 DEF TokenCacheTypeOK
  <2> QED
    BY <2>1
<1>6. ASSUME NEW t \in Tokens, entry[t] # NoEntry, ~Overdue(t)
      PROVE /\ entry[t] \in Cached /\ entry[t].left >= 0
            /\ e(t) = [identity |-> entry[t].identity, left |-> entry[t].left - 1]
            /\ e(t) \in Cached
  BY <1>0, <1>6 DEF TokenCacheTypeOK, Cached, Overdue
<1>7. ASSUME NEW c \in Callers, caller[c].at = "answer"
      PROVE /\ caller[c].waited < ReviewTime
            /\ n(c).at = "answer" /\ n(c).token = caller[c].token
            /\ n(c).review = caller[c].review /\ n(c).waited = caller[c].waited + 1
            /\ n(c) \in Caller
  <2>1. caller[c].waited < ReviewTime
    BY <1>0, <1>7 DEF TokenCacheTypeOK, Caller, TokensAge
  <2>2. n(c) = [caller[c] EXCEPT !.waited = caller[c].waited + 1]
    BY <1>7
  <2>3. caller[c] \in Caller
    BY <1>0 DEF TokenCacheTypeOK
  <2>4. caller[c].waited + 1 \in 0..ReviewTime
    BY <2>1, <2>3 DEF Caller
  <2> QED
    BY <1>7, <2>1, <2>2, <2>3, <2>4 DEF Caller
<1>8. TokenCacheTypeOK'
  <2>1. validAgo' \in [Tokens -> [Identities -> 0..MostStale]]
    BY <1>1, <1>5
  <2>2. \A t \in Tokens : e(t) \in Cached \cup {NoEntry}
    BY <1>0, <1>6 DEF TokenCacheTypeOK
  <2>3. \A c \in Callers : n(c) \in Caller
    BY <1>0, <1>7 DEF TokenCacheTypeOK
  <2> QED
    BY <1>0, <1>2, <1>3, <1>4, <2>1, <2>2, <2>3 DEF TokenCacheTypeOK
<1>9. CurrentIsValid'
  BY <1>1, <1>4 DEF CurrentIsValid
<1>10. EntriesWereValid'
  <2> SUFFICES ASSUME NEW t \in Tokens, entry'[t] # NoEntry, entry'[t].left >= 0
               PROVE validAgo'[t][entry'[t].identity] + entry'[t].left <= MostStale
    BY DEF EntriesWereValid
  <2>1. entry'[t] = e(t)
    BY <1>2
  <2>2. entry[t] # NoEntry /\ ~Overdue(t)
    BY <1>0, <2>1 DEF Overdue, TokenCacheTypeOK, Cached
  <2>3. /\ entry[t].identity \in Identities /\ entry[t].left \in Nat
        /\ entry'[t].identity = entry[t].identity
        /\ entry'[t].left = entry[t].left - 1
    <3>1. entry[t] \in Cached /\ entry[t].left >= 0
      BY <1>6, <2>2
    <3>2. entry'[t] = [identity |-> entry[t].identity, left |-> entry[t].left - 1]
      BY <1>6, <2>1, <2>2
    <3> HIDE DEF e
    <3> QED
      BY <3>1, <3>2 DEF Cached
  <2>4. validAgo[t][entry[t].identity] + entry[t].left <= MostStale
    BY <2>2, <2>3 DEF ValidInv, EntriesWereValid
  <2>5. validAgo'[t][entry[t].identity] = older(t, entry[t].identity)
    BY <1>1, <2>3
  <2>6. validAgo[t][entry[t].identity] \in Nat
    BY <1>0, <2>3 DEF TokenCacheTypeOK
  <2> QED
    BY <1>5, <2>3, <2>4, <2>5, <2>6
<1>11. AnswersWereValid'
  <2> SUFFICES ASSUME NEW c \in Callers, IsAuthenticated(c)'
               PROVE validAgo'[caller'[c].token][caller'[c].review] <= caller'[c].waited
    BY DEF AnswersWereValid
  <2>1. caller'[c] = n(c)
    BY <1>3
  <2>2. caller[c].at = "answer" /\ IsAuthenticated(c)
    BY <1>7, <2>1 DEF IsAuthenticated
  <2>3. /\ caller[c].token \in Tokens /\ caller[c].review \in Identities
        /\ caller[c].waited \in Nat
    BY <1>0, <2>2 DEF TokenCacheTypeOK, Caller, Answers, IsAuthenticated
  <2>4. validAgo[caller[c].token][caller[c].review] <= caller[c].waited
    BY <2>2 DEF ValidInv, AnswersWereValid
  <2>5. validAgo'[caller[c].token][caller[c].review]
          = older(caller[c].token, caller[c].review)
    BY <1>1, <2>3
  <2>6. validAgo[caller[c].token][caller[c].review] \in Nat
    BY <1>0, <2>3 DEF TokenCacheTypeOK
  <2>7. /\ caller'[c].token = caller[c].token /\ caller'[c].review = caller[c].review
        /\ caller'[c].waited = caller[c].waited + 1
    BY <1>7, <2>1, <2>2
  <2> QED
    BY <1>5, <2>3, <2>4, <2>5, <2>6, <2>7
<1> QED
  BY <1>8, <1>9, <1>10, <1>11 DEF ValidInv

LEMMA ValidStep == ValidInv /\ [TokenCacheNext]_tokenCacheVars => ValidInv'
<1> SUFFICES ASSUME ValidInv, [TokenCacheNext]_tokenCacheVars PROVE ValidInv'
  OBVIOUS
<1>1. CASE UNCHANGED tokenCacheVars
  BY <1>1 DEF tokenCacheVars, ValidInv, TokenCacheTypeOK, CurrentIsValid,
              EntriesWereValid, AnswersWereValid, IsAuthenticated
<1>2. CASE TokenCacheNext
  BY <1>2, CallerStep, SweepStep, ChangeStep, TickStep DEF TokenCacheNext
<1> QED
  BY <1>1, <1>2

LEMMA ValidAlways == TokenCacheSpec => []ValidInv
  BY ValidInit, ValidStep, PTL DEF TokenCacheSpec

\* The types of TokenCache are kept: what is cached is an identity, never the
\* refusal of a token.
THEOREM TokenCacheTypeCorrect == TokenCacheSpec => []TokenCacheTypeOK
<1>1. ValidInv => TokenCacheTypeOK
  BY DEF ValidInv
<1> QED
  BY <1>1, ValidAlways, PTL

\* A request is only given an identity that its token stood for less than the
\* TTL and the timeout of a review ago, for any number of requests that load,
\* delete, review and store in any order.
THEOREM AuthenticatedIdentityWasValid == TokenCacheSpec => AuthenticatedWasValid
<1> USE MostStaleIsNat, TokenCacheAssumption
<1> DEFINE answered(c) == /\ caller[c] # caller'[c] /\ caller'[c].at = "idle"
                         /\ caller'[c].got # Invalid
           valid(c) == validAgo[caller'[c].token][caller'[c].got] < MostStale
<1>1. ASSUME ValidInv, [TokenCacheNext]_tokenCacheVars, NEW c \in Callers, answered(c)
      PROVE valid(c)
  <2>0. TokenCacheTypeOK
    BY <1>1 DEF ValidInv
  <2>1. PICK d \in Callers : \/ \E t \in Tokens : Load(d, t)
                             \/ DeleteExpired(d) \/ Review(d)
                             \/ Refuse(d) \/ Store(d)
                             \/ TokensAge
    BY <1>1 DEF TokenCacheNext, tokenCacheVars, Sweep, BeginSweep, VisitEntry,
                Evict, ChangeIdentity
  <2>2. ASSUME NEW t \in Tokens, Load(d, t)
        PROVE valid(c)
    <3>1. d = c /\ IsHit(t)
      BY <1>1, <2>0, <2>2 DEF Load, TokenCacheTypeOK, Caller
    <3>2. caller'[c].token = t /\ caller'[c].got = entry[t].identity
      BY <2>0, <2>2, <3>1, <1>1 DEF Load, TokenCacheTypeOK, Caller
    <3>3. entry[t].identity \in Identities /\ entry[t].left \in 1..TTL
      BY <2>0, <3>1 DEF IsHit, TokenCacheTypeOK, Cached
    <3>4. validAgo[t][entry[t].identity] + entry[t].left <= MostStale
      BY <1>1, <3>1, <3>3 DEF ValidInv, EntriesWereValid, IsHit
    <3>5. validAgo[t][entry[t].identity] \in Nat
      BY <2>0, <3>3 DEF TokenCacheTypeOK
    <3> QED
      BY <3>2, <3>3, <3>4, <3>5
  <2>3. CASE DeleteExpired(d) \/ Review(d)
    BY <1>1, <2>0, <2>3 DEF DeleteExpired, Review, TokenCacheTypeOK, Caller
  <2>4. CASE Refuse(d)
    <3>1. Leave(d, Invalid)
      BY <2>4 DEF Refuse
    <3>2. caller'[d].got = Invalid /\ \A b \in Callers \ {d} : caller'[b] = caller[b]
      BY <2>0, <3>1, LeaveType DEF Answers
    <3> QED
      BY <1>1, <3>2
  <2>5. CASE Store(d)
    <3>1. IsAuthenticated(d) /\ Leave(d, caller[d].review)
      BY <2>5 DEF Store
    <3>2. /\ caller[d].token \in Tokens /\ caller[d].review \in Identities
          /\ caller[d].waited \in 0..ReviewTime
      BY <2>0, <3>1 DEF TokenCacheTypeOK, Caller, Answers, IsAuthenticated
    <3>3. /\ caller'[d].got = caller[d].review /\ caller'[d].token = caller[d].token
          /\ \A b \in Callers \ {d} : caller'[b] = caller[b]
      BY <2>0, <3>1, <3>2, LeaveType DEF Answers
    <3>4. validAgo[caller[d].token][caller[d].review] <= caller[d].waited
      BY <1>1, <3>1 DEF ValidInv, AnswersWereValid
    <3>5. validAgo[caller[d].token][caller[d].review] \in Nat
      BY <2>0, <3>2 DEF TokenCacheTypeOK
    <3> QED
      BY <1>1, <3>2, <3>3, <3>4, <3>5
  <2>6. CASE TokensAge
    BY <1>1, <2>0, <2>6 DEF TokensAge, TokenCacheTypeOK, Caller
  <2> QED
    BY <2>1, <2>2, <2>3, <2>4, <2>5, <2>6
<1>2. ValidInv /\ [TokenCacheNext]_tokenCacheVars =>
        [\A c \in Callers :
          (caller[c] # caller'[c] /\ caller'[c].at = "idle"
                                  /\ caller'[c].got # Invalid) =>
              validAgo[caller'[c].token][caller'[c].got] < MostStale]_tokenCacheVars
  BY <1>1
<1> QED
  BY <1>2, ValidAlways, PTL DEF TokenCacheSpec, AuthenticatedWasValid

-----------------------------------------------------------------------------
(* ClusterHealth.                                                          *)

\* What is recorded of a cluster includes its present state and what a probe
\* that is under way has seen; with that, FlagIsRecent is inductive.
StatesAreRecorded ==
    \A c \in Clusters : /\ answers[c] \in states[c].now
                        /\ check.cluster = c => check.ok \in states[c].now

RecentInv == ClusterHealthTypeOK /\ StatesAreRecorded /\ FlagIsRecent

\* After the first probes the invariant holds.
LEMMA RecentInit == ClusterHealthInit => RecentInv
<1> SUFFICES ASSUME ClusterHealthInit PROVE RecentInv
  OBVIOUS
<1>1. answers \in [Clusters -> BOOLEAN] /\ healthy = answers
  BY DEF ClusterHealthInit
<1>2. \A c \in Clusters : {answers[c]} \in SUBSET BOOLEAN
  BY <1>1
<1>3. states = [c \in Clusters |-> [last |-> {answers[c]}, now |-> {answers[c]}]]
  BY DEF ClusterHealthInit
<1>4. states \in [Clusters -> [last: SUBSET BOOLEAN, now: SUBSET BOOLEAN]]
  BY <1>2, <1>3
<1>5. check = [todo |-> {}, cluster |-> Nobody, ok |-> FALSE]
  BY DEF ClusterHealthInit
<1>6. ClusterHealthTypeOK
  BY <1>1, <1>4, <1>5 DEF ClusterHealthTypeOK
<1>7. \A c \in Clusters : answers[c] \in states[c].now
  BY <1>3
<1> QED
  BY <1>1, <1>5, <1>6, <1>7, ClusterHealthAssumption
  DEF RecentInv, StatesAreRecorded, FlagIsRecent

\* Every step keeps it.
LEMMA RecentStep == RecentInv /\ [ClusterHealthNext]_clusterHealthVars => RecentInv'
<1> SUFFICES ASSUME RecentInv, [ClusterHealthNext]_clusterHealthVars
             PROVE RecentInv'
  OBVIOUS
<1> USE DEF RecentInv, ClusterHealthTypeOK
<1>1. CASE UNCHANGED clusterHealthVars
  BY <1>1 DEF clusterHealthVars, StatesAreRecorded, FlagIsRecent
<1>2. ASSUME NEW c \in Clusters, ClusterChanges(c)
      PROVE RecentInv'
  <2>1. ClusterHealthTypeOK'
    <3>1. answers' \in [Clusters -> BOOLEAN]
      BY <1>2 DEF ClusterChanges
    <3>2. states[c].now \cup {answers'[c]} \in SUBSET BOOLEAN
      BY <3>1
    <3>3. states' \in [Clusters -> [last: SUBSET BOOLEAN, now: SUBSET BOOLEAN]]
      BY <1>2, <3>2 DEF ClusterChanges
    <3> QED
      BY <1>2, <3>1, <3>3 DEF ClusterChanges
  <2>2. \A d \in Clusters : /\ states'[d].last = states[d].last
                            /\ states[d].now \subseteq states'[d].now
    BY <1>2 DEF ClusterChanges
  <2>3. answers'[c] \in states'[c].now
    BY <1>2 DEF ClusterChanges
  <2>4. \A d \in Clusters \ {c} : answers'[d] = answers[d]
    BY <1>2 DEF ClusterChanges
  <2>5. UNCHANGED <<healthy, check>>
    BY <1>2 DEF ClusterChanges
  <2> QED
    BY <2>1, <2>2, <2>3, <2>4, <2>5 DEF StatesAreRecorded, FlagIsRecent
<1>3. ASSUME BeginChecks
      PROVE RecentInv'
  <2>1. ClusterHealthTypeOK'
    BY <1>3, ClusterHealthAssumption DEF BeginChecks
  <2>2. \A d \in Clusters : healthy[d] \in states[d].now
    BY <1>3, ClusterHealthAssumption DEF BeginChecks, FlagIsRecent
  <2>3. \A d \in Clusters : /\ states'[d].last = states[d].now
                            /\ states'[d].now = {answers[d]}
                            /\ d \in check'.todo
    BY <1>3 DEF BeginChecks
  <2>4. UNCHANGED <<answers, healthy>> /\ check'.cluster = Nobody
    BY <1>3 DEF BeginChecks
  <2> QED
    BY <2>1, <2>2, <2>3, <2>4, ClusterHealthAssumption
    DEF StatesAreRecorded, FlagIsRecent
<1>4. ASSUME NEW c \in Clusters, Probe(c)
      PROVE RecentInv'
  <2>1. ClusterHealthTypeOK'
    BY <1>4, ClusterHealthAssumption DEF Probe, After
  <2>2. /\ check'.cluster = c /\ check'.ok = answers[c]
        /\ check.todo \subseteq check'.todo \cup {check'.cluster}
        /\ check.cluster = Nobody
    BY <1>4 DEF Probe, After
  <2>3. UNCHANGED <<answers, healthy, states>>
    BY <1>4 DEF Probe
  <2> QED
    BY <2>1, <2>2, <2>3, ClusterHealthAssumption
    DEF StatesAreRecorded, FlagIsRecent
<1>5. ASSUME NEW c \in Clusters, RecordHealth(c)
      PROVE RecentInv'
  <2>1. ClusterHealthTypeOK'
    BY <1>5, ClusterHealthAssumption DEF RecordHealth, Flag, Todo
  <2>2. /\ healthy'[c] = check.ok /\ check.cluster = c
        /\ \A d \in Clusters \ {c} : healthy'[d] = healthy[d]
    BY <1>5 DEF RecordHealth, Flag
  <2>3. check'.todo = check.todo /\ check'.cluster = Nobody
    BY <1>5 DEF RecordHealth, Todo
  <2>4. UNCHANGED <<answers, states>>
    BY <1>5 DEF RecordHealth
  <2> QED
    BY <2>1, <2>2, <2>3, <2>4, ClusterHealthAssumption
    DEF StatesAreRecorded, FlagIsRecent
<1> QED
  BY <1>1, <1>2, <1>3, <1>4, <1>5 DEF ClusterHealthNext

\* The types of ClusterHealth are kept, and a pass never probes a cluster
\* twice.
THEOREM ClusterHealthTypeCorrect == ClusterHealthSpec => []ClusterHealthTypeOK
<1>1. RecentInv => ClusterHealthTypeOK
  BY DEF RecentInv
<1> QED
  BY <1>1, RecentInit, RecentStep, PTL DEF ClusterHealthSpec

\* What a request reads of a cluster has been true of it since the last pass
\* of the health checks began, however clusters come and go during the passes.
THEOREM FlagsAreRecent == ClusterHealthSpec => []FlagIsRecent
<1>1. RecentInv => FlagIsRecent
  BY DEF RecentInv
<1> QED
  BY <1>1, RecentInit, RecentStep, PTL DEF ClusterHealthSpec

-----------------------------------------------------------------------------
(* MCRequestPath.  A step of a part is a step of its component, and the     *)
(* others rest.                                                             *)

LEMMA PartsBegin ==
    MCInit => RateLimitInit /\ TokenCacheInit /\ ClusterHealthInit /\ StartupInit
<1> DEFINE Kinds == [mode: {"passthrough", "openshift", "ldap"},
                     gitops: {"off", "token", "ssh"}, benchmarks: BOOLEAN]
<1>1. Wants \subseteq Kinds
  <2>1. ASSUME NEW m \in {"passthrough", "openshift", "ldap"},
               NEW g \in {"off", "token", "ssh"}, NEW b \in BOOLEAN
        PROVE  [mode |-> m, gitops |-> g, benchmarks |-> b] \in Kinds
    OBVIOUS
  <2>2. /\ [mode |-> "passthrough", gitops |-> "token", benchmarks |-> FALSE] \in Kinds
        /\ [mode |-> "openshift", gitops |-> "ssh", benchmarks |-> FALSE] \in Kinds
        /\ [mode |-> "ldap", gitops |-> "off", benchmarks |-> TRUE] \in Kinds
    BY <2>1
  <2> QED
    BY <2>2, Zenon DEF Wants
<1>2. ASSUME NEW w \in Wants, NEW off, NEW how \in [off -> Off],
             MCStartupInit(w, off, how)
      PROVE  StartupInit
  <2>1. w \in Kinds
    BY <1>1
  <2>2. \A s \in off : /\ how[s][1] \in {"absent", "blank", "wrong", "right"}
                       /\ how[s][2] \in {"unset", "wrong", "right"}
    BY DEF Off
  <2>3. file \in [Settings -> {"absent", "blank", "wrong", "right"}]
    BY <1>2, <2>2 DEF MCStartupInit
  <2>4. env \in [Settings -> {"unset", "wrong", "right"}]
    BY <1>2, <2>2 DEF MCStartupInit
  <2> QED
    BY <1>2, <2>1, <2>3, <2>4 DEF MCStartupInit, StartupInit, Links
<1>3. SettingsInit => StartupInit
  BY <1>2 DEF SettingsInit
<1>4. ASSUME LifeInit PROVE StartupInit
  <2>1. PICK w \in Wants : MCStartupInit(w, {}, <<>>)
    BY <1>4 DEF LifeInit
  <2>2. <<>> \in [{} -> Off]
    OBVIOUS
  <2> QED
    BY <1>2, <2>1, <2>2
<1> QED
  BY <1>3, <1>4 DEF MCInit

LEMMA PartsMove ==
    [MCNext]_MCvars => /\ [RateLimitNext]_rateLimitVars
                       /\ [TokenCacheNext]_tokenCacheVars
                       /\ [ClusterHealthNext]_clusterHealthVars
                       /\ [StartupNext]_startupVars
BY DEF MCNext, MCvars, LimitMoves, CacheMoves, HealthMoves, StartupMoves,
       Finished, SettingsMove, LifeMoves

\* Every variable of the middlewares and of the process that starts keeps its
\* type, whichever of them moves: the store of limiters never exceeds its
\* bound, and the cache never holds a refusal.
THEOREM RequestPathTypes == MCSpec => []RequestPathTypeOK
<1> DEFINE Inv == RateInv /\ ValidInv /\ RecentInv /\ StartupInv
<1>1. MCInit => Inv
  BY PartsBegin, RateInvInit, ValidInit, RecentInit, StartupAssumption, InitKeeps
<1>2. Inv /\ [MCNext]_MCvars => Inv'
  BY PartsMove, RateInvStep, ValidStep, RecentStep, StartupInvStep
<1>3. Inv => RequestPathTypeOK
  BY DEF RequestPathTypeOK, RateInv, StoreInv, ValidInv, RecentInv, StartupInv
<1> QED
  BY <1>1, <1>2, <1>3, PTL DEF MCSpec

=============================================================================
