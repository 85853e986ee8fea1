-------------------------- MODULE CappUpdateProofs --------------------------
(***************************************************************************)
(* Theorems about CappUpdate: its types, why an update is refused, and     *)
(* what it keeps.                                                          *)
(***************************************************************************)
EXTENDS CappUpdate, TLAPS

\* An update that is about to PUT has fetched a Capp, its flags do not exclude
\* each other and its environment variables are parsed: without this a refusal
\* could be for flags each of which could be given.
UpdateChecked(u) ==
    /\ update[u].at \in {"fetch", "put"} => ~ExcludeEachOther(update[u].flags)
    /\ update[u].at = "put" =>
          update[u].current \in Capp /\ ~EnvIsMalformed(update[u].flags)

\* Why the update of c with the flags f is refused.
HasCause(c, f) ==
    \/ CannotBePutBack(c, f) \/ AreMalformed(f)
    \/ /\ f.custom = Unset
       /\ GivenSize(f, SizeFromResources(c.amounts)) \in BadSizes

UpdatesChecked == \A u \in Updates : UpdateChecked(u)

UpdateInv == CappUpdateTypeOK /\ UpdatesChecked /\ RefusedForACause

-----------------------------------------------------------------------------
(* The conversions *)

LEMMA SizeType ==
    ASSUME NEW a PROVE SizeFromResources(a) \in CappSizes \cup {Unset}
BY DEF SizeFromResources, CappSizes

\* A size is that of the limits.
LEMMA SizeHasTheseLimits ==
    ASSUME NEW a, SizeFromResources(a) # Unset
    PROVE  Sizes[SizeFromResources(a)].limits = a.limits
BY CappUpdateAssumption DEF SizeFromResources, CappSizes

\* The document of a Capp, without resources, is a request.
LEMMA SeedType ==
    ASSUME NEW c \in Capp PROVE Seed(FromK8s(c)) \in Request
<1>1. SizeFromResources(c.amounts) \in CappSizes \cup {Unset}
    BY SizeType
<1>2. FromK8s(c).volumes \in [Volumes -> {"none", "secret", "configMap"}]
    BY DEF FromK8s, Capp
<1>3. QED
    BY <1>1, <1>2 DEF Seed, FromK8s, EnvFromK8s, Capp, Request, LogFields

\* Flags make requests of requests.
LEMMA WithFlagsType ==
    ASSUME NEW req \in Request, NEW f \in CommandLine, ~EnvIsMalformed(f)
    PROVE  WithFlags(req, f) \in Request
<1> DEFINE plain == Given(f.plain, req.plain)
           env == Given(f.env, req.env)
           size == IF f.custom # Unset THEN Unset ELSE GivenSize(f, req.size)
           custom == Custom(f)
           route == (req.route \cup f.set) \ f.clear
<1>1. WithFlags(req, f) = [req EXCEPT !.plain = plain, !.env = env,
                              !.size = size, !.custom = custom, !.route = route]
    BY DEF WithFlags
<1>2. plain \in Values \cup {Blank} /\ env \in {"value", "key", "empty"}
    BY DEF Given, Request, CommandLine, EnvIsMalformed
<1>3. size \in CappSizes \cup {Unset, Malformed}
    BY DEF Given, GivenSize, Request, CommandLine
<1>4. custom \in Written \cup {Unset}
    BY DEF Custom, CommandLine
<1>5. route \in SUBSET RouteFields
    BY DEF Request, CommandLine
<1> HIDE DEF plain, env, size, custom, route
<1>6. QED
    BY <1>1, <1>2, <1>3, <1>4, <1>5 DEF Request

LEMMA BodyType ==
    ASSUME NEW u \in Updates, update[u].current \in Capp,
           update[u].flags \in CommandLine, ~EnvIsMalformed(update[u].flags)
    PROVE  Body(u) \in Request
BY SeedType, WithFlagsType DEF Body

LEMMA ToK8sType ==
    ASSUME NEW req \in Request, IsAcceptable(req),
           NEW c \in Capp \cup {NoCapp}
    PROVE  ToK8s(req, c) \in Capp
<1>1. Base(c).amounts \in Amounts /\ Base(c).rest \in Values \cup {Unset}
    BY DEF Base, Capp, Amounts
<1>2. ResourcesOf(req, Base(c).amounts) \in Amounts
    BY <1>1 DEF ResourcesOf, IsAcceptable, ResourcesParse, BadSizes
<1>3. MountsOf(req) \in [Volumes -> Nat]
    BY DEF MountsOf, Uses, Request
<1>4. req.env \in {"value", "key", "field"}
    BY DEF IsAcceptable, HasOneSource, Request
<1>5. QED
    BY <1>1, <1>2, <1>3, <1>4 DEF ToK8s, Request, Capp

-----------------------------------------------------------------------------
(* The invariant *)

LEMMA UpdateInitInv == CappUpdateInit => UpdateInv
<1> SUFFICES ASSUME CappUpdateInit PROVE UpdateInv
    OBVIOUS
<1>1. PICK f \in Flags : update = [u \in Updates |->
            [at |-> "idle", flags |-> f, current |-> NoCapp]]
    BY DEF CappUpdateInit
<1>2. CappUpdateTypeOK
    BY <1>1, CappUpdateAssumption DEF CappUpdateInit, CappUpdateTypeOK, Update
<1>3. QED
    BY <1>1, <1>2 DEF UpdateInv, UpdatesChecked, UpdateChecked,
                      RefusedForACause

\* A command that ends keeps its flags and its copy.
LEMMA EndsKeeps ==
    ASSUME NEW u \in Updates, NEW at, CappUpdateTypeOK, Ends(u, at),
           at \in {"ok", "usage error", "not found", "bad request", "error"}
    PROVE  /\ update' \in [Updates -> Update]
           /\ update'[u].at = at
           /\ update'[u].current = update[u].current
           /\ update'[u].flags = update[u].flags
           /\ \A w \in Updates \ {u} : update'[w] = update[w]
BY DEF CappUpdateTypeOK, Ends, Update

\* A size and quantities that can be given make resources that parse.
LEMMA ResourcesHaveACause ==
    ASSUME NEW c \in Capp, NEW f \in CommandLine, ~ExcludeEachOther(f),
           NEW req, ~ResourcesParse(req),
           req.custom = Custom(f),
           req.size = IF f.custom # Unset THEN Unset
                      ELSE GivenSize(f, SizeFromResources(c.amounts))
    PROVE  HasCause(c, f)
<1>1. CASE f.custom # Unset
    <2>1. req.size = Unset /\ req.custom \in {f.custom, Unset}
        BY <1>1 DEF Custom
    <2>2. f.custom \notin Amounts
        BY <2>1 DEF ResourcesParse
    <2>3. QED
        BY <1>1, <2>2 DEF HasCause, AreMalformed
<1>2. CASE f.custom = Unset
    <2>1. req.custom = Unset
        BY <1>2 DEF Custom
    <2>2. req.size \notin (CappSizes \ BadSizes) \cup {Unset}
        BY <2>1 DEF ResourcesParse
    <2>3. req.size = GivenSize(f, SizeFromResources(c.amounts))
        BY <1>2
    <2>4. req.size \in CappSizes \cup {Unset, Malformed}
        BY <2>3, SizeType DEF GivenSize, Given, CommandLine
    <2>5. req.size = Malformed => f.size = Malformed
        BY <2>3, SizeType, CappUpdateAssumption DEF GivenSize, Given
    <2>6. QED
        BY <1>2, <2>2, <2>3, <2>4, <2>5 DEF HasCause, AreMalformed
<1>3. QED
    BY <1>1, <1>2

\* What a command is refused for: none of its flags excludes another, so the
\* request is refused for one of them, for what the document has made of the
\* Capp or for its size.
LEMMA RefusalHasACause ==
    ASSUME NEW u \in Updates, update[u].current \in Capp,
           update[u].flags \in CommandLine,
           ~ExcludeEachOther(update[u].flags), ~EnvIsMalformed(update[u].flags),
           ~IsAcceptable(Body(u))
    PROVE  HasCause(update[u].current, update[u].flags)
<1> DEFINE c == update[u].current
           f == update[u].flags
           req == Seed(FromK8s(c))
           cause(v) == c.mounts[v] >
                         (IF c.volumes[v] \in {"secret", "configMap"} THEN 0 ELSE 1)
<1>1. req \in Request
    BY SeedType
<1>2. /\ Body(u).mounts = c.mounts
      /\ Body(u).volumes = FromK8s(c).volumes
      /\ Body(u).plain = Given(f.plain, c.plain)
      /\ Body(u).env = Given(f.env, EnvFromK8s(c.env))
      /\ Body(u).extras = c.extras
      /\ Body(u).size = IF f.custom # Unset THEN Unset
                        ELSE GivenSize(f, SizeFromResources(c.amounts))
      /\ Body(u).custom = Custom(f)
    BY <1>1 DEF Body, WithFlags, Seed, FromK8s, Request
<1>3. CASE ~ResourcesParse(Body(u))
    BY <1>2, <1>3, ResourcesHaveACause
<1>4. CASE ~HasOneSource(Body(u).env)
    BY <1>2, <1>4
    DEF HasCause, CannotBePutBack, HasOneSource, Given, EnvFromK8s,
        CommandLine, Capp, EnvIsMalformed
<1>5. CASE \E v \in Volumes : ~(Uses(Body(u), v) <= 1)
    <2>1. PICK v \in Volumes : ~(Uses(Body(u), v) <= 1)
        BY <1>5
    <2>2. c.mounts[v] \in Nat
        BY DEF Capp
    <2>3. Body(u).volumes[v] = IF c.mounts[v] > 0 /\ c.volumes[v] # "other"
                               THEN c.volumes[v] ELSE "none"
        BY <1>2 DEF FromK8s
    <2>4. c.volumes[v] \in {"none", "secret", "configMap", "other"}
        BY DEF Capp
    <2>5. cause(v)
        BY <1>2, <2>1, <2>2, <2>3, <2>4 DEF Uses
    <2>6. QED
        BY <2>5 DEF HasCause, CannotBePutBack
<1>6. CASE ~IsBound(Body(u))
    BY <1>2, <1>6, CappUpdateAssumption
    DEF HasCause, CannotBePutBack, AreMalformed, IsBound, Given
<1>7. CASE ~ExtrasAreProper(Body(u))
    BY <1>2, <1>7 DEF HasCause, CannotBePutBack, ExtrasAreProper, Capp
<1>8. QED
    BY <1>3, <1>4, <1>5, <1>6, <1>7 DEF IsAcceptable

LEMMA UpdateNextInv == UpdateInv /\ [CappUpdateNext]_cappVars => UpdateInv'
<1> SUFFICES ASSUME UpdateInv, [CappUpdateNext]_cappVars PROVE UpdateInv'
    OBVIOUS
<1> USE DEF UpdateInv
<1>1. ASSUME NEW u \in Updates, NEW f \in Flags, BeginUpdate(u, f)
      PROVE  UpdateInv'
    <2>1. CappUpdateTypeOK'
        BY <1>1 DEF BeginUpdate, CappUpdateTypeOK, Update
    <2>2. \A w \in Updates \ {u} : update'[w] = update[w]
        BY <1>1 DEF BeginUpdate, CappUpdateTypeOK
    <2>3. /\ update'[u].flags = f
          /\ update'[u].at = IF ExcludeEachOther(f) THEN "usage error" ELSE "fetch"
        BY <1>1 DEF BeginUpdate, CappUpdateTypeOK, Update
    <2>4. UpdatesChecked' /\ RefusedForACause'
        BY <2>2, <2>3 DEF UpdatesChecked, UpdateChecked, RefusedForACause
    <2>5. QED
        BY <2>1, <2>4
<1>2. ASSUME NEW u \in Updates, FetchCapp(u) PROVE UpdateInv'
    <2>1. UNCHANGED capp /\ update[u].at = "fetch"
        BY <1>2 DEF FetchCapp
    <2>2. ASSUME NEW at \in {"error", "not found"}, Ends(u, at) PROVE UpdateInv'
        <3>1. /\ update' \in [Updates -> Update]
              /\ update'[u].at = at
              /\ \A w \in Updates \ {u} : update'[w] = update[w]
            BY <2>2, EndsKeeps
        <3>2. QED
            BY <2>1, <3>1 DEF CappUpdateTypeOK, UpdatesChecked,
               UpdateChecked, RefusedForACause
    <2>3. ASSUME NEW at \in {"usage error", "put"}, capp # NoCapp,
                 at = "put" => ~EnvIsMalformed(update[u].flags),
                 update' = [update EXCEPT ![u].current = capp, ![u].at = at]
          PROVE  UpdateInv'
        <3>1. CappUpdateTypeOK'
            BY <2>1, <2>3 DEF CappUpdateTypeOK, Update
        <3>2. \A w \in Updates \ {u} : update'[w] = update[w]
            BY <2>3 DEF CappUpdateTypeOK
        <3>3. /\ update'[u].at = at /\ update'[u].current = capp
              /\ update'[u].flags = update[u].flags
            BY <2>3 DEF CappUpdateTypeOK, Update
        <3>4. UpdatesChecked' /\ RefusedForACause'
            BY <2>1, <2>3, <3>2, <3>3
               DEF UpdatesChecked, UpdateChecked, RefusedForACause,
                   CappUpdateTypeOK
        <3>5. QED
            BY <3>1, <3>4
    <2>4. QED
        BY <1>2, <2>2, <2>3 DEF FetchCapp
<1>3. ASSUME NEW u \in Updates, PutUpdate(u) PROVE UpdateInv'
    <2>1. /\ update[u].at = "put" /\ update[u].current \in Capp
          /\ ~ExcludeEachOther(update[u].flags)
          /\ ~EnvIsMalformed(update[u].flags)
        BY <1>3 DEF PutUpdate, UpdatesChecked, UpdateChecked
    <2>2. update[u].flags \in CommandLine
        BY CappUpdateAssumption DEF CappUpdateTypeOK, Update
    <2>3. PICK at \in {"ok", "not found", "bad request", "error"} :
             /\ Ends(u, at)
             /\ at = "bad request" => ~IsAcceptable(Body(u))
        BY <1>3 DEF PutUpdate
    <2>4. /\ update' \in [Updates -> Update]
          /\ \A w \in Updates \ {u} : update'[w] = update[w]
        BY <2>3, EndsKeeps
    <2>5. /\ update'[u].at = at /\ update'[u].current = update[u].current
          /\ update'[u].flags = update[u].flags
        BY <2>3, EndsKeeps
    <2>6. capp' \in Capp \cup {NoCapp}
        <3>1. CASE UNCHANGED capp
            BY <3>1 DEF CappUpdateTypeOK
        <3>2. CASE IsAcceptable(Body(u)) /\ Writes(Body(u))
            BY <2>1, <2>2, <3>2, BodyType, ToK8sType DEF Writes, CappUpdateTypeOK
        <3>3. QED
            BY <1>3, <3>1, <3>2 DEF PutUpdate
    <2>7. UpdatesChecked'
        BY <2>4, <2>5 DEF UpdatesChecked, UpdateChecked
    <2>8. RefusedForACause'
        <3>1. ASSUME at = "bad request"
              PROVE  HasCause(update[u].current, update[u].flags)
            BY <2>1, <2>2, <2>3, <3>1, RefusalHasACause
        <3>2. \A w \in Updates : update[w].at = "bad request" =>
                    HasCause(update[w].current, update[w].flags)
            BY DEF RefusedForACause, HasCause
        <3>3. \A w \in Updates : update'[w].at = "bad request" =>
                    HasCause(update'[w].current, update'[w].flags)
            BY <2>4, <2>5, <3>1, <3>2
        <3>4. QED
            BY <3>3 DEF RefusedForACause, HasCause
    <2>9. QED
        BY <2>4, <2>6, <2>7, <2>8 DEF CappUpdateTypeOK
<1>4. ASSUME NEW req \in Bodies, PostBody(req) \/ PutBody(req) PROVE UpdateInv'
    <2>1. Writes(req) /\ IsAcceptable(req) /\ update' = update
        BY <1>4 DEF PostBody, PutBody
    <2>2. req \in Request
        BY CappUpdateAssumption
    <2>3. CappUpdateTypeOK'
        BY <2>1, <2>2, ToK8sType DEF Writes, CappUpdateTypeOK
    <2>4. QED
        BY <2>1, <2>3 DEF UpdatesChecked, UpdateChecked, RefusedForACause
<1>5. ASSUME NEW c \in Applied \cup {NoCapp}, Apply(c) PROVE UpdateInv'
    BY <1>5, CappUpdateAssumption
       DEF Apply, CappUpdateTypeOK, UpdatesChecked, UpdateChecked,
           RefusedForACause
<1>6. CASE UNCHANGED cappVars
    BY <1>6 DEF cappVars, CappUpdateTypeOK, UpdatesChecked, UpdateChecked,
                RefusedForACause
<1>7. QED
    BY <1>1, <1>2, <1>3, <1>4, <1>5, <1>6
       DEF CappUpdateNext, UpdateStep, OthersWrite

LEMMA UpdateInvHolds == CappUpdateSpec => []UpdateInv
BY UpdateInitInv, UpdateNextInv, PTL DEF CappUpdateSpec

-----------------------------------------------------------------------------
(* Steps that write the Capp *)

\* Only its own PUT makes an update succeed.
LEMMA SuccessIsAPut ==
    ASSUME UpdateInv, [CappUpdateNext]_cappVars,
           NEW u \in Updates, UpdateSucceeds(u)
    PROVE  /\ capp \in Capp /\ update[u].flags \in CommandLine
           /\ IsAcceptable(Body(u)) /\ Writes(Body(u))
<1> USE DEF UpdateInv, UpdateSucceeds
<1>1. capp \in Capp /\ update[u].flags \in CommandLine
    BY CappUpdateAssumption DEF UpdatesChecked, UpdateChecked, CappUpdateTypeOK, Update
<1>2. ASSUME NEW w \in Updates, NEW f \in Flags, BeginUpdate(w, f) PROVE FALSE
    BY <1>2 DEF BeginUpdate, CappUpdateTypeOK, Update
<1>3. ASSUME NEW w \in Updates, FetchCapp(w) PROVE FALSE
    BY <1>3 DEF FetchCapp, Ends, CappUpdateTypeOK, Update
<1>4. ASSUME NEW w \in Updates, PutUpdate(w)
      PROVE  IsAcceptable(Body(u)) /\ Writes(Body(u))
    <2>1. w = u
        BY <1>4 DEF PutUpdate, Ends, CappUpdateTypeOK, Update
    <2>2. ASSUME NEW at \in {"not found", "bad request", "error"}, Ends(u, at)
          PROVE  FALSE
        BY <2>2 DEF Ends, CappUpdateTypeOK, Update
    <2>3. QED
        BY <1>4, <2>1, <2>2 DEF PutUpdate
<1>5. ASSUME update' = update PROVE FALSE
    BY <1>5
<1>6. QED
    BY <1>1, <1>2, <1>3, <1>4, <1>5
       DEF CappUpdateNext, UpdateStep, OthersWrite, PostBody, PutBody, Apply, cappVars

\* There and back: what the document does not lose, and no flag names, stays.
LEMMA PutBackStays ==
    ASSUME NEW c \in Capp, NEW f \in CommandLine,
           IsAcceptable(WithFlags(Seed(FromK8s(c)), f))
    PROVE  LET new == ToK8s(WithFlags(Seed(FromK8s(c)), f), c)
               size == SizeFromResources(c.amounts)
           IN  /\ f.plain = Unset => new.plain = c.plain
               /\ f.env = Unset => new.env = c.env
               /\ f.size = Unset /\ f.custom = Unset =>
                     /\ new.amounts.limits = c.amounts.limits
                     /\ size = Unset \/ c.amounts = Sizes[size] =>
                           new.amounts = c.amounts
               /\ \A x \in RouteFields \ (f.set \cup f.clear) :
                     x \in new.route <=> x \in c.route
               /\ "type" \in c.log => new.log = c.log
               /\ new.mounts = c.mounts
<1> DEFINE req == Seed(FromK8s(c))
           body == WithFlags(req, f)
           new == ToK8s(body, c)
           size == SizeFromResources(c.amounts)
<1>1. req \in Request
    BY SeedType
<1>2. /\ body.plain = Given(f.plain, c.plain)
      /\ body.env = Given(f.env, EnvFromK8s(c.env))
      /\ body.size = IF f.custom # Unset THEN Unset ELSE GivenSize(f, size)
      /\ body.custom = Custom(f)
      /\ body.route = (c.route \cup f.set) \ f.clear
      /\ body.mounts = c.mounts /\ body.volumes = FromK8s(c).volumes
      /\ body.log = FromK8s(c).log
    BY <1>1 DEF WithFlags, Seed, FromK8s, Request
<1> HIDE DEF req, body
<1>3. /\ new.plain = body.plain /\ new.env = body.env
      /\ new.route = body.route /\ new.log = body.log
      /\ new.mounts = MountsOf(body)
      /\ new.amounts = ResourcesOf(body, c.amounts)
    BY CappUpdateAssumption DEF ToK8s, Base
<1>4. f.plain = Unset => new.plain = c.plain
    BY <1>2, <1>3 DEF Given
<1>5. f.env = Unset => new.env = c.env
    BY <1>2, <1>3 DEF Given, EnvFromK8s, IsAcceptable, HasOneSource, body, req
<1>6. ASSUME f.size = Unset, f.custom = Unset
      PROVE  /\ new.amounts.limits = c.amounts.limits
             /\ size = Unset \/ c.amounts = Sizes[size] => new.amounts = c.amounts
    <2>1. body.size = size /\ body.custom = Unset
        BY <1>2, <1>6, CappUpdateAssumption DEF Given, GivenSize, Custom
    <2>2. new.amounts = IF size # Unset THEN Sizes[size] ELSE c.amounts
        BY <1>3, <2>1 DEF ResourcesOf
    <2>3. QED
        BY <2>2, SizeHasTheseLimits
<1>7. \A x \in RouteFields \ (f.set \cup f.clear) : x \in new.route <=> x \in c.route
    BY <1>2, <1>3
<1>8. "type" \in c.log => new.log = c.log
    BY <1>2, <1>3 DEF FromK8s
<1>9. new.mounts = c.mounts
    <2>1. ASSUME NEW v \in Volumes PROVE Uses(body, v) = c.mounts[v]
        <3>1. Uses(body, v) <= 1
            BY DEF IsAcceptable, body, req
        <3>2. c.mounts[v] \in Nat
            BY DEF Capp
        <3>3. body.volumes[v] = IF c.mounts[v] > 0 /\ c.volumes[v] # "other"
                                THEN c.volumes[v] ELSE "none"
            BY <1>2 DEF FromK8s
        <3>4. QED
            BY <1>2, <3>1, <3>2, <3>3 DEF Uses
    <2>2. c.mounts \in [Volumes -> Nat]
        BY DEF Capp
    <2>3. QED
        BY <1>3, <2>1, <2>2 DEF MountsOf
<1>10. QED
    BY <1>4, <1>5, <1>6, <1>7, <1>8, <1>9 DEF req, body

-----------------------------------------------------------------------------
(* Theorems *)

\* What ToK8s and the flags of cappctl make are Capps and requests.
THEOREM CappUpdateTypeCorrect == CappUpdateSpec => []CappUpdateTypeOK
BY UpdateInvHolds, PTL DEF UpdateInv

\* `cappctl update` is refused for what is in the Capp, for a flag of which no
\* Capp could be given the value, or for a size that the configuration gets
\* wrong; never for how the flags and the document go together.
THEOREM RefusalsHaveACause == CappUpdateSpec => []RefusedForACause
BY UpdateInvHolds, PTL DEF UpdateInv

\* Whatever others have in the Capp and whichever flags are given, an update
\* that nobody has come between changes what its flags name.
THEOREM UpdateKeepsTheRest == CappUpdateSpec => UpdateChangesWhatFlagsName
<1>1. ASSUME UpdateInv, [CappUpdateNext]_cappVars,
             NEW u \in Updates, UpdateSucceeds(u)
      PROVE  OnlyFlaggedFieldsChange(u)
    <2> DEFINE f == update[u].flags
    <2>1. /\ capp \in Capp /\ f \in CommandLine
          /\ IsAcceptable(Body(u)) /\ Writes(Body(u))
        BY <1>1, SuccessIsAPut
    <2>2. Body(u) = WithFlags(Seed(FromK8s(capp)), f)
        BY <1>1 DEF Body, UpdateSucceeds
    <2>3. capp' = ToK8s(WithFlags(Seed(FromK8s(capp)), f), capp)
        BY <2>1, <2>2 DEF Writes
    <2>4. QED
        BY <2>1, <2>2, <2>3, PutBackStays DEF OnlyFlaggedFieldsChange
<1>2. UpdateInv /\ [CappUpdateNext]_cappVars =>
         [\A u \in Updates : UpdateSucceeds(u) => OnlyFlaggedFieldsChange(u)]_cappVars
    BY <1>1
<1>3. QED
    BY <1>2, UpdateInvHolds, PTL DEF CappUpdateSpec, UpdateChangesWhatFlagsName


=============================================================================
