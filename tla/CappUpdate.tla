----------------------------- MODULE CappUpdate -----------------------------
(***************************************************************************)
(* What an update of a Capp through the API keeps.  The backend shows a    *)
(* Capp as a flat document (BareFromK8s) and writes one back (ToK8s);      *)
(* `cappctl update capps` fetches the document, changes the fields its     *)
(* flags name, and PUTs all of it (internal/cli/capps/capps.go).  Others   *)
(* write the Capp past the backend: kubectl, Argo CD.                      *)
(*                                                                         *)
(* A field of a Capp here stands for all the fields that the code treats   *)
(* alike.  CPU and memory are one amount, 0 when there is none.            *)
(***************************************************************************)
EXTENDS Naturals

CONSTANTS
    Updates,        \* runs of `cappctl update capps`
    Values,         \* of the fields that are shown and written as they are
    Volumes,        \* names of volumes
    Sizes,          \* what the configuration says of each size
    Applied,        \* the Capps that others write
    Bodies,         \* the requests of other clients of the API
    Flags,          \* command lines
    NoCapp, Unset,  \* there is no such Capp; not given
    Blank,          \* given, but empty
    Malformed       \* a word that is no size, no quantity, no KEY=VALUE

CappSizes == {"small", "medium", "large"}
RouteFields == {"hostname", "tls", "timeout"}
LogFields == {"type", "host"}
NoVolumes == [v \in Volumes |-> "none"]
Amounts == [requests: Nat, limits: Nat]

\* Amounts as they are written down.  An empty quantity of the configuration is
\* malformed, one of a request is not given.
Written == [requests: Nat \cup {Malformed}, limits: Nat \cup {Malformed}]

\* plain: the image, which a request must not leave blank, and what is shown and
\* written as it is.
\* env: where the value of an environment variable comes from.  The document
\* has no word for "field" (and others), and shows a source that is empty.
\* extras: the pull secrets, NFS volumes and event sources.  "improper": one
\* is shown in a way that ToK8s or the binding refuses, a pull secret with a
\* name that is none or listed twice, a volume without a capacity, a source
\* that is neither a ping nor a kafka source or has a URI that is none.
\* mounts: how often the container mounts a volume, by the volume's name.
\* Those that are not among `volumes` are NFS volumes.
\* rest: what the document does not show of the first container and the
\* template: probes, annotations, ...
Capp == [plain: Values \cup {Blank}, env: {"value", "key", "field"},
         extras: {"proper", "improper"}, amounts: Amounts,
         mounts: [Volumes -> Nat],
         volumes: [Volumes -> {"none", "secret", "configMap", "other"}],
         route: SUBSET RouteFields, log: SUBSET LogFields,
         rest: Values \cup {Unset}, sidecar: BOOLEAN]

\* A CappRequest, which is also what a client makes of the document.
Request == [plain: Values \cup {Blank}, env: {"value", "key", "empty"},
            extras: {"proper", "improper"},
            size: CappSizes \cup {Unset, Malformed},
            custom: Written \cup {Unset},
            mounts: [Volumes -> Nat],
            volumes: [Volumes -> {"none", "secret", "configMap"}],
            route: SUBSET RouteFields, log: SUBSET LogFields]

\* A command line of `cappctl update capps`.  Of the route's fields, those in
\* `set` get a value and those in `clear` the empty one.
CommandLine == [plain: Values \cup {Unset, Blank},
                env: {"value", Unset, Malformed},
                size: CappSizes \cup {Unset, Blank, Malformed},
                custom: Written \cup {Unset},
                set: SUBSET RouteFields, clear: SUBSET {"hostname", "tls"}]

ASSUME CappUpdateAssumption ==
    /\ Sizes \in [CappSizes -> Written]
    /\ Applied \subseteq Capp /\ Bodies \subseteq Request
    /\ Flags \subseteq CommandLine
    /\ NoCapp \notin Capp
    /\ {Unset, Blank, Malformed} \cap (CappSizes \cup {"value"}) = {}
    /\ Unset \notin Values \cup Written \cup Request \cup {Blank, Malformed}
    /\ Blank \notin Values \cup {Malformed}
    /\ Malformed \notin Nat

VARIABLES
    capp,           \* the Capp, or NoCapp
    update          \* the commands: their flags and what they have fetched

cappVars == <<capp, update>>

Update == [at: {"idle", "fetch", "put", "ok", "usage error", "not found",
                "bad request", "error"},
           flags: Flags, current: Capp \cup {NoCapp}]

CappUpdateInit ==
    /\ capp \in Applied \cup {NoCapp}
    /\ \E f \in Flags :
          update = [u \in Updates |->
                       [at |-> "idle", flags |-> f, current |-> NoCapp]]

-----------------------------------------------------------------------------
(* From a Capp to the document and back *)

\* Mutant of SizeFromResources: the size is read off the requests.
SizeFromRequests(amounts) ==
    IF Sizes["small"].requests = amounts.requests THEN "small"
    ELSE IF Sizes["medium"].requests = amounts.requests THEN "medium"
    ELSE IF Sizes["large"].requests = amounts.requests THEN "large"
    ELSE Unset

\* The first size with these limits; the requests are not looked at.
SizeFromResources(amounts) ==
    IF Sizes["small"].limits = amounts.limits THEN "small"
    ELSE IF Sizes["medium"].limits = amounts.limits THEN "medium"
    ELSE IF Sizes["large"].limits = amounts.limits THEN "large"
    ELSE Unset

EnvFromK8s(env) == IF env = "field" THEN "empty" ELSE env

\* Every mount is shown as such, also that of a volume that is shown as well.
FromK8s(c) ==
    [plain |-> c.plain, env |-> EnvFromK8s(c.env),
     extras |-> c.extras,
     size |-> SizeFromResources(c.amounts), resources |-> c.amounts,
     mounts |-> c.mounts,
     volumes |-> [v \in Volumes |->
                     IF c.mounts[v] > 0 /\ c.volumes[v] # "other"
                     THEN c.volumes[v] ELSE "none"],
     route |-> c.route,
     log |-> IF "type" \in c.log THEN c.log ELSE {}]

\* How often a request names a volume.
Uses(req, v) == req.mounts[v] + (IF req.volumes[v] = "none" THEN 0 ELSE 1)

\* The body is bound: the required fields are there.
IsBound(req) == req.plain # Blank

\* A valueFrom has exactly one of its kinds.
HasOneSource(env) == env # "empty"

ExtrasAreProper(req) == req.extras = "proper"

\* The sizes the configuration gives quantities that are none; it is not checked.
BadSizes == {s \in CappSizes : Sizes[s] \notin Amounts}

\* A size, or custom resources, or neither, and in quantities that parse.
ResourcesParse(req) ==
    /\ req.size = Unset \/ req.custom = Unset
    /\ req.size \in (CappSizes \ BadSizes) \cup {Unset}
    /\ req.custom \in Amounts \cup {Unset}

\* What is not answered with 400: by the binding, or by an error of ToK8s.
IsAcceptable(req) ==
    /\ IsBound(req)
    /\ HasOneSource(req.env)
    /\ \A v \in Volumes : Uses(req, v) <= 1
    /\ ExtrasAreProper(req)
    /\ ResourcesParse(req)

\* Secret and ConfigMap volumes are mounted by their own entries.
MountsOf(req) == [v \in Volumes |-> Uses(req, v)]

\* What ToK8s starts from: a deep copy of the object, if there is one.
Base(existing) ==
    IF existing = NoCapp
    THEN [amounts |-> [requests |-> 0, limits |-> 0], rest |-> Unset]
    ELSE [amounts |-> existing.amounts, rest |-> existing.rest]

\* A size sets requests and limits, custom resources as well: what they do not
\* give is gone.  Without either the container keeps what it has.
ResourcesOf(req, present) ==
    CASE req.size # Unset -> Sizes[req.size]
      [] req.custom # Unset -> req.custom
      [] OTHER -> present

\* The first container is kept, changed; the others, and the volumes, are not.
ToK8s(req, existing) ==
    [plain |-> req.plain, env |-> req.env, extras |-> req.extras,
     amounts |-> ResourcesOf(req, Base(existing).amounts),
     mounts |-> MountsOf(req), volumes |-> req.volumes,
     route |-> req.route, log |-> req.log,
     rest |-> Base(existing).rest, sidecar |-> FALSE]

-----------------------------------------------------------------------------
(* cappctl update *)

\* The document without its resources: `size` stands for them, if there is one.
Seed(doc) ==
    [plain |-> doc.plain, env |-> doc.env, extras |-> doc.extras, size |-> doc.size,
     custom |-> Unset, mounts |-> doc.mounts, volumes |-> doc.volumes,
     route |-> doc.route, log |-> doc.log]

Given(flag, otherwise) == IF flag = Unset THEN otherwise ELSE flag

\* `--size ""` asks for no size.
GivenSize(f, fetched) == IF f.size = Blank THEN Unset ELSE Given(f.size, fetched)

\* Flags that are given empty make no custom resources (buildCustomResources).
Custom(f) == IF f.custom = [requests |-> 0, limits |-> 0] THEN Unset ELSE f.custom

\* Mutant of WithFlags: resource flags leave the fetched size in place.
WithFlagsAndSize(req, f) ==
    [req EXCEPT !.plain = Given(f.plain, @), !.env = Given(f.env, @),
                !.size = GivenSize(f, @),
                !.custom = Custom(f),
                !.route = (@ \cup f.set) \ f.clear]

WithFlags(req, f) ==
    [req EXCEPT !.plain = Given(f.plain, @), !.env = Given(f.env, @),
                !.size = IF f.custom # Unset THEN Unset ELSE GivenSize(f, @),
                !.custom = Custom(f),
                !.route = (@ \cup f.set) \ f.clear]

Body(u) == WithFlags(Seed(FromK8s(update[u].current)), update[u].flags)

ExcludeEachOther(f) == f.size # Unset /\ f.custom # Unset

\* parseEnvPairs.  The other flags are left to the backend.
EnvIsMalformed(f) == f.env = Malformed

LacksHostname(req, f) ==
    /\ f.set \cup f.clear # {}
    /\ "tls" \in req.route /\ "hostname" \notin req.route

-----------------------------------------------------------------------------
Ends(u, at) == update' = [update EXCEPT ![u].at = at]

BeginUpdate(u, f) ==
    /\ update[u].at = "idle"
    /\ update' = [update EXCEPT
                    ![u].flags = f,
                    ![u].at = IF ExcludeEachOther(f) THEN "usage error" ELSE "fetch"]
    /\ UNCHANGED capp

\* The GET, and what the flags make of what it returns.
FetchCapp(u) ==
    /\ update[u].at = "fetch"
    /\ \/ Ends(u, "error")
       \/ capp = NoCapp /\ Ends(u, "not found")
       \/ /\ capp # NoCapp
          /\ LET f == update[u].flags
             IN  update' = [update EXCEPT
                    ![u].current = capp,
                    ![u].at = IF \/ EnvIsMalformed(f)
                                 \/ LacksHostname(WithFlags(Seed(FromK8s(capp)), f), f)
                              THEN "usage error" ELSE "put"]
    /\ UNCHANGED capp

\* The handler's read and Update are one step: an Update that is not of the
\* version that was read, or that the API server or a webhook finds invalid, is
\* refused, an "error" like any other.
Writes(req) == capp' = ToK8s(req, capp)

PutUpdate(u) ==
    /\ update[u].at = "put"
    /\ \/ /\ capp = NoCapp /\ Ends(u, "not found")
          /\ UNCHANGED capp
       \/ /\ capp # NoCapp /\ ~IsAcceptable(Body(u)) /\ Ends(u, "bad request")
          /\ UNCHANGED capp
       \/ /\ capp # NoCapp /\ IsAcceptable(Body(u)) /\ Writes(Body(u))
          /\ Ends(u, "ok") \/ Ends(u, "error")
       \/ Ends(u, "error") /\ UNCHANGED capp

\* POST and PUT by other clients of the API; those that are refused or fail
\* change nothing.
PostBody(req) ==
    /\ capp = NoCapp /\ IsAcceptable(req)
    /\ Writes(req) /\ update' = update

PutBody(req) ==
    /\ capp # NoCapp /\ IsAcceptable(req)
    /\ Writes(req) /\ update' = update

\* Others write the Capp, or delete it, here or elsewhere.
Apply(c) == capp' = c /\ update' = update

UpdateStep(u) ==
    (\E f \in Flags : BeginUpdate(u, f)) \/ FetchCapp(u) \/ PutUpdate(u)

OthersWrite ==
    \/ \E req \in Bodies : PostBody(req) \/ PutBody(req)
    \/ \E c \in Applied \cup {NoCapp} : Apply(c)

CappUpdateNext == (\E u \in Updates : UpdateStep(u)) \/ OthersWrite

CappUpdateSpec == CappUpdateInit /\ [][CappUpdateNext]_cappVars

-----------------------------------------------------------------------------
(* Properties *)

\* The PUT of an update that nobody has come between.
UpdateSucceeds(u) ==
    update[u].at = "put" /\ update'[u].at = "ok" /\ capp = update[u].current

\* Every variable has its type: ToK8s and the flags make Capps and requests.
CappUpdateTypeOK ==
    /\ capp \in Capp \cup {NoCapp}
    /\ update \in [Updates -> Update]

\* A `cappctl update` that succeeds on the Capp it has fetched changes the
\* fields its flags name, and otherwise only what the document does not show:
\* it is fetched, changed and put back as a whole, and still the same.  The
\* requests of a Capp stay if they are those of the size its limits have, or
\* if its limits have none.
OnlyFlaggedFieldsChange(u) ==
    LET f == update[u].flags
        size == SizeFromResources(capp.amounts)
    IN  /\ f.plain = Unset => capp'.plain = capp.plain
        /\ f.env = Unset => capp'.env = capp.env
        /\ f.size = Unset /\ f.custom = Unset =>
              /\ capp'.amounts.limits = capp.amounts.limits
              /\ size = Unset \/ capp.amounts = Sizes[size] =>
                    capp'.amounts = capp.amounts
        /\ \A x \in RouteFields \ (f.set \cup f.clear) :
              x \in capp'.route <=> x \in capp.route
        /\ "type" \in capp.log => capp'.log = capp.log
        /\ capp'.mounts = capp.mounts

UpdateChangesWhatFlagsName ==
    [][\A u \in Updates : UpdateSucceeds(u) => OnlyFlaggedFieldsChange(u)]_cappVars

\* The Capp c that f was to change, as the backend cannot take it back: it has
\* something that no flag replaces and that is refused as the document shows it,
\* or a volume that the document lists twice, because it is mounted twice or
\* because it is a Secret's or a ConfigMap's.
CannotBePutBack(c, f) ==
    \/ f.plain = Unset /\ c.plain = Blank
    \/ f.env = Unset /\ c.env = "field"
    \/ c.extras = "improper"
    \/ \E v \in Volumes :
          c.mounts[v] > (IF c.volumes[v] \in {"secret", "configMap"} THEN 0 ELSE 1)

\* Flags that no Capp can be given: cappctl does not check them.
AreMalformed(f) ==
    \/ f.plain = Blank \/ f.size = Malformed
    \/ f.custom # Unset /\ f.custom \notin Amounts

\* An update is refused by the backend for a value of a flag that is none, for
\* what was in the Capp it fetched, or for a size that the configuration gets
\* wrong.  A document that can be put back, and flags each of which can be
\* given, never make a request together that is refused; and it does not
\* matter what others make of the Capp after it was fetched.
RefusedForACause ==
    \A u \in Updates : update[u].at = "bad request" =>
        LET c == update[u].current
            f == update[u].flags
        IN  \/ CannotBePutBack(c, f) \/ AreMalformed(f)
            \/ /\ f.custom = Unset
               /\ GivenSize(f, SizeFromResources(c.amounts)) \in BadSizes

\* docs/cappctl.md: "Fields not specified on the command line are preserved."
\* Does not hold for the resources: a size is read off the limits, and sets
\* the requests.
UnspecifiedFieldsArePreserved ==
    [][\A u \in Updates : UpdateSucceeds(u) =>
          LET f == update[u].flags
          IN  /\ f.plain = Unset => capp'.plain = capp.plain
              /\ f.env = Unset => capp'.env = capp.env
              /\ f.size = Unset /\ f.custom = Unset => capp'.amounts = capp.amounts
      ]_cappVars

=============================================================================
