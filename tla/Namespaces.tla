----------------------------- MODULE Namespaces -----------------------------
(***************************************************************************)
(* The handlers of internal/resources/cluster/namespaces that write: POST  *)
(* creates a namespace with a ResourceQuota and a RoleBinding, PUT         *)
(* replaces the two, PATCH adds users to the RoleBinding and DELETE        *)
(* removes the namespace when it has no Capp.  Every API call is one       *)
(* action, and requests interleave between their calls.                    *)
(*                                                                         *)
(* The model follows one namespace name.  The access reviews that precede  *)
(* the calls, and the reads that make up the response body, change nothing *)
(* and are left out.                                                       *)
(***************************************************************************)
EXTENDS Naturals, FiniteSets

CONSTANTS
    NamespaceRequests,  \* the requests of one behaviour
    Users,          \* the users of RoleBindings
    Resources,      \* the resources a quota limits
    MaxAmount,      \* the largest amount of a resource
    MaxRequests,    \* how many requests may be in flight at once
    NamespaceFaults,
                    \* "api": a call fails without effect,
                    \* "lost": a call takes effect and its answer is lost,
                    \* "crash": the process serving a request dies
    Absent,         \* a key that a quota does not have
    NoQuota, NoBinding, Invalid

RequestKinds == {"post", "put", "patch", "delete", "capp"}
QuotaAmounts == 0 .. MaxAmount
Hard == [Resources -> QuotaAmounts \cup {Absent}]

ASSUME NamespacesAssumption ==
    /\ MaxAmount \in Nat /\ MaxRequests \in Nat
    /\ Absent \notin Nat
    /\ NoQuota \notin [hard : Hard, used : Hard]
    /\ NoQuota \notin Hard /\ Invalid \notin Hard \cup {NoQuota}
    /\ \A users \in SUBSET Users : NoBinding # users

VARIABLES
    phase,      \* of the namespace: "none", "Active" or "Terminating"
    quota,      \* the ResourceQuota <ns>-quota: its limits and their usage
    binding,    \* the RoleBinding <ns>-capp-access: the users it names
    capps,      \* the Capps in the namespace, by the requests that created them
    fresh,      \* [quota, binding]: the requests that have read the object
                \* and have read its present resourceVersion
    request     \* the requests, with the local state of their handlers

namespaceVars == <<phase, quota, binding, capps, fresh, request>>

RequestSteps == {"create", "createQuota", "createBinding",
                 "get", "getQuota", "putQuota", "newQuota", "getBinding",
                 "putBinding", "newBinding", "list", "delete", "capp"}
RequestReplies ==
    {"none", "ok", "conflict", "notfound", "rejected", "failed"}

\* quota and users: what the body asks for; NoQuota and NoBinding when it
\* does not name them, Invalid when an amount cannot be parsed.
\* subjects: the users to be written to the RoleBinding.
\* older, a history: the Capps that were there before a DELETE came.
NamespaceRequest == [kind: RequestKinds, pc: RequestSteps \cup {"idle", "done"},
            quota: Hard \cup {NoQuota, Invalid},
            users: {NoBinding} \cup SUBSET Users,
            subjects: {NoBinding} \cup SUBSET Users,
            older: SUBSET NamespaceRequests, reply: RequestReplies]
NoRequest == [kind |-> "capp", pc |-> "idle", quota |-> NoQuota,
              users |-> NoBinding, subjects |-> NoBinding, older |-> {},
              reply |-> "none"]

-----------------------------------------------------------------------------
(* Helpers. *)

RequestsInFlight == {r \in NamespaceRequests : request[r].pc \in RequestSteps}
At(r, pc) == request[r].pc = pc
Is(r, kind) == request[r].kind = kind

Goto(r, pc) == request' = [request EXCEPT ![r].pc = pc]
\* The request is answered, and what it knew is gone.
AnswerRequest(r, code) ==
    request' = [request EXCEPT ![r] =
                  [NoRequest EXCEPT !.pc = "done", !.reply = code]]

\* A call fails without effect.
NamespaceCallFails(r) ==
    /\ "api" \in NamespaceFaults
    /\ AnswerRequest(r, "failed")
    /\ UNCHANGED <<phase, quota, binding, capps, fresh>>

\* A call that took effect is answered: the handler goes on, or the answer
\* is lost.
Answered(r, pc, code) ==
    \/ IF pc = "done" THEN AnswerRequest(r, code) ELSE Goto(r, pc)
    \/ "lost" \in NamespaceFaults /\ AnswerRequest(r, "failed")

\* The namespace accepts new objects.
NamespaceOpen == phase = "Active"

\* A write to an object outdates what the others have read.
QuotaWritten == fresh' = [fresh EXCEPT !.quota = {}]
BindingWritten == fresh' = [fresh EXCEPT !.binding = {}]

\* Update compares the resourceVersion of what was read.
VersionMatches(seen, r) == r \in seen

-----------------------------------------------------------------------------
(* canUpdateQuota: a limit goes down only as far as the usage allows; a    *)
(* missing limit counts as zero.                                           *)

OrZero(amount) == IF amount = Absent THEN 0 ELSE amount

\* Mutant of CanUpdateQuota: a missing limit is not looked at.
CanUpdateGivenKeys(existing, new) ==
    \A k \in Resources :
        (/\ existing.hard[k] # Absent /\ existing.used[k] # Absent
         /\ new[k] # Absent /\ new[k] < existing.hard[k])
            => existing.used[k] <= new[k]

CanUpdateQuota(existing, new) ==
    \A k \in Resources :
        (/\ existing.hard[k] # Absent /\ existing.used[k] # Absent
         /\ new[k] = Absent \/ new[k] < existing.hard[k])
            => existing.used[k] <= OrZero(new[k])

NewQuota(hard) == [hard |-> hard, used |-> [k \in Resources |-> Absent]]
NoLimits == [k \in Resources |-> Absent]

\* A POST creates no quota without limits, and no RoleBinding without users.
AfterCreate(r) ==
    IF request[r].quota \notin {NoQuota, NoLimits} THEN "createQuota"
    ELSE IF request[r].users \notin {NoBinding, {}} THEN "createBinding"
    ELSE "done"
AfterCreateQuota(r) ==
    IF request[r].users \notin {NoBinding, {}} THEN "createBinding" ELSE "done"

\* PUT and PATCH go on to what the body names.
AfterQuota(r) == IF request[r].users = NoBinding THEN "done" ELSE "getBinding"
AfterGet(r) ==
    CASE Is(r, "delete") -> "list"
      [] Is(r, "put") /\ request[r].quota # NoQuota -> "getQuota"
      [] OTHER -> AfterQuota(r)

-----------------------------------------------------------------------------
NamespacesInit ==
    /\ phase = "none" /\ quota = NoQuota /\ binding = NoBinding /\ capps = {}
    /\ fresh = [quota |-> {}, binding |-> {}]
    /\ request = [r \in NamespaceRequests |-> NoRequest]

FirstStep(kind) ==
    CASE kind = "post" -> "create" [] kind = "capp" -> "capp" [] OTHER -> "get"

\* A request arrives; only POST and PUT have a quota, and PATCH names users.
StartRequest(r) ==
    /\ At(r, "idle")
    /\ Cardinality(RequestsInFlight) < MaxRequests
    /\ \E kind \in RequestKinds, users \in {NoBinding} \cup SUBSET Users,
          hard \in Hard \cup {NoQuota, Invalid} :
          /\ kind \in {"delete", "capp"} => users = NoBinding
          /\ kind \notin {"post", "put"} => hard = NoQuota
          /\ request' = [request EXCEPT ![r] =
                [NoRequest EXCEPT !.kind = kind, !.pc = FirstStep(kind),
                                  !.quota = hard, !.users = users,
                    !.older = IF kind = "delete" THEN capps ELSE {}]]
    /\ UNCHANGED <<phase, quota, binding, capps, fresh>>

\* createNamespace
CreateNamespace(r) ==
    /\ At(r, "create")
    /\ \/ /\ phase = "none"
          /\ phase' = "Active"
          /\ Answered(r, AfterCreate(r), "ok")
          /\ UNCHANGED <<quota, binding, capps, fresh>>
       \/ /\ phase # "none"
          /\ AnswerRequest(r, "conflict")
          /\ UNCHANGED <<phase, quota, binding, capps, fresh>>
       \/ NamespaceCallFails(r)

\* The Create of the ResourceQuota, of a POST or of a PUT that has found none;
\* a POST parses the amounts only now.
CreateQuota(r, next) ==
    \/ /\ NamespaceOpen /\ quota = NoQuota /\ request[r].quota # Invalid
       /\ quota' = NewQuota(request[r].quota)
       /\ QuotaWritten
       /\ Answered(r, next, "ok")
       /\ UNCHANGED <<phase, binding, capps>>
    \/ /\ ~NamespaceOpen \/ quota # NoQuota \/ request[r].quota = Invalid
       /\ AnswerRequest(r, "failed")
       /\ UNCHANGED <<phase, quota, binding, capps, fresh>>
    \/ NamespaceCallFails(r)

\* The Create of the RoleBinding, of a POST or of a PUT that has found none.
CreateBinding(r) ==
    \/ /\ NamespaceOpen /\ binding = NoBinding
       /\ binding' = request[r].users
       /\ BindingWritten
       /\ Answered(r, "done", "ok")
       /\ UNCHANGED <<phase, quota, capps>>
    \/ /\ ~NamespaceOpen \/ binding # NoBinding
       /\ AnswerRequest(r, "failed")
       /\ UNCHANGED <<phase, quota, binding, capps, fresh>>
    \/ NamespaceCallFails(r)

\* createNSResources
PostQuota(r) == At(r, "createQuota") /\ CreateQuota(r, AfterCreateQuota(r))
PostBinding(r) == At(r, "createBinding") /\ CreateBinding(r)

\* PUT, PATCH and DELETE read the namespace first.
GetNamespace(r) ==
    /\ At(r, "get")
    /\ \/ /\ phase # "none"
          /\ IF AfterGet(r) = "done" THEN AnswerRequest(r, "ok")
                                     ELSE Goto(r, AfterGet(r))
          /\ UNCHANGED <<phase, quota, binding, capps, fresh>>
       \/ /\ phase = "none"
          /\ AnswerRequest(r, "notfound")
          /\ UNCHANGED <<phase, quota, binding, capps, fresh>>
       \/ NamespaceCallFails(r)

\* updateNamespaceQuota: the amounts are parsed, then the quota is read.
GetQuota(r) ==
    /\ At(r, "getQuota")
    /\ \/ /\ \/ request[r].quota = Invalid /\ AnswerRequest(r, "rejected")
             \/ /\ request[r].quota # Invalid /\ quota = NoQuota
                /\ Goto(r, "newQuota")
             \/ /\ request[r].quota # Invalid /\ quota # NoQuota
                /\ ~CanUpdateQuota(quota, request[r].quota)
                /\ AnswerRequest(r, "failed")
          /\ UNCHANGED <<phase, quota, binding, capps, fresh>>
       \/ /\ request[r].quota # Invalid /\ quota # NoQuota
          /\ CanUpdateQuota(quota, request[r].quota)
          /\ Goto(r, "putQuota")
          /\ fresh' = [fresh EXCEPT !.quota = @ \cup {r}]
          /\ UNCHANGED <<phase, quota, binding, capps>>
       \/ NamespaceCallFails(r)

NewQuotaOfPut(r) == At(r, "newQuota") /\ CreateQuota(r, AfterQuota(r))

\* The Update of the quota; its status is not the caller's to write.
PutQuota(r) ==
    /\ At(r, "putQuota")
    /\ \/ /\ quota # NoQuota /\ VersionMatches(fresh.quota, r)
          /\ quota' = [quota EXCEPT !.hard = request[r].quota]
          /\ QuotaWritten
          /\ Answered(r, AfterQuota(r), "ok")
          /\ UNCHANGED <<phase, binding, capps>>
       \/ /\ quota = NoQuota \/ ~VersionMatches(fresh.quota, r)
          /\ AnswerRequest(r, "failed")
          /\ UNCHANGED <<phase, quota, binding, capps, fresh>>
       \/ NamespaceCallFails(r)

\* PUT replaces the users, PATCH appends those that are not bound yet.
Subjects(r) ==
    IF Is(r, "put") THEN request[r].users ELSE binding \cup request[r].users

GetBinding(r) ==
    /\ At(r, "getBinding")
    /\ \/ /\ binding = NoBinding
          /\ IF Is(r, "put") THEN Goto(r, "newBinding")
                             ELSE AnswerRequest(r, "notfound")
          /\ UNCHANGED <<phase, quota, binding, capps, fresh>>
       \/ /\ binding # NoBinding
          /\ request' = [request EXCEPT ![r].pc = "putBinding",
                                        ![r].subjects = Subjects(r)]
          /\ fresh' = [fresh EXCEPT !.binding = @ \cup {r}]
          /\ UNCHANGED <<phase, quota, binding, capps>>
       \/ NamespaceCallFails(r)

NewBindingOfPut(r) == At(r, "newBinding") /\ CreateBinding(r)

\* Mutant of PutBinding: the resourceVersion is not passed on.
PutBindingUnversioned(r) ==
    /\ At(r, "putBinding")
    /\ binding # NoBinding
    /\ binding' = request[r].subjects
    /\ BindingWritten
    /\ Answered(r, "done", "ok")
    /\ UNCHANGED <<phase, quota, capps>>

PutBinding(r) ==
    /\ At(r, "putBinding")
    /\ \/ /\ binding # NoBinding /\ VersionMatches(fresh.binding, r)
          /\ binding' = request[r].subjects
          /\ BindingWritten
          /\ Answered(r, "done", "ok")
          /\ UNCHANGED <<phase, quota, capps>>
       \/ /\ binding = NoBinding \/ ~VersionMatches(fresh.binding, r)
          /\ AnswerRequest(r, "failed")
          /\ UNCHANGED <<phase, quota, binding, capps, fresh>>
       \/ NamespaceCallFails(r)

\* Mutant of ListCapps: the namespace is deleted whatever the list has shown.
ListWithoutReturn(r) ==
    /\ At(r, "list")
    /\ Goto(r, "delete")
    /\ UNCHANGED <<phase, quota, binding, capps, fresh>>

\* delete: the namespace must have no Capp.
ListCapps(r) ==
    /\ At(r, "list")
    /\ \/ /\ IF capps = {} THEN Goto(r, "delete")
                          ELSE AnswerRequest(r, "conflict")
          /\ UNCHANGED <<phase, quota, binding, capps, fresh>>
       \/ NamespaceCallFails(r)

\* The namespace is deleted by name.
DeleteNamespace(r) ==
    /\ At(r, "delete")
    /\ \/ /\ phase # "none"
          /\ phase' = "Terminating"
          /\ Answered(r, "done", "ok")
          /\ UNCHANGED <<quota, binding, capps, fresh>>
       \/ /\ phase = "none"
          /\ AnswerRequest(r, "notfound")
          /\ UNCHANGED <<phase, quota, binding, capps, fresh>>
       \/ NamespaceCallFails(r)

\* The create handler of Capps, in one call.
CreateCapp(r) ==
    /\ At(r, "capp")
    /\ \/ NamespaceOpen /\ capps' = capps \cup {r} /\ AnswerRequest(r, "ok")
       \/ ~NamespaceOpen /\ AnswerRequest(r, "failed") /\ UNCHANGED capps
    /\ UNCHANGED <<phase, quota, binding, fresh>>

RequestDies(r) ==
    /\ "crash" \in NamespaceFaults
    /\ request[r].pc \in RequestSteps
    /\ AnswerRequest(r, "failed")
    /\ UNCHANGED <<phase, quota, binding, capps, fresh>>

-----------------------------------------------------------------------------
(* Kubernetes: the quota's usage is counted, and admission lets it grow up *)
(* to the limit; a terminating namespace loses its objects and goes.       *)

Account(k, amount) ==
    /\ NamespaceOpen /\ quota # NoQuota /\ quota.hard[k] # Absent
    /\ quota.used[k] # amount
    /\ (quota.used[k] # Absent /\ amount > quota.used[k])
          => amount <= quota.hard[k]
    /\ quota' = [quota EXCEPT !.used[k] = amount]
    /\ QuotaWritten
    /\ UNCHANGED <<phase, binding, capps, request>>

Terminated ==
    /\ phase = "Terminating"
    /\ phase' = "none" /\ quota' = NoQuota /\ binding' = NoBinding
    /\ capps' = {}
    /\ fresh' = [quota |-> {}, binding |-> {}]
    /\ UNCHANGED <<request>>

\* Every request has been answered: the model stops.
RequestsAreAnswered ==
    /\ \A r \in NamespaceRequests : At(r, "done")
    /\ UNCHANGED namespaceVars

RequestStep(r) ==
    \/ CreateNamespace(r) \/ PostQuota(r) \/ PostBinding(r)
    \/ GetNamespace(r) \/ GetQuota(r) \/ NewQuotaOfPut(r) \/ PutQuota(r)
    \/ GetBinding(r) \/ NewBindingOfPut(r) \/ PutBinding(r)
    \/ ListCapps(r) \/ DeleteNamespace(r) \/ CreateCapp(r)

NamespacesNext ==
    \/ \E r \in NamespaceRequests :
          StartRequest(r) \/ RequestStep(r) \/ RequestDies(r)
    \/ \E k \in Resources, amount \in QuotaAmounts : Account(k, amount)
    \/ Terminated
    \/ RequestsAreAnswered

NamespacesSpec == NamespacesInit /\ [][NamespacesNext]_namespaceVars

-----------------------------------------------------------------------------
(* Properties. *)

\* The type invariant of the module: a request about to write an object knows
\* what to write, and an object is only in a namespace.
NamespacesTypeOK ==
    /\ phase \in {"none", "Active", "Terminating"}
    /\ quota \in [hard: Hard, used: Hard] \cup {NoQuota}
    /\ binding \in {NoBinding} \cup SUBSET Users
    /\ capps \subseteq NamespaceRequests
    /\ fresh \in [quota: SUBSET NamespaceRequests,
                  binding: SUBSET NamespaceRequests]
    /\ request \in [NamespaceRequests -> NamespaceRequest]
    /\ \A r \in NamespaceRequests :
          /\ At(r, "putQuota") => request[r].quota \in Hard
          /\ At(r, "putBinding") => request[r].subjects # NoBinding
    /\ phase = "none" => quota = NoQuota /\ binding = NoBinding /\ capps = {}

\* canUpdateQuota: the limit of a resource never goes below its usage.  The
\* check is made when the quota is read, Pods come and go before the Update:
\* the resourceVersion has to make the two one.
LimitsStayAboveUsage ==
    [][(quota # NoQuota /\ quota' # NoQuota) =>
         \A k \in Resources :
            (/\ quota.hard[k] # Absent /\ quota.used[k] # Absent
             /\ OrZero(quota'.hard[k]) < quota.hard[k])
               => quota.used[k] <= OrZero(quota'.hard[k])]_namespaceVars

\* README.md: namespace_add_users is there "to append without disturbing
\* existing users".  Whatever PATCHes and PUTs interleave, a user loses the
\* RoleBinding only by a PUT without that user, or with the namespace.
UsersAreRemovedByPutOnly ==
    [][\A u \in Users :
         (/\ binding # NoBinding /\ u \in binding
          /\ binding' # NoBinding /\ u \notin binding')
            => \E r \in fresh.binding : /\ At(r, "putBinding") /\ Is(r, "put")
                                         /\ u \notin request[r].users]_namespaceVars

\* handler.go: DELETE "rejects deletion when the namespace still contains
\* Capps".  The list and the Delete are two calls, the Delete is by name, and
\* namespaces come and go between them; still a DELETE takes only Capps that
\* were created while it was under way, never one that was there before it.
DeleteTakesNewCappsOnly ==
    [][\A r \in NamespaceRequests :
         (/\ At(r, "delete") /\ phase = "Active"
          /\ phase' = "Terminating" /\ request'[r] # request[r])
            => request[r].older \cap capps = {}]_namespaceVars

=============================================================================
