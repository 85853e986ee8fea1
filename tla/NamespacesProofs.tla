-------------------------- MODULE NamespacesProofs --------------------------
(***************************************************************************)
(* Theorems about Namespaces, for any requests, users, resources, amounts  *)
(* and faults.                                                             *)
(*                                                                         *)
(* The three properties have one argument.  What a request was told when   *)
(* it read an object (that the new limits are above the usage, which users *)
(* the new subjects leave out, that there is no Capp) stays true until it  *)
(* writes, because the resourceVersion refuses the write after any other   *)
(* change; and for the Capps, which no version protects, because a Capp    *)
(* that comes later was not there before.                                  *)
(***************************************************************************)
EXTENDS Namespaces, TLAPS

Done == {q \in NamespaceRequests : At(q, "done")}

\* What a request knows by itself.
Equipped(q) ==
    /\ request[q] \in NamespaceRequest
    /\ At(q, "putQuota") => request[q].quota \in Hard
    /\ At(q, "putBinding") => request[q].subjects # NoBinding
    /\ request[q].pc \in {"createQuota", "getQuota", "newQuota"} =>
           request[q].quota # NoQuota
    /\ request[q].pc \in {"getBinding", "newBinding", "putBinding"} =>
           request[q].users # NoBinding

\* What it was told about the quota and the RoleBinding, as long as they have
\* not changed.
QuotaIsAsRead(q) ==
    (At(q, "putQuota") /\ q \in fresh.quota) =>
        quota # NoQuota /\ CanUpdateQuota(quota, request[q].quota)

BindingIsAsRead(q) ==
    (At(q, "putBinding") /\ q \in fresh.binding) =>
        \A u \in Users : (u \in binding /\ u \notin request[q].subjects) =>
                             Is(q, "put") /\ u \notin request[q].users

\* What it knows about Capps: those that are older than it have their answer,
\* and when it is about to delete none of them is left.
OlderAreGone(q) ==
    /\ request[q].older \subseteq Done
    /\ At(q, "delete") => request[q].older \cap capps = {}

Stored ==
    /\ phase \in {"none", "Active", "Terminating"}
    /\ quota \in [hard: Hard, used: Hard] \cup {NoQuota}
    /\ binding \in {NoBinding} \cup SUBSET Users
    /\ fresh \in [quota: SUBSET NamespaceRequests,
                  binding: SUBSET NamespaceRequests]
    /\ phase = "none" => quota = NoQuota /\ binding = NoBinding /\ capps = {}

Objects == Stored /\ capps \subseteq Done

RequestInv(q) ==
    Equipped(q) /\ QuotaIsAsRead(q) /\ BindingIsAsRead(q) /\ OlderAreGone(q)

NamespacesInv ==
    /\ request \in [NamespaceRequests -> NamespaceRequest]
    /\ Objects
    /\ \A q \in NamespaceRequests : RequestInv(q)

-----------------------------------------------------------------------------
(* A step of one request *)

\* Nothing but r has changed the quota since others have read it.
QuotaReadsStay(r) ==
    \/ quota' = quota /\ fresh'.quota \subseteq fresh.quota \cup {r}
    \/ fresh'.quota = {}

BindingReadsStay(r) ==
    \/ binding' = binding /\ fresh'.binding \subseteq fresh.binding \cup {r}
    \/ fresh'.binding = {}

\* When r moves, what the others know stays true.
LEMMA OthersKeepWhatTheyKnow ==
    ASSUME NamespacesInv, NEW r \in NamespaceRequests, ~At(r, "done"),
           \A q \in NamespaceRequests \ {r} : request'[q] = request[q],
           QuotaReadsStay(r), BindingReadsStay(r), capps' \subseteq capps \cup {r}
    PROVE  \A q \in NamespaceRequests \ {r} : RequestInv(q)'
<1> SUFFICES ASSUME NEW q \in NamespaceRequests \ {r}
             PROVE  RequestInv(q)'
    OBVIOUS
<1>1. RequestInv(q) /\ request'[q] = request[q]
    BY DEF NamespacesInv
<1>2. Equipped(q)'
    BY <1>1 DEF RequestInv, Equipped, At
<1>3. QuotaIsAsRead(q)'
    BY <1>1 DEF RequestInv, QuotaIsAsRead, QuotaReadsStay, At, CanUpdateQuota
<1>4. BindingIsAsRead(q)'
    BY <1>1 DEF RequestInv, BindingIsAsRead, BindingReadsStay, At, Is
<1>5. OlderAreGone(q)'
    <2>1. Done \subseteq Done' /\ r \notin Done
        BY DEF Done, At
    <2>2. QED
        BY <1>1, <2>1 DEF RequestInv, OlderAreGone, At
<1>6. QED
    BY <1>2, <1>3, <1>4, <1>5 DEF RequestInv

LEMMA StepKeeps ==
    ASSUME NamespacesInv, NEW r \in NamespaceRequests, ~At(r, "done"),
           NEW new \in NamespaceRequest, request' = [request EXCEPT ![r] = new],
           QuotaReadsStay(r), BindingReadsStay(r), capps' \subseteq capps \cup {r},
           Objects', RequestInv(r)'
    PROVE  NamespacesInv'
<1>1. request \in [NamespaceRequests -> NamespaceRequest]
    BY DEF NamespacesInv
<1>2. \A q \in NamespaceRequests \ {r} : RequestInv(q)'
    BY <1>1, OthersKeepWhatTheyKnow
<1>3. request' \in [NamespaceRequests -> NamespaceRequest]
    BY <1>1
<1>4. QED
    BY <1>2, <1>3 DEF NamespacesInv

\* An answered request knows nothing that could become wrong.
LEMMA AnswerKeeps ==
    ASSUME NamespacesInv, NEW r \in NamespaceRequests, ~At(r, "done"),
           NEW code \in RequestReplies, AnswerRequest(r, code),
           QuotaReadsStay(r), BindingReadsStay(r), capps' \subseteq capps \cup {r},
           Objects'
    PROVE  NamespacesInv'
<1> DEFINE new == [NoRequest EXCEPT !.pc = "done", !.reply = code]
<1>1. new \in NamespaceRequest
    BY DEF NoRequest, NamespaceRequest, RequestKinds
<1>2. request' = [request EXCEPT ![r] = new]
    BY DEF AnswerRequest
<1>3. request'[r] = new
    BY <1>2 DEF NamespacesInv
<1>4. new.pc = "done" /\ new.older = {}
    BY DEF NoRequest
<1> HIDE DEF new
<1>5. RequestInv(r)'
    BY <1>1, <1>3, <1>4
       DEF RequestInv, Equipped, QuotaIsAsRead, BindingIsAsRead, OlderAreGone, At
<1>6. QED
    BY <1>1, <1>2, <1>5, StepKeeps

ObjectsStay == UNCHANGED <<phase, quota, binding, capps, fresh>>

\* No request loses its answer.
LEMMA DoneStays ==
    ASSUME NamespacesInv, NEW r \in NamespaceRequests, ~At(r, "done"), NEW new,
           request' = [request EXCEPT ![r] = new]
    PROVE  Done \subseteq Done'
BY DEF NamespacesInv, Done, At

LEMMA AnswerOnlyKeeps ==
    ASSUME NamespacesInv, NEW r \in NamespaceRequests, ~At(r, "done"),
           NEW code \in RequestReplies, AnswerRequest(r, code), ObjectsStay
    PROVE  NamespacesInv'
<1>1. Done \subseteq Done'
    BY DoneStays DEF AnswerRequest
<1>2. Objects'
    BY <1>1 DEF NamespacesInv, Objects, Stored, ObjectsStay
<1>3. QED
    BY <1>2, AnswerKeeps DEF ObjectsStay, QuotaReadsStay, BindingReadsStay

\* What a request has when it goes on.
LEMMA GotoIs ==
    ASSUME NamespacesInv, NEW r \in NamespaceRequests,
           NEW pc \in RequestSteps, Goto(r, pc)
    PROVE  /\ request' = [request EXCEPT ![r] = [request[r] EXCEPT !.pc = pc]]
           /\ [request[r] EXCEPT !.pc = pc] \in NamespaceRequest
           /\ request'[r] = [request[r] EXCEPT !.pc = pc]
           /\ request'[r].pc = pc
           /\ request'[r].kind = request[r].kind
           /\ request'[r].quota = request[r].quota
           /\ request'[r].users = request[r].users
           /\ request'[r].subjects = request[r].subjects
           /\ request'[r].older = request[r].older
<1>1. request \in [NamespaceRequests -> NamespaceRequest]
    BY DEF NamespacesInv
<1>2. request' = [request EXCEPT ![r] = [request[r] EXCEPT !.pc = pc]]
    BY <1>1 DEF Goto
<1>3. QED
    BY <1>1, <1>2 DEF NamespaceRequest

\* A request goes on to a step for which it needs to know nothing of objects.
LEMMA GotoKeeps ==
    ASSUME NamespacesInv, NEW r \in NamespaceRequests, ~At(r, "done"),
           NEW pc \in RequestSteps \ {"putQuota", "putBinding", "delete"},
           Goto(r, pc),
           pc \in {"createQuota", "getQuota", "newQuota"} => request[r].quota # NoQuota,
           pc \in {"getBinding", "newBinding"} => request[r].users # NoBinding,
           QuotaReadsStay(r), BindingReadsStay(r), capps' \subseteq capps \cup {r},
           Objects'
    PROVE  NamespacesInv'
<1>1. /\ request' = [request EXCEPT ![r] = [request[r] EXCEPT !.pc = pc]]
      /\ [request[r] EXCEPT !.pc = pc] \in NamespaceRequest
      /\ request'[r] = [request[r] EXCEPT !.pc = pc]
      /\ request'[r].pc = pc
      /\ request'[r].quota = request[r].quota
      /\ request'[r].users = request[r].users
      /\ request'[r].older = request[r].older
    BY GotoIs
<1>2. Done \subseteq Done'
    BY <1>1, DoneStays
<1>3. RequestInv(r)
    BY DEF NamespacesInv
<1>4. Equipped(r)'
    BY <1>1 DEF Equipped, At
<1>5. QuotaIsAsRead(r)' /\ BindingIsAsRead(r)' /\ OlderAreGone(r)'
    BY <1>1, <1>2, <1>3
       DEF RequestInv, QuotaIsAsRead, BindingIsAsRead, OlderAreGone, At
<1>6. QED
    BY <1>1, <1>4, <1>5, StepKeeps DEF RequestInv

LEMMA GotoOnlyKeeps ==
    ASSUME NamespacesInv, NEW r \in NamespaceRequests, ~At(r, "done"),
           NEW pc \in RequestSteps \ {"putQuota", "putBinding", "delete"},
           Goto(r, pc), ObjectsStay,
           pc \in {"createQuota", "getQuota", "newQuota"} => request[r].quota # NoQuota,
           pc \in {"getBinding", "newBinding"} => request[r].users # NoBinding
    PROVE  NamespacesInv'
<1>1. Done \subseteq Done'
    BY DoneStays, GotoIs
<1>2. Objects'
    BY <1>1 DEF NamespacesInv, Objects, Stored, ObjectsStay
<1>3. QED
    BY <1>2, GotoKeeps DEF ObjectsStay, QuotaReadsStay, BindingReadsStay

\* A write is answered, or its answer is lost.
LEMMA AnsweredKeeps ==
    ASSUME NamespacesInv, NEW r \in NamespaceRequests, ~At(r, "done"),
           NEW pc \in {"createQuota", "createBinding", "getBinding", "done"},
           Answered(r, pc, "ok"),
           pc = "createQuota" => request[r].quota # NoQuota,
           pc = "getBinding" => request[r].users # NoBinding,
           QuotaReadsStay(r), BindingReadsStay(r), capps' = capps, Stored'
    PROVE  NamespacesInv'
<1>1. CASE \E code \in {"ok", "failed"} : AnswerRequest(r, code)
    <2>1. PICK code \in {"ok", "failed"} : AnswerRequest(r, code)
        BY <1>1
    <2>2. Done \subseteq Done'
        BY <2>1, DoneStays DEF AnswerRequest
    <2>3. Objects'
        BY <2>2 DEF Objects, NamespacesInv
    <2>4. QED
        BY <2>1, <2>3, AnswerKeeps DEF RequestReplies
<1>2. CASE pc # "done" /\ Goto(r, pc)
    <2>1. pc \in RequestSteps \ {"putQuota", "putBinding", "delete"}
        BY <1>2 DEF RequestSteps
    <2>2. Done \subseteq Done'
        BY <1>2, <2>1, GotoIs, DoneStays
    <2>3. Objects'
        BY <2>2 DEF Objects, NamespacesInv
    <2>4. QED
        BY <1>2, <2>1, <2>3, GotoKeeps
<1>3. QED
    BY <1>1, <1>2 DEF Answered

-----------------------------------------------------------------------------
(* The calls *)

LEMMA FailureKeeps ==
    ASSUME NamespacesInv, NEW r \in NamespaceRequests, ~At(r, "done"),
           NamespaceCallFails(r) \/ RequestDies(r)
    PROVE  NamespacesInv'
BY AnswerOnlyKeeps DEF NamespaceCallFails, RequestDies, ObjectsStay, RequestReplies

LEMMA StartKeeps ==
    ASSUME NamespacesInv, NEW r \in NamespaceRequests, StartRequest(r)
    PROVE  NamespacesInv'
<1>1. PICK kind \in RequestKinds, users \in {NoBinding} \cup SUBSET Users,
           hard \in Hard \cup {NoQuota, Invalid} :
         request' = [request EXCEPT ![r] =
            [NoRequest EXCEPT !.kind = kind, !.pc = FirstStep(kind),
                              !.quota = hard, !.users = users,
                !.older = IF kind = "delete" THEN capps ELSE {}]]
    BY DEF StartRequest
<1> DEFINE new == [NoRequest EXCEPT !.kind = kind, !.pc = FirstStep(kind),
                              !.quota = hard, !.users = users,
                !.older = IF kind = "delete" THEN capps ELSE {}]
<1>2. FirstStep(kind) \in {"create", "capp", "get"}
    BY DEF FirstStep
<1>3. capps \subseteq NamespaceRequests /\ capps \subseteq Done
    BY DEF NamespacesInv, Objects, Done
<1>4. new \in NamespaceRequest
    BY <1>2, <1>3 DEF NoRequest, NamespaceRequest, RequestSteps, RequestReplies
<1>5. new.pc \in {"create", "capp", "get"} /\ new.older \subseteq capps
    BY <1>2 DEF NoRequest
<1> HIDE DEF new
<1>6. request' = [request EXCEPT ![r] = new] /\ request'[r] = new
    BY <1>1 DEF NamespacesInv, new
<1>7. ~At(r, "done") /\ ObjectsStay
    BY DEF StartRequest, At, ObjectsStay
<1>8. Done \subseteq Done'
    BY <1>6, <1>7, DoneStays
<1>9. Objects'
    BY <1>7, <1>8 DEF NamespacesInv, Objects, Stored, ObjectsStay
<1>10. RequestInv(r)'
    BY <1>3, <1>4, <1>5, <1>6, <1>8
       DEF RequestInv, Equipped, QuotaIsAsRead, BindingIsAsRead, OlderAreGone, At
<1>11. QED
    BY <1>4, <1>6, <1>7, <1>9, <1>10, StepKeeps
       DEF ObjectsStay, QuotaReadsStay, BindingReadsStay

LEMMA CreateNamespaceKeeps ==
    ASSUME NamespacesInv, NEW r \in NamespaceRequests, CreateNamespace(r)
    PROVE  NamespacesInv'
<1>1. ~At(r, "done")
    BY DEF CreateNamespace, At
<1>2. CASE /\ phase' = "Active" /\ Answered(r, AfterCreate(r), "ok")
           /\ UNCHANGED <<quota, binding, capps, fresh>>
    <2>1. /\ AfterCreate(r) \in {"createQuota", "createBinding", "done"}
          /\ AfterCreate(r) = "createQuota" => request[r].quota # NoQuota
        BY DEF AfterCreate
    <2>2. Stored'
        BY <1>2 DEF NamespacesInv, Objects, Stored
    <2>3. QED
        BY <1>1, <1>2, <2>1, <2>2, AnsweredKeeps DEF QuotaReadsStay, BindingReadsStay
<1>3. QED
    BY <1>1, <1>2, AnswerOnlyKeeps, FailureKeeps
       DEF CreateNamespace, ObjectsStay, RequestReplies

\* The Create of a quota, after which the request goes on or is answered.
LEMMA CreateQuotaKeeps ==
    ASSUME NamespacesInv, NEW r \in NamespaceRequests, ~At(r, "done"),
           request[r].quota # NoQuota,
           NEW next \in {"createBinding", "getBinding", "done"},
           next = "getBinding" => request[r].users # NoBinding,
           CreateQuota(r, next)
    PROVE  NamespacesInv'
<1>1. CASE /\ NamespaceOpen /\ request[r].quota # Invalid
           /\ quota' = NewQuota(request[r].quota) /\ QuotaWritten
           /\ Answered(r, next, "ok") /\ UNCHANGED <<phase, binding, capps>>
    <2>1. request[r].quota \in Hard
        BY <1>1 DEF NamespacesInv, NamespaceRequest
    <2>2. quota' \in [hard: Hard, used: Hard]
        BY <1>1, <2>1 DEF NewQuota, Hard
    <2>3. fresh'.quota = {} /\ fresh'.binding = fresh.binding
          /\ fresh' \in [quota: SUBSET NamespaceRequests,
                         binding: SUBSET NamespaceRequests]
        BY <1>1 DEF QuotaWritten, NamespacesInv, Objects, Stored
    <2>4. Stored'
        BY <1>1, <2>2, <2>3 DEF NamespacesInv, Objects, Stored, NamespaceOpen
    <2>5. QED
        BY <1>1, <2>3, <2>4, AnsweredKeeps DEF QuotaReadsStay, BindingReadsStay
<1>2. QED
    BY <1>1, AnswerOnlyKeeps, FailureKeeps
       DEF CreateQuota, ObjectsStay, RequestReplies

LEMMA CreateBindingKeeps ==
    ASSUME NamespacesInv, NEW r \in NamespaceRequests, ~At(r, "done"),
           CreateBinding(r)
    PROVE  NamespacesInv'
<1>1. CASE /\ NamespaceOpen /\ binding' = request[r].users /\ BindingWritten
           /\ Answered(r, "done", "ok") /\ UNCHANGED <<phase, quota, capps>>
    <2>1. request[r].users \in {NoBinding} \cup SUBSET Users
        BY DEF NamespacesInv, NamespaceRequest
    <2>2. fresh'.binding = {} /\ fresh'.quota = fresh.quota
          /\ fresh' \in [quota: SUBSET NamespaceRequests,
                         binding: SUBSET NamespaceRequests]
        BY <1>1 DEF BindingWritten, NamespacesInv, Objects, Stored
    <2>3. Stored'
        BY <1>1, <2>1, <2>2 DEF NamespacesInv, Objects, Stored, NamespaceOpen
    <2>4. QED
        BY <1>1, <2>2, <2>3, AnsweredKeeps DEF QuotaReadsStay, BindingReadsStay
<1>2. QED
    BY <1>1, AnswerOnlyKeeps, FailureKeeps
       DEF CreateBinding, ObjectsStay, RequestReplies

LEMMA CreatesKeep ==
    ASSUME NamespacesInv, NEW r \in NamespaceRequests,
           \/ PostQuota(r) \/ NewQuotaOfPut(r) \/ PostBinding(r) \/ NewBindingOfPut(r)
    PROVE  NamespacesInv'
<1>1. Equipped(r)
    BY DEF NamespacesInv, RequestInv
<1>2. CASE PostQuota(r)
    <2>1. AfterCreateQuota(r) \in {"createBinding", "getBinding", "done"}
          /\ AfterCreateQuota(r) # "getBinding"
        BY DEF AfterCreateQuota
    <2>2. QED
        BY <1>1, <1>2, <2>1, CreateQuotaKeeps DEF PostQuota, Equipped, At
<1>3. CASE NewQuotaOfPut(r)
    <2>1. AfterQuota(r) \in {"createBinding", "getBinding", "done"}
          /\ (AfterQuota(r) = "getBinding" => request[r].users # NoBinding)
        BY DEF AfterQuota
    <2>2. QED
        BY <1>1, <1>3, <2>1, CreateQuotaKeeps DEF NewQuotaOfPut, Equipped, At
<1>4. QED
    BY <1>2, <1>3, CreateBindingKeeps DEF PostBinding, NewBindingOfPut, At

LEMMA GetNamespaceKeeps ==
    ASSUME NamespacesInv, NEW r \in NamespaceRequests, GetNamespace(r)
    PROVE  NamespacesInv'
<1>1. ~At(r, "done")
    BY DEF GetNamespace, At
<1>2. /\ AfterGet(r) \in {"list", "getQuota", "getBinding", "done"}
      /\ AfterGet(r) = "getQuota" => request[r].quota # NoQuota
      /\ AfterGet(r) = "getBinding" => request[r].users # NoBinding
    BY DEF AfterGet, AfterQuota
<1>3. CASE AfterGet(r) # "done" /\ Goto(r, AfterGet(r)) /\ ObjectsStay
    BY <1>1, <1>2, <1>3, GotoOnlyKeeps DEF RequestSteps
<1>4. QED
    BY <1>1, <1>3, AnswerOnlyKeeps, FailureKeeps
       DEF GetNamespace, ObjectsStay, RequestReplies

LEMMA GetQuotaKeeps ==
    ASSUME NamespacesInv, NEW r \in NamespaceRequests, GetQuota(r)
    PROVE  NamespacesInv'
<1>1. ~At(r, "done") /\ At(r, "getQuota") /\ RequestInv(r)
    BY DEF GetQuota, At, NamespacesInv
<1>2. request[r].quota # NoQuota
    BY <1>1 DEF RequestInv, Equipped, At
<1>3. CASE Goto(r, "newQuota") /\ ObjectsStay
    BY <1>1, <1>2, <1>3, GotoOnlyKeeps DEF RequestSteps
<1>4. CASE /\ request[r].quota # Invalid /\ quota # NoQuota
           /\ CanUpdateQuota(quota, request[r].quota)
           /\ Goto(r, "putQuota")
           /\ fresh' = [fresh EXCEPT !.quota = @ \cup {r}]
           /\ UNCHANGED <<phase, quota, binding, capps>>
    <2>1. /\ request' = [request EXCEPT ![r] = [request[r] EXCEPT !.pc = "putQuota"]]
          /\ [request[r] EXCEPT !.pc = "putQuota"] \in NamespaceRequest
          /\ request'[r] = [request[r] EXCEPT !.pc = "putQuota"]
          /\ request'[r].pc = "putQuota"
          /\ request'[r].quota = request[r].quota
          /\ request'[r].older = request[r].older
        BY <1>4, GotoIs DEF RequestSteps
    <2>2. Done \subseteq Done'
        BY <1>1, <2>1, DoneStays
    <2>3. /\ fresh' \in [quota: SUBSET NamespaceRequests,
                         binding: SUBSET NamespaceRequests]
          /\ fresh'.quota = fresh.quota \cup {r} /\ fresh'.binding = fresh.binding
        BY <1>4 DEF NamespacesInv, Objects, Stored
    <2>4. Objects'
        BY <1>4, <2>2, <2>3 DEF NamespacesInv, Objects, Stored
    <2>5. Equipped(r)'
        BY <1>2, <1>4, <2>1 DEF Equipped, At, NamespaceRequest
    <2>6. QuotaIsAsRead(r)'
        BY <1>4, <2>1 DEF QuotaIsAsRead, CanUpdateQuota
    <2>7. BindingIsAsRead(r)' /\ OlderAreGone(r)'
        BY <1>1, <1>4, <2>1, <2>2 DEF RequestInv, BindingIsAsRead, OlderAreGone, At
    <2>8. QED
        BY <1>1, <1>4, <2>1, <2>3, <2>4, <2>5, <2>6, <2>7, StepKeeps
           DEF RequestInv, QuotaReadsStay, BindingReadsStay
<1>5. QED
    BY <1>1, <1>3, <1>4, AnswerOnlyKeeps, FailureKeeps
       DEF GetQuota, ObjectsStay, RequestReplies

LEMMA PutQuotaKeeps ==
    ASSUME NamespacesInv, NEW r \in NamespaceRequests, PutQuota(r)
    PROVE  NamespacesInv'
<1>1. ~At(r, "done") /\ At(r, "putQuota") /\ RequestInv(r)
    BY DEF PutQuota, At, NamespacesInv
<1>2. CASE /\ quota # NoQuota /\ quota' = [quota EXCEPT !.hard = request[r].quota]
           /\ QuotaWritten /\ Answered(r, AfterQuota(r), "ok")
           /\ UNCHANGED <<phase, binding, capps>>
    <2>1. /\ AfterQuota(r) \in {"getBinding", "done"}
          /\ AfterQuota(r) = "getBinding" => request[r].users # NoBinding
        BY DEF AfterQuota
    <2>2. quota' \in [hard: Hard, used: Hard]
        BY <1>1, <1>2 DEF RequestInv, Equipped, NamespacesInv, Objects, Stored
    <2>3. fresh'.quota = {} /\ fresh'.binding = fresh.binding
          /\ fresh' \in [quota: SUBSET NamespaceRequests,
                         binding: SUBSET NamespaceRequests]
        BY <1>2 DEF QuotaWritten, NamespacesInv, Objects, Stored
    <2>4. Stored'
        BY <1>2, <2>2, <2>3 DEF NamespacesInv, Objects, Stored
    <2>5. QED
        BY <1>1, <1>2, <2>1, <2>3, <2>4, AnsweredKeeps
           DEF QuotaReadsStay, BindingReadsStay
<1>3. QED
    BY <1>1, <1>2, AnswerOnlyKeeps, FailureKeeps
       DEF PutQuota, ObjectsStay, RequestReplies

\* PUT knows whom it leaves out, PATCH leaves nobody out.
LEMMA GetBindingKeeps ==
    ASSUME NamespacesInv, NEW r \in NamespaceRequests, GetBinding(r)
    PROVE  NamespacesInv'
<1>1. ~At(r, "done") /\ At(r, "getBinding") /\ RequestInv(r)
    BY DEF GetBinding, At, NamespacesInv
<1>2. request[r].users # NoBinding /\ request[r] \in NamespaceRequest
    BY <1>1 DEF RequestInv, Equipped, At
<1>3. CASE Goto(r, "newBinding") /\ ObjectsStay
    BY <1>1, <1>2, <1>3, GotoOnlyKeeps DEF RequestSteps
<1>4. CASE /\ binding # NoBinding
           /\ request' = [request EXCEPT ![r].pc = "putBinding",
                                         ![r].subjects = Subjects(r)]
           /\ fresh' = [fresh EXCEPT !.binding = @ \cup {r}]
           /\ UNCHANGED <<phase, quota, binding, capps>>
    <2> DEFINE new == [request[r] EXCEPT !.pc = "putBinding", !.subjects = Subjects(r)]
    <2>1. binding \in SUBSET Users /\ request[r].users \in SUBSET Users
        BY <1>2, <1>4 DEF NamespacesInv, Objects, Stored, NamespaceRequest
    <2>2. /\ Subjects(r) \in SUBSET Users
          /\ \A u \in Users : (u \in binding /\ u \notin Subjects(r)) =>
                                  Is(r, "put") /\ u \notin request[r].users
        BY <2>1 DEF Subjects
    <2>3. new \in NamespaceRequest
        BY <1>2, <2>2 DEF NamespaceRequest, RequestSteps
    <2>4. new.pc = "putBinding" /\ new.subjects = Subjects(r) /\ new.kind = request[r].kind
          /\ new.users = request[r].users /\ new.older = request[r].older
        BY <1>2 DEF NamespaceRequest
    <2>5. request' = [request EXCEPT ![r] = new]
        BY <1>4 DEF NamespacesInv, NamespaceRequest
    <2> HIDE DEF new
    <2>6. request'[r] = new
        BY <2>5 DEF NamespacesInv
    <2>7. Done \subseteq Done'
        BY <1>1, <2>5, DoneStays
    <2>8. /\ fresh' \in [quota: SUBSET NamespaceRequests,
                         binding: SUBSET NamespaceRequests]
          /\ fresh'.binding = fresh.binding \cup {r} /\ fresh'.quota = fresh.quota
        BY <1>4 DEF NamespacesInv, Objects, Stored
    <2>9. Objects'
        BY <1>4, <2>7, <2>8 DEF NamespacesInv, Objects, Stored
    <2>10. Equipped(r)'
        BY <1>2, <2>2, <2>3, <2>4, <2>6, NamespacesAssumption DEF Equipped, At
    <2>11. BindingIsAsRead(r)'
        BY <1>4, <2>2, <2>4, <2>6 DEF BindingIsAsRead, Is
    <2>12. QuotaIsAsRead(r)' /\ OlderAreGone(r)'
        BY <1>1, <1>4, <2>4, <2>6, <2>7 DEF RequestInv, QuotaIsAsRead, OlderAreGone, At
    <2>13. QED
        BY <1>1, <1>4, <2>3, <2>5, <2>8, <2>9, <2>10, <2>11, <2>12, StepKeeps
           DEF RequestInv, QuotaReadsStay, BindingReadsStay
<1>5. QED
    BY <1>1, <1>3, <1>4, AnswerOnlyKeeps, FailureKeeps
       DEF GetBinding, ObjectsStay, RequestReplies

LEMMA PutBindingKeeps ==
    ASSUME NamespacesInv, NEW r \in NamespaceRequests, PutBinding(r)
    PROVE  NamespacesInv'
<1>1. ~At(r, "done") /\ At(r, "putBinding") /\ RequestInv(r)
    BY DEF PutBinding, At, NamespacesInv
<1>2. CASE /\ binding # NoBinding /\ binding' = request[r].subjects
           /\ BindingWritten /\ Answered(r, "done", "ok")
           /\ UNCHANGED <<phase, quota, capps>>
    <2>1. request[r].subjects \in {NoBinding} \cup SUBSET Users
        BY <1>1 DEF RequestInv, Equipped, NamespaceRequest
    <2>2. fresh'.binding = {} /\ fresh'.quota = fresh.quota
          /\ fresh' \in [quota: SUBSET NamespaceRequests,
                         binding: SUBSET NamespaceRequests]
        BY <1>2 DEF BindingWritten, NamespacesInv, Objects, Stored
    <2>3. Stored'
        BY <1>2, <2>1, <2>2 DEF NamespacesInv, Objects, Stored
    <2>4. QED
        BY <1>1, <1>2, <2>2, <2>3, AnsweredKeeps DEF QuotaReadsStay, BindingReadsStay
<1>3. QED
    BY <1>1, <1>2, AnswerOnlyKeeps, FailureKeeps
       DEF PutBinding, ObjectsStay, RequestReplies

LEMMA ListCappsKeeps ==
    ASSUME NamespacesInv, NEW r \in NamespaceRequests, ListCapps(r)
    PROVE  NamespacesInv'
<1>1. ~At(r, "done") /\ RequestInv(r)
    BY DEF ListCapps, At, NamespacesInv
<1>2. CASE capps = {} /\ Goto(r, "delete") /\ ObjectsStay
    <2>1. /\ request' = [request EXCEPT ![r] = [request[r] EXCEPT !.pc = "delete"]]
          /\ [request[r] EXCEPT !.pc = "delete"] \in NamespaceRequest
          /\ request'[r] = [request[r] EXCEPT !.pc = "delete"]
          /\ request'[r].pc = "delete"
          /\ request'[r].older = request[r].older
        BY <1>2, GotoIs DEF RequestSteps
    <2>2. Done \subseteq Done'
        BY <1>1, <2>1, DoneStays
    <2>3. Objects'
        BY <1>2, <2>2 DEF NamespacesInv, Objects, Stored, ObjectsStay
    <2>4. RequestInv(r)'
        BY <1>1, <1>2, <2>1, <2>2
           DEF RequestInv, Equipped, QuotaIsAsRead, BindingIsAsRead, OlderAreGone, At,
               ObjectsStay
    <2>5. QED
        BY <1>1, <1>2, <2>1, <2>3, <2>4, StepKeeps
           DEF ObjectsStay, QuotaReadsStay, BindingReadsStay
<1>3. QED
    BY <1>1, <1>2, AnswerOnlyKeeps, FailureKeeps
       DEF ListCapps, ObjectsStay, RequestReplies

LEMMA DeleteNamespaceKeeps ==
    ASSUME NamespacesInv, NEW r \in NamespaceRequests, DeleteNamespace(r)
    PROVE  NamespacesInv'
<1>1. ~At(r, "done")
    BY DEF DeleteNamespace, At
<1>2. CASE /\ phase' = "Terminating" /\ Answered(r, "done", "ok")
           /\ UNCHANGED <<quota, binding, capps, fresh>>
    <2>1. Stored'
        BY <1>2 DEF NamespacesInv, Objects, Stored
    <2>2. QED
        BY <1>1, <1>2, <2>1, AnsweredKeeps DEF QuotaReadsStay, BindingReadsStay
<1>3. QED
    BY <1>1, <1>2, AnswerOnlyKeeps, FailureKeeps
       DEF DeleteNamespace, ObjectsStay, RequestReplies

\* A new Capp is older than no request but those that come after it.
LEMMA CreateCappKeeps ==
    ASSUME NamespacesInv, NEW r \in NamespaceRequests, CreateCapp(r)
    PROVE  NamespacesInv'
<1>1. ~At(r, "done")
    BY DEF CreateCapp, At
<1>2. CASE /\ NamespaceOpen /\ capps' = capps \cup {r} /\ AnswerRequest(r, "ok")
           /\ UNCHANGED <<phase, quota, binding, fresh>>
    <2>1. Done \subseteq Done'
        BY <1>1, <1>2, DoneStays DEF AnswerRequest
    <2>2. r \in Done'
        BY <1>2 DEF AnswerRequest, NoRequest, NamespacesInv, Done, At
    <2>3. Objects'
        BY <1>2, <2>1, <2>2 DEF NamespacesInv, Objects, Stored, NamespaceOpen
    <2>4. QED
        BY <1>1, <1>2, <2>3, AnswerKeeps
           DEF QuotaReadsStay, BindingReadsStay, RequestReplies
<1>3. QED
    BY <1>1, <1>2, AnswerOnlyKeeps DEF CreateCapp, ObjectsStay, RequestReplies

\* The cluster moves, and what was read of an object that changes is outdated.
LEMMA ClusterKeeps ==
    ASSUME NamespacesInv, request' = request, Stored', capps' \subseteq capps,
           (quota' = quota /\ fresh'.quota = fresh.quota) \/ fresh'.quota = {},
           (binding' = binding /\ fresh'.binding = fresh.binding) \/ fresh'.binding = {}
    PROVE  NamespacesInv'
<1>1. Done' = Done
    BY DEF Done, At
<1>2. Objects'
    BY <1>1 DEF NamespacesInv, Objects
<1>3. ASSUME NEW q \in NamespaceRequests PROVE RequestInv(q)'
    <2>1. RequestInv(q)
        BY DEF NamespacesInv
    <2>2. Equipped(q)'
        BY <2>1 DEF RequestInv, Equipped, At
    <2>3. QuotaIsAsRead(q)'
        BY <2>1 DEF RequestInv, QuotaIsAsRead, CanUpdateQuota, At
    <2>4. BindingIsAsRead(q)'
        BY <2>1 DEF RequestInv, BindingIsAsRead, At, Is
    <2>5. OlderAreGone(q)'
        BY <1>1, <2>1 DEF RequestInv, OlderAreGone, At
    <2>6. QED
        BY <2>2, <2>3, <2>4, <2>5 DEF RequestInv
<1>4. QED
    BY <1>2, <1>3 DEF NamespacesInv

LEMMA AccountKeeps ==
    ASSUME NamespacesInv, NEW k \in Resources, NEW amount \in QuotaAmounts,
           Account(k, amount)
    PROVE  NamespacesInv'
<1>1. quota \in [hard: Hard, used: Hard]
    BY DEF Account, NamespacesInv, Objects, Stored
<1>2. quota' \in [hard: Hard, used: Hard]
    BY <1>1 DEF Account, Hard
<1>3. fresh'.quota = {} /\ fresh'.binding = fresh.binding
      /\ fresh' \in [quota: SUBSET NamespaceRequests,
                     binding: SUBSET NamespaceRequests]
    BY DEF Account, QuotaWritten, NamespacesInv, Objects, Stored
<1>4. Stored'
    BY <1>2, <1>3 DEF Account, NamespaceOpen, NamespacesInv, Objects, Stored
<1>5. QED
    BY <1>3, <1>4, ClusterKeeps DEF Account

LEMMA TerminatedKeeps ==
    ASSUME NamespacesInv, Terminated PROVE NamespacesInv'
<1>1. Stored'
    BY DEF Terminated, Stored
<1>2. QED
    BY <1>1, ClusterKeeps DEF Terminated

-----------------------------------------------------------------------------
(* The invariant, and the theorems *)

LEMMA NamespacesInitInv == NamespacesInit => NamespacesInv
<1> SUFFICES ASSUME NamespacesInit PROVE NamespacesInv
    OBVIOUS
<1>1. NoRequest \in NamespaceRequest /\ NoRequest.pc = "idle" /\ NoRequest.older = {}
    BY DEF NoRequest, NamespaceRequest, RequestKinds, RequestReplies
<1>2. /\ request \in [NamespaceRequests -> NamespaceRequest]
      /\ \A q \in NamespaceRequests : request[q] = NoRequest
    BY <1>1 DEF NamespacesInit
<1>3. Objects
    BY DEF NamespacesInit, Objects, Stored
<1>4. \A q \in NamespaceRequests : RequestInv(q)
    BY <1>1, <1>2
       DEF RequestInv, Equipped, QuotaIsAsRead, BindingIsAsRead, OlderAreGone, At
<1>5. QED
    BY <1>2, <1>3, <1>4 DEF NamespacesInv

LEMMA NamespacesNextInv ==
    NamespacesInv /\ [NamespacesNext]_namespaceVars => NamespacesInv'
<1> SUFFICES ASSUME NamespacesInv, [NamespacesNext]_namespaceVars
             PROVE  NamespacesInv'
    OBVIOUS
<1>1. ASSUME NEW r \in NamespaceRequests, RequestStep(r) PROVE NamespacesInv'
    BY <1>1, CreateNamespaceKeeps, CreatesKeep, GetNamespaceKeeps, GetQuotaKeeps,
       PutQuotaKeeps, GetBindingKeeps, PutBindingKeeps, ListCappsKeeps,
       DeleteNamespaceKeeps, CreateCappKeeps
       DEF RequestStep
<1>2. ASSUME NEW r \in NamespaceRequests, RequestDies(r) PROVE NamespacesInv'
    <2>1. ~At(r, "done")
        BY <1>2 DEF RequestDies, RequestSteps, At
    <2>2. QED
        BY <1>2, <2>1, FailureKeeps
<1>3. CASE UNCHANGED namespaceVars
    <2>1. request' = request /\ Stored' /\ capps' = capps
          /\ quota' = quota /\ binding' = binding /\ fresh' = fresh
        BY <1>3 DEF namespaceVars, NamespacesInv, Objects, Stored
    <2>2. QED
        BY <2>1, ClusterKeeps
<1>4. QED
    BY <1>1, <1>2, <1>3, StartKeeps, AccountKeeps, TerminatedKeeps
       DEF NamespacesNext, RequestsAreAnswered

LEMMA NamespacesInvHolds == NamespacesSpec => []NamespacesInv
BY NamespacesInitInv, NamespacesNextInv, PTL DEF NamespacesSpec

LEMMA InvGivesTypes == NamespacesInv => NamespacesTypeOK
BY DEF NamespacesInv, Objects, Stored, RequestInv, Equipped, NamespacesTypeOK, Done

\* Every variable of Namespaces keeps its type, and a request that is about to
\* write an object has something to write.
THEOREM NamespacesTypeCorrect == NamespacesSpec => []NamespacesTypeOK
BY NamespacesInvHolds, InvGivesTypes, PTL

\* The usage a PUT was allowed for is that of the quota it writes.
LEMMA QuotaStep ==
    ASSUME NamespacesInv, [NamespacesNext]_namespaceVars,
           quota # NoQuota, quota' # NoQuota, quota' # quota
    PROVE  \/ quota'.hard = quota.hard
           \/ CanUpdateQuota(quota, quota'.hard)
<1>1. quota \in [hard: Hard, used: Hard]
    BY DEF NamespacesInv, Objects, Stored
<1>2. ASSUME NEW r \in NamespaceRequests, PutQuota(r)
      PROVE  CanUpdateQuota(quota, quota'.hard)
    <2>1. RequestInv(r) /\ At(r, "putQuota") /\ r \in fresh.quota
          /\ quota' = [quota EXCEPT !.hard = request[r].quota]
        BY <1>2 DEF PutQuota, NamespacesInv, VersionMatches, NamespaceCallFails
    <2>2. quota'.hard = request[r].quota
        BY <1>1, <2>1
    <2>3. QED
        BY <2>1, <2>2 DEF RequestInv, QuotaIsAsRead
<1>3. ASSUME NEW k \in Resources, NEW amount \in QuotaAmounts, Account(k, amount)
      PROVE  quota'.hard = quota.hard
    BY <1>1, <1>3 DEF Account
<1>4. ASSUME NEW r \in NamespaceRequests, RequestStep(r) PROVE PutQuota(r)
    BY <1>4 DEF RequestStep, CreateNamespace, PostQuota, CreateQuota, PostBinding,
       CreateBinding, GetNamespace, GetQuota, NewQuotaOfPut, GetBinding,
       NewBindingOfPut, PutBinding, ListCapps, DeleteNamespace, CreateCapp,
       NamespaceCallFails
<1>5. QED
    BY <1>2, <1>3, <1>4
       DEF NamespacesNext, StartRequest, RequestDies, Terminated,
           RequestsAreAnswered, namespaceVars

\* No limit goes below the usage: a quota is only written by the request that
\* has read it last.
THEOREM LimitsStay == NamespacesSpec => LimitsStayAboveUsage
<1>1. NamespacesInv /\ [NamespacesNext]_namespaceVars =>
        [(quota # NoQuota /\ quota' # NoQuota) =>
         \A k \in Resources :
            (/\ quota.hard[k] # Absent /\ quota.used[k] # Absent
             /\ OrZero(quota'.hard[k]) < quota.hard[k])
               => quota.used[k] <= OrZero(quota'.hard[k])]_namespaceVars
    <2> SUFFICES ASSUME NamespacesInv, [NamespacesNext]_namespaceVars,
                        quota # NoQuota, quota' # NoQuota,
                        NEW k \in Resources,
                        quota.hard[k] # Absent, quota.used[k] # Absent,
                        OrZero(quota'.hard[k]) < quota.hard[k]
                 PROVE  quota.used[k] <= OrZero(quota'.hard[k])
        OBVIOUS
    <2>1. quota.hard[k] \in Nat
        BY NamespacesAssumption
           DEF NamespacesInv, Objects, Stored, Hard, QuotaAmounts
    <2>2. CASE quota'.hard = quota.hard
        BY <2>1, <2>2 DEF OrZero
    <2>3. CASE CanUpdateQuota(quota, quota'.hard)
        BY <2>1, <2>3 DEF CanUpdateQuota, OrZero
    <2>4. QED
        BY <2>2, <2>3, QuotaStep
<1>2. QED
    BY <1>1, NamespacesInvHolds, PTL DEF NamespacesSpec, LimitsStayAboveUsage

\* The RoleBinding is only written by the request that has read it last, and
\* only a PUT leaves a user out.
LEMMA BindingStep ==
    ASSUME NamespacesInv, [NamespacesNext]_namespaceVars,
           binding # NoBinding, binding' # NoBinding, binding' # binding
    PROVE  \E r \in NamespaceRequests :
             /\ At(r, "putBinding") /\ r \in fresh.binding
             /\ binding' = request[r].subjects
<1>1. ASSUME NEW r \in NamespaceRequests, RequestStep(r) PROVE PutBinding(r)
    BY <1>1 DEF RequestStep, CreateNamespace, PostQuota, CreateQuota, PostBinding,
       CreateBinding, GetNamespace, GetQuota, NewQuotaOfPut, GetBinding,
       NewBindingOfPut, PutQuota, ListCapps, DeleteNamespace, CreateCapp,
       NamespaceCallFails
<1>2. ASSUME NEW r \in NamespaceRequests, PutBinding(r)
      PROVE  /\ At(r, "putBinding") /\ r \in fresh.binding
             /\ binding' = request[r].subjects
    BY <1>2 DEF PutBinding, VersionMatches, NamespaceCallFails
<1>3. QED
    BY <1>1, <1>2
       DEF NamespacesNext, StartRequest, RequestDies, Account, Terminated,
           RequestsAreAnswered, namespaceVars

\* A user loses the RoleBinding with the namespace, or to a PUT that has read it
\* last and leaves the user out.
THEOREM UsersStay == NamespacesSpec => UsersAreRemovedByPutOnly
<1>1. NamespacesInv /\ [NamespacesNext]_namespaceVars =>
        [\A u \in Users :
         (/\ binding # NoBinding /\ u \in binding
          /\ binding' # NoBinding /\ u \notin binding')
            => \E r \in fresh.binding : /\ At(r, "putBinding") /\ Is(r, "put")
                                         /\ u \notin request[r].users]_namespaceVars
    <2> SUFFICES ASSUME NamespacesInv, [NamespacesNext]_namespaceVars,
                        NEW u \in Users, binding # NoBinding, u \in binding,
                        binding' # NoBinding, u \notin binding'
                 PROVE  \E r \in fresh.binding :
                           /\ At(r, "putBinding") /\ Is(r, "put")
                           /\ u \notin request[r].users
        OBVIOUS
    <2>1. PICK r \in NamespaceRequests : /\ At(r, "putBinding") /\ r \in fresh.binding
                                         /\ binding' = request[r].subjects
        BY BindingStep
    <2>2. BindingIsAsRead(r)
        BY DEF NamespacesInv, RequestInv
    <2>3. QED
        BY <2>1, <2>2 DEF BindingIsAsRead
<1>2. QED
    BY <1>1, NamespacesInvHolds, PTL DEF NamespacesSpec, UsersAreRemovedByPutOnly

\* Capps come and go between the list and the Delete, and the namespace may be
\* another one: what was there before the DELETE came is gone by then.
THEOREM OlderCappsStay == NamespacesSpec => DeleteTakesNewCappsOnly
<1>1. NamespacesInv =>
        [\A r \in NamespaceRequests :
         (/\ At(r, "delete") /\ phase = "Active"
          /\ phase' = "Terminating" /\ request'[r] # request[r])
            => request[r].older \cap capps = {}]_namespaceVars
    BY DEF NamespacesInv, RequestInv, OlderAreGone
<1>2. QED
    BY <1>1, NamespacesInvHolds, PTL DEF DeleteTakesNewCappsOnly

=============================================================================
