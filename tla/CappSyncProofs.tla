--------------------------- MODULE CappSyncProofs ---------------------------
(***************************************************************************)
(* Proofs about CappSync, for every set of requests and of specs, every    *)
(* bound on the concurrency and every set of faults.                       *)
(***************************************************************************)
EXTENDS CappSync, TLAPS

Overwriters == {"update", "rollback"}

\* The handlers that have a Capp in hand.
HasRead(r) == request[r].pc = "git" \/ request[r].pc = "patch"
              \/ (request[r].pc = "write" /\ request[r].op # "create")

\* The handlers that know the spec they are going to write.
HasSpec(r) ==
    \/ request[r].op = "create" /\ request[r].pc = "write"
    \/ request[r].op \in Overwriters /\ request[r].pc \in {"get", "write"}

\* What a handler holds at each step.
HandlerState(r) ==
    /\ HasRead(r) => request[r].read \in Object
    /\ HasSpec(r) => request[r].spec \in Specs
    /\ request[r].pc \in {"get", "write", "git", "patch"}
          => request[r].op # "none"
    /\ request[r].pc \in {"get", "git", "patch"} => request[r].op # "create"
    /\ request[r].pc = "patch" => request[r].op \in Toggles

\* A spec is that of a revision.
WasLive(spec) == \E rev \in revisions : rev.spec = spec

\* A version names one content of the Capp: a handler that is about to
\* overwrite the version it has read overwrites the object it has read.
VersionNamesContent(r) ==
    (/\ request[r].op \in Overwriters
     /\ request[r].pc = "write"
     /\ VersionMatches(request[r].read)) => capp = request[r].read

\* The spec that a handler may still write to the repository was live.
SpecToBackUpWasLive(r) ==
    (request[r].pc = "git" /\ request[r].op \in Overwriters \cup {"sync"})
        => WasLive(request[r].read.spec)

HandlerInv(r) ==
    /\ HandlerState(r)
    /\ request[r].read.rv <= lastRV
    /\ VersionNamesContent(r)
    /\ SpecToBackUpWasLive(r)

\* The live Capp has a version that was handed out and a revision.
LiveCapp == capp # NoCapp => capp.rv <= lastRV /\ WasLive(capp.spec)

IInv ==
    /\ TypeOK
    /\ LiveCapp
    /\ BackupWasLive
    /\ \A r \in Requests : HandlerInv(r)

-----------------------------------------------------------------------------
(* What every step does to the Capp and to the repository. *)

\* Versions and revisions only grow; a Capp that changes gets a new version.
Grows ==
    /\ capp' \in Object \cup {NoCapp}
    /\ lastRV' \in Nat
    /\ lastRV <= lastRV'
    /\ revisions' \subseteq [spec: Specs, label: BOOLEAN]
    /\ revisions \subseteq revisions'
    /\ capp' # NoCapp => capp' = capp \/ lastRV < capp'.rv
    /\ LiveCapp'
    /\ overlapped' \subseteq Requests

\* Store is such a step, and it leaves the spec it was given.
LEMMA StoreGrows ==
    ASSUME TypeOK, LiveCapp, NEW s \in Specs, NEW b \in BOOLEAN, Store(s, b),
           UNCHANGED overlapped
    PROVE  Grows /\ \E rev \in revisions' : rev.spec = s
<1>1. CASE capp # NoCapp /\ capp.spec = s /\ capp.label = b
  <2>1. UNCHANGED <<capp, lastRV, revisions>>
    BY <1>1 DEF Store
  <2>. QED
    BY <1>1, <2>1 DEF TypeOK, LiveCapp, WasLive, Grows
<1>2. CASE ~(capp # NoCapp /\ capp.spec = s /\ capp.label = b)
  <2>1. /\ lastRV' = lastRV + 1
        /\ capp' = [spec |-> s, label |-> b, rv |-> lastRV + 1]
        /\ revisions' = revisions \cup {[spec |-> s, label |-> b]}
    BY <1>2 DEF Store
  <2>2. lastRV \in Nat
    BY DEF TypeOK
  <2>3. capp' \in Object /\ capp'.spec = s /\ capp'.rv = lastRV + 1
    BY <2>1, <2>2 DEF Object
  <2>4. [spec |-> s, label |-> b] \in revisions'
    BY <2>1
  <2>5. \E rev \in revisions' : rev.spec = s
    BY <2>4
  <2>6. LiveCapp'
    BY <2>1, <2>2, <2>3, <2>5 DEF LiveCapp, WasLive
  <2>. QED
    BY <2>1, <2>2, <2>3, <2>5, <2>6 DEF TypeOK, Grows
<1>. QED
  BY <1>1, <1>2

\* A deletion and a step that leaves the API server alone are such steps.
LEMMA UnchangedGrows ==
    ASSUME TypeOK, LiveCapp, capp' \in {capp, NoCapp},
           UNCHANGED <<lastRV, revisions>>, overlapped' \subseteq Requests
    PROVE  Grows
BY DEF TypeOK, LiveCapp, WasLive, Grows

\* What a request holds is not disturbed by the step of another one.
LEMMA OthersUndisturbed ==
    ASSUME TypeOK, Grows, NEW x \in Requests, HandlerInv(x),
           request'[x] = request[x]
    PROVE  HandlerInv(x)'
<1>1. /\ lastRV \in Nat /\ lastRV' \in Nat /\ lastRV <= lastRV'
      /\ request[x].read.rv \in Nat
  BY DEF Grows, TypeOK, Request, Object, NotRead
<1>2. request'[x].read.rv <= lastRV'
  BY <1>1 DEF HandlerInv
<1>3. HandlerState(x)'
  BY DEF HandlerInv, HandlerState, HasRead, HasSpec
<1>4. VersionNamesContent(x)'
  <2> SUFFICES ASSUME request[x].op \in Overwriters,
                      request[x].pc = "write",
                      capp' # NoCapp, capp'.rv = request[x].read.rv
               PROVE  capp' = request[x].read
    BY DEF VersionNamesContent, VersionMatches
  <2>1. request[x].read.rv <= lastRV
    BY DEF HandlerInv
  <2>2. capp' \in Object /\ capp'.rv \in Nat
    BY DEF Grows, Object
  <2>3. capp' = capp
    BY <1>1, <2>1, <2>2 DEF Grows
  <2>. QED
    BY <2>3 DEF HandlerInv, VersionNamesContent, VersionMatches
<1>5. SpecToBackUpWasLive(x)'
  BY DEF HandlerInv, SpecToBackUpWasLive, WasLive, Grows
<1>. QED
  BY <1>2, <1>3, <1>4, <1>5 DEF HandlerInv

\* A step of one request: it is enough to look at the Capp, at the file and
\* at the request itself.
LEMMA OneRequestMoves ==
    ASSUME IInv, Grows, NEW r \in Requests,
           request' \in [Requests -> Request],
           \A x \in Requests \ {r} : request'[x] = request[x],
           file' \in Specs \cup {NoFile},
           BackupWasLive',
           HandlerInv(r)'
    PROVE  IInv'
<1>1. TypeOK'
  BY DEF TypeOK, Grows
<1>2. ASSUME NEW x \in Requests PROVE HandlerInv(x)'
  <2>1. CASE x = r
    BY <2>1
  <2>2. CASE x # r
    BY <2>2, OthersUndisturbed DEF IInv
  <2>. QED
    BY <2>1, <2>2
<1>. QED
  BY <1>1, <1>2 DEF IInv, Grows

\* When the file is left alone it still holds a spec that was live.
LEMMA FileUntouched ==
    ASSUME IInv, Grows, UNCHANGED file
    PROVE  file' \in Specs \cup {NoFile} /\ BackupWasLive'
BY DEF IInv, TypeOK, BackupWasLive, Grows

\* A request that has been answered holds nothing any more.
LEMMA AnsweredHoldsNothing ==
    ASSUME IInv, Grows, NEW r \in Requests, NEW code \in Replies,
           Reply(r, code)
    PROVE  /\ request' \in [Requests -> Request]
           /\ \A x \in Requests \ {r} : request'[x] = request[x]
           /\ HandlerInv(r)'
<1>1. request \in [Requests -> Request]
  BY DEF IInv, TypeOK
<1>2. request'[r] = [request[r] EXCEPT !.pc = "done", !.reply = code]
  BY <1>1 DEF Reply
<1>3. request'[r] \in Request
  BY <1>1, <1>2 DEF Request, Steps
<1>4. /\ request' \in [Requests -> Request]
      /\ \A x \in Requests \ {r} : request'[x] = request[x]
  BY <1>1, <1>3 DEF Reply
<1>5. request'[r].pc = "done" /\ request'[r].read = request[r].read
  BY <1>1, <1>2 DEF Request
<1>6. request'[r].read.rv <= lastRV'
  <2>1. request[r].read.rv <= lastRV /\ request[r].read.rv \in Nat
    BY <1>1 DEF IInv, HandlerInv, Request, Object, NotRead
  <2>2. lastRV \in Nat /\ lastRV' \in Nat /\ lastRV <= lastRV'
    BY DEF IInv, TypeOK, Grows
  <2>. QED
    BY <1>5, <2>1, <2>2
<1>7. HandlerInv(r)'
  BY <1>5, <1>6 DEF HandlerInv, HandlerState, HasRead, HasSpec,
     VersionNamesContent, SpecToBackUpWasLive
<1>. QED
  BY <1>4, <1>7

-----------------------------------------------------------------------------
(* The invariant holds initially and is preserved by every action. *)

LEMMA InitIInv == Init => IInv
<1> SUFFICES ASSUME Init
             PROVE  IInv
  OBVIOUS
<1>1. \A r \in Requests : request[r] = Idle
  BY DEF Init
<1>2. request \in [Requests -> Request]
  <2>1. Idle \in Request
    BY DEF Idle, Request, Ops, Steps, Replies, NotRead
  <2>. QED
    BY <2>1 DEF Init
<1>3. lastRV \in Nat => \A r \in Requests : HandlerInv(r)
  BY <1>1 DEF HandlerInv, HandlerState, HasRead, HasSpec, VersionNamesContent,
     SpecToBackUpWasLive, Idle, NotRead
<1>4. overlapped = {}
  BY DEF Init
<1>5. CASE capp = NoCapp /\ lastRV = 0 /\ revisions = {} /\ file = NoFile
  BY <1>2, <1>3, <1>4, <1>5 DEF IInv, TypeOK, LiveCapp, BackupWasLive
<1>6. ASSUME NEW s \in Specs, NEW b \in BOOLEAN,
             capp = [spec |-> s, label |-> b, rv |-> 1],
             lastRV = 1,
             revisions = {[spec |-> s, label |-> b]},
             file = IF b THEN s ELSE NoFile
      PROVE  IInv
  <2>1. capp \in Object /\ capp.spec = s /\ capp.rv = 1
    BY <1>6 DEF Object
  <2>2. WasLive(s)
    BY <1>6 DEF WasLive
  <2>3. BackupWasLive
    BY <1>6, <2>2 DEF BackupWasLive, WasLive
  <2>. QED
    BY <1>2, <1>3, <1>4, <1>6, <2>1, <2>2, <2>3
    DEF IInv, TypeOK, LiveCapp
<1>. QED
  BY <1>5, <1>6 DEF Init

\* A step that ends in an answer and leaves the file alone.
LEMMA AnsweredPreserves ==
    ASSUME IInv, Grows, UNCHANGED file, NEW r \in Requests,
           NEW code \in Replies, Reply(r, code)
    PROVE  IInv'
BY FileUntouched, AnsweredHoldsNothing, OneRequestMoves

LEMMA StartPreserves ==
    ASSUME IInv, NEW r \in Requests, Start(r)
    PROVE  IInv'
<1>1. Grows
  BY UnchangedGrows DEF IInv, TypeOK, Start, InFlight
<1>2. PICK op \in Ops, s \in Specs, first \in {"write", "find", "get"},
           wanted \in Specs \cup {NoSpec}, q \in Request :
        /\ q.op = op /\ q.read = NotRead
        /\ q.pc \in {"done", first}
        /\ op = "create" <=> first = "write"
        /\ op = "rollback" <=> first = "find"
        /\ op \in {"create", "update"} => q.pc = "done" \/ q.spec \in Specs
        /\ request' = [request EXCEPT ![r] = q]
  <2>1. PICK op \in Ops, s \in Specs :
          LET first == CASE op = "create" -> "write"
                         [] op = "rollback" -> "find"
                         [] OTHER -> "get"
              wanted == IF op \in {"create", "update"} THEN s ELSE NoSpec
          IN  request' = [request EXCEPT ![r] =
                IF op \in Toggles /\ ~GitOpsEnabled
                THEN [Idle EXCEPT !.op = op, !.pc = "done",
                                  !.reply = "rejected"]
                ELSE [Idle EXCEPT !.op = op, !.pc = first, !.spec = wanted]]
    BY DEF Start
  <2> DEFINE first == CASE op = "create" -> "write"
                        [] op = "rollback" -> "find"
                        [] OTHER -> "get"
             wanted == IF op \in {"create", "update"} THEN s ELSE NoSpec
             q == IF op \in Toggles /\ ~GitOpsEnabled
                  THEN [Idle EXCEPT !.op = op, !.pc = "done",
                                    !.reply = "rejected"]
                  ELSE [Idle EXCEPT !.op = op, !.pc = first, !.spec = wanted]
  <2>2. q \in Request
    BY DEF Request, Idle, Ops, Steps, Replies, NotRead
  <2>3. /\ q.op = op /\ q.read = NotRead
        /\ q.pc \in {"done", first}
        /\ op \in {"create", "update"} => q.pc = "done" \/ q.spec \in Specs
    BY DEF Idle
  <2>4. /\ first \in {"write", "find", "get"}
        /\ op = "create" <=> first = "write"
        /\ op = "rollback" <=> first = "find"
    BY DEF Ops
  <2>. QED
    BY <2>1, <2>2, <2>3, <2>4
<1>3. request \in [Requests -> Request]
  BY DEF IInv, TypeOK
<1>4. /\ request' \in [Requests -> Request]
      /\ \A x \in Requests \ {r} : request'[x] = request[x]
      /\ request'[r] = q
  BY <1>2, <1>3
<1>5. HandlerInv(r)'
  <2>1. HandlerState(r)'
    BY <1>2, <1>4 DEF HandlerState, HasRead, HasSpec, Overwriters, Ops
  <2>2. request'[r].read.rv <= lastRV'
    BY <1>1, <1>2, <1>4 DEF NotRead, Grows
  <2>3. VersionNamesContent(r)' /\ SpecToBackUpWasLive(r)'
    BY <1>2, <1>4 DEF VersionNamesContent, SpecToBackUpWasLive, Overwriters
  <2>. QED
    BY <2>1, <2>2, <2>3 DEF HandlerInv
<1>. QED
  BY <1>1, <1>4, <1>5, FileUntouched, OneRequestMoves DEF Start

LEMMA FindRevisionPreserves ==
    ASSUME IInv, NEW r \in Requests, FindRevision(r)
    PROVE  IInv'
<1>1. Grows /\ UNCHANGED file
  BY UnchangedGrows DEF IInv, TypeOK, FindRevision
<1>2. ASSUME NEW rev \in revisions,
             request' = [request EXCEPT ![r].pc = "get",
                                        ![r].spec = rev.spec,
                                        ![r].template = rev.label]
      PROVE  IInv'
  <2>1. rev.spec \in Specs /\ rev.label \in BOOLEAN
    BY DEF IInv, TypeOK
  <2>2. /\ request \in [Requests -> Request]
        /\ request[r].op = "rollback"
    BY DEF IInv, TypeOK, FindRevision, At
  <2>3. /\ request'[r] = [request[r] EXCEPT !.pc = "get",
                                            !.spec = rev.spec,
                                            !.template = rev.label]
        /\ \A x \in Requests \ {r} : request'[x] = request[x]
    BY <1>2, <2>2
  <2>4. request'[r] \in Request
    BY <2>1, <2>2, <2>3 DEF Request, Steps
  <2>5. request' \in [Requests -> Request]
    BY <1>2, <2>2, <2>3, <2>4
  <2>6. /\ request'[r].pc = "get" /\ request'[r].spec = rev.spec
        /\ request'[r].read = request[r].read /\ request'[r].op = "rollback"
    BY <2>2, <2>3 DEF Request
  <2>7. HandlerInv(r)'
    BY <1>1, <2>1, <2>6 DEF FindRevision, IInv, HandlerInv, HandlerState,
       HasRead, HasSpec, VersionNamesContent, SpecToBackUpWasLive
  <2>. QED
    BY <1>1, <2>3, <2>5, <2>7, FileUntouched, OneRequestMoves
<1>3. CASE Reply(r, "rejected")
  BY <1>1, <1>3, AnsweredPreserves DEF Replies
<1>. QED
  BY <1>2, <1>3 DEF FindRevision

LEMMA GetPreserves ==
    ASSUME IInv, NEW r \in Requests, Get(r)
    PROVE  IInv'
<1>1. Grows /\ UNCHANGED <<capp, lastRV, revisions, file>>
  BY UnchangedGrows DEF IInv, TypeOK, Get
<1>2. ASSUME capp # NoCapp, NEW pc \in {"git", "write"},
             pc = IF request[r].op \in Toggles THEN "git" ELSE "write",
             request' = [request EXCEPT ![r].read = capp, ![r].pc = pc]
      PROVE  IInv'
  <2>1. capp \in Object /\ capp.rv <= lastRV /\ WasLive(capp.spec)
    BY <1>2 DEF IInv, TypeOK, LiveCapp
  <2>2. request \in [Requests -> Request] /\ request[r].pc = "get"
    BY DEF IInv, TypeOK, Get
  <2>3. /\ request'[r] = [request[r] EXCEPT !.read = capp, !.pc = pc]
        /\ \A x \in Requests \ {r} : request'[x] = request[x]
    BY <1>2, <2>2
  <2>4. request'[r] \in Request
    BY <2>1, <2>2, <2>3 DEF Request, Steps
  <2>5. request' \in [Requests -> Request]
    BY <1>2, <2>2, <2>3, <2>4
  <2>6. /\ request'[r].pc = pc /\ request'[r].read = capp
        /\ request'[r].op = request[r].op /\ request'[r].spec = request[r].spec
    BY <2>2, <2>3 DEF Request
  <2>7. HandlerState(r)'
    BY <1>2, <2>1, <2>2, <2>6 DEF IInv, HandlerInv, HandlerState, HasRead,
       HasSpec, Toggles, Overwriters
  <2>8. VersionNamesContent(r)'
    BY <1>1, <2>6 DEF VersionNamesContent
  <2>9. SpecToBackUpWasLive(r)'
    BY <1>1, <2>1, <2>6 DEF SpecToBackUpWasLive, WasLive
  <2>10. HandlerInv(r)'
    BY <1>1, <2>1, <2>6, <2>7, <2>8, <2>9 DEF HandlerInv
  <2>. QED
    BY <1>1, <2>3, <2>5, <2>10, FileUntouched, OneRequestMoves
<1>3. CASE Reply(r, "rejected")
  BY <1>1, <1>3, AnsweredPreserves DEF Replies
<1>. QED
  BY <1>2, <1>3 DEF Get

LEMMA CreatePreserves ==
    ASSUME IInv, NEW r \in Requests, Create(r)
    PROVE  IInv'
<1>1. request[r].spec \in Specs
  BY DEF IInv, HandlerInv, HandlerState, HasSpec, Create, At
<1>2. Grows
  <2>1. CASE Store(request[r].spec, FALSE)
    BY <1>1, <2>1, StoreGrows DEF IInv, Create
  <2>2. CASE UNCHANGED <<capp, lastRV, revisions>>
    BY <2>2, UnchangedGrows DEF IInv, TypeOK, Create
  <2>. QED
    BY <2>1, <2>2 DEF Create
<1>3. PICK code \in Replies : Reply(r, code)
  BY DEF Create, Replies
<1>. QED
  BY <1>2, <1>3, AnsweredPreserves DEF Create

\* What update and rollback send: the version they have read, their spec.
LEMMA UpdatedFacts ==
    ASSUME IInv, NEW r \in Requests, request[r].op \in Overwriters,
           request[r].pc = "write"
    PROVE  /\ Updated(r) \in Object
           /\ Updated(r).spec = request[r].spec
           /\ Updated(r).label = request[r].read.label
           /\ Updated(r).rv = request[r].read.rv
           /\ request[r].read \in Object
           /\ request[r].spec \in Specs
<1>1. request[r].read \in Object /\ request[r].spec \in Specs
  BY DEF IInv, HandlerInv, HandlerState, HasRead, HasSpec, Overwriters
<1>. QED
  BY <1>1 DEF Updated, ToK8s, ApplyTemplate, Object

LEMMA UpdatePreserves ==
    ASSUME IInv, NEW r \in Requests, Update(r)
    PROVE  IInv'
<1> DEFINE updated == Updated(r)
<1>1. request[r].op \in Overwriters /\ request[r].pc = "write"
  BY DEF Update, Overwriters
<1>2. /\ updated \in Object /\ updated.spec \in Specs
      /\ updated.label \in BOOLEAN
      /\ updated.rv = request[r].read.rv
  BY <1>1, UpdatedFacts DEF Object
<1>3. CASE Store(updated.spec, updated.label)
  <2>1. Grows /\ \E rev \in revisions' : rev.spec = updated.spec
    BY <1>2, <1>3, StoreGrows DEF IInv, Update
  <2>2. CASE request' = [request EXCEPT ![r].pc = "git", ![r].read = updated]
    <3>1. request \in [Requests -> Request]
      BY DEF IInv, TypeOK
    <3>2. /\ request'[r] = [request[r] EXCEPT !.pc = "git", !.read = updated]
          /\ \A x \in Requests \ {r} : request'[x] = request[x]
      BY <2>2, <3>1
    <3>3. request'[r] \in Request
      BY <1>2, <3>1, <3>2 DEF Request, Steps
    <3>4. request' \in [Requests -> Request]
      BY <2>2, <3>1, <3>2, <3>3
    <3>5. /\ request'[r].pc = "git" /\ request'[r].read = updated
          /\ request'[r].op = request[r].op
      BY <3>1, <3>2 DEF Request
    <3>6. HandlerState(r)'
      BY <1>1, <1>2, <3>5 DEF HandlerState, HasRead, HasSpec, Overwriters
    <3>7. request'[r].read.rv <= lastRV'
      <4>1. request[r].read.rv <= lastRV
        BY DEF IInv, HandlerInv
      <4>2. lastRV \in Nat /\ lastRV' \in Nat /\ lastRV <= lastRV'
        BY <2>1 DEF IInv, TypeOK, Grows
      <4>3. updated.rv \in Nat
        BY <1>2 DEF Object
      <4>. QED
        BY <1>2, <3>5, <4>1, <4>2, <4>3
    <3>8. VersionNamesContent(r)' /\ SpecToBackUpWasLive(r)'
      BY <2>1, <3>5 DEF VersionNamesContent, SpecToBackUpWasLive, WasLive
    <3>9. HandlerInv(r)'
      BY <3>6, <3>7, <3>8 DEF HandlerInv
    <3>. QED
      BY <2>1, <3>2, <3>4, <3>9, FileUntouched, OneRequestMoves DEF Update
  <2>3. ASSUME NEW code \in Replies, Reply(r, code) PROVE IInv'
    BY <2>1, <2>3, AnsweredPreserves DEF Update
  <2>. QED
    BY <1>3, <2>2, <2>3 DEF Update, Replies
<1>4. CASE UNCHANGED <<capp, lastRV, revisions>> /\ Reply(r, "rejected")
  BY <1>4, UnchangedGrows, AnsweredPreserves
  DEF Update, IInv, TypeOK, Replies
<1>. QED
  BY <1>3, <1>4 DEF Update

\* A handler goes on to its next call with the object it has in hand.
LEMMA GotoPreserves ==
    ASSUME IInv, Grows, NEW r \in Requests, NEW pc \in {"git", "patch"},
           request' = [request EXCEPT ![r].pc = pc],
           HasRead(r), request[r].op # "create",
           pc = "git" => request[r].op = "delete",
           pc = "patch" => request[r].op \in Toggles,
           file' \in Specs \cup {NoFile}, BackupWasLive'
    PROVE  IInv'
<1>1. request \in [Requests -> Request]
  BY DEF IInv, TypeOK
<1>2. /\ request'[r] = [request[r] EXCEPT !.pc = pc]
      /\ \A x \in Requests \ {r} : request'[x] = request[x]
  BY <1>1
<1>3. request'[r] \in Request
  BY <1>1, <1>2 DEF Request, Steps
<1>4. request' \in [Requests -> Request]
  BY <1>1, <1>2, <1>3
<1>5. /\ request'[r].pc = pc /\ request'[r].read = request[r].read
      /\ request'[r].op = request[r].op
  BY <1>1, <1>2 DEF Request
<1>6. request[r].read \in Object /\ request[r].read.rv <= lastRV
  BY DEF IInv, HandlerInv, HandlerState
<1>7. request'[r].read.rv <= lastRV'
  BY <1>5, <1>6 DEF Grows, IInv, TypeOK, Object
<1>8. HandlerInv(r)'
  BY <1>5, <1>6, <1>7 DEF HandlerInv, HandlerState, HasRead, HasSpec,
     VersionNamesContent, SpecToBackUpWasLive, Overwriters, Toggles
<1>. QED
  BY <1>2, <1>4, <1>8, OneRequestMoves

LEMMA DeletePreserves ==
    ASSUME IInv, NEW r \in Requests, Delete(r)
    PROVE  IInv'
<1>1. Grows /\ UNCHANGED file
  BY UnchangedGrows DEF IInv, TypeOK, Delete
<1>2. CASE request' = [request EXCEPT ![r].pc = "git"]
  BY <1>1, <1>2, FileUntouched, GotoPreserves DEF Delete, At, HasRead
<1>3. ASSUME NEW code \in Replies, Reply(r, code) PROVE IInv'
  BY <1>1, <1>3, AnsweredPreserves
<1>. QED
  BY <1>2, <1>3 DEF Delete, Replies

LEMMA GitPreserves ==
    ASSUME IInv, NEW r \in Requests, Git(r)
    PROVE  IInv'
<1>1. Grows
  BY UnchangedGrows DEF IInv, TypeOK, Git
<1>2. HasRead(r) /\ request[r].read \in Object /\ request[r].op # "create"
  BY DEF IInv, HandlerInv, HandlerState, HasRead, Git
<1>3. request[r].op \in Ops
  <2>1. request[r] \in Request
    BY DEF IInv, TypeOK
  <2>2. request[r].op \in Ops \cup {"none"}
    BY <2>1 DEF Request
  <2>. QED
    BY <2>2 DEF IInv, HandlerInv, HandlerState, Git
<1>4. file' \in Specs \cup {NoFile} /\ BackupWasLive'
  <2>1. CASE UNCHANGED file
    BY <1>1, <2>1, FileUntouched
  <2>2. CASE file' = Values(r)
    <3>1. CASE request[r].op \in {"delete", "unsync"}
      BY <2>2, <3>1 DEF Values, BackupWasLive
    <3>2. CASE request[r].op \notin {"delete", "unsync"}
      <4>1. request[r].op \in Overwriters \cup {"sync"}
        BY <1>2, <1>3, <3>2 DEF Ops, Overwriters
      <4>2. WasLive(request[r].read.spec)
        BY <4>1 DEF IInv, HandlerInv, SpecToBackUpWasLive, Git
      <4>3. file' = request[r].read.spec /\ revisions' = revisions
        BY <2>2, <3>2 DEF Values, Git
      <4>. QED
        BY <1>2, <4>2, <4>3 DEF WasLive, BackupWasLive, Object
    <3>. QED
      BY <3>1, <3>2
  <2>. QED
    BY <2>1, <2>2 DEF Git
<1>5. CASE /\ request[r].op \in Toggles
           /\ request' = [request EXCEPT ![r].pc = "patch"]
  BY <1>1, <1>2, <1>4, <1>5, GotoPreserves
<1>6. ASSUME NEW code \in Replies, Reply(r, code) PROVE IInv'
  BY <1>1, <1>4, <1>6, AnsweredHoldsNothing, OneRequestMoves
<1>. QED
  BY <1>5, <1>6 DEF Git, AfterGit, AfterGitError, Replies

LEMMA PatchPreserves ==
    ASSUME IInv, NEW r \in Requests, Patch(r)
    PROVE  IInv'
<1>1. CASE capp # NoCapp /\ Store(capp.spec, PatchedLabel(r))
  <2>1. capp \in Object
    BY <1>1 DEF IInv, TypeOK
  <2>2. capp.spec \in Specs /\ PatchedLabel(r) \in BOOLEAN
    BY <2>1 DEF PatchedLabel, Object
  <2>. QED
    BY <1>1, <2>2, StoreGrows, AnsweredPreserves DEF IInv, Patch, Replies
<1>2. CASE UNCHANGED <<capp, lastRV, revisions>>
  BY <1>2, UnchangedGrows, AnsweredPreserves
  DEF IInv, TypeOK, Patch, Replies
<1>. QED
  BY <1>1, <1>2 DEF Patch

LEMMA CrashPreserves ==
    ASSUME IInv, NEW r \in Requests, Crash(r)
    PROVE  IInv'
BY UnchangedGrows, AnsweredPreserves DEF IInv, TypeOK, Crash, Replies

LEMMA StutterPreserves == IInv /\ UNCHANGED vars => IInv'
BY DEF vars, IInv, TypeOK, LiveCapp, WasLive, BackupWasLive, HandlerInv,
   HandlerState, HasRead, HasSpec, VersionNamesContent, VersionMatches,
   SpecToBackUpWasLive

LEMMA NextIInv == IInv /\ [Next]_vars => IInv'
<1> SUFFICES ASSUME IInv, [Next]_vars
             PROVE  IInv'
  OBVIOUS
<1>1. ASSUME NEW r \in Requests, Start(r) \/ Step(r) \/ Crash(r)
      PROVE  IInv'
  BY <1>1, StartPreserves, FindRevisionPreserves, GetPreserves,
     CreatePreserves, UpdatePreserves, DeletePreserves, GitPreserves,
     PatchPreserves, CrashPreserves DEF Step
<1>2. CASE UNCHANGED vars
  BY <1>2, StutterPreserves
<1>. QED
  BY <1>1, <1>2 DEF Next, Finished

LEMMA Invariance == Spec => []IInv
BY InitIInv, NextIInv, PTL DEF Spec

-----------------------------------------------------------------------------
(* The theorems. *)

\* Every variable keeps its type: in particular no handler ever sends to the
\* API server or to the repository a spec it does not have.
THEOREM TypeCorrect == Spec => []TypeOK
<1>1. IInv => TypeOK
  BY DEF IInv
<1>. QED
  BY <1>1, Invariance, PTL

\* The values file never holds a spec the cluster has not accepted, for any
\* number of concurrent requests and whatever faults are injected.
THEOREM BackupIsOfAcceptedSpec == Spec => []BackupWasLive
<1>1. IInv => BackupWasLive
  BY DEF IInv
<1>. QED
  BY <1>1, Invariance, PTL

\* A step that changes the Capp without touching the request of a writer
\* about to overwrite it is the step of another request; the writer's own
\* step changes the Capp only when it has read the very object it replaces.
LEMMA OverwriteStep ==
    ASSUME IInv, [Next]_vars, NEW r \in Requests,
           request[r].op \in Overwriters, request[r].pc = "write",
           request'[r].pc # "write", capp' # capp
    PROVE  capp = request[r].read
<1>1. request \in [Requests -> Request]
  BY DEF IInv, TypeOK
<1>2. ASSUME NEW x \in Requests, Start(x) \/ Step(x) \/ Crash(x)
      PROVE  x = r
  <2>1. \A y \in Requests \ {x} : request'[y] = request[y]
    BY <1>1, <1>2 DEF Start, Step, Crash, FindRevision, Get, Create, Update,
       Delete, Git, Patch, Reply, AfterGit, AfterGitError
  <2>. QED
    BY <2>1
<1>3. Update(r)
  <2>1. PICK x \in Requests : Start(x) \/ Step(x) \/ Crash(x)
    BY DEF Next, Finished, vars
  <2>2. x = r
    BY <1>2, <2>1
  <2>. QED
    BY <2>1, <2>2 DEF Start, Step, Crash, FindRevision, Get, Create, Update,
       Delete, Git, Patch, At, Overwriters, Steps
<1>4. VersionMatches(Updated(r))
  BY <1>3 DEF Update
<1>5. VersionMatches(request[r].read)
  BY <1>4, UpdatedFacts DEF VersionMatches
<1>. QED
  BY <1>5 DEF IInv, HandlerInv, VersionNamesContent

\* An update or a rollback never overwrites a change it has not seen: it
\* replaces the object it has read or nothing.
THEOREM NoUnseenChangeIsOverwritten == Spec => OverwritesOnlyWhatWasRead
<1>1. IInv /\ [Next]_vars =>
        [\A r \in Requests :
          (/\ request[r].op \in {"update", "rollback"}
           /\ request[r].pc = "write"
           /\ request'[r].pc # "write"
           /\ capp' # capp) => capp = request[r].read]_vars
  BY OverwriteStep DEF Overwriters
<1>. QED
  BY <1>1, Invariance, PTL DEF Spec, OverwritesOnlyWhatWasRead

\* An update stores the label of the object it replaces.
LEMMA UpdateKeepsLabel ==
    ASSUME IInv, NEW r \in Requests, Update(r), capp # NoCapp, capp' # NoCapp
    PROVE  capp'.label = capp.label
<1>1. CASE UNCHANGED capp
  BY <1>1
<1>2. CASE /\ VersionMatches(Updated(r))
           /\ Store(Updated(r).spec, Updated(r).label)
  <2>1. request[r].op \in Overwriters /\ request[r].pc = "write"
    BY DEF Update, Overwriters
  <2>2. VersionMatches(request[r].read)
    BY <1>2, <2>1, UpdatedFacts DEF VersionMatches
  <2>3. capp = request[r].read
    BY <2>1, <2>2 DEF IInv, HandlerInv, VersionNamesContent
  <2>4. Updated(r).label = capp.label
    BY <2>1, <2>3, UpdatedFacts
  <2>. QED
    BY <1>2, <2>4 DEF Store
<1>. QED
  BY <1>1, <1>2 DEF Update

LEMMA LabelStep ==
    ASSUME IInv, [Next]_vars, capp # NoCapp, capp' # NoCapp,
           capp'.label # capp.label
    PROVE  \E r \in Requests : /\ request[r].op \in Toggles
                               /\ request[r].pc = "patch"
                               /\ request'[r].pc = "done"
<1>1. PICK r \in Requests : Start(r) \/ Step(r) \/ Crash(r)
  BY DEF Next, Finished, vars
<1>2. Patch(r)
  <2>1. CASE Create(r)
    BY <2>1 DEF Create
  <2>2. CASE Update(r)
    BY <2>2, UpdateKeepsLabel
  <2>. QED
    BY <1>1, <2>1, <2>2 DEF Start, Step, Crash, FindRevision, Get, Delete, Git
<1>3. request \in [Requests -> Request]
  BY DEF IInv, TypeOK
<1>4. request'[r].pc = "done"
  BY <1>2, <1>3 DEF Patch, Reply, Request
<1>5. request[r].op \in Toggles
  BY <1>2 DEF IInv, HandlerInv, HandlerState, Patch
<1>. QED
  BY <1>2, <1>4, <1>5 DEF Patch

\* However an update or a rollback interleaves with a sync or an unsync, it
\* does not bring back the label they have changed.
THEOREM LabelIsChangedByTogglesOnly == Spec => LabelChangesOnlyByToggle
<1>1. IInv /\ [Next]_vars =>
        [(/\ capp # NoCapp /\ capp' # NoCapp
          /\ capp'.label # capp.label)
         => \E r \in Requests : /\ request[r].op \in Toggles
                                /\ request[r].pc = "patch"
                                /\ request'[r].pc = "done"]_vars
  BY LabelStep
<1>. QED
  BY <1>1, Invariance, PTL DEF Spec, LabelChangesOnlyByToggle

-----------------------------------------------------------------------------
(* Drift.  A request that no other one overlaps finds the Capp and the file *)
(* as it left them with its last call.  Until it reports a failure, the     *)
(* label and the file disagree only while such a request still has a call   *)
(* to make.                                                                 *)

\* The replies after which the caller knows that the backup may be stale.
Alarms == {"warning", "failed", "lost"}

\* What a handler that runs alone has made of the Capp and of the file.
AloneState(r) ==
    /\ (request[r].pc = "write" /\ request[r].op # "create")
          => capp = request[r].read
    /\ (request[r].pc = "git" /\ request[r].op \in Toggles)
          => capp = request[r].read
    /\ (request[r].pc = "git" /\ request[r].op \in Overwriters)
          => /\ capp # NoCapp
             /\ capp.spec = request[r].read.spec
             /\ capp.label = TRUE
    /\ (request[r].pc = "git" /\ request[r].op = "delete") => capp = NoCapp
    /\ request[r].pc = "patch" => capp = request[r].read /\ file = Values(r)

\* The handler has written the Capp and not the file, or the file and not
\* the label.
HalfWay(r) ==
    \/ request[r].pc = "git" /\ request[r].op \notin Toggles
    \/ request[r].pc = "patch"

Alone(r) == request[r].pc \in Steps /\ r \notin overlapped

\* No caller was told of a failure and no requests have overlapped.
NothingToReport ==
    \A r \in Requests : request[r].reply \notin Alarms /\ r \notin overlapped

DriftInv ==
    /\ IInv
    /\ \A r \in Requests : request[r].reply # "none" => request[r].pc = "done"
    /\ \A r \in Requests : Alone(r) =>
          (AloneState(r) /\ \A x \in InFlight : x = r)
    /\ (/\ GitOpsEnabled
        /\ NothingToReport
        /\ \A r \in Requests : ~HalfWay(r)) => InAgreement

\* What the step of a handler that runs alone has to establish.
StepOfAlone(r) ==
    /\ request'[r].pc \in Steps => AloneState(r)'
    /\ (/\ GitOpsEnabled
        /\ request'[r].reply \notin Alarms
        /\ ~HalfWay(r)'
        /\ ~HalfWay(r) => InAgreement) => InAgreement'

\* A step of one handler: nothing has to be shown when another request has
\* overlapped it.
LEMMA HandlerKeepsDriftInv ==
    ASSUME DriftInv, IInv', NEW r \in Requests, request[r].pc \in Steps,
           UNCHANGED overlapped,
           \A x \in Requests \ {r} : request'[x] = request[x],
           request'[r].reply # "none" => request'[r].pc = "done",
           Alone(r) => StepOfAlone(r)
    PROVE  DriftInv'
<1>1. \A x \in Requests : request'[x].reply # "none" => request'[x].pc = "done"
  BY DEF DriftInv
<1>2. ASSUME NEW x \in Requests, Alone(x)'
      PROVE  AloneState(x)' /\ \A y \in InFlight' : y = x
  <2>1. Alone(x)
    <3>1. CASE x = r
      BY <1>2, <3>1 DEF Alone
    <3>2. CASE x # r
      BY <1>2, <3>2 DEF Alone
    <3>. QED
      BY <3>1, <3>2
  <2>2. x = r /\ \A y \in InFlight : y = r
    BY <2>1 DEF DriftInv, InFlight
  <2>3. AloneState(r)'
    BY <1>2, <2>1, <2>2 DEF Alone, StepOfAlone
  <2>4. ASSUME NEW y \in InFlight' PROVE y = r
    BY <2>2, <2>4 DEF InFlight
  <2>. QED
    BY <2>2, <2>3, <2>4
<1>3. ASSUME GitOpsEnabled, NothingToReport',
             \A x \in Requests : ~HalfWay(x)'
      PROVE  InAgreement'
  <2>1. Alone(r)
    BY <1>3 DEF NothingToReport, Alone
  <2>2. request'[r].reply \notin Alarms /\ ~HalfWay(r)'
    BY <1>3 DEF NothingToReport
  <2>3. request[r].reply \notin Alarms
    BY DEF DriftInv, Steps, Alarms
  <2>4. NothingToReport
    BY <1>3, <2>3 DEF NothingToReport
  <2>5. ASSUME ~HalfWay(r) PROVE InAgreement
    <3>1. ASSUME NEW x \in Requests PROVE ~HalfWay(x)
      BY <1>3, <2>5 DEF HalfWay
    <3>. QED
      BY <1>3, <2>4, <3>1 DEF DriftInv
  <2>. QED
    BY <1>3, <2>1, <2>2, <2>5 DEF StepOfAlone
<1>. QED
  BY <1>1, <1>2, <1>3 DEF DriftInv

\* A handler goes on to its next step without an answer, or gives one.
LEMMA HandlerMoves ==
    ASSUME DriftInv, NEW r \in Requests, request[r].pc \in Steps,
           Step(r) \/ Crash(r)
    PROVE  /\ UNCHANGED overlapped
           /\ \A x \in Requests \ {r} : request'[x] = request[x]
           /\ request'[r].reply # "none" => request'[r].pc = "done"
           /\ request'[r].op = request[r].op
           /\ request[r] \in Request /\ request'[r] \in Request
           /\ request[r].reply = "none"
<1>1. request \in [Requests -> Request] /\ request[r] \in Request
  BY DEF DriftInv, IInv, TypeOK
<1>2. request[r].reply = "none"
  BY DEF DriftInv, Steps
<1>3. PICK q : request' = [request EXCEPT ![r] = q] /\ q.op = request[r].op
               /\ (q.reply # "none" => q.pc = "done")
  <2>1. ASSUME NEW code \in Replies, Reply(r, code)
        PROVE  \E q : /\ request' = [request EXCEPT ![r] = q]
                      /\ q.op = request[r].op
                      /\ (q.reply # "none" => q.pc = "done")
    <3> DEFINE q == [request[r] EXCEPT !.pc = "done", !.reply = code]
    <3>1. request' = [request EXCEPT ![r] = q]
      BY <1>1, <2>1 DEF Reply
    <3>2. q.op = request[r].op /\ q.pc = "done"
      BY <1>1 DEF Request
    <3>. QED
      BY <3>1, <3>2
  <2>2. ASSUME NEW pc \in Steps, NEW read,
               request' = [request EXCEPT ![r].pc = pc, ![r].read = read]
        PROVE  \E q : /\ request' = [request EXCEPT ![r] = q]
                      /\ q.op = request[r].op
                      /\ (q.reply # "none" => q.pc = "done")
    <3> DEFINE q == [request[r] EXCEPT !.pc = pc, !.read = read]
    <3>1. request' = [request EXCEPT ![r] = q]
      BY <1>1, <2>2
    <3>2. q.op = request[r].op /\ q.reply = "none"
      BY <1>1, <1>2 DEF Request
    <3>. QED
      BY <3>1, <3>2
  <2>3. ASSUME NEW pc \in Steps, request' = [request EXCEPT ![r].pc = pc]
        PROVE  \E q : /\ request' = [request EXCEPT ![r] = q]
                      /\ q.op = request[r].op
                      /\ (q.reply # "none" => q.pc = "done")
    <3> DEFINE q == [request[r] EXCEPT !.pc = pc]
    <3>1. request' = [request EXCEPT ![r] = q]
      BY <1>1, <2>3
    <3>2. q.op = request[r].op /\ q.reply = "none"
      BY <1>1, <1>2 DEF Request
    <3>. QED
      BY <3>1, <3>2
  <2>4. CASE FindRevision(r)
    <3>1. ASSUME NEW rev \in revisions,
                 request' = [request EXCEPT ![r].pc = "get",
                                            ![r].spec = rev.spec,
                                            ![r].template = rev.label]
          PROVE  \E q : /\ request' = [request EXCEPT ![r] = q]
                        /\ q.op = request[r].op
                        /\ (q.reply # "none" => q.pc = "done")
      <4> DEFINE q == [request[r] EXCEPT !.pc = "get", !.spec = rev.spec,
                                         !.template = rev.label]
      <4>1. request' = [request EXCEPT ![r] = q]
        BY <1>1, <3>1
      <4>2. q.op = request[r].op /\ q.reply = "none"
        BY <1>1, <1>2 DEF Request
      <4>. QED
        BY <4>1, <4>2
    <3>. QED
      BY <2>1, <2>4, <3>1 DEF FindRevision, Replies
  <2>5. CASE Get(r)
    <3>1. ASSUME request' = [request EXCEPT ![r].read = capp,
                ![r].pc = IF request[r].op \in Toggles THEN "git" ELSE "write"]
          PROVE  \E q : /\ request' = [request EXCEPT ![r] = q]
                        /\ q.op = request[r].op
                        /\ (q.reply # "none" => q.pc = "done")
      <4> DEFINE q == [request[r] EXCEPT !.read = capp,
                !.pc = IF request[r].op \in Toggles THEN "git" ELSE "write"]
      <4>1. request' = [request EXCEPT ![r] = q]
        BY <1>1, <3>1
      <4>2. q.op = request[r].op /\ q.reply = "none"
        BY <1>1, <1>2 DEF Request
      <4>. QED
        BY <4>1, <4>2
    <3>. QED
      BY <2>1, <2>5, <3>1 DEF Get, Replies
  <2>6. CASE Create(r) \/ Patch(r) \/ Crash(r)
    BY <2>1, <2>6 DEF Create, Patch, Crash, Replies
  <2>7. CASE Update(r)
    BY <2>1, <2>2, <2>7 DEF Update, Replies, Steps
  <2>8. CASE Delete(r)
    BY <2>1, <2>3, <2>8 DEF Delete, Replies, Steps
  <2>9. CASE Git(r)
    BY <2>1, <2>3, <2>9 DEF Git, AfterGit, AfterGitError, Replies, Steps
  <2>. QED
    BY <2>4, <2>5, <2>6, <2>7, <2>8, <2>9 DEF Step
<1>4. /\ request'[r] = q
      /\ \A x \in Requests \ {r} : request'[x] = request[x]
  BY <1>1, <1>3
<1>5. UNCHANGED overlapped
  BY DEF Step, Crash, FindRevision, Get, Create, Update, Delete, Git, Patch
<1>6. IInv'
  BY NextIInv DEF DriftInv, Next
<1>. QED
  BY <1>1, <1>2, <1>3, <1>4, <1>5, <1>6 DEF IInv, TypeOK

\* The new record of a handler that is answered or goes on.
LEMMA Answered ==
    ASSUME TypeOK, NEW r \in Requests, NEW code, Reply(r, code)
    PROVE  request'[r].pc = "done" /\ request'[r].reply = code
BY DEF TypeOK, Reply, Request

\* Store leaves a Capp with the spec and the label it was given.
LEMMA WhatIsStored ==
    ASSUME TypeOK, NEW s \in Specs, NEW b \in BOOLEAN, Store(s, b)
    PROVE  capp' # NoCapp /\ capp'.spec = s /\ capp'.label = b
<1>1. [spec |-> s, label |-> b, rv |-> lastRV + 1] \in Object
  BY DEF TypeOK, Object
<1>. QED
  BY <1>1, ConstantsAssumption DEF Store

LEMMA GetOfAlone ==
    ASSUME DriftInv, NEW r \in Requests, Alone(r), FindRevision(r) \/ Get(r)
    PROVE  StepOfAlone(r)
<1>1. TypeOK /\ UNCHANGED <<capp, file>> /\ ~HalfWay(r)
  BY DEF DriftInv, IInv, FindRevision, Get, At, HalfWay
<1>2. InAgreement => InAgreement'
  BY <1>1 DEF InAgreement
<1>3. request'[r].pc \in Steps => AloneState(r)'
  <2>1. ASSUME NEW rev \in revisions,
               request' = [request EXCEPT ![r].pc = "get",
                                          ![r].spec = rev.spec,
                                          ![r].template = rev.label]
        PROVE  AloneState(r)'
    <3>1. request'[r].pc = "get"
      BY <1>1, <2>1 DEF TypeOK, Request
    <3>. QED
      BY <3>1 DEF AloneState
  <2>2. ASSUME request' = [request EXCEPT ![r].read = capp,
               ![r].pc = IF request[r].op \in Toggles THEN "git" ELSE "write"]
        PROVE  AloneState(r)'
    <3>1. /\ request'[r].op = request[r].op
          /\ request'[r].read = capp
          /\ request'[r].pc =
               IF request[r].op \in Toggles THEN "git" ELSE "write"
      BY <1>1, <2>2 DEF TypeOK, Request
    <3>. QED
      BY <1>1, <3>1 DEF AloneState, Toggles, Overwriters
  <2>3. CASE Reply(r, "rejected")
    BY <1>1, <2>3, Answered DEF Steps
  <2>. QED
    BY <2>1, <2>2, <2>3 DEF FindRevision, Get
<1>. QED
  BY <1>1, <1>2, <1>3 DEF StepOfAlone

\* A Capp is created without a label, where there was none.
LEMMA CreateOfAlone ==
    ASSUME DriftInv, NEW r \in Requests, Alone(r), Create(r)
    PROVE  StepOfAlone(r)
<1>1. TypeOK /\ request[r].spec \in Specs /\ ~HalfWay(r) /\ UNCHANGED file
  BY DEF DriftInv, IInv, HandlerInv, HandlerState, HasSpec, Create, At, HalfWay
<1>2. request'[r].pc = "done"
  BY <1>1, Answered DEF Create
<1>3. ASSUME InAgreement PROVE InAgreement'
  <2>1. CASE capp = NoCapp /\ Store(request[r].spec, FALSE)
    BY <1>1, <1>3, <2>1, WhatIsStored DEF InAgreement
  <2>2. CASE UNCHANGED capp
    BY <1>1, <1>3, <2>2 DEF InAgreement
  <2>. QED
    BY <2>1, <2>2 DEF Create
<1>. QED
  BY <1>1, <1>2, <1>3 DEF StepOfAlone, Steps

\* An update of a Capp with a label goes on to the backup or is reported; one
\* without a label has no file to keep up to date.
LEMMA UpdateOfAlone ==
    ASSUME DriftInv, NEW r \in Requests, Alone(r), Update(r)
    PROVE  StepOfAlone(r)
<1> DEFINE updated == Updated(r)
<1>1. TypeOK /\ ~HalfWay(r) /\ UNCHANGED file
  BY DEF DriftInv, IInv, Update, HalfWay
<1>2. request[r].op \in Overwriters /\ request[r].pc = "write"
  BY DEF Update, Overwriters
<1>3. /\ updated \in Object /\ updated.spec \in Specs
      /\ updated.label \in BOOLEAN
      /\ updated.label = request[r].read.label
      /\ request[r].read \in Object
  BY <1>2, UpdatedFacts DEF DriftInv, Object
<1>4. capp = request[r].read
  BY <1>2 DEF DriftInv, AloneState, Overwriters
<1>5. CASE /\ Store(updated.spec, updated.label)
           /\ \/ /\ IsGitSyncEnabled(request[r].read)
                 /\ request' = [request EXCEPT ![r].pc = "git",
                                               ![r].read = updated]
              \/ ~IsGitSyncEnabled(request[r].read) /\ Reply(r, "ok")
              \/ Reply(r, "failed")
  <2>1. /\ capp' # NoCapp /\ capp'.spec = updated.spec
        /\ capp'.label = updated.label
    BY <1>1, <1>3, <1>5, WhatIsStored
  <2>2. CASE /\ IsGitSyncEnabled(request[r].read)
             /\ request' = [request EXCEPT ![r].pc = "git",
                                           ![r].read = updated]
    <3>1. /\ request'[r].op = request[r].op
          /\ request'[r].pc = "git"
          /\ request'[r].read = updated
      BY <1>1, <2>2 DEF TypeOK, Request
    <3>2. capp'.label = TRUE
      BY <1>3, <2>1, <2>2 DEF IsGitSyncEnabled
    <3>3. HalfWay(r)'
      BY <1>2, <3>1 DEF HalfWay, Overwriters, Toggles
    <3>. QED
      BY <1>2, <2>1, <3>1, <3>2, <3>3
      DEF StepOfAlone, AloneState, Overwriters, Toggles
  <2>3. CASE ~IsGitSyncEnabled(request[r].read) /\ Reply(r, "ok")
    <3>1. request'[r].pc = "done"
      BY <1>1, <2>3, Answered
    <3>2. ASSUME GitOpsEnabled, InAgreement PROVE InAgreement'
      <4>1. capp.label = FALSE /\ capp'.label = FALSE
        BY <1>3, <1>4, <2>1, <2>3, <3>2 DEF IsGitSyncEnabled, Object
      <4>. QED
        BY <1>1, <3>2, <4>1 DEF InAgreement
    <3>. QED
      BY <1>1, <3>1, <3>2 DEF StepOfAlone, Steps
  <2>4. CASE Reply(r, "failed")
    <3>1. request'[r].pc = "done" /\ request'[r].reply = "failed"
      BY <1>1, <2>4, Answered
    <3>. QED
      BY <3>1 DEF StepOfAlone, Steps, Alarms
  <2>. QED
    BY <1>5, <2>2, <2>3, <2>4
<1>6. CASE UNCHANGED capp /\ Reply(r, "rejected")
  <2>1. InAgreement => InAgreement'
    BY <1>1, <1>6 DEF InAgreement
  <2>. QED
    BY <1>1, <1>6, <2>1, Answered DEF StepOfAlone, Steps
<1>. QED
  BY <1>5, <1>6 DEF Update

LEMMA DeleteOfAlone ==
    ASSUME DriftInv, NEW r \in Requests, Alone(r), Delete(r)
    PROVE  StepOfAlone(r)
<1>1. TypeOK /\ ~HalfWay(r) /\ UNCHANGED file
  BY DEF DriftInv, IInv, Delete, At, HalfWay
<1>2. request[r].op = "delete" /\ request[r].pc = "write"
  BY DEF Delete, At
<1>3. capp = request[r].read /\ request[r].read \in Object
  BY <1>2 DEF DriftInv, AloneState, IInv, HandlerInv, HandlerState, HasRead
<1>4. CASE capp' = NoCapp /\ request' = [request EXCEPT ![r].pc = "git"]
  <2>1. request'[r].op = "delete" /\ request'[r].pc = "git"
    BY <1>1, <1>2, <1>4 DEF TypeOK, Request
  <2>2. HalfWay(r)'
    BY <2>1 DEF HalfWay, Toggles
  <2>. QED
    BY <1>4, <2>1, <2>2 DEF StepOfAlone, AloneState, Overwriters, Toggles
<1>5. CASE /\ capp' = NoCapp
           /\ ~IsGitSyncEnabled(request[r].read) /\ Reply(r, "ok")
  <2>1. request'[r].pc = "done"
    BY <1>1, <1>5, Answered
  <2>2. ASSUME GitOpsEnabled, InAgreement PROVE InAgreement'
    <3>1. ~capp.label
      BY <1>3, <1>5, <2>2 DEF IsGitSyncEnabled
    <3>. QED
      BY <1>1, <1>5, <2>2, <3>1 DEF InAgreement
  <2>. QED
    BY <1>1, <2>1, <2>2 DEF StepOfAlone, Steps
<1>6. CASE Reply(r, "failed")
  BY <1>1, <1>6, Answered DEF StepOfAlone, Steps, Alarms
<1>7. CASE UNCHANGED capp /\ Reply(r, "rejected")
  <2>1. InAgreement => InAgreement'
    BY <1>1, <1>7 DEF InAgreement
  <2>. QED
    BY <1>1, <1>7, <2>1, Answered DEF StepOfAlone, Steps
<1>. QED
  BY <1>4, <1>5, <1>6, <1>7 DEF Delete

\* The backup brings the file up to date with what the handler has written;
\* a toggle goes on to the label with the file it wants.
LEMMA GitOfAlone ==
    ASSUME DriftInv, NEW r \in Requests, Alone(r), Git(r)
    PROVE  StepOfAlone(r)
<1>1. TypeOK /\ UNCHANGED capp /\ request[r].pc = "git" /\ AloneState(r)
  BY DEF DriftInv, IInv, Git
<1>2. request[r].op \in Toggles \cup Overwriters \cup {"delete"}
  <2>1. request[r] \in Request
    BY <1>1 DEF TypeOK
  <2>2. /\ request[r].op \in Ops \cup {"none"}
        /\ request[r].op # "none" /\ request[r].op # "create"
    BY <1>1, <2>1 DEF Request, DriftInv, IInv, HandlerInv, HandlerState
  <2>. QED
    BY <2>2 DEF Ops, Toggles, Overwriters
<1>3. CASE file' = Values(r) /\ AfterGit(r)
  <2>1. CASE request[r].op \in Toggles
    <3>1. request' = [request EXCEPT ![r].pc = "patch"]
      BY <1>3, <2>1 DEF AfterGit
    <3>2. /\ request'[r].pc = "patch"
          /\ request'[r].op = request[r].op
          /\ request'[r].read = request[r].read
      BY <1>1, <3>1 DEF TypeOK, Request
    <3>3. Values(r)' = Values(r)
      BY <3>2 DEF Values
    <3>4. capp' = request'[r].read /\ file' = Values(r)'
      BY <1>1, <1>3, <2>1, <3>2, <3>3 DEF AloneState
    <3>. QED
      BY <3>2, <3>4 DEF StepOfAlone, AloneState, HalfWay
  <2>2. CASE request[r].op \notin Toggles
    <3>1. request'[r].pc = "done"
      BY <1>1, <1>3, <2>2, Answered DEF AfterGit
    <3>2. InAgreement'
      <4>1. CASE request[r].op \in Overwriters
        BY <1>1, <1>3, <4>1 DEF AloneState, Values, InAgreement, Overwriters
      <4>2. CASE request[r].op = "delete"
        BY <1>1, <1>3, <4>2 DEF AloneState, Values, InAgreement
      <4>. QED
        BY <1>2, <2>2, <4>1, <4>2
    <3>. QED
      BY <3>1, <3>2 DEF StepOfAlone, Steps
  <2>. QED
    BY <2>1, <2>2
<1>4. CASE AfterGitError(r)
  BY <1>1, <1>4, Answered DEF AfterGitError, StepOfAlone, Steps, Alarms
<1>. QED
  BY <1>3, <1>4 DEF Git

\* The patch leaves the label the toggle has written the file for.
LEMMA PatchOfAlone ==
    ASSUME DriftInv, NEW r \in Requests, Alone(r), Patch(r)
    PROVE  /\ StepOfAlone(r)
           /\ request'[r].reply = "ok" => InAgreement'
<1>1. TypeOK /\ UNCHANGED file /\ request[r].pc = "patch"
  BY DEF DriftInv, IInv, Patch
<1>2. /\ capp = request[r].read /\ file = Values(r)
      /\ request[r].op \in Toggles
  BY <1>1 DEF DriftInv, AloneState, IInv, HandlerInv, HandlerState
<1>3. CASE capp # NoCapp /\ Store(capp.spec, PatchedLabel(r))
  <2>1. capp \in Object
    BY <1>1, <1>3 DEF TypeOK
  <2>2. PatchedLabel(r) = (request[r].op = "sync")
    BY <1>2, <2>1 DEF PatchedLabel, Object
  <2>3. /\ capp' # NoCapp /\ capp'.spec = capp.spec
        /\ capp'.label = (request[r].op = "sync")
    BY <1>1, <1>3, <2>1, <2>2, WhatIsStored DEF Object
  <2>4. InAgreement'
    BY <1>1, <1>2, <2>3 DEF InAgreement, Values, Toggles
  <2>5. request'[r].pc = "done"
    BY <1>1, Answered DEF Patch
  <2>. QED
    BY <2>4, <2>5 DEF StepOfAlone, Steps
<1>4. CASE Reply(r, "failed")
  BY <1>1, <1>4, Answered DEF StepOfAlone, Steps, Alarms
<1>. QED
  BY <1>3, <1>4 DEF Patch

LEMMA CrashOfAlone ==
    ASSUME DriftInv, NEW r \in Requests, Crash(r)
    PROVE  StepOfAlone(r)
BY Answered DEF DriftInv, IInv, Crash, StepOfAlone, Steps, Alarms

\* A request that starts beside others is overlapped, and so are they.
LEMMA StartKeepsDriftInv ==
    ASSUME DriftInv, IInv', NEW r \in Requests, Start(r)
    PROVE  DriftInv'
<1>1. TypeOK /\ request[r].pc = "idle" /\ UNCHANGED <<capp, file>>
  BY DEF DriftInv, IInv, Start
<1>2. request[r].reply = "none" /\ r \notin InFlight
  BY <1>1 DEF DriftInv, InFlight, Steps
<1>3. PICK q : /\ request' = [request EXCEPT ![r] = q]
               /\ q.pc \in {"done", "write", "find", "get"}
               /\ q.pc # "done" => q.reply = "none"
               /\ q.pc = "write" => q.op = "create"
               /\ q.reply \in {"none", "rejected"}
  <2>1. PICK op \in Ops, s \in Specs :
          LET first == CASE op = "create" -> "write"
                         [] op = "rollback" -> "find"
                         [] OTHER -> "get"
              wanted == IF op \in {"create", "update"} THEN s ELSE NoSpec
          IN  request' = [request EXCEPT ![r] =
                IF op \in Toggles /\ ~GitOpsEnabled
                THEN [Idle EXCEPT !.op = op, !.pc = "done",
                                  !.reply = "rejected"]
                ELSE [Idle EXCEPT !.op = op, !.pc = first, !.spec = wanted]]
    BY DEF Start
  <2> DEFINE first == CASE op = "create" -> "write"
                        [] op = "rollback" -> "find"
                        [] OTHER -> "get"
             wanted == IF op \in {"create", "update"} THEN s ELSE NoSpec
             q == IF op \in Toggles /\ ~GitOpsEnabled
                  THEN [Idle EXCEPT !.op = op, !.pc = "done",
                                    !.reply = "rejected"]
                  ELSE [Idle EXCEPT !.op = op, !.pc = first, !.spec = wanted]
  <2>2. /\ first \in {"write", "find", "get"}
        /\ first = "write" => op = "create"
    BY DEF Ops
  <2>3. /\ q.pc \in {"done", "write", "find", "get"}
        /\ q.pc # "done" => q.reply = "none"
        /\ q.pc = "write" => q.op = "create"
        /\ q.reply \in {"none", "rejected"}
    BY <2>2 DEF Idle
  <2>. QED
    BY <2>1, <2>3
<1>4. request'[r] = q /\ \A x \in Requests \ {r} : request'[x] = request[x]
  BY <1>1, <1>3 DEF TypeOK
<1>5. \A x \in Requests : request'[x].reply # "none" => request'[x].pc = "done"
  BY <1>3, <1>4 DEF DriftInv
<1>6. AloneState(r)'
  BY <1>3, <1>4 DEF AloneState
<1>7. ASSUME NEW x \in Requests, Alone(x)'
      PROVE  AloneState(x)' /\ \A y \in InFlight' : y = x
  <2>1. InFlight = {}
    <3>1. CASE x = r
      BY <1>7, <3>1 DEF Start, Alone
    <3>2. CASE x # r
      BY <1>4, <1>7, <3>2 DEF Start, Alone, InFlight
    <3>. QED
      BY <3>1, <3>2
  <2>2. x = r
    BY <1>4, <1>7, <2>1 DEF Alone, InFlight
  <2>3. \A y \in InFlight' : y = r
    BY <1>4, <2>1 DEF InFlight
  <2>. QED
    BY <1>6, <2>2, <2>3
<1>8. ASSUME GitOpsEnabled, NothingToReport',
             \A x \in Requests : ~HalfWay(x)'
      PROVE  InAgreement'
  <2>1. ASSUME NEW x \in Requests
        PROVE  /\ request[x].reply \notin Alarms /\ x \notin overlapped
               /\ ~HalfWay(x)
    <3>1. x \notin overlapped
      BY <1>8 DEF NothingToReport, Start
    <3>2. request[x].reply \notin Alarms /\ ~HalfWay(x)
      BY <1>1, <1>2, <1>4, <1>8 DEF NothingToReport, HalfWay, Alarms
    <3>. QED
      BY <3>1, <3>2
  <2>2. InAgreement
    BY <1>8, <2>1 DEF DriftInv, NothingToReport
  <2>. QED
    BY <1>1, <2>2 DEF InAgreement
<1>. QED
  BY <1>5, <1>7, <1>8 DEF DriftInv

LEMMA InitDriftInv == Init => DriftInv
<1> SUFFICES ASSUME Init
             PROVE  DriftInv
  OBVIOUS
<1>1. IInv
  BY InitIInv
<1>2. \A r \in Requests : request[r].reply = "none" /\ request[r].pc = "idle"
  BY DEF Init, Idle
<1>3. InAgreement
  <2>1. CASE capp = NoCapp /\ file = NoFile
    BY <2>1 DEF InAgreement
  <2>2. ASSUME NEW s \in Specs, NEW b \in BOOLEAN,
               capp = [spec |-> s, label |-> b, rv |-> 1],
               file = IF b THEN s ELSE NoFile
        PROVE  InAgreement
    <3>1. capp \in Object
      BY <2>2 DEF Object
    <3>2. capp # NoCapp
      BY <3>1, ConstantsAssumption
    <3>. QED
      BY <2>2, <3>2 DEF InAgreement
  <2>. QED
    BY <2>1, <2>2 DEF Init
<1>. QED
  BY <1>1, <1>2, <1>3 DEF DriftInv, Alone, Steps

LEMMA NextDriftInv == DriftInv /\ [Next]_vars => DriftInv'
<1> SUFFICES ASSUME DriftInv, [Next]_vars
             PROVE  DriftInv'
  OBVIOUS
<1>1. IInv'
  BY NextIInv DEF DriftInv
<1>2. ASSUME NEW r \in Requests, Start(r) PROVE DriftInv'
  BY <1>1, <1>2, StartKeepsDriftInv
<1>3. ASSUME NEW r \in Requests, Step(r) \/ Crash(r) PROVE DriftInv'
  <2>1. request[r].pc \in Steps
    BY <1>3 DEF Step, Crash, FindRevision, Get, Create, Update, Delete, Git,
       Patch, At, Steps
  <2>2. Alone(r) => StepOfAlone(r)
    BY <1>3, GetOfAlone, CreateOfAlone, UpdateOfAlone, DeleteOfAlone,
       GitOfAlone, PatchOfAlone, CrashOfAlone DEF Step
  <2>. QED
    BY <1>1, <1>3, <2>1, <2>2, HandlerMoves, HandlerKeepsDriftInv
<1>4. CASE UNCHANGED vars
  BY <1>1, <1>4 DEF vars, DriftInv, Alone, AloneState, InFlight, Values,
     NothingToReport, HalfWay, InAgreement
<1>. QED
  BY <1>2, <1>3, <1>4 DEF Next, Finished

LEMMA DriftInvariance == Spec => []DriftInv
BY InitDriftInv, NextDriftInv, PTL DEF Spec

\* Without GitOps nothing is backed up and no caller is told: a Capp that
\* carries the label from the time when it was configured drifts silently.
\* With GitOps, the label and the file disagree only after some caller was
\* told of a failure, or after requests have overlapped: for any number of
\* requests, one after another, no handler forgets the backup and no error
\* of the repository or of the API server is swallowed.
THEOREM DriftIsNeverSilent ==
    ASSUME GitOpsEnabled
    PROVE  Spec => []DriftIsReported
<1>1. DriftInv => DriftIsReported
  BY DEF DriftInv, DriftIsReported, Quiet, InFlight, NothingToReport, Alarms,
     HalfWay, Steps
<1>. QED
  BY <1>1, DriftInvariance, PTL

LEMMA ToggleStep ==
    ASSUME DriftInv, [Next]_vars, NEW r \in Requests \ overlapped,
           request[r].op \in Toggles, request[r].pc # "done",
           request'[r].reply = "ok"
    PROVE  InAgreement'
<1>1. TypeOK /\ request[r].reply = "none"
  BY DEF DriftInv, IInv
<1>2. PICK x \in Requests : Start(x) \/ Step(x) \/ Crash(x)
  BY <1>1 DEF Next, Finished, vars
<1>3. CASE Start(x)
  <2>1. request'[x].reply # "ok"
    BY <1>1, <1>3 DEF Start, Idle, TypeOK
  <2>2. \A y \in Requests \ {x} : request'[y] = request[y]
    BY <1>1, <1>3 DEF Start, TypeOK
  <2>. QED
    BY <1>1, <2>1, <2>2
<1>4. CASE Step(x) \/ Crash(x)
  <2>1. request[x].pc \in Steps
    BY <1>4 DEF Step, Crash, FindRevision, Get, Create, Update, Delete, Git,
       Patch, At, Steps
  <2>2. x = r
    BY <1>1, <1>4, <2>1, HandlerMoves
  <2>3. Alone(r)
    BY <2>1, <2>2 DEF Alone
  <2>4. Patch(r)
    <3>1. Step(r) \/ Crash(r)
      BY <1>4, <2>2
    <3>2. /\ ~FindRevision(r) /\ ~Create(r) /\ ~Update(r) /\ ~Delete(r)
          /\ ~Crash(r)
      <4>1. ~FindRevision(r) /\ ~Create(r) /\ ~Update(r) /\ ~Delete(r)
        BY DEF FindRevision, Create, Update, Delete, At, Toggles
      <4>2. ~Crash(r)
        BY <1>1, Answered DEF Crash
      <4>. QED
        BY <4>1, <4>2
    <3>3. CASE Get(r)
      <4>1. CASE Reply(r, "rejected")
        BY <1>1, <4>1, Answered
      <4>2. CASE request' = [request EXCEPT ![r].read = capp,
               ![r].pc = IF request[r].op \in Toggles THEN "git" ELSE "write"]
        BY <1>1, <4>2 DEF TypeOK, Request
      <4>. QED
        BY <3>3, <4>1, <4>2 DEF Get
    <3>4. CASE Git(r)
      <4>1. CASE request' = [request EXCEPT ![r].pc = "patch"]
        BY <1>1, <4>1 DEF TypeOK, Request
      <4>2. CASE Reply(r, "failed")
        BY <1>1, <4>2, Answered
      <4>. QED
        BY <3>4, <4>1, <4>2 DEF Git, AfterGit, AfterGitError
    <3>. QED
      BY <3>1, <3>2, <3>3, <3>4 DEF Step
  <2>. QED
    BY <2>3, <2>4, PatchOfAlone
<1>. QED
  BY <1>2, <1>3, <1>4

\* A sync or an unsync that no other request overlaps repairs whatever the
\* failures and races before it had left behind, with GitOps or without.
THEOREM ToggleRepairs == Spec => ToggleRestoresAgreement
<1>1. DriftInv /\ [Next]_vars =>
        [\A r \in Requests \ overlapped :
          (/\ request[r].op \in Toggles
           /\ request[r].pc # "done"
           /\ request'[r].reply = "ok") => InAgreement']_vars
  BY ToggleStep
<1>. QED
  BY <1>1, DriftInvariance, PTL DEF Spec, ToggleRestoresAgreement

=============================================================================
