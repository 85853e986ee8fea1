---------------------- MODULE SessionsAndObjectsProofs ----------------------
(***************************************************************************)
(* Proofs about the parts that MCSessionsAndObjects puts side by side and  *)
(* that have no module of proofs of their own: ManagedObjects, Benchmarks, *)
(* OAuthLogin, LdapLogin and CliConfig.  They share nothing; each has its  *)
(* section.  The last one is about what puts them side by side.            *)
(***************************************************************************)
EXTENDS MCSessionsAndObjects, CappUpdateProofs, NamespacesProofs,
        FiniteSetTheorems

-----------------------------------------------------------------------------
(* ManagedObjects.  A request whose copy still has the present version has *)
(* the present object, and it was managed when the request looked at it.   *)

ManagedObjectsInv ==
    /\ ManagedObjectsTypeOK
    /\ \A a \in current : access[a].copy = object /\ Managed(object)

\* A request is answered; the object becomes o, or stays.
LEMMA AnsweredAccess ==
    ASSUME ManagedObjectsInv, NEW a \in Accesses,
           NEW at \in {"ok", "not found", "already exists", "conflict", "error"},
           IsAnswered(a, at),
           Stays \/ \E o \in Object \cup {NoObject} : Becomes(o)
    PROVE  ManagedObjectsInv'
<1>1. access \in [Accesses -> Access]
  BY DEF ManagedObjectsInv, ManagedObjectsTypeOK
<1>2. /\ access'[a] = [access[a] EXCEPT !.at = at]
      /\ \A x \in Accesses \ {a} : access'[x] = access[x]
  BY <1>1 DEF IsAnswered
<1>3. access'[a] \in Access
  BY <1>1, <1>2 DEF Access
<1>4. access' \in [Accesses -> Access]
  BY <1>1, <1>3 DEF IsAnswered
<1>5. access'[a].at = at /\ access'[a].copy = access[a].copy
  <2>1. access[a] \in Access
    BY <1>1
  <2>. QED
    BY <1>2, <2>1 DEF Access
<1>6. \A x \in Accesses : access'[x].copy = access[x].copy
  BY <1>2, <1>5
<1>7. \A x \in Accesses : access'[x].at = "write" => access[x].at = "write"
  BY <1>2, <1>5
<1>8. \A x \in Accesses : access'[x].at = "write" => Managed(access'[x].copy)
  BY <1>6, <1>7 DEF ManagedObjectsInv, ManagedObjectsTypeOK
<1>9. /\ object' \in Object \cup {NoObject}
      /\ current' \subseteq current
      /\ current' = {} \/ object' = object
  BY DEF Stays, Becomes, ManagedObjectsInv, ManagedObjectsTypeOK
<1>10. current \subseteq Accesses
  BY DEF ManagedObjectsInv, ManagedObjectsTypeOK
<1>11. \A x \in current' : access'[x].copy = object' /\ Managed(object')
  BY <1>6, <1>9, <1>10 DEF ManagedObjectsInv, Managed
<1>. QED
  BY <1>4, <1>8, <1>9, <1>10, <1>11
  DEF ManagedObjectsInv, ManagedObjectsTypeOK, Managed

LEMMA AttemptIsAnswer ==
    ASSUME NEW a \in Accesses, NEW o \in Object \cup {NoObject}, Attempt(a, o)
    PROVE  /\ \E at \in {"ok", "error"} : IsAnswered(a, at)
           /\ Stays \/ Becomes(o)
BY DEF Attempt

\* What an update sends is an object, managed as the copy is.
LEMMA UpdatedIsManaged ==
    ASSUME ManagedObjectsInv, NEW a \in Accesses, access[a].at = "write"
    PROVE  /\ Updated(a) \in Object
           /\ Updated(a).managed = TRUE
           /\ Managed(Updated(a))
<1>1. access[a] \in Access /\ Managed(access[a].copy)
  BY DEF ManagedObjectsInv, ManagedObjectsTypeOK
<1>2. access[a].copy \in Object /\ access[a].body \in Payloads
  BY <1>1 DEF Access, Managed
<1>3. Updated(a) \in Object /\ Updated(a).managed = access[a].copy.managed
  BY <1>2 DEF Updated, Object
<1>4. access[a].copy.managed = TRUE
  BY <1>1, <1>2 DEF Managed, Object
<1>5. Updated(a) # NoObject
  BY <1>3, ManagedObjectsAssumption DEF Object
<1>. QED
  BY <1>3, <1>4, <1>5 DEF Managed

LEMMA ManagedObjectsStep ==
    ManagedObjectsInv /\ [ManagedObjectsNext]_objectVars => ManagedObjectsInv'
<1> SUFFICES ASSUME ManagedObjectsInv, [ManagedObjectsNext]_objectVars
             PROVE  ManagedObjectsInv'
  OBVIOUS
<1>1. ManagedObjectsTypeOK /\ access \in [Accesses -> Access]
  BY DEF ManagedObjectsInv, ManagedObjectsTypeOK
<1>2. ASSUME NEW a \in Accesses, NEW kind \in Kinds, NEW b \in Payloads,
             BeginAccess(a, kind, b)
      PROVE  ManagedObjectsInv'
  <2> DEFINE r == [access[a] EXCEPT !.kind = kind, !.at = "call", !.body = b]
  <2>1. /\ r \in Access /\ r.at = "call" /\ r.copy = access[a].copy
    BY <1>1 DEF Access
  <2>2. access' = [access EXCEPT ![a] = r]
    BY <1>1, <1>2 DEF BeginAccess
  <2> HIDE DEF r
  <2>3. /\ access' \in [Accesses -> Access] /\ access'[a] = r
        /\ \A x \in Accesses \ {a} : access'[x] = access[x]
    BY <1>1, <2>1, <2>2
  <2>4. UNCHANGED <<object, current>>
    BY <1>2 DEF BeginAccess
  <2>. QED
    BY <2>1, <2>3, <2>4
    DEF ManagedObjectsInv, ManagedObjectsTypeOK, Managed
<1>3. ASSUME NEW a \in Accesses, CreateObject(a)
      PROVE  ManagedObjectsInv'
  <2>1. [managed |-> TRUE, data |-> access[a].body] \in Object
    BY <1>1 DEF Access, Object
  <2>. QED
    BY <1>3, <2>1, AttemptIsAnswer, AnsweredAccess DEF CreateObject
<1>4. ASSUME NEW a \in Accesses, FetchObject(a)
      PROVE  ManagedObjectsInv'
  <2>1. CASE IsAnswered(a, "not found") \/ IsAnswered(a, "error")
    <3>1. CASE UNCHANGED <<object, current>>
      BY <2>1, <3>1, AnsweredAccess DEF Stays
    <3>2. CASE \E at : access' = [access EXCEPT ![a].at = at,
                                                ![a].copy = object]
                       /\ Shows(object) /\ current' = current \cup {a}
                       /\ at \in {"ok", "write"}
      <4>1. PICK at \in {"ok", "write"} :
                access' = [access EXCEPT ![a].at = at, ![a].copy = object]
        BY <3>2
      <4>2. access'[a].at = at
        BY <1>1, <4>1 DEF Access
      <4>3. access'[a].at \in {"not found", "error"}
        BY <1>1, <2>1 DEF IsAnswered, Access
      <4>. QED
        BY <4>2, <4>3
    <3>. QED
      BY <1>4, <2>1, <3>1, <3>2 DEF FetchObject
  <2>2. CASE /\ Shows(object)
             /\ access' = [access EXCEPT
                  ![a].at = IF access[a].kind = "get" THEN "ok" ELSE "write",
                  ![a].copy = object]
             /\ current' \subseteq current \cup {a}
             /\ UNCHANGED object
    <3> DEFINE at == IF access[a].kind = "get" THEN "ok" ELSE "write"
               r == [access[a] EXCEPT !.at = at, !.copy = object]
    <3>1. r \in Access /\ r.copy = object
      BY <1>1 DEF Access, ManagedObjectsTypeOK
    <3>2. access' = [access EXCEPT ![a] = r]
      BY <1>1, <2>2
    <3> HIDE DEF r
    <3>3. /\ access' \in [Accesses -> Access] /\ access'[a] = r
          /\ \A x \in Accesses \ {a} : access'[x] = access[x]
      BY <1>1, <3>1, <3>2
    <3>. QED
      BY <2>2, <3>1, <3>3
      DEF ManagedObjectsInv, ManagedObjectsTypeOK, Managed, Shows
  <2>. QED
    BY <1>4, <2>1, <2>2 DEF FetchObject
<1>5. ASSUME NEW a \in Accesses, UpdateObject(a)
      PROVE  ManagedObjectsInv'
  BY <1>5, UpdatedIsManaged, AttemptIsAnswer, AnsweredAccess DEF UpdateObject
<1>6. ASSUME NEW a \in Accesses, DeleteObject(a)
      PROVE  ManagedObjectsInv'
  BY <1>6, AttemptIsAnswer, AnsweredAccess DEF DeleteObject
<1>7. ASSUME NEW o \in Object \cup {NoObject}, OthersChange(o)
      PROVE  ManagedObjectsInv'
  BY <1>7 DEF OthersChange, Becomes, ManagedObjectsInv, ManagedObjectsTypeOK,
     Managed
<1>8. CASE UNCHANGED objectVars
  BY <1>8 DEF objectVars, ManagedObjectsInv, ManagedObjectsTypeOK, Managed
<1>. QED
  BY <1>2, <1>3, <1>4, <1>5, <1>6, <1>7, <1>8 DEF ManagedObjectsNext

LEMMA ManagedObjectsInvariance == ManagedObjectsSpec => []ManagedObjectsInv
<1>1. ManagedObjectsInit => ManagedObjectsInv
  <2> SUFFICES ASSUME ManagedObjectsInit PROVE ManagedObjectsInv
    OBVIOUS
  <2>1. PICK b \in Payloads :
          access = [a \in Accesses |-> [kind |-> "get", at |-> "idle",
                                        body |-> b, copy |-> NoObject]]
    BY DEF ManagedObjectsInit
  <2>2. access \in [Accesses -> Access]
    BY <2>1 DEF Access, Kinds
  <2>. QED
    BY <2>1, <2>2 DEF ManagedObjectsInit, ManagedObjectsInv,
       ManagedObjectsTypeOK
<1>. QED
  BY <1>1, ManagedObjectsStep, PTL DEF ManagedObjectsSpec

\* What a request is about to write or to delete was managed when it was read,
\* for any number of requests and whatever others do to the object.
THEOREM WritesFollowALook == ManagedObjectsSpec => []ManagedObjectsTypeOK
<1>1. ManagedObjectsInv => ManagedObjectsTypeOK
  BY DEF ManagedObjectsInv
<1>. QED
  BY <1>1, ManagedObjectsInvariance, PTL

LEMMA ManagedChange ==
    ASSUME ManagedObjectsInv, [ManagedObjectsNext]_objectVars,
           NEW a \in Accesses,
           object' # object, access'[a] # access[a], object # NoObject
    PROVE  \/ a \in current /\ Managed(object) /\ object' = NoObject
           \/ a \in current /\ Managed(object) /\ Managed(object')
           \/ access[a].kind = "delete" /\ a \notin current
<1>1. access \in [Accesses -> Access]
  BY DEF ManagedObjectsInv, ManagedObjectsTypeOK
<1>2. PICK x \in Accesses : UpdateObject(x) \/ DeleteObject(x)
  BY DEF ManagedObjectsNext, objectVars, BeginAccess, CreateObject, FetchObject,
     OthersChange, Stays
<1>3. x = a
  <2>1. \E at : IsAnswered(x, at)
    BY <1>2 DEF UpdateObject, DeleteObject, Attempt
  <2>. QED
    BY <1>1, <2>1 DEF IsAnswered
<1>4. CASE UpdateObject(x)
  <2>1. a \in current /\ object' = Updated(a)
    BY <1>3, <1>4 DEF UpdateObject, Stays, Matches, Attempt, Becomes
  <2>2. Managed(Updated(a)) /\ Managed(object)
    BY <1>3, <1>4, <2>1, UpdatedIsManaged DEF UpdateObject, ManagedObjectsInv
  <2>. QED
    BY <2>1, <2>2
<1>5. CASE DeleteObject(x)
  BY <1>3, <1>5 DEF DeleteObject, Stays, Attempt, Becomes, ManagedObjectsInv
<1>. QED
  BY <1>2, <1>4, <1>5

\* No Secret and no ConfigMap that does not belong to a Capp is changed, and
\* none that has changed since the request has looked at it; except that a
\* delete may remove what has taken the place of the object it has looked at.
THEOREM OthersObjectsAreSafe == ManagedObjectsSpec => OnlyManagedObjectsChange
<1>1. ManagedObjectsInv /\ [ManagedObjectsNext]_objectVars =>
        [\A a \in Accesses :
          (object' # object /\ access'[a] # access[a] /\ object # NoObject) =>
              \/ a \in current /\ Managed(object) /\ object' = NoObject
              \/ a \in current /\ Managed(object) /\ Managed(object')
              \/ access[a].kind = "delete" /\ a \notin current]_objectVars
  BY ManagedChange
<1>. QED
  BY <1>1, ManagedObjectsInvariance, PTL
  DEF ManagedObjectsSpec, OnlyManagedObjectsChange

-----------------------------------------------------------------------------
(* Benchmarks.  Until some Job has ended, every Job there is runs, so no   *)
(* trigger gets to delete one, and the API server refuses to create one    *)
(* where there is one.                                                     *)

\* A handler that creates the Job has read the UID of the Capp.
OwnerIsRead == \A t \in Triggers : trigger[t].pc = "create" => trigger[t].owner # 0

JobsRun ==
    /\ \A n \in JobNames : job[n] # NoJob => ~job[n].finished
    /\ \A t \in Triggers : trigger[t].pc # "delete"

BenchmarksInv ==
    /\ BenchmarksTypeOK
    /\ OwnerIsRead
    /\ ended = {} => JobsRun
    /\ CreatedJobIsThere

\* The record of a trigger after a step of its handler: the Capp stays.
LEMMA TriggerMoves ==
    ASSUME BenchmarksInv, NEW t \in Triggers, NEW r \in Trigger,
           trigger' = [trigger EXCEPT ![t] = r],
           r.capp = trigger[t].capp,
           r.pc = "create" => r.owner # 0,
           UNCHANGED <<uid, lastUID, ended>>,
           job' \in [JobNames -> Job \cup {NoJob}],
           ended = {} =>
              /\ r.pc # "delete"
              /\ \A n \in JobNames : job'[n] # NoJob => ~job'[n].finished
              /\ \A n \in JobNames : job[n] # NoJob => job'[n] = job[n]
              /\ r.reply = "created" =>
                    \/ trigger[t].reply = "created"
                    \/ /\ job'[NameOf[r.capp]] # NoJob
                       /\ job'[NameOf[r.capp]].by = t
    PROVE  BenchmarksInv'
<1>1. BenchmarksTypeOK
  BY DEF BenchmarksInv
<1>2. /\ trigger' \in [Triggers -> Trigger] /\ trigger'[t] = r
      /\ \A x \in Triggers \ {t} : trigger'[x] = trigger[x]
  BY <1>1 DEF BenchmarksTypeOK
<1>3. BenchmarksTypeOK'
  BY <1>1, <1>2 DEF BenchmarksTypeOK
<1>4. OwnerIsRead'
  BY <1>2 DEF BenchmarksInv, OwnerIsRead
<1>5. ended' = {} => JobsRun'
  BY <1>2 DEF BenchmarksInv, JobsRun
<1>6. ASSUME NEW x \in Triggers, trigger'[x].reply = "created", ended' = {}
      PROVE  /\ job'[NameOf[trigger'[x].capp]] # NoJob
             /\ job'[NameOf[trigger'[x].capp]].by = x
  <2>1. trigger'[x].capp = trigger[x].capp /\ trigger[x].capp \in Capps
    BY <1>1, <1>2 DEF BenchmarksTypeOK, Trigger
  <2>2. NameOf[trigger[x].capp] \in JobNames
    BY <2>1, BenchmarksAssumption
  <2>3. CASE trigger[x].reply = "created"
    BY <1>6, <2>1, <2>2, <2>3 DEF BenchmarksInv, CreatedJobIsThere
  <2>4. CASE trigger[x].reply # "created"
    BY <1>2, <1>6, <2>4
  <2>. QED
    BY <2>3, <2>4
<1>. QED
  BY <1>3, <1>4, <1>5, <1>6 DEF BenchmarksInv, CreatedJobIsThere

LEMMA TriggerAnswered ==
    ASSUME BenchmarksInv, NEW t \in Triggers,
           NEW code \in TriggerReplies, AnswerTrigger(t, code)
    PROVE  \E r \in Trigger : /\ trigger' = [trigger EXCEPT ![t] = r]
                              /\ r.capp = trigger[t].capp
                              /\ r.pc = "done" /\ r.reply = code
<1> DEFINE r == [trigger[t] EXCEPT !.pc = "done", !.reply = code]
<1>1. trigger \in [Triggers -> Trigger] /\ trigger[t] \in Trigger
  BY DEF BenchmarksInv, BenchmarksTypeOK
<1>2. /\ r \in Trigger /\ r.capp = trigger[t].capp
      /\ r.pc = "done" /\ r.reply = code
  BY <1>1 DEF Trigger
<1>3. trigger' = [trigger EXCEPT ![t] = r]
  BY <1>1 DEF AnswerTrigger
<1>. QED
  BY <1>2, <1>3

\* An answer other than 201 that leaves the Jobs alone.
LEMMA AnsweredWithoutJob ==
    ASSUME BenchmarksInv, NEW t \in Triggers,
           NEW code \in TriggerReplies \ {"created"}, AnswerTrigger(t, code),
           UNCHANGED <<uid, lastUID, job, ended>>
    PROVE  BenchmarksInv'
<1>1. PICK r \in Trigger : /\ trigger' = [trigger EXCEPT ![t] = r]
                           /\ r.capp = trigger[t].capp
                           /\ r.pc = "done" /\ r.reply = code
  BY TriggerAnswered
<1>. QED
  BY <1>1, TriggerMoves DEF BenchmarksInv, BenchmarksTypeOK, JobsRun

LEMMA ListJobsKeeps ==
    ASSUME BenchmarksInv, NEW t \in Triggers,
           StartTrigger(t) \/ ListJobs(t) \/ GetOwner(t)
    PROVE  BenchmarksInv'
<1>1. /\ BenchmarksTypeOK /\ trigger \in [Triggers -> Trigger]
      /\ trigger[t] \in Trigger
      /\ UNCHANGED <<uid, lastUID, job, ended>>
      /\ job \in [JobNames -> Job \cup {NoJob}]
      /\ ended = {} => JobsRun
  BY DEF BenchmarksInv, BenchmarksTypeOK, StartTrigger, ListJobs, GetOwner
<1>2. ASSUME NEW code \in TriggerReplies \ {"created"}, AnswerTrigger(t, code)
      PROVE  BenchmarksInv'
  BY <1>1, <1>2, AnsweredWithoutJob
<1>3. CASE StartTrigger(t)
  <2> DEFINE r == [trigger[t] EXCEPT !.pc = "list"]
  <2>1. /\ r \in Trigger /\ r.capp = trigger[t].capp
        /\ r.pc = "list" /\ r.reply = trigger[t].reply
    BY <1>1 DEF Trigger, TriggerSteps
  <2>2. trigger' = [trigger EXCEPT ![t] = r]
    BY <1>1, <1>3 DEF StartTrigger
  <2> HIDE DEF r
  <2>. QED
    BY <1>1, <2>1, <2>2, TriggerMoves DEF JobsRun
<1>4. CASE ListJobs(t)
  <2> DEFINE names == Listed(trigger[t].capp)
             next == IF names = {} THEN "get" ELSE "delete"
             r == [trigger[t] EXCEPT !.listed = names, !.pc = next]
  <2>1. CASE /\ ~RunningJob(names)
             /\ trigger' = [trigger EXCEPT ![t].listed = names, ![t].pc = next]
    <3>1. names \subseteq JobNames /\ next \in {"get", "delete"}
      BY DEF Listed
    <3>2. ASSUME ended = {} PROVE next # "delete"
      BY <1>1, <2>1, <3>2 DEF Listed, RunningJob, JobsRun
    <3> HIDE DEF names, next
    <3>3. /\ r \in Trigger /\ r.capp = trigger[t].capp
          /\ r.pc = next /\ r.reply = trigger[t].reply
      BY <1>1, <3>1 DEF Trigger, TriggerSteps
    <3>4. trigger' = [trigger EXCEPT ![t] = r]
      BY <1>1, <2>1
    <3> HIDE DEF r
    <3>. QED
      BY <1>1, <3>1, <3>2, <3>3, <3>4, TriggerMoves DEF JobsRun
  <2>. QED
    BY <1>2, <1>4, <2>1 DEF ListJobs, TriggerReplies
<1>5. CASE GetOwner(t)
  <2> DEFINE o == uid[trigger[t].capp]
             r == [trigger[t] EXCEPT !.owner = o, !.pc = "create"]
  <2>1. CASE /\ o # 0
             /\ trigger' = [trigger EXCEPT ![t].owner = o, ![t].pc = "create"]
    <3>1. o \in Nat
      BY <1>1 DEF BenchmarksTypeOK, Trigger
    <3> HIDE DEF o
    <3>2. /\ r \in Trigger /\ r.capp = trigger[t].capp
          /\ r.pc = "create" /\ r.reply = trigger[t].reply /\ r.owner = o
      BY <1>1, <3>1 DEF Trigger, TriggerSteps
    <3>3. trigger' = [trigger EXCEPT ![t] = r]
      BY <1>1, <2>1
    <3>4. /\ r.pc = "create" => r.owner # 0
          /\ ended = {} =>
               /\ r.pc # "delete"
               /\ \A n \in JobNames : job'[n] # NoJob => ~job'[n].finished
               /\ \A n \in JobNames : job[n] # NoJob => job'[n] = job[n]
      BY <1>1, <2>1, <3>2 DEF JobsRun
    <3> HIDE DEF r
    <3>. QED
      BY <1>1, <3>2, <3>3, <3>4, TriggerMoves
  <2>. QED
    BY <1>2, <1>5, <2>1 DEF GetOwner, TriggerReplies
<1>. QED
  BY <1>3, <1>4, <1>5

LEMMA DeleteJobKeeps ==
    ASSUME BenchmarksInv, NEW t \in Triggers, DeleteJob(t)
    PROVE  BenchmarksInv'
<1>1. /\ BenchmarksTypeOK /\ trigger \in [Triggers -> Trigger]
      /\ trigger[t] \in Trigger
      /\ UNCHANGED <<uid, lastUID, ended>>
      /\ job \in [JobNames -> Job \cup {NoJob}]
      /\ ended # {}
  BY DEF BenchmarksInv, BenchmarksTypeOK, DeleteJob, JobsRun
<1>2. PICK n \in trigger[t].listed :
        LET left == trigger[t].listed \ {n}
        IN  \/ /\ job' = [job EXCEPT ![n] = NoJob]
               /\ trigger' = [trigger EXCEPT ![t].listed = left,
                     ![t].pc = IF left = {} THEN "get" ELSE "delete"]
            \/ AnswerTrigger(t, "notfound") /\ UNCHANGED job
            \/ JobCallFails(t, [job EXCEPT ![n] = NoJob])
  BY DEF DeleteJob
<1>3. job' \in [JobNames -> Job \cup {NoJob}]
  BY <1>1, <1>2 DEF JobCallFails
<1>4. \E r \in Trigger : /\ trigger' = [trigger EXCEPT ![t] = r]
                         /\ r.capp = trigger[t].capp /\ r.pc # "create"
  <2>1. ASSUME NEW code \in TriggerReplies, AnswerTrigger(t, code)
        PROVE  \E r \in Trigger : /\ trigger' = [trigger EXCEPT ![t] = r]
                                  /\ r.capp = trigger[t].capp
                                  /\ r.pc # "create"
    BY <2>1, TriggerAnswered
  <2> DEFINE left == trigger[t].listed \ {n}
             next == IF left = {} THEN "get" ELSE "delete"
             r == [trigger[t] EXCEPT !.listed = left, !.pc = next]
  <2>2. CASE trigger' = [trigger EXCEPT ![t].listed = left, ![t].pc = next]
    <3>1. next \in {"get", "delete"} /\ left \subseteq JobNames
      BY <1>1 DEF Trigger
    <3> HIDE DEF left, next
    <3>2. /\ r \in Trigger /\ r.capp = trigger[t].capp /\ r.pc = next
      BY <1>1, <3>1 DEF Trigger, TriggerSteps
    <3>3. trigger' = [trigger EXCEPT ![t] = r]
      BY <1>1, <2>2
    <3>. QED
      BY <3>1, <3>2, <3>3
  <2>. QED
    BY <1>2, <2>1, <2>2 DEF JobCallFails, TriggerReplies
<1>. QED
  BY <1>1, <1>3, <1>4, TriggerMoves

\* The Job takes a name that is free.
LEMMA CreateJobKeeps ==
    ASSUME BenchmarksInv, NEW t \in Triggers, CreateJob(t)
    PROVE  BenchmarksInv'
<1> DEFINE n == NameOf[trigger[t].capp]
           with == [job EXCEPT ![n] = NewJob(t)]
<1>1. /\ BenchmarksTypeOK /\ trigger \in [Triggers -> Trigger]
      /\ trigger[t] \in Trigger /\ trigger[t].pc = "create"
      /\ UNCHANGED <<uid, lastUID, ended>>
      /\ job \in [JobNames -> Job \cup {NoJob}]
      /\ ended = {} => JobsRun
  BY DEF BenchmarksInv, BenchmarksTypeOK, CreateJob
<1>2. n \in JobNames
  BY <1>1, BenchmarksAssumption DEF Trigger
<1>3. NewJob(t) \in Job
  BY <1>1 DEF BenchmarksInv, OwnerIsRead, NewJob, Job, Trigger
<1>4. NewJob(t) # NoJob /\ NewJob(t).by = t /\ NewJob(t).finished = FALSE
  BY <1>3, BenchmarksAssumption DEF NewJob, Job
<1>5. /\ with \in [JobNames -> Job \cup {NoJob}] /\ with[n] = NewJob(t)
      /\ \A x \in JobNames \ {n} : with[x] = job[x]
  BY <1>1, <1>2, <1>3
<1> HIDE DEF n, with
<1>6. CASE job' = with /\ job[n] = NoJob
  <2>1. PICK code \in {"created", "failed"} : AnswerTrigger(t, code)
    <3>1. \/ AnswerTrigger(t, "created")
          \/ AnswerTrigger(t, "failed")
          \/ AnswerTrigger(t, "exists") /\ job[n] # NoJob
      BY DEF CreateJob, JobCallFails, n
    <3>. QED
      BY <1>6, <3>1
  <2>2. PICK r \in Trigger : /\ trigger' = [trigger EXCEPT ![t] = r]
                             /\ r.capp = trigger[t].capp
                             /\ r.pc = "done" /\ r.reply = code
    BY <2>1, TriggerAnswered DEF TriggerReplies
  <2>3. \A x \in JobNames : job[x] # NoJob => job'[x] = job[x]
    BY <1>5, <1>6
  <2>4. ended = {} => \A x \in JobNames : job'[x] # NoJob => ~job'[x].finished
    BY <1>1, <1>4, <1>5, <1>6 DEF JobsRun
  <2>5. job'[NameOf[r.capp]] # NoJob /\ job'[NameOf[r.capp]].by = t
    BY <1>4, <1>5, <1>6, <2>2 DEF n
  <2>. QED
    BY <1>1, <1>5, <1>6, <2>2, <2>3, <2>4, <2>5, TriggerMoves
<1>7. CASE UNCHANGED job /\ (AnswerTrigger(t, "failed")
                              \/ AnswerTrigger(t, "exists"))
  BY <1>1, <1>7, AnsweredWithoutJob DEF TriggerReplies
<1>. QED
  BY <1>6, <1>7 DEF CreateJob, JobCallFails, n, with

\* What the cluster does: a Job that goes away, or finishes, has ended; and it
\* only expires when it has finished.
LEMMA JobsClusterKeeps ==
    ASSUME BenchmarksInv,
           \/ \E n \in JobNames : FinishJob(n) \/ ExpireJob(n)
                                  \/ CollectGarbage(n)
           \/ \E c \in Capps : RemoveCapp(c) \/ AddCapp(c)
    PROVE  BenchmarksInv'
<1>1. /\ uid \in [Capps -> Nat] /\ lastUID \in Nat
      /\ job \in [JobNames -> Job \cup {NoJob}]
      /\ trigger \in [Triggers -> Trigger] /\ ended \subseteq Triggers
  BY DEF BenchmarksInv, BenchmarksTypeOK
<1>2. UNCHANGED trigger
  BY DEF FinishJob, ExpireJob, CollectGarbage, RemoveCapp, AddCapp
<1>3. CASE \E c \in Capps : RemoveCapp(c) \/ AddCapp(c)
  <2>1. /\ uid' \in [Capps -> Nat] /\ lastUID' \in Nat
        /\ UNCHANGED <<job, ended>>
    BY <1>1, <1>3 DEF RemoveCapp, AddCapp
  <2>. QED
    BY <1>2, <2>1 DEF BenchmarksInv, BenchmarksTypeOK, OwnerIsRead, JobsRun,
       CreatedJobIsThere
<1>4. ASSUME NEW n \in JobNames,
             FinishJob(n) \/ ExpireJob(n) \/ CollectGarbage(n)
      PROVE  BenchmarksInv'
  <2>1. job[n] \in Job
    BY <1>1, <1>4 DEF FinishJob, ExpireJob, CollectGarbage, Orphaned
  <2>2. job' \in [JobNames -> Job \cup {NoJob}]
    <3>1. [job[n] EXCEPT !.finished = TRUE] \in Job
      BY <2>1 DEF Job
    <3>2. CASE FinishJob(n)
      <4>1. job' = [job EXCEPT ![n] = [job[n] EXCEPT !.finished = TRUE]]
        BY <1>1, <3>2 DEF FinishJob
      <4>. QED
        BY <1>1, <3>1, <4>1
    <3>3. CASE ExpireJob(n) \/ CollectGarbage(n)
      BY <1>1, <3>3 DEF ExpireJob, CollectGarbage
    <3>. QED
      BY <1>4, <3>2, <3>3
  <2>3. ended' \subseteq Triggers /\ ended' # {} /\ UNCHANGED <<uid, lastUID>>
    <3>1. job[n].by \in Triggers
      BY <2>1 DEF Job
    <3>2. CASE ExpireJob(n)
      <4>1. ended # {}
        BY <3>2 DEF ExpireJob, BenchmarksInv, JobsRun
      <4>. QED
        BY <1>1, <3>2, <4>1 DEF ExpireJob
    <3>3. CASE FinishJob(n) \/ CollectGarbage(n)
      BY <1>1, <3>1, <3>3 DEF FinishJob, CollectGarbage
    <3>. QED
      BY <1>4, <3>2, <3>3
  <2>. QED
    BY <1>2, <2>2, <2>3 DEF BenchmarksInv, BenchmarksTypeOK, OwnerIsRead,
       CreatedJobIsThere
<1>. QED
  BY <1>3, <1>4

LEMMA BenchmarksInvariance == BenchmarksSpec => []BenchmarksInv
<1>1. BenchmarksInit => BenchmarksInv
  <2> SUFFICES ASSUME BenchmarksInit PROVE BenchmarksInv
    OBVIOUS
  <2> DEFINE Fresh == {[pc |-> "idle", capp |-> c, listed |-> {}, owner |-> 0,
                        reply |-> "none"] : c \in Capps}
  <2>1. \A r \in Fresh : r \in Trigger /\ r.pc = "idle" /\ r.reply = "none"
    BY DEF Trigger, TriggerReplies
  <2>2. trigger \in [Triggers -> Fresh]
    BY DEF BenchmarksInit
  <2> HIDE DEF Fresh
  <2>3. /\ trigger \in [Triggers -> Trigger]
        /\ \A t \in Triggers : trigger[t].pc = "idle" /\ trigger[t].reply = "none"
    BY <2>1, <2>2
  <2>. QED
    BY <2>3 DEF BenchmarksInit, BenchmarksInv, BenchmarksTypeOK, OwnerIsRead,
       JobsRun, CreatedJobIsThere
<1>2. BenchmarksInv /\ [BenchmarksNext]_benchmarkVars => BenchmarksInv'
  <2> SUFFICES ASSUME BenchmarksInv, [BenchmarksNext]_benchmarkVars
               PROVE  BenchmarksInv'
    OBVIOUS
  <2>1. ASSUME NEW t \in Triggers, StartTrigger(t) \/ TriggerStep(t)
        PROVE  BenchmarksInv'
    BY <2>1, ListJobsKeeps, DeleteJobKeeps, CreateJobKeeps DEF TriggerStep
  <2>2. CASE UNCHANGED benchmarkVars
    BY <2>2 DEF benchmarkVars, BenchmarksInv, BenchmarksTypeOK, OwnerIsRead,
       JobsRun, CreatedJobIsThere
  <2>. QED
    BY <2>1, <2>2, JobsClusterKeeps DEF BenchmarksNext, TriggersAreAnswered
<1>. QED
  BY <1>1, <1>2, PTL DEF BenchmarksSpec

\* However many triggers interleave, and whatever call fails or is retried:
\* until some Job has ended, the Job of every trigger that was answered 201 is
\* there, so of the triggers for one Capp one at most is answered 201.
THEOREM OneTriggerWins == BenchmarksSpec => []CreatedJobIsThere
<1>1. BenchmarksInv => CreatedJobIsThere
  BY DEF BenchmarksInv
<1>. QED
  BY <1>1, BenchmarksInvariance, PTL

\* One trigger at a time: what it is about to delete has finished.
OneInFlight == \A t, u \in TriggersInFlight : t = u

DeletesFinishedJobs ==
    \A t \in Triggers : trigger[t].pc = "delete" =>
        \A n \in trigger[t].listed : job[n] = NoJob \/ job[n].finished

\* A trigger that is not in flight may start only when none is.
LEMMA StartsAlone ==
    ASSUME MaxTriggers = 1, OneInFlight, NEW t \in Triggers, StartTrigger(t)
    PROVE  TriggersInFlight = {}
<1>1. CASE TriggersInFlight = {}
  BY <1>1
<1>2. CASE TriggersInFlight # {}
  <2>1. PICK u \in TriggersInFlight : TriggersInFlight = {u}
    BY <1>2 DEF OneInFlight
  <2>2. Cardinality(TriggersInFlight) = 1
    BY <2>1, FS_Singleton
  <2> QED
    BY <2>2 DEF StartTrigger
<1> QED
  BY <1>1, <1>2

\* A step of the only trigger in flight.
LEMMA LoneTriggerStep ==
    ASSUME BenchmarksTypeOK, OneInFlight, DeletesFinishedJobs,
           NEW t \in Triggers, TriggerStep(t)
    PROVE  /\ OneInFlight' /\ DeletesFinishedJobs'
           /\ \A n \in JobNames :
                 job[n] # NoJob /\ ~job[n].finished => job'[n] = job[n]
<1>1. t \in TriggersInFlight /\ \A u \in Triggers \ {t} : u \notin TriggersInFlight
  BY DEF TriggerStep, ListJobs, DeleteJob, GetOwner, CreateJob, TriggersInFlight,
         TriggerSteps, OneInFlight
<1>2. \A u \in Triggers \ {t} : trigger[u].pc # "delete"
  BY <1>1 DEF TriggersInFlight, TriggerSteps
<1>3. trigger \in [Triggers -> Trigger] /\ job \in [JobNames -> Job \cup {NoJob}]
  BY DEF BenchmarksTypeOK
<1>4. PICK r : trigger' = [trigger EXCEPT ![t] = r]
  BY DEF TriggerStep, ListJobs, DeleteJob, GetOwner, CreateJob, JobCallFails,
         AnswerTrigger
<1>5. /\ \A u \in Triggers \ {t} : trigger'[u] = trigger[u]
      /\ trigger[t] \in Trigger
  BY <1>3, <1>4
<1>6. ASSUME NEW code, AnswerTrigger(t, code) PROVE trigger'[t].pc = "done"
  BY <1>3, <1>5, <1>6 DEF AnswerTrigger, Trigger
<1>7. ASSUME NEW names, NEW next,
             trigger' = [trigger EXCEPT ![t].listed = names, ![t].pc = next]
      PROVE  trigger'[t].listed = names /\ trigger'[t].pc = next
  BY <1>3, <1>5, <1>7 DEF Trigger
<1>8. ASSUME NEW o, trigger' = [trigger EXCEPT ![t].owner = o, ![t].pc = "create"]
      PROVE  trigger'[t].pc = "create"
  BY <1>3, <1>5, <1>8 DEF Trigger
<1>9. OneInFlight'
  BY <1>1, <1>5 DEF OneInFlight, TriggersInFlight
<1>10. CASE ListJobs(t)
  <2>1. trigger'[t].pc = "delete" => \A n \in trigger'[t].listed : job[n].finished
    BY <1>6, <1>7, <1>10 DEF ListJobs, RunningJob
  <2>2. job' = job
    BY <1>10 DEF ListJobs
  <2> QED
    BY <1>2, <1>5, <1>9, <2>1, <2>2 DEF DeletesFinishedJobs
<1>11. CASE DeleteJob(t)
  <2>1. \A n \in trigger[t].listed : job[n] = NoJob \/ job[n].finished
    BY <1>11 DEF DeleteJob, DeletesFinishedJobs
  <2>2. PICK n \in trigger[t].listed :
          /\ job' = job \/ job' = [job EXCEPT ![n] = NoJob]
          /\ trigger'[t].pc = "delete" =>
                trigger'[t].listed \subseteq trigger[t].listed
    <3>1. PICK n \in trigger[t].listed :
            LET left == trigger[t].listed \ {n}
            IN  \/ /\ job' = [job EXCEPT ![n] = NoJob]
                   /\ trigger' = [trigger EXCEPT ![t].listed = left,
                         ![t].pc = IF left = {} THEN "get" ELSE "delete"]
                \/ AnswerTrigger(t, "notfound") /\ UNCHANGED job
                \/ JobCallFails(t, [job EXCEPT ![n] = NoJob])
      BY <1>11 DEF DeleteJob
    <3> DEFINE left == trigger[t].listed \ {n}
               next == IF left = {} THEN "get" ELSE "delete"
    <3>2. CASE /\ job' = [job EXCEPT ![n] = NoJob]
               /\ trigger' = [trigger EXCEPT ![t].listed = left, ![t].pc = next]
      <4> HIDE DEF left, next
      <4>1. trigger'[t].listed = left
        BY <1>7, <3>2
      <4>2. left \subseteq trigger[t].listed
        BY DEF left
      <4> QED
        BY <3>2, <4>1, <4>2
    <3>3. CASE AnswerTrigger(t, "notfound") /\ UNCHANGED job
      BY <1>6, <3>3
    <3>4. CASE JobCallFails(t, [job EXCEPT ![n] = NoJob])
      BY <1>6, <3>4 DEF JobCallFails
    <3> QED
      BY <3>1, <3>2, <3>3, <3>4
  <2>3. \A m \in JobNames : job'[m] = job[m] \/ (m = n /\ job'[m] = NoJob)
    BY <1>3, <2>2
  <2>4. trigger[t].listed \subseteq JobNames
    BY <1>3 DEF Trigger
  <2> QED
    BY <1>2, <1>5, <1>9, <2>1, <2>2, <2>3, <2>4 DEF DeletesFinishedJobs
<1>12. CASE GetOwner(t)
  <2>1. trigger'[t].pc # "delete" /\ job' = job
    BY <1>6, <1>8, <1>12 DEF GetOwner
  <2> QED
    BY <1>2, <1>5, <1>9, <2>1 DEF DeletesFinishedJobs
<1>13. CASE CreateJob(t)
  <2>1. trigger'[t].pc # "delete"
    BY <1>6, <1>13 DEF CreateJob, JobCallFails
  <2>2. job' = job \/ /\ job[NameOf[trigger[t].capp]] = NoJob
                      /\ job' = [job EXCEPT ![NameOf[trigger[t].capp]] = NewJob(t)]
    BY <1>13 DEF CreateJob, JobCallFails
  <2> QED
    BY <1>2, <1>3, <1>5, <1>9, <2>1, <2>2 DEF DeletesFinishedJobs
<1> QED
  BY <1>10, <1>11, <1>12, <1>13 DEF TriggerStep

\* When triggers come one after the other, each after the answer to the one
\* before, none makes a running Job disappear, whatever fails, ends or is
\* deleted in between, and whatever Capps share a name: it is the overlap of two
\* triggers that breaks "A Job that is still running blocks another trigger".
THEOREM TriggersOneByOneKeepJobs ==
    ASSUME MaxTriggers = 1 PROVE BenchmarksSpec => RunningJobIsKept
<1> DEFINE Inv == BenchmarksInv /\ OneInFlight /\ DeletesFinishedJobs
           Kept == \A t \in Triggers : ~RemovesRunningJob(t)
<1>1. BenchmarksInit => OneInFlight /\ DeletesFinishedJobs
  <2> SUFFICES ASSUME BenchmarksInit PROVE OneInFlight /\ DeletesFinishedJobs
    OBVIOUS
  <2>1. \A t \in Triggers : trigger[t].pc = "idle"
    BY DEF BenchmarksInit
  <2> QED
    BY <2>1 DEF OneInFlight, DeletesFinishedJobs, TriggersInFlight, TriggerSteps
<1>2. Inv /\ [BenchmarksNext]_benchmarkVars =>
         OneInFlight' /\ DeletesFinishedJobs' /\ [Kept]_benchmarkVars
  <2> SUFFICES ASSUME Inv, [BenchmarksNext]_benchmarkVars
               PROVE  OneInFlight' /\ DeletesFinishedJobs' /\ [Kept]_benchmarkVars
    OBVIOUS
  <2>1. BenchmarksTypeOK
    BY DEF BenchmarksInv
  <2>2. CASE \E t \in Triggers : StartTrigger(t)
    <3>1. PICK t \in Triggers : StartTrigger(t)
      BY <2>2
    <3>2. TriggersInFlight = {}
      BY <3>1, StartsAlone
    <3>3. \A u \in Triggers : u # t => trigger'[u] = trigger[u]
      BY <2>1, <3>1 DEF StartTrigger, BenchmarksTypeOK
    <3>4. trigger'[t].pc = "list" /\ job' = job
      BY <2>1, <3>1 DEF StartTrigger, BenchmarksTypeOK
    <3> QED
      BY <3>2, <3>3, <3>4 DEF OneInFlight, DeletesFinishedJobs, TriggersInFlight,
         TriggerSteps, RemovesRunningJob
  <2>3. CASE \E t \in Triggers : TriggerStep(t)
    BY <2>1, <2>3, LoneTriggerStep DEF RemovesRunningJob
  <2>4. CASE /\ UNCHANGED trigger
             /\ \A n \in JobNames :
                   job'[n] = job[n] \/ job'[n] = NoJob \/ job'[n].finished
    <3>1. \A t \in Triggers : trigger[t].listed \subseteq JobNames
      BY <2>1 DEF BenchmarksTypeOK, Trigger
    <3> QED
      BY <2>4, <3>1 DEF OneInFlight, DeletesFinishedJobs, TriggersInFlight,
         RemovesRunningJob
  <2>5. ASSUME NEW n \in JobNames, FinishJob(n) \/ ExpireJob(n) \/ CollectGarbage(n)
        PROVE  /\ UNCHANGED trigger
               /\ \A m \in JobNames :
                     job'[m] = job[m] \/ job'[m] = NoJob \/ job'[m].finished
    <3>1. CASE FinishJob(n)
      BY <2>1, <3>1 DEF FinishJob, BenchmarksTypeOK, Job
    <3>2. CASE ExpireJob(n) \/ CollectGarbage(n)
      BY <2>1, <3>2 DEF ExpireJob, CollectGarbage, BenchmarksTypeOK
    <3> QED
      BY <2>5, <3>1, <3>2
  <2>6. CASE \/ \E c \in Capps : RemoveCapp(c) \/ AddCapp(c)
             \/ UNCHANGED benchmarkVars
    BY <2>4, <2>6 DEF RemoveCapp, AddCapp, benchmarkVars
  <2> QED
    BY <2>2, <2>3, <2>4, <2>5, <2>6 DEF BenchmarksNext, TriggersAreAnswered
<1> QED
  BY <1>1, <1>2, BenchmarksInvariance, PTL DEF BenchmarksSpec, RunningJobIsKept

-----------------------------------------------------------------------------
(* OAuthLogin.  A tab is as old as its command has been waiting, and so no *)
(* state expires while somebody waits for it.                              *)

\* The step that command l is in has not gone on for longer than it may.
TabIsYoung(l) ==
    /\ browserLogin[l].at = "authorize" => browserLogin[l].waited <= 1
    /\ browserLogin[l].at = "wait" => tab[l].age <= browserLogin[l].waited
    /\ browserLogin[l].at = "callback" =>
          /\ browserLogin[l].waited <= 1
          /\ tab[l].age <= CallbackWait + browserLogin[l].waited

OAuthInv ==
    /\ OAuthLoginTypeOK
    /\ \A l \in BrowserLogins : TabIsYoung(l)

LEMMA LoginGoesToEffect ==
    ASSUME OAuthLoginTypeOK, NEW l \in BrowserLogins,
           NEW at \in {"authorize", "wait", "callback"}, LoginGoesTo(l, at)
    PROVE  \E b \in BrowserLogin :
              /\ browserLogin' = [browserLogin EXCEPT ![l] = b]
              /\ b.at = at /\ b.from = browserLogin[l].from /\ b.waited = 0
<1> DEFINE b == [browserLogin[l] EXCEPT !.at = at, !.waited = 0]
<1>1. /\ browserLogin \in [BrowserLogins -> BrowserLogin]
      /\ browserLogin[l] \in BrowserLogin
  BY DEF OAuthLoginTypeOK
<1>2. 0 \in 0..CallbackWait
  BY OAuthLoginAssumption
<1>3. /\ b \in BrowserLogin /\ b.at = at /\ b.from = browserLogin[l].from
      /\ b.waited = 0
  BY <1>1, <1>2 DEF BrowserLogin
<1>4. browserLogin' = [browserLogin EXCEPT ![l] = b]
  BY <1>1 DEF LoginGoesTo
<1>. QED
  BY <1>3, <1>4

LEMMA LoginEndsEffect ==
    ASSUME OAuthLoginTypeOK, NEW l \in BrowserLogins,
           NEW at \in {"ok", "refused", "denied", "failed"}, LoginEnds(l, at)
    PROVE  \E b \in BrowserLogin :
              /\ browserLogin' = [browserLogin EXCEPT ![l] = b]
              /\ b.at = at /\ b.from = NoTab
<1> DEFINE b == [at |-> at, from |-> NoTab, waited |-> 0]
<1>1. b \in BrowserLogin
  BY OAuthLoginAssumption DEF BrowserLogin
<1>. QED
  BY <1>1 DEF LoginEnds

\* Command l goes on, or ends; tabs stay open, and as old as they were, but
\* for the one the command opens.
LEMMA CommandMoves ==
    ASSUME OAuthInv, NEW l \in BrowserLogins, NEW b \in BrowserLogin,
           browserLogin' = [browserLogin EXCEPT ![l] = b],
           tab' \in [BrowserLogins -> Tab],
           UNCHANGED <<oauthReplica, registered>>,
           \A k \in BrowserLogins : /\ k # l => tab'[k].age = tab[k].age
                                    /\ tab[k].at # "closed" => tab'[k].at # "closed",
           b.from \in {browserLogin[l].from, NoTab},
           b.at = "callback" => b.from # NoTab,
           b.at = "authorize" => b.waited <= 1,
           b.at = "wait" => tab'[l].age <= b.waited,
           b.at = "callback" =>
              b.waited <= 1 /\ tab'[l].age <= CallbackWait + b.waited
    PROVE  OAuthInv'
<1>1. /\ browserLogin \in [BrowserLogins -> BrowserLogin]
      /\ tab \in [BrowserLogins -> Tab]
  BY DEF OAuthInv, OAuthLoginTypeOK
<1>2. /\ browserLogin' \in [BrowserLogins -> BrowserLogin]
      /\ browserLogin'[l] = b
      /\ \A k \in BrowserLogins \ {l} : browserLogin'[k] = browserLogin[k]
  BY <1>1
<1>3. ASSUME NEW k \in BrowserLogins
      PROVE  /\ browserLogin'[k].at = "callback" => browserLogin'[k].from # NoTab
             /\ browserLogin'[k].from # NoTab =>
                   tab'[browserLogin'[k].from].at # "closed"
             /\ TabIsYoung(k)'
  <2>1. /\ browserLogin[k] \in BrowserLogin
        /\ browserLogin[k].from \in BrowserLogins \cup {NoTab}
        /\ browserLogin[k].at = "callback" => browserLogin[k].from # NoTab
        /\ browserLogin[k].from # NoTab => tab[browserLogin[k].from].at # "closed"
        /\ TabIsYoung(k)
    BY <1>1 DEF OAuthInv, OAuthLoginTypeOK, BrowserLogin
  <2>2. CASE k # l
    BY <1>2, <2>1, <2>2 DEF TabIsYoung
  <2>3. CASE k = l
    BY <1>2, <2>1, <2>3 DEF TabIsYoung
  <2>. QED
    BY <2>2, <2>3
<1>. QED
  BY <1>2, <1>3 DEF OAuthInv, OAuthLoginTypeOK

\* A command that ends, whatever becomes of the code its tab had.
LEMMA CommandEnds ==
    ASSUME OAuthInv, NEW l \in BrowserLogins,
           NEW at \in {"ok", "refused", "denied", "failed"}, LoginEnds(l, at),
           UNCHANGED <<oauthReplica, registered>>,
           \/ UNCHANGED tab
           \/ \E t \in BrowserLogins : tab' = [tab EXCEPT ![t].at = "spent"]
    PROVE  OAuthInv'
<1>1. PICK b \in BrowserLogin :
         /\ browserLogin' = [browserLogin EXCEPT ![l] = b]
         /\ b.at = at /\ b.from = NoTab
  BY LoginEndsEffect DEF OAuthInv
<1>2. tab \in [BrowserLogins -> Tab]
  BY DEF OAuthInv, OAuthLoginTypeOK
<1>3. /\ tab' \in [BrowserLogins -> Tab]
      /\ \A k \in BrowserLogins : /\ tab'[k].age = tab[k].age
                                  /\ tab[k].at # "closed" => tab'[k].at # "closed"
  <2>1. CASE UNCHANGED tab
    BY <1>2, <2>1
  <2>2. ASSUME NEW t \in BrowserLogins, tab' = [tab EXCEPT ![t].at = "spent"]
        PROVE  <1>3
    <3>1. tab' = [tab EXCEPT ![t] = [tab[t] EXCEPT !.at = "spent"]]
      BY <1>2, <2>2
    <3>2. /\ [tab[t] EXCEPT !.at = "spent"] \in Tab
          /\ [tab[t] EXCEPT !.at = "spent"].age = tab[t].age
          /\ [tab[t] EXCEPT !.at = "spent"].at = "spent"
      BY <1>2 DEF Tab
    <3>. QED
      BY <1>2, <3>1, <3>2
  <2>. QED
    BY <2>1, <2>2
<1>. QED
  BY <1>1, <1>3, CommandMoves

LEMMA CommandStepKeeps ==
    ASSUME OAuthInv, NEW l \in BrowserLogins,
           \/ StartCallbackServer(l) \/ RequestFails(l) \/ AwaitCallback(l)
           \/ \E r \in OAuthReplicas : Authorize(l, r) \/ Callback(l, r)
    PROVE  OAuthInv'
<1>1. /\ OAuthLoginTypeOK /\ tab \in [BrowserLogins -> Tab]
      /\ browserLogin[l] \in BrowserLogin
      /\ browserLogin[l].from \in BrowserLogins \cup {NoTab}
      /\ oauthReplica \in [OAuthReplicas -> OAuthReplica]
      /\ TabIsYoung(l)
  BY DEF OAuthInv, OAuthLoginTypeOK, BrowserLogin
<1>2. ASSUME LoginGoesTo(l, "authorize"), UNCHANGED <<tab, oauthReplica, registered>>
      PROVE  OAuthInv'
  <2>1. PICK b \in BrowserLogin :
           /\ browserLogin' = [browserLogin EXCEPT ![l] = b]
           /\ b.at = "authorize" /\ b.from = browserLogin[l].from /\ b.waited = 0
    BY <1>1, <1>2, LoginGoesToEffect
  <2>2. b.waited <= 1 /\ b.at # "wait" /\ b.at # "callback"
    BY <2>1
  <2>. QED
    BY <1>1, <1>2, <2>1, <2>2, CommandMoves
<1>3. CASE StartCallbackServer(l)
  BY <1>1, <1>2, <1>3, CommandEnds DEF StartCallbackServer
<1>4. CASE RequestFails(l)
  BY <1>4, CommandEnds DEF RequestFails
<1>5. CASE AwaitCallback(l)
  <2>1. CASE LoginEnds(l, "failed")
    BY <1>5, <2>1, CommandEnds DEF AwaitCallback
  <2>2. CASE browserLogin[l].from # NoTab /\ LoginGoesTo(l, "callback")
    <3>1. PICK b \in BrowserLogin :
             /\ browserLogin' = [browserLogin EXCEPT ![l] = b]
             /\ b.at = "callback" /\ b.from = browserLogin[l].from /\ b.waited = 0
      BY <1>1, <2>2, LoginGoesToEffect
    <3>2. tab[l].age <= CallbackWait
      BY <1>1, <1>5, OAuthLoginAssumption
      DEF AwaitCallback, TabIsYoung, BrowserLogin, Tab, Ages
    <3>3. UNCHANGED <<tab, oauthReplica, registered>>
      BY <1>5 DEF AwaitCallback
    <3>4. tab[l].age <= CallbackWait + b.waited /\ b.waited <= 1
      BY <1>1, <3>1, <3>2, OAuthLoginAssumption DEF Tab, Ages
    <3>5. b.at # "wait" /\ b.at # "authorize"
      BY <3>1
    <3>. QED
      BY <1>1, <2>2, <3>1, <3>3, <3>4, <3>5, CommandMoves
  <2>. QED
    BY <1>5, <2>1, <2>2 DEF AwaitCallback
<1>6. ASSUME NEW r \in OAuthReplicas, Authorize(l, r) PROVE OAuthInv'
  <2> DEFINE u == [at |-> IF oauthReplica[r].endpoints = "guessed"
                          THEN "error" ELSE "open",
                   key |-> StateKey(r), age |-> 0, issuer |-> r]
  <2>1. PICK b \in BrowserLogin :
           /\ browserLogin' = [browserLogin EXCEPT ![l] = b]
           /\ b.at = "wait" /\ b.from = browserLogin[l].from /\ b.waited = 0
    BY <1>1, <1>6, LoginGoesToEffect DEF Authorize
  <2>2. u \in Tab /\ u.age = 0 /\ u.at # "closed"
    BY <1>1, OAuthLoginAssumption DEF Tab, Ages, StateKey, OAuthReplica
  <2>3. tab' = [tab EXCEPT ![l] = u] /\ UNCHANGED <<oauthReplica, registered>>
    BY <1>6 DEF Authorize
  <2> HIDE DEF u
  <2>4. /\ tab' \in [BrowserLogins -> Tab] /\ tab'[l].age <= b.waited
        /\ \A k \in BrowserLogins : /\ k # l => tab'[k].age = tab[k].age
                                    /\ tab[k].at # "closed" => tab'[k].at # "closed"
    BY <1>1, <2>1, <2>2, <2>3
  <2>5. b.at # "authorize" /\ b.at # "callback"
    BY <2>1
  <2>. QED
    BY <1>1, <2>1, <2>3, <2>4, <2>5, CommandMoves
<1>7. ASSUME NEW r \in OAuthReplicas, Callback(l, r) PROVE OAuthInv'
  <2>1. browserLogin[l].from \in BrowserLogins
    BY <1>1, <1>7 DEF Callback, OAuthLoginTypeOK
  <2>. QED
    BY <1>7, <2>1, CommandEnds DEF Callback, Exchange
<1>. QED
  BY <1>3, <1>4, <1>5, <1>6, <1>7

\* A tab calls back.
LEMMA RedirectKeeps ==
    ASSUME OAuthInv, NEW t \in BrowserLogins, Redirect(t) \/ RedirectWithError(t)
    PROVE  OAuthInv'
<1>1. /\ browserLogin \in [BrowserLogins -> BrowserLogin]
      /\ tab \in [BrowserLogins -> Tab] /\ tab[t].at # "closed"
      /\ UNCHANGED <<oauthReplica, registered>>
  BY DEF OAuthInv, OAuthLoginTypeOK, Redirect, RedirectWithError
<1>2. PICK at \in {"code", "error", tab[t].at} : tab' = [tab EXCEPT ![t].at = at]
  BY <1>1 DEF Redirect, RedirectWithError
<1>3. /\ tab' \in [BrowserLogins -> Tab]
      /\ \A k \in BrowserLogins : /\ tab'[k].age = tab[k].age
                                  /\ tab[k].at # "closed" => tab'[k].at # "closed"
      /\ tab'[t].at # "closed"
  <2>1. tab' = [tab EXCEPT ![t] = [tab[t] EXCEPT !.at = at]]
    BY <1>1, <1>2
  <2>2. /\ [tab[t] EXCEPT !.at = at] \in Tab
        /\ [tab[t] EXCEPT !.at = at].age = tab[t].age
        /\ [tab[t] EXCEPT !.at = at].at = at /\ at # "closed"
    BY <1>1, <1>2 DEF Tab
  <2>. QED
    BY <1>1, <2>1, <2>2
<1>4. ASSUME NEW l \in BrowserLogins
      PROVE  /\ browserLogin'[l] \in BrowserLogin
             /\ browserLogin'[l].at = browserLogin[l].at
             /\ browserLogin'[l].waited = browserLogin[l].waited
             /\ \/ browserLogin'[l].from = browserLogin[l].from
                \/ browserLogin'[l].from = t
  BY <1>1 DEF Redirect, RedirectWithError, Receive, BrowserLogin
<1>5. browserLogin' \in [BrowserLogins -> BrowserLogin]
  BY <1>1, <1>4 DEF Redirect, RedirectWithError, Receive
<1>6. ASSUME NEW l \in BrowserLogins
      PROVE  /\ browserLogin'[l].at = "callback" => browserLogin'[l].from # NoTab
             /\ browserLogin'[l].from # NoTab =>
                   tab'[browserLogin'[l].from].at # "closed"
             /\ TabIsYoung(l)'
  <2>1. browserLogin[l].from \in BrowserLogins \cup {NoTab}
    BY <1>1 DEF BrowserLogin
  <2>. QED
    BY <1>3, <1>4, <2>1, OAuthLoginAssumption
    DEF OAuthInv, OAuthLoginTypeOK, TabIsYoung
<1>. QED
  BY <1>1, <1>3, <1>5, <1>6 DEF OAuthInv, OAuthLoginTypeOK

\* A tick.
LEMMA OAuthTickKeeps == ASSUME OAuthInv, OAuthTick PROVE OAuthInv'
<1>1. /\ browserLogin \in [BrowserLogins -> BrowserLogin]
      /\ tab \in [BrowserLogins -> Tab] /\ UNCHANGED <<oauthReplica, registered>>
  BY DEF OAuthInv, OAuthLoginTypeOK, OAuthTick
<1>2. /\ CallbackWait \in Nat /\ CallbackWait >= 1 /\ StateTTL \in Nat
      /\ NoTab \notin BrowserLogins
  BY OAuthLoginAssumption
<1>3. ASSUME NEW t \in BrowserLogins
      PROVE  /\ tab'[t] \in Tab /\ tab'[t].at = tab[t].at
             /\ tab'[t].age \in {tab[t].age, tab[t].age + 1}
  BY <1>1, <1>2 DEF OAuthTick, Tab, Ages
<1>4. ASSUME NEW l \in BrowserLogins
      PROVE  /\ browserLogin'[l] \in BrowserLogin
             /\ browserLogin'[l].at = browserLogin[l].at
             /\ browserLogin'[l].from = browserLogin[l].from
             /\ Listening(l) => /\ browserLogin[l].waited < Patience(l)
                                /\ browserLogin'[l].waited = browserLogin[l].waited + 1
  <2>1. CASE ~Listening(l)
    BY <1>1, <2>1 DEF OAuthTick
  <2>2. CASE Listening(l)
    <3>1. browserLogin[l].waited < Patience(l)
      BY <2>2 DEF OAuthTick
    <3>2. browserLogin'[l] = [browserLogin[l] EXCEPT !.waited = @ + 1]
      BY <2>2 DEF OAuthTick
    <3>3. /\ browserLogin[l] \in BrowserLogin
          /\ browserLogin[l].waited + 1 \in 0..CallbackWait
      <4>1. browserLogin[l] \in BrowserLogin /\ browserLogin[l].waited \in Nat
        BY <1>1, <1>2 DEF BrowserLogin
      <4>2. CASE browserLogin[l].at = "wait"
        BY <1>2, <2>2, <4>1, <4>2 DEF OAuthTick, Patience
      <4>3. CASE browserLogin[l].at # "wait"
        BY <1>2, <2>2, <4>1, <4>3 DEF OAuthTick, Patience
      <4>. QED
        BY <4>1, <4>2, <4>3
    <3>. QED
      BY <3>1, <3>2, <3>3 DEF BrowserLogin
  <2>. QED
    BY <2>1, <2>2
<1>5. /\ browserLogin' \in [BrowserLogins -> BrowserLogin]
      /\ tab' \in [BrowserLogins -> Tab]
  BY <1>3, <1>4 DEF OAuthTick
<1>6. ASSUME NEW l \in BrowserLogins PROVE TabIsYoung(l)'
  <2>1. browserLogin[l] \in BrowserLogin /\ tab[l] \in Tab /\ TabIsYoung(l)
    BY <1>1 DEF OAuthInv
  <2>2. browserLogin[l].waited \in Nat /\ tab[l].age \in Nat
    BY <1>2, <2>1 DEF BrowserLogin, Tab, Ages
  <2>. QED
    BY <1>2, <1>3, <1>4, <2>1, <2>2 DEF TabIsYoung, Listening, Patience
<1>7. ASSUME NEW l \in BrowserLogins
      PROVE  /\ browserLogin'[l].at = "callback" => browserLogin'[l].from # NoTab
             /\ browserLogin'[l].from # NoTab =>
                   tab'[browserLogin'[l].from].at # "closed"
  <2>1. browserLogin[l].from \in BrowserLogins \cup {NoTab}
    BY <1>1 DEF BrowserLogin
  <2>. QED
    BY <1>3, <1>4, <2>1 DEF OAuthInv, OAuthLoginTypeOK
<1>. QED
  BY <1>1, <1>5, <1>6, <1>7 DEF OAuthInv, OAuthLoginTypeOK

LEMMA OAuthServersKeep ==
    ASSUME OAuthInv,
           \/ \E r \in OAuthReplicas, s \in ClientSecrets,
                 endpoints \in {"discovered", "guessed"} :
                 RestartReplica(r, s, endpoints)
           \/ RegisterSecret
    PROVE  OAuthInv'
<1>1. UNCHANGED <<browserLogin, tab>>
  BY DEF RestartReplica, RegisterSecret
<1>2. oauthReplica' \in [OAuthReplicas -> OAuthReplica] /\ registered' \in ClientSecrets
  <2>1. /\ oauthReplica \in [OAuthReplicas -> OAuthReplica]
        /\ registered \in ClientSecrets
    BY DEF OAuthInv, OAuthLoginTypeOK
  <2>2. ASSUME NEW r \in OAuthReplicas, NEW s \in ClientSecrets,
               NEW endpoints \in {"discovered", "guessed"},
               RestartReplica(r, s, endpoints)
        PROVE  <1>2
    <3> DEFINE u == [secret |-> s, endpoints |-> endpoints]
    <3>1. u \in OAuthReplica
      BY DEF OAuthReplica
    <3>2. oauthReplica' = [oauthReplica EXCEPT ![r] = u] /\ UNCHANGED registered
      BY <2>2 DEF RestartReplica
    <3> HIDE DEF u
    <3>. QED
      BY <2>1, <3>1, <3>2
  <2>3. CASE RegisterSecret
    BY <2>1, <2>3, OAuthLoginAssumption DEF RegisterSecret, ClientSecrets
  <2>. QED
    BY <2>2, <2>3
<1>. QED
  BY <1>1, <1>2 DEF OAuthInv, OAuthLoginTypeOK, TabIsYoung

LEMMA OAuthInvariance == OAuthLoginSpec => []OAuthInv
<1>1. OAuthLoginInit => OAuthInv
  <2> SUFFICES ASSUME OAuthLoginInit PROVE OAuthInv
    OBVIOUS
  <2>1. /\ browserLogin \in [BrowserLogins -> BrowserLogin]
        /\ \A l \in BrowserLogins :
              browserLogin[l].at = "idle" /\ browserLogin[l].from = NoTab
    BY OAuthLoginAssumption DEF OAuthLoginInit, BrowserLogin
  <2>2. tab \in [BrowserLogins -> Tab]
    BY OAuthLoginAssumption DEF OAuthLoginInit, Tab, Ages, ClientSecrets
  <2>3. oauthReplica \in [OAuthReplicas -> OAuthReplica] /\ registered \in ClientSecrets
    BY OAuthLoginAssumption DEF OAuthLoginInit, OAuthReplica, ClientSecrets
  <2>. QED
    BY <2>1, <2>2, <2>3 DEF OAuthInv, OAuthLoginTypeOK, TabIsYoung
<1>2. OAuthInv /\ [OAuthLoginNext]_oauthVars => OAuthInv'
  <2>1. CASE UNCHANGED oauthVars
    BY <2>1 DEF oauthVars, OAuthInv, OAuthLoginTypeOK, TabIsYoung
  <2>. QED
    BY <2>1, CommandStepKeeps, RedirectKeeps, OAuthTickKeeps, OAuthServersKeep
    DEF OAuthLoginNext
<1>. QED
  BY <1>1, <1>2, PTL DEF OAuthLoginSpec

\* The type invariant of OAuthLogin: a command that has been called back knows
\* of a tab, and a tab that calls back was opened by a command (cappctl login).
THEOREM TabsWereOpened == OAuthLoginSpec => []OAuthLoginTypeOK
<1>1. OAuthInv => OAuthLoginTypeOK
  BY DEF OAuthInv
<1>. QED
  BY <1>1, OAuthInvariance, PTL

\* Who leaves the callback as "refused" was refused by a replica.
LEMMA RefusedByReplica ==
    ASSUME OAuthInv, [OAuthLoginNext]_oauthVars, NEW l \in BrowserLogins,
           browserLogin[l].at = "callback", browserLogin'[l].at = "refused"
    PROVE  \E r \in OAuthReplicas :
              Callback(l, r) /\ ~ValidateState(r, browserLogin[l].from)
<1>1. browserLogin \in [BrowserLogins -> BrowserLogin]
  BY DEF OAuthInv, OAuthLoginTypeOK
<1>2. ASSUME NEW k \in BrowserLogins,
             NEW at \in {"authorize", "wait", "callback"}, LoginGoesTo(k, at)
      PROVE  FALSE
  <2>1. PICK b \in BrowserLogin :
           browserLogin' = [browserLogin EXCEPT ![k] = b] /\ b.at = at
    BY <1>2, LoginGoesToEffect DEF OAuthInv
  <2>. QED
    BY <1>1, <2>1
<1>3. ASSUME NEW k \in BrowserLogins,
             NEW at \in {"ok", "refused", "denied", "failed"}, LoginEnds(k, at)
      PROVE  k = l /\ at = "refused"
  <2>1. PICK b \in BrowserLogin :
           browserLogin' = [browserLogin EXCEPT ![k] = b] /\ b.at = at
    BY <1>3, LoginEndsEffect DEF OAuthInv
  <2>. QED
    BY <1>1, <2>1
<1>4. ASSUME NEW k \in BrowserLogins,
             StartCallbackServer(k) \/ RequestFails(k) \/ AwaitCallback(k)
      PROVE  FALSE
  BY <1>2, <1>3, <1>4 DEF StartCallbackServer, RequestFails, AwaitCallback
<1>5. ASSUME NEW t \in BrowserLogins, Receive(t) PROVE FALSE
  BY <1>1, <1>5 DEF Receive, BrowserLogin
<1>6. ASSUME OAuthTick PROVE FALSE
  BY <1>1, <1>6 DEF OAuthTick, BrowserLogin
<1>7. UNCHANGED browserLogin => FALSE
  OBVIOUS
<1>8. ASSUME NEW k \in BrowserLogins, NEW r \in OAuthReplicas, Authorize(k, r)
      PROVE  FALSE
  BY <1>2, <1>8 DEF Authorize
<1>9. ASSUME NEW k \in BrowserLogins, NEW r \in OAuthReplicas, Callback(k, r)
      PROVE  k = l /\ ~ValidateState(r, browserLogin[l].from)
  BY <1>3, <1>9 DEF Callback, Exchange
<1>. QED
  BY <1>4, <1>5, <1>6, <1>7, <1>8, <1>9
  DEF OAuthLoginNext, oauthVars, Redirect, RedirectWithError, RestartReplica,
      RegisterSecret

\* Whichever replicas serve a login, whatever restarts, and however late the
\* user signs in within the time the command waits: when its own tab calls
\* back its state has not expired, so it is refused only while the client
\* secret is being changed (ValidateState of internal/auth).
THEOREM OwnStateIsGood == OAuthLoginSpec => OwnCallbackIsAccepted
<1>1. OAuthInv /\ [OAuthLoginNext]_oauthVars =>
        [\A l \in BrowserLogins :
           (/\ browserLogin[l].at = "callback" /\ browserLogin[l].from = l
            /\ browserLogin'[l].at = "refused")
              => \E r \in OAuthReplicas : oauthReplica[r].secret # tab[l].key]_oauthVars
  <2> SUFFICES ASSUME OAuthInv, [OAuthLoginNext]_oauthVars, NEW l \in BrowserLogins,
                      browserLogin[l].at = "callback", browserLogin[l].from = l,
                      browserLogin'[l].at = "refused"
               PROVE  \E r \in OAuthReplicas : oauthReplica[r].secret # tab[l].key
    OBVIOUS
  <2>1. PICK r \in OAuthReplicas : ~ValidateState(r, l)
    BY RefusedByReplica
  <2>2. tab[l].age <= StateTTL
    <3>1. /\ browserLogin[l] \in BrowserLogin /\ tab[l] \in Tab /\ TabIsYoung(l)
      BY DEF OAuthInv, OAuthLoginTypeOK
    <3>2. browserLogin[l].waited \in Nat /\ tab[l].age \in Nat
      BY <3>1, OAuthLoginAssumption DEF BrowserLogin, Tab, Ages
    <3>. QED
      BY <3>1, <3>2, OAuthLoginAssumption DEF TabIsYoung
  <2>. QED
    BY <2>1, <2>2 DEF ValidateState, StateKey
<1>. QED
  BY <1>1, OAuthInvariance, PTL DEF OAuthLoginSpec, OwnCallbackIsAccepted

-----------------------------------------------------------------------------
(* LdapLogin.  What a login has learnt was true of its entry at some moment *)
(* since it began, and stays so; and every key that signs, or that somebody *)
(* may still show a token of, is verified with by all.                      *)

\* What the directory says now is part of what a login may have seen.
DirectoryIsSeen(l) ==
    InLogin(l) => \A d \in DNs : directory[d] \in was[l][d]

NameWas(l, d, n) == \E e \in was[l][d] \ {NoUser} : e.name = n
PasswordWas(l, d, w) == \E e \in was[l][d] \ {NoUser} : e.password = w
GroupsWere(l, d, g) ==
    \E e \in was[l][d] : g = IF e = NoUser THEN {} ELSE e.groups

\* What a login knows of its entry, and what its token says.
LoginKnows(l) ==
    LET d == login[l].dn
    IN  /\ login[l].at \in {"bind", "groups"} => NameWas(l, d, login[l].sub)
        /\ login[l].at = "groups" => PasswordWas(l, d, login[l].password)
        /\ token[l] # NoToken =>
              /\ login[l].at = "issued"
              /\ NameWas(l, d, token[l].sub)
              /\ PasswordWas(l, d, login[l].password)
              /\ GroupsWere(l, d, token[l].groups)

TruthInv ==
    /\ LdapLoginTypeOK
    /\ \A l \in LdapLogins : DirectoryIsSeen(l) /\ LoginKnows(l)

LEMMA AnswerEffect ==
    ASSUME LdapLoginTypeOK, NEW l \in LdapLogins,
           NEW at \in {"groups", "issued", "denied", "unavailable"}, Answer(l, at)
    PROVE  \E r \in Login :
              /\ login' = [login EXCEPT ![l] = r]
              /\ r.at = at /\ r.name = login[l].name
              /\ r.password = login[l].password
              /\ r.kid = login[l].kid /\ r.dn = login[l].dn /\ r.sub = login[l].sub
<1> DEFINE r == [login[l] EXCEPT !.at = at]
<1>1. login \in [LdapLogins -> Login] /\ login[l] \in Login
  BY DEF LdapLoginTypeOK
<1>2. /\ r \in Login /\ r.at = at /\ r.name = login[l].name
      /\ r.password = login[l].password
      /\ r.kid = login[l].kid /\ r.dn = login[l].dn /\ r.sub = login[l].sub
  BY <1>1 DEF Login
<1>3. login' = [login EXCEPT ![l] = r]
  BY <1>1 DEF Answer
<1>. QED
  BY <1>2, <1>3

\* Login l has no token, makes a step and gets none.
LEMMA OneLoginMoves ==
    ASSUME TruthInv, NEW l \in LdapLogins, NEW r \in Login,
           login' = [login EXCEPT ![l] = r], token[l] = NoToken,
           UNCHANGED <<directory, was, token, config>>,
           r.at \in {"bind", "groups"} => InLogin(l) /\ NameWas(l, r.dn, r.sub),
           r.at = "groups" => PasswordWas(l, r.dn, r.password),
           r.at # "search"
    PROVE  TruthInv'
<1>1. /\ login' \in [LdapLogins -> Login] /\ login'[l] = r
      /\ \A k \in LdapLogins \ {l} : login'[k] = login[k]
  BY DEF TruthInv, LdapLoginTypeOK
<1>2. ASSUME NEW k \in LdapLogins PROVE DirectoryIsSeen(k)' /\ LoginKnows(k)'
  <2>1. DirectoryIsSeen(k) /\ LoginKnows(k)
    BY DEF TruthInv
  <2>2. CASE k = l
    BY <1>1, <2>1, <2>2 DEF DirectoryIsSeen, InLogin, LoginKnows, NameWas,
       PasswordWas, GroupsWere
  <2>3. CASE k # l
    BY <1>1, <2>1, <2>3 DEF DirectoryIsSeen, InLogin, LoginKnows, NameWas,
       PasswordWas, GroupsWere
  <2>. QED
    BY <2>2, <2>3
<1>. QED
  BY <1>1, <1>2 DEF TruthInv, LdapLoginTypeOK

LEMMA LoginStepKeepsTruth ==
    ASSUME TruthInv, NEW l \in LdapLogins, Search(l) \/ Bind(l) \/ Unavailable(l)
    PROVE  TruthInv'
<1>1. /\ LdapLoginTypeOK /\ login \in [LdapLogins -> Login]
      /\ login[l] \in Login /\ directory \in [DNs -> User \cup {NoUser}]
      /\ UNCHANGED <<directory, was, token, config>>
      /\ InLogin(l) /\ token[l] = NoToken
      /\ \A d \in DNs : directory[d] \in was[l][d]
      /\ LoginKnows(l)
  BY DEF TruthInv, LdapLoginTypeOK, DirectoryIsSeen, LoginKnows, InLogin,
     Search, Bind, Unavailable
<1>2. ASSUME NEW at \in {"denied", "unavailable"}, Answer(l, at) PROVE TruthInv'
  <2>1. PICK r \in Login : login' = [login EXCEPT ![l] = r] /\ r.at = at
    BY <1>1, <1>2, AnswerEffect
  <2>2. r.at \notin {"bind", "groups", "search"}
    BY <2>1
  <2>. QED
    BY <1>1, <2>1, <2>2, OneLoginMoves
<1>3. CASE Search(l)
  <2>1. ASSUME NEW d \in DNs, Found(login[l].name) = {d},
               login' = [login EXCEPT ![l].at = "bind", ![l].dn = d,
                                      ![l].sub = directory[d].name]
        PROVE  TruthInv'
    <3> DEFINE r == [login[l] EXCEPT !.at = "bind", !.dn = d,
                                     !.sub = directory[d].name]
    <3>1. directory[d] \in User /\ directory[d] # NoUser
      BY <1>1, <2>1 DEF Found
    <3>2. /\ r \in Login /\ r.at = "bind" /\ r.dn = d
          /\ r.sub = directory[d].name
      BY <1>1, <3>1 DEF Login, User
    <3>3. login' = [login EXCEPT ![l] = r]
      BY <1>1, <2>1
    <3>4. NameWas(l, d, directory[d].name)
      BY <1>1, <3>1 DEF NameWas
    <3> HIDE DEF r
    <3>. QED
      BY <1>1, <3>2, <3>3, <3>4, OneLoginMoves
  <2>. QED
    BY <1>2, <1>3, <2>1 DEF Search
<1>4. CASE Bind(l)
  <2> DEFINE e == directory[login[l].dn]
  <2>1. CASE e # NoUser /\ e.password = login[l].password
    <3>1. PICK r \in Login :
             /\ login' = [login EXCEPT ![l] = r]
             /\ r.at = "groups" /\ r.password = login[l].password
             /\ r.dn = login[l].dn /\ r.sub = login[l].sub
      BY <1>1, <1>4, <2>1, AnswerEffect DEF Bind
    <3>2. login[l].dn \in DNs
      BY <1>1 DEF Login
    <3>3. PasswordWas(l, r.dn, r.password)
      BY <1>1, <2>1, <3>1, <3>2 DEF PasswordWas
    <3>4. NameWas(l, r.dn, r.sub)
      BY <1>1, <1>4, <3>1 DEF Bind, LoginKnows
    <3>5. r.at # "search"
      BY <3>1
    <3>. QED
      BY <1>1, <3>1, <3>3, <3>4, <3>5, OneLoginMoves
  <2>2. CASE ~(e # NoUser /\ e.password = login[l].password)
    BY <1>2, <1>4, <2>2 DEF Bind
  <2>. QED
    BY <2>1, <2>2
<1>5. CASE Unavailable(l)
  BY <1>2, <1>5 DEF Unavailable
<1>. QED
  BY <1>3, <1>4, <1>5

LEMMA BeginKeepsTruth ==
    ASSUME TruthInv, NEW l \in LdapLogins, NEW r \in Replicas, NEW n \in Names,
           NEW w \in Passwords, BeginLdapLogin(l, r, n, w)
    PROVE  TruthInv'
<1> DEFINE u == [at |-> "search", name |-> n, password |-> w,
                 kid |-> config[r].signs, dn |-> login[l].dn, sub |-> login[l].sub]
           seen == [d \in DNs |-> {directory[d]}]
<1>1. /\ login \in [LdapLogins -> Login] /\ login[l] \in Login
      /\ directory \in [DNs -> User \cup {NoUser}]
      /\ was \in [LdapLogins -> [DNs -> SUBSET (User \cup {NoUser})]]
      /\ config[r] \in LdapConfig
      /\ token[l] = NoToken
      /\ UNCHANGED <<directory, token, config>>
  BY DEF TruthInv, LdapLoginTypeOK, LoginKnows, BeginLdapLogin
<1>2. u \in Login /\ u.at = "search"
  BY <1>1 DEF Login, LdapConfig
<1>3. login' = [login EXCEPT ![l] = u] /\ was' = [was EXCEPT ![l] = seen]
  BY <1>1 DEF BeginLdapLogin
<1>4. /\ seen \in [DNs -> SUBSET (User \cup {NoUser})]
      /\ \A d \in DNs : directory[d] \in seen[d]
  BY <1>1
<1> HIDE DEF u, seen
<1>5. /\ login' \in [LdapLogins -> Login] /\ login'[l] = u
      /\ was' \in [LdapLogins -> [DNs -> SUBSET (User \cup {NoUser})]]
      /\ was'[l] = seen
      /\ \A k \in LdapLogins \ {l} : login'[k] = login[k] /\ was'[k] = was[k]
  BY <1>1, <1>2, <1>3, <1>4
<1>6. ASSUME NEW k \in LdapLogins PROVE DirectoryIsSeen(k)' /\ LoginKnows(k)'
  <2>1. DirectoryIsSeen(k) /\ LoginKnows(k)
    BY DEF TruthInv
  <2>2. CASE k = l
    BY <1>1, <1>2, <1>4, <1>5, <2>2 DEF DirectoryIsSeen, LoginKnows
  <2>3. CASE k # l
    BY <1>1, <1>5, <2>1, <2>3 DEF DirectoryIsSeen, InLogin, LoginKnows, NameWas,
       PasswordWas, GroupsWere
  <2>. QED
    BY <2>2, <2>3
<1>. QED
  BY <1>1, <1>5, <1>6 DEF TruthInv, LdapLoginTypeOK

LEMMA IssueKeepsTruth ==
    ASSUME TruthInv, NEW l \in LdapLogins, ResolveAndIssue(l)
    PROVE  TruthInv'
<1> DEFINE t == [sub |-> login[l].sub, groups |-> GroupsOf(l),
                 kid |-> login[l].kid, left |-> TokenTTL]
<1>1. /\ LdapLoginTypeOK /\ login \in [LdapLogins -> Login] /\ login[l] \in Login
      /\ directory \in [DNs -> User \cup {NoUser}]
      /\ token \in [LdapLogins -> Token \cup {NoToken}]
      /\ UNCHANGED <<directory, was, config>>
      /\ login[l].at = "groups" /\ LoginKnows(l)
      /\ directory[login[l].dn] \in was[l][login[l].dn]
  BY DEF TruthInv, LdapLoginTypeOK, LoginKnows, ResolveAndIssue, DirectoryIsSeen,
     InLogin, Login
<1>2. GroupsOf(l) \subseteq Groups /\ GroupsWere(l, login[l].dn, GroupsOf(l))
  <2>1. login[l].dn \in DNs
    BY <1>1 DEF Login
  <2>2. GroupsOf(l) \subseteq Groups
    BY <1>1, <2>1 DEF GroupsOf, User
  <2>. QED
    BY <1>1, <2>2 DEF GroupsOf, GroupsWere
<1>3. /\ t \in Token /\ t.sub = login[l].sub /\ t.groups = GroupsOf(l)
  <2>1. TokenTTL \in 0..TokenTTL
    BY LdapLoginAssumption
  <2>. QED
    BY <1>1, <1>2, <2>1 DEF Token, Login
<1>4. token' = [token EXCEPT ![l] = t]
  BY DEF ResolveAndIssue
<1>5. PICK r \in Login :
         /\ login' = [login EXCEPT ![l] = r]
         /\ r.at = "issued" /\ r.password = login[l].password
         /\ r.dn = login[l].dn
  BY <1>1, AnswerEffect DEF ResolveAndIssue
<1> HIDE DEF t
<1>6. /\ login' \in [LdapLogins -> Login] /\ login'[l] = r
      /\ token' \in [LdapLogins -> Token \cup {NoToken}] /\ token'[l] = t
      /\ \A k \in LdapLogins \ {l} : login'[k] = login[k] /\ token'[k] = token[k]
  BY <1>1, <1>3, <1>4, <1>5
<1>7. ASSUME NEW k \in LdapLogins PROVE DirectoryIsSeen(k)' /\ LoginKnows(k)'
  <2>1. DirectoryIsSeen(k) /\ LoginKnows(k)
    BY DEF TruthInv
  <2>2. CASE k = l
    <3>1. DirectoryIsSeen(k)'
      BY <1>5, <1>6, <2>2 DEF DirectoryIsSeen, InLogin
    <3>2. LoginKnows(k)'
      BY <1>1, <1>2, <1>3, <1>5, <1>6, <2>2 DEF LoginKnows, NameWas, PasswordWas,
         GroupsWere
    <3>. QED
      BY <3>1, <3>2
  <2>3. CASE k # l
    BY <1>1, <1>6, <2>1, <2>3 DEF DirectoryIsSeen, InLogin, LoginKnows, NameWas,
       PasswordWas, GroupsWere
  <2>. QED
    BY <2>2, <2>3
<1>. QED
  BY <1>1, <1>6, <1>7 DEF TruthInv, LdapLoginTypeOK

\* What was seen stays seen when the directory changes.
LEMMA ChangeKeepsTruth ==
    ASSUME TruthInv, NEW d \in DNs, NEW e \in User \cup {NoUser}, ChangeUser(d, e)
    PROVE  TruthInv'
<1>1. /\ directory \in [DNs -> User \cup {NoUser}]
      /\ was \in [LdapLogins -> [DNs -> SUBSET (User \cup {NoUser})]]
      /\ directory' = [directory EXCEPT ![d] = e]
      /\ UNCHANGED <<login, token, config>>
      /\ login \in [LdapLogins -> Login]
  BY DEF TruthInv, LdapLoginTypeOK, ChangeUser
<1>2. ASSUME NEW l \in LdapLogins
      PROVE  /\ was'[l] \in [DNs -> SUBSET (User \cup {NoUser})]
             /\ \A x \in DNs : was[l][x] \subseteq was'[l][x]
             /\ InLogin(l) => e \in was'[l][d]
  <2>1. CASE InLogin(l)
    <3>1. was'[l] = [was[l] EXCEPT ![d] = was[l][d] \cup {e}]
      BY <2>1 DEF ChangeUser
    <3>. QED
      BY <1>1, <3>1
  <2>2. CASE ~InLogin(l)
    BY <1>1, <2>2 DEF ChangeUser
  <2>. QED
    BY <2>1, <2>2
<1>3. /\ directory' \in [DNs -> User \cup {NoUser}]
      /\ was' \in [LdapLogins -> [DNs -> SUBSET (User \cup {NoUser})]]
  BY <1>1, <1>2 DEF ChangeUser
<1>4. ASSUME NEW l \in LdapLogins PROVE DirectoryIsSeen(l)' /\ LoginKnows(l)'
  <2>1. DirectoryIsSeen(l) /\ LoginKnows(l) /\ login[l].dn \in DNs
    BY <1>1 DEF TruthInv, Login
  <2>2. DirectoryIsSeen(l)'
    BY <1>1, <1>2, <2>1 DEF DirectoryIsSeen, InLogin
  <2>3. LoginKnows(l)'
    BY <1>1, <1>2, <2>1 DEF LoginKnows, NameWas, PasswordWas, GroupsWere
  <2>. QED
    BY <2>2, <2>3
<1>. QED
  BY <1>1, <1>3, <1>4 DEF TruthInv, LdapLoginTypeOK

\* A token that gets older says what it has said.
LEMMA OlderEffect ==
    ASSUME NEW t \in Token \cup {NoToken}
    PROVE  /\ Older(t) \in Token \cup {NoToken}
           /\ Older(t) = NoToken <=> t = NoToken
           /\ t # NoToken => /\ Older(t).sub = t.sub
                             /\ Older(t).groups = t.groups
                             /\ Older(t).kid = t.kid
                             /\ Older(t).left > 0 => t.left > 0
<1>1. CASE t = NoToken
  BY <1>1 DEF Older
<1>2. CASE t # NoToken
  <2>1. t \in Token /\ t.left \in 0..TokenTTL /\ TokenTTL \in Nat
    BY <1>2, LdapLoginAssumption DEF Token
  <2>2. CASE t.left = 0
    BY <1>2, <2>1, <2>2 DEF Older
  <2>3. CASE t.left # 0
    <3> DEFINE u == [t EXCEPT !.left = t.left - 1]
    <3>1. t.left - 1 \in 0..TokenTTL
      BY <2>1, <2>3
    <3>2. /\ u \in Token /\ u.sub = t.sub /\ u.groups = t.groups /\ u.kid = t.kid
      BY <2>1, <3>1 DEF Token
    <3>3. Older(t) = u
      BY <1>2, <2>3 DEF Older
    <3>4. NoToken \notin Token
      BY LdapLoginAssumption DEF Token
    <3>5. t.left > 0
      BY <2>1, <2>3
    <3> HIDE DEF u
    <3>. QED
      BY <1>2, <3>2, <3>3, <3>4, <3>5
  <2>. QED
    BY <2>2, <2>3
<1>. QED
  BY <1>1, <1>2

LEMMA AgeKeepsTruth == ASSUME TruthInv, LdapTokensAge PROVE TruthInv'
<1>1. /\ UNCHANGED <<directory, login, was, config>>
      /\ token \in [LdapLogins -> Token \cup {NoToken}]
      /\ token' = [l \in LdapLogins |-> Older(token[l])]
  BY DEF TruthInv, LdapLoginTypeOK, LdapTokensAge
<1>2. ASSUME NEW l \in LdapLogins
      PROVE  /\ token'[l] \in Token \cup {NoToken}
             /\ token'[l] = NoToken <=> token[l] = NoToken
             /\ token[l] # NoToken => /\ token'[l].sub = token[l].sub
                                      /\ token'[l].groups = token[l].groups
  BY <1>1, OlderEffect
<1>3. token' \in [LdapLogins -> Token \cup {NoToken}]
  BY <1>1, <1>2
<1>. QED
  BY <1>1, <1>2, <1>3 DEF TruthInv, LdapLoginTypeOK, DirectoryIsSeen, InLogin,
     LoginKnows, NameWas, PasswordWas, GroupsWere

\* Operators touch the keys only.
LEMMA OperatorEffect ==
    ASSUME LdapLoginTypeOK, NEW r \in Replicas, NEW k \in Keys,
           Distribute(r, k) \/ Activate(r, k) \/ Remove(r, k)
    PROVE  /\ UNCHANGED <<directory, login, was, token>>
           /\ \E c \in LdapConfig :
                 /\ config' = [config EXCEPT ![r] = c]
                 /\ \/ c.signs = config[r].signs
                    \/ c.signs = k /\ \A s \in Replicas : k \in VerifiesWith(s)
                 /\ \/ VerifiesWith(r) \subseteq c.trusts \cup {c.signs}
                    \/ /\ VerifiesWith(r) \ {k} \subseteq c.trusts \cup {c.signs}
                       /\ \A s \in Replicas : config[s].signs # k
                       /\ \A l \in LdapLogins :
                             /\ InLogin(l) => login[l].kid # k
                             /\ token[l] # NoToken =>
                                   token[l].kid # k \/ token[l].left = 0
<1>1. /\ config \in [Replicas -> LdapConfig] /\ config[r] \in LdapConfig
      /\ config[r].trusts \subseteq Keys /\ config[r].signs \in Keys
  BY DEF LdapLoginTypeOK, LdapConfig
<1>2. CASE Distribute(r, k)
  <2> DEFINE c == [config[r] EXCEPT !.trusts = config[r].trusts \cup {k}]
  <2>1. /\ c \in LdapConfig /\ c.signs = config[r].signs
        /\ c.trusts = config[r].trusts \cup {k}
    BY <1>1 DEF LdapConfig
  <2>2. config' = [config EXCEPT ![r] = c]
    BY <1>1, <1>2 DEF Distribute
  <2> HIDE DEF c
  <2>3. VerifiesWith(r) \subseteq c.trusts \cup {c.signs}
    BY <2>1 DEF VerifiesWith
  <2>. QED
    BY <1>2, <2>1, <2>2, <2>3 DEF Distribute
<1>3. CASE Activate(r, k)
  <2> DEFINE c == [signs |-> k, trusts |-> config[r].trusts \cup {config[r].signs}]
  <2>1. c \in LdapConfig /\ c.signs = k
    BY <1>1 DEF LdapConfig
  <2>2. config' = [config EXCEPT ![r] = c]
    BY <1>1, <1>3 DEF Activate
  <2>3. VerifiesWith(r) \subseteq c.trusts \cup {c.signs}
    BY DEF VerifiesWith
  <2> HIDE DEF c
  <2>. QED
    BY <1>3, <2>1, <2>2, <2>3 DEF Activate
<1>4. CASE Remove(r, k)
  <2> DEFINE c == [config[r] EXCEPT !.trusts = config[r].trusts \ {k}]
  <2>1. /\ c \in LdapConfig /\ c.signs = config[r].signs
        /\ c.trusts = config[r].trusts \ {k}
    BY <1>1 DEF LdapConfig
  <2>2. config' = [config EXCEPT ![r] = c]
    BY <1>1, <1>4 DEF Remove
  <2> HIDE DEF c
  <2>3. VerifiesWith(r) \ {k} \subseteq c.trusts \cup {c.signs}
    BY <2>1 DEF VerifiesWith
  <2>. QED
    BY <1>4, <2>1, <2>2, <2>3 DEF Remove
<1>. QED
  BY <1>2, <1>3, <1>4

LEMMA TruthInvariance == LdapLoginSpec => []TruthInv
<1>1. LdapLoginInit => TruthInv
  <2> SUFFICES ASSUME LdapLoginInit PROVE TruthInv
    OBVIOUS
  <2>1. /\ login \in [LdapLogins -> Login] /\ config \in [Replicas -> LdapConfig]
        /\ \A l \in LdapLogins : login[l].at = "idle"
    BY DEF LdapLoginInit, Login, LdapConfig
  <2>2. /\ directory \in [DNs -> User \cup {NoUser}]
        /\ was \in [LdapLogins -> [DNs -> SUBSET (User \cup {NoUser})]]
        /\ token \in [LdapLogins -> Token \cup {NoToken}]
        /\ \A l \in LdapLogins : token[l] = NoToken
    BY DEF LdapLoginInit
  <2>. QED
    BY <2>1, <2>2 DEF TruthInv, LdapLoginTypeOK, DirectoryIsSeen, InLogin, LoginKnows
<1>2. TruthInv /\ [LdapLoginNext]_ldapVars => TruthInv'
  <2> SUFFICES ASSUME TruthInv, [LdapLoginNext]_ldapVars PROVE TruthInv'
    OBVIOUS
  <2>1. ASSUME UNCHANGED <<directory, login, was, token>>,
               config' \in [Replicas -> LdapConfig]
        PROVE  TruthInv'
    BY <2>1 DEF TruthInv, LdapLoginTypeOK, DirectoryIsSeen, InLogin, LoginKnows,
       NameWas, PasswordWas, GroupsWere
  <2>2. CASE UNCHANGED ldapVars
    BY <2>1, <2>2 DEF ldapVars, TruthInv, LdapLoginTypeOK
  <2>3. ASSUME NEW r \in Replicas, NEW k \in Keys,
               Distribute(r, k) \/ Activate(r, k) \/ Remove(r, k)
        PROVE  TruthInv'
    <3>1. /\ UNCHANGED <<directory, login, was, token>>
          /\ \E c \in LdapConfig : config' = [config EXCEPT ![r] = c]
      BY <2>3, OperatorEffect DEF TruthInv
    <3>. QED
      BY <2>1, <3>1 DEF TruthInv, LdapLoginTypeOK
  <2>. QED
    BY <2>2, <2>3, BeginKeepsTruth, LoginStepKeepsTruth, IssueKeepsTruth,
       ChangeKeepsTruth, AgeKeepsTruth DEF LdapLoginNext
<1>. QED
  BY <1>1, <1>2, PTL DEF LdapLoginSpec

\* A login asks the directory three times while it changes: its token says of
\* one entry what was true of it at some moment since the login began
\* (PasswordLogin of internal/auth).
THEOREM TokensTellTheTruth == LdapLoginSpec => []TokenSaysWhatWasTrue
<1>1. TruthInv => TokenSaysWhatWasTrue
  <2> SUFFICES ASSUME TruthInv, NEW l \in LdapLogins, token[l] # NoToken
               PROVE  \E d \in DNs :
                  /\ \E e \in was[l][d] \ {NoUser} : e.name = token[l].sub
                  /\ \E e \in was[l][d] \ {NoUser} : e.password = login[l].password
                  /\ \E e \in was[l][d] :
                        token[l].groups = IF e = NoUser THEN {} ELSE e.groups
    BY DEF TokenSaysWhatWasTrue
  <2>1. login[l].dn \in DNs /\ LoginKnows(l)
    BY DEF TruthInv, LdapLoginTypeOK, Login
  <2>. QED
    BY <2>1 DEF LoginKnows, NameWas, PasswordWas, GroupsWere
<1>. QED
  BY <1>1, TruthInvariance, PTL

\* With these keys everybody verifies what k has signed.
AllVerify(keys, k) ==
    \A s \in Replicas : k \in keys[s].trusts \cup {keys[s].signs}

KeysInv ==
    /\ LdapLoginTypeOK
    /\ \A r \in Replicas : AllVerify(config, config[r].signs)
    /\ \A l \in LdapLogins :
          /\ InLogin(l) => AllVerify(config, login[l].kid)
          /\ token[l] # NoToken /\ token[l].left > 0 => AllVerify(config, token[l].kid)

\* Keys stay as they are; logins and tokens are new ones of keys that sign,
\* or of logins that were there.
LEMMA LoginsKeepKeys ==
    ASSUME KeysInv, LdapLoginTypeOK', UNCHANGED config,
           \A l \in LdapLogins :
              /\ InLogin(l)' =>
                    \/ InLogin(l) /\ login'[l].kid = login[l].kid
                    \/ \E r \in Replicas : login'[l].kid = config[r].signs
              /\ token'[l] # NoToken /\ token'[l].left > 0 =>
                    \/ InLogin(l) /\ token'[l].kid = login[l].kid
                    \/ /\ token[l] # NoToken /\ token[l].left > 0
                       /\ token'[l].kid = token[l].kid
    PROVE  KeysInv'
<1>1. config' = config
  OBVIOUS
<1>2. \A r \in Replicas : AllVerify(config', config'[r].signs)
  BY <1>1 DEF KeysInv
<1>3. ASSUME NEW l \in LdapLogins
      PROVE  /\ InLogin(l)' => AllVerify(config', login'[l].kid)
             /\ token'[l] # NoToken /\ token'[l].left > 0 =>
                   AllVerify(config', token'[l].kid)
  BY <1>1 DEF KeysInv
<1>. QED
  BY <1>2, <1>3 DEF KeysInv

LEMMA RotationKeepsKeys ==
    ASSUME KeysInv, LdapLoginTypeOK', NEW r \in Replicas, NEW k \in Keys,
           Distribute(r, k) \/ Activate(r, k) \/ Remove(r, k)
    PROVE  KeysInv'
<1>1. UNCHANGED <<directory, login, was, token>>
  BY OperatorEffect DEF KeysInv
<1>2. PICK c \in LdapConfig :
         /\ config' = [config EXCEPT ![r] = c]
         /\ \/ c.signs = config[r].signs
            \/ c.signs = k /\ \A s \in Replicas : k \in VerifiesWith(s)
         /\ \/ VerifiesWith(r) \subseteq c.trusts \cup {c.signs}
            \/ /\ VerifiesWith(r) \ {k} \subseteq c.trusts \cup {c.signs}
               /\ \A s \in Replicas : config[s].signs # k
               /\ \A l \in LdapLogins :
                     /\ InLogin(l) => login[l].kid # k
                     /\ token[l] # NoToken =>
                           token[l].kid # k \/ token[l].left = 0
  BY OperatorEffect DEF KeysInv
<1>3. /\ config'[r] = c
      /\ \A s \in Replicas \ {r} : config'[s] = config[s]
  BY <1>2 DEF KeysInv, LdapLoginTypeOK
<1>4. ASSUME NEW x, AllVerify(config, x),
             x # k \/ VerifiesWith(r) \subseteq c.trusts \cup {c.signs}
      PROVE  AllVerify(config', x)
  <2>1. x \in VerifiesWith(r)
    BY <1>4 DEF AllVerify, VerifiesWith
  <2>2. x \in c.trusts \cup {c.signs}
    BY <1>2, <1>4, <2>1
  <2>. QED
    BY <1>3, <1>4, <2>2 DEF AllVerify
<1>5. ASSUME NEW s \in Replicas PROVE AllVerify(config', config'[s].signs)
  <2>1. CASE s # r \/ c.signs = config[r].signs
    <3>1. config'[s].signs = config[s].signs /\ AllVerify(config, config[s].signs)
      BY <1>3, <2>1 DEF KeysInv
    <3>2. \/ config[s].signs # k
          \/ VerifiesWith(r) \subseteq c.trusts \cup {c.signs}
      BY <1>2
    <3>. QED
      BY <1>4, <3>1, <3>2
  <2>2. CASE s = r /\ c.signs = k /\ AllVerify(config, k)
    BY <1>3, <2>2 DEF AllVerify, VerifiesWith
  <2>. QED
    BY <1>2, <1>3, <2>1, <2>2 DEF AllVerify, VerifiesWith
<1>6. ASSUME NEW l \in LdapLogins
      PROVE  /\ InLogin(l)' => AllVerify(config', login'[l].kid)
             /\ token'[l] # NoToken /\ token'[l].left > 0 =>
                   AllVerify(config', token'[l].kid)
  <2>1. ASSUME InLogin(l) PROVE AllVerify(config', login[l].kid)
    BY <1>2, <1>4, <2>1 DEF KeysInv
  <2>2. ASSUME token[l] # NoToken, token[l].left > 0
        PROVE  AllVerify(config', token[l].kid)
    <3>1. AllVerify(config, token[l].kid)
      BY <2>2 DEF KeysInv
    <3>2. \/ token[l].kid # k
          \/ VerifiesWith(r) \subseteq c.trusts \cup {c.signs}
      <4>1. token[l].left # 0
        BY <2>2
      <4>. QED
        BY <1>2, <2>2, <4>1
    <3>. QED
      BY <1>4, <3>1, <3>2
  <2>3. InLogin(l)' <=> InLogin(l)
    BY <1>1 DEF InLogin
  <2>. QED
    BY <1>1, <2>1, <2>2, <2>3
<1>. QED
  BY <1>5, <1>6 DEF KeysInv

LEMMA LoginStepKeepsKeys ==
    ASSUME KeysInv, LdapLoginTypeOK', NEW l \in LdapLogins,
           \/ \E r \in Replicas, n \in Names, w \in Passwords :
                 BeginLdapLogin(l, r, n, w)
           \/ Search(l) \/ Bind(l) \/ ResolveAndIssue(l) \/ Unavailable(l)
    PROVE  KeysInv'
<1>1. /\ LdapLoginTypeOK /\ login \in [LdapLogins -> Login] /\ login[l] \in Login
      /\ token \in [LdapLogins -> Token \cup {NoToken}]
      /\ UNCHANGED config
  BY DEF KeysInv, LdapLoginTypeOK, BeginLdapLogin, Search, Bind,
     ResolveAndIssue, Unavailable
<1>2. ASSUME NEW x \in LdapLogins \ {l}
      PROVE  login'[x] = login[x] /\ token'[x] = token[x]
  <2>1. \/ UNCHANGED token
        \/ \E t : token' = [token EXCEPT ![l] = t]
    BY DEF BeginLdapLogin, Search, Bind, ResolveAndIssue, Unavailable
  <2>2. login'[x] = login[x]
    <3>1. CASE \E r \in Replicas, n \in Names, w \in Passwords :
                  BeginLdapLogin(l, r, n, w)
      BY <1>1, <3>1 DEF BeginLdapLogin
    <3>2. CASE Search(l)
      BY <1>1, <3>2 DEF Search, Answer
    <3>3. CASE Bind(l) \/ ResolveAndIssue(l) \/ Unavailable(l)
      BY <1>1, <3>3 DEF Bind, ResolveAndIssue, Unavailable, Answer
    <3>. QED
      BY <3>1, <3>2, <3>3
  <2>. QED
    BY <1>1, <2>1, <2>2
<1>3. \/ login'[l].kid = login[l].kid /\ InLogin(l)
      \/ \E r \in Replicas : login'[l].kid = config[r].signs
  <2>1. CASE \E r \in Replicas, n \in Names, w \in Passwords :
                BeginLdapLogin(l, r, n, w)
    BY <1>1, <2>1 DEF BeginLdapLogin
  <2>2. ASSUME NEW at, Answer(l, at) PROVE login'[l].kid = login[l].kid
    <3>1. login'[l] = [login[l] EXCEPT !.at = at]
      BY <1>1, <2>2 DEF Answer
    <3>. QED
      BY <1>1, <3>1 DEF Login
  <2>3. CASE Search(l)
    <3>1. ASSUME NEW d \in DNs,
                 login' = [login EXCEPT ![l].at = "bind", ![l].dn = d,
                                        ![l].sub = directory[d].name]
          PROVE  login'[l].kid = login[l].kid
      <4>1. login'[l] = [login[l] EXCEPT !.at = "bind", !.dn = d,
                                         !.sub = directory[d].name]
        BY <1>1, <3>1
      <4>. QED
        BY <1>1, <4>1 DEF Login
    <3>. QED
      BY <2>2, <2>3, <3>1 DEF Search, InLogin
  <2>4. CASE Bind(l) \/ ResolveAndIssue(l) \/ Unavailable(l)
    <3>1. \E at : Answer(l, at)
      BY <2>4 DEF Bind, ResolveAndIssue, Unavailable
    <3>2. InLogin(l)
      BY <2>4 DEF Bind, ResolveAndIssue, Unavailable, InLogin
    <3>. QED
      BY <2>2, <3>1, <3>2
  <2>. QED
    BY <2>1, <2>3, <2>4
<1>4. \/ token'[l] = token[l]
      \/ InLogin(l) /\ token'[l].kid = login[l].kid
  <2>1. CASE ResolveAndIssue(l)
    BY <1>1, <2>1 DEF ResolveAndIssue, InLogin
  <2>2. CASE ~ResolveAndIssue(l)
    BY <2>2 DEF BeginLdapLogin, Search, Bind, Unavailable
  <2>. QED
    BY <2>1, <2>2
<1>5. ASSUME NEW x \in LdapLogins
      PROVE  /\ InLogin(x)' =>
                   \/ InLogin(x) /\ login'[x].kid = login[x].kid
                   \/ \E r \in Replicas : login'[x].kid = config[r].signs
             /\ token'[x] # NoToken /\ token'[x].left > 0 =>
                   \/ InLogin(x) /\ token'[x].kid = login[x].kid
                   \/ /\ token[x] # NoToken /\ token[x].left > 0
                      /\ token'[x].kid = token[x].kid
  <2>1. CASE x = l
    BY <1>3, <1>4, <2>1
  <2>2. CASE x # l
    BY <1>2, <2>2 DEF InLogin
  <2>. QED
    BY <2>1, <2>2
<1>. QED
  BY <1>1, <1>5, LoginsKeepKeys

LEMMA KeysInvariance == LdapLoginSpec => []KeysInv
<1>1. LdapLoginInit /\ TruthInv => KeysInv
  <2> SUFFICES ASSUME LdapLoginInit, TruthInv PROVE KeysInv
    OBVIOUS
  <2>1. PICK k \in Keys : config = [r \in Replicas |-> [signs |-> k, trusts |-> {}]]
    BY DEF LdapLoginInit
  <2>2. AllVerify(config, k) /\ \A r \in Replicas : config[r].signs = k
    BY <2>1 DEF AllVerify, VerifiesWith
  <2>3. \A l \in LdapLogins : ~InLogin(l) /\ token[l] = NoToken
    BY DEF LdapLoginInit, InLogin
  <2>. QED
    BY <2>2, <2>3 DEF KeysInv, TruthInv
<1>2. KeysInv /\ TruthInv' /\ [LdapLoginNext]_ldapVars => KeysInv'
  <2> SUFFICES ASSUME KeysInv, LdapLoginTypeOK', [LdapLoginNext]_ldapVars
               PROVE  KeysInv'
    BY DEF TruthInv
  <2>1. CASE UNCHANGED ldapVars \/ \E d \in DNs, e \in User \cup {NoUser} :
                                      ChangeUser(d, e)
    <3>1. UNCHANGED <<login, token, config>>
      BY <2>1 DEF ldapVars, ChangeUser
    <3>. QED
      BY <3>1, LoginsKeepKeys DEF InLogin
  <2>2. CASE LdapTokensAge
    <3>1. /\ UNCHANGED <<login, config>>
          /\ \A l \in LdapLogins : /\ token[l] \in Token \cup {NoToken}
                                   /\ token'[l] = Older(token[l])
      BY <2>2 DEF LdapTokensAge, KeysInv, LdapLoginTypeOK
    <3>2. ASSUME NEW l \in LdapLogins, token'[l] # NoToken, token'[l].left > 0
          PROVE  /\ token[l] # NoToken /\ token[l].left > 0
                 /\ token'[l].kid = token[l].kid
      BY <3>1, <3>2, OlderEffect
    <3>. QED
      BY <3>1, <3>2, LoginsKeepKeys DEF InLogin
  <2>. QED
    BY <2>1, <2>2, RotationKeepsKeys, LoginStepKeepsKeys DEF LdapLoginNext
<1>. QED
  BY <1>1, <1>2, TruthInvariance, PTL DEF LdapLoginSpec

\* While operators rotate the keys as README.md says, whatever logins are
\* under way: every replica accepts every token until it expires.
THEOREM RotationKeepsTokens == LdapLoginSpec => []TokensSurviveRotation
<1>1. KeysInv => TokensSurviveRotation
  BY DEF KeysInv, AllVerify, TokensSurviveRotation, Accepts, VerifiesWith
<1>. QED
  BY <1>1, KeysInvariance, PTL

-----------------------------------------------------------------------------
(* CliConfig.  What holds of the file holds of every copy of it that a     *)
(* command may still save.                                                 *)

\* The refresh tokens that may be found: those the provider accepts, and those
\* a command has, or may have, spent that is not done or was not alone.
Acceptable ==
    {0} \cup redeemable
        \cup {command[p].spends :
                p \in {q \in Commands : command[q].at # "done" \/ q \in together}}

\* An entry of context c.
EntryOK(e, c, prs, good) ==
    /\ e.refresh \in good
    /\ \A n \in {e.token, e.refresh} \ {0} : n \in 1..Len(prs) /\ prs[n] = c

FileOK(cf, prs, good) ==
    /\ cf \in Config
    /\ cf.current # NoContext => cf.contexts[cf.current] # NoContext
    /\ \A c \in Contexts : cf.contexts[c] # NoContext =>
                               EntryOK(cf.contexts[c], c, prs, good)

\* A command that saves a refreshed pair does not save the one it has spent.
CommandOK(r, prs, good) ==
    /\ FileOK(r.copy, prs, good)
    /\ r.at = "idle" => r.spends = 0
    /\ r.at \notin {"ask", "save"} => r.copy = EmptyConfig
    /\ r.at \in {"ask", "save"} =>
          /\ r.context \in Contexts
          /\ r.spends # 0 => r.spends \in 1..Len(prs) /\ prs[r.spends] = r.context
    /\ r.at = "save" /\ r.copy.contexts[r.context] # NoContext =>
          r.spends = 0 \/ r.copy.contexts[r.context].refresh # r.spends

RunTogether ==
    \A p, q \in Commands :
        p # q /\ Running(p) /\ Running(q) => p \in together /\ q \in together

CliInv ==
    /\ CliConfigTypeOK
    /\ FileOK(cfgFile, pairs, Acceptable)
    /\ \A p \in Commands : CommandOK(command[p], pairs, Acceptable)
    /\ RunTogether

LEMMA EntryIsThere == ASSUME NEW e \in Entry PROVE e # NoContext
<1>1. Entry \subseteq [mode: {"openshift", "ldap"}, token: Nat, refresh: Nat]
  BY CliConfigAssumption DEF Entry, Modes, Numbers
<1>. QED
  BY <1>1, CliConfigAssumption

LEMMA EmptyConfigOK ==
    ASSUME NEW prs, NEW good PROVE FileOK(EmptyConfig, prs, good)
BY CliConfigAssumption DEF FileOK, EmptyConfig, Config

\* More pairs, and more that may be found.
LEMMA FileStaysOK ==
    ASSUME NEW prs \in Seq(Contexts), NEW prs2 \in Seq(Contexts),
           NEW good, NEW good2, good \subseteq good2,
           Len(prs) <= Len(prs2), \A n \in 1..Len(prs) : prs2[n] = prs[n]
    PROVE  /\ \A cf : FileOK(cf, prs, good) => FileOK(cf, prs2, good2)
           /\ \A r : CommandOK(r, prs, good) => CommandOK(r, prs2, good2)
<1>1. \A n \in 1..Len(prs) : n \in 1..Len(prs2)
  OBVIOUS
<1>2. ASSUME NEW e, NEW c, EntryOK(e, c, prs, good) PROVE EntryOK(e, c, prs2, good2)
  BY <1>1, <1>2 DEF EntryOK
<1>3. ASSUME NEW cf, FileOK(cf, prs, good) PROVE FileOK(cf, prs2, good2)
  BY <1>2, <1>3 DEF FileOK
<1>4. ASSUME NEW r, CommandOK(r, prs, good) PROVE CommandOK(r, prs2, good2)
  BY <1>1, <1>3, <1>4 DEF CommandOK
<1>. QED
  BY <1>3, <1>4

\* UpsertContext, with or without a change of the current context.
LEMMA UpsertKeepsFile ==
    ASSUME NEW prs, NEW good, NEW cf, FileOK(cf, prs, good), NEW c \in Contexts,
           NEW e \in Entry, EntryOK(e, c, prs, good)
    PROVE  /\ FileOK(Upserted(cf, c, e), prs, good)
           /\ FileOK([Upserted(cf, c, e) EXCEPT !.current = c], prs, good)
           /\ Upserted(cf, c, e).contexts[c] = e
           /\ [Upserted(cf, c, e) EXCEPT !.current = c].contexts[c] = e
<1> DEFINE f == [cf.contexts EXCEPT ![c] = e]
           u == [current |-> cf.current, contexts |-> f]
           v == [current |-> c, contexts |-> f]
<1>1. /\ cf \in Config /\ cf.current \in Contexts \cup {NoContext}
      /\ cf.contexts \in [Contexts -> Entry \cup {NoContext}]
  BY DEF FileOK, Config
<1>2. Upserted(cf, c, e) = u /\ [Upserted(cf, c, e) EXCEPT !.current = c] = v
  <2>1. Upserted(cf, c, e) = [cf EXCEPT !.contexts = f]
    BY DEF Upserted
  <2> HIDE DEF f
  <2>2. cf = [current |-> cf.current, contexts |-> cf.contexts]
    BY <1>1 DEF Config
  <2>3. [cf EXCEPT !.contexts = f] = u
    BY <2>2
  <2>4. [u EXCEPT !.current = c] = v
    OBVIOUS
  <2>. QED
    BY <2>1, <2>3, <2>4
<1>3. /\ f \in [Contexts -> Entry \cup {NoContext}] /\ f[c] = e
      /\ \A d \in Contexts \ {c} : f[d] = cf.contexts[d]
  BY <1>1
<1>4. e # NoContext
  BY EntryIsThere
<1> HIDE DEF f
<1>5. u \in Config /\ v \in Config
  BY <1>1, <1>3 DEF Config
<1>6. \A d \in Contexts : f[d] # NoContext => EntryOK(f[d], d, prs, good)
  BY <1>3 DEF FileOK
<1>7. /\ cf.current # NoContext => f[cf.current] # NoContext
      /\ f[c] # NoContext
  BY <1>1, <1>3, <1>4 DEF FileOK
<1>. QED
  BY <1>2, <1>3, <1>5, <1>6, <1>7 DEF FileOK

\* Command p makes a step that leaves the file alone.
LEMMA OneCommandMoves ==
    ASSUME CliInv, NEW p \in Commands, NEW r \in Command,
           command' = [command EXCEPT ![p] = r], UNCHANGED <<cfgFile, aged>>,
           pairs' \in Seq(Contexts), Len(pairs') <= MaxIssued,
           Len(pairs) <= Len(pairs'),
           \A n \in 1..Len(pairs) : pairs'[n] = pairs[n],
           redeemable' \subseteq 1..Len(pairs'),
           together \subseteq together', together' \subseteq Commands,
           redeemable \subseteq {command[p].spends} \cup redeemable',
           \/ r.spends = command[p].spends /\ r.at # "done"
           \/ command[p].spends = 0,
           CommandOK(r, pairs', Acceptable'),
           r.at \in {"ask", "save"} =>
              \/ Running(p)
              \/ \A q \in Commands \ {p} : Running(q) =>
                    p \in together' /\ q \in together'
    PROVE  CliInv'
<1>1. /\ command \in [Commands -> Command] /\ pairs \in Seq(Contexts)
      /\ CliConfigTypeOK
  BY DEF CliInv, CliConfigTypeOK
<1>2. /\ command' \in [Commands -> Command] /\ command'[p] = r
      /\ \A q \in Commands \ {p} : command'[q] = command[q]
  BY <1>1
<1>3. Acceptable \subseteq Acceptable'
  <2> SUFFICES ASSUME NEW n \in Acceptable PROVE n \in Acceptable'
    OBVIOUS
  <2>1. command[p].spends \in Acceptable'
    <3>1. CASE command[p].spends = 0
      BY <3>1 DEF Acceptable
    <3>2. CASE r.spends = command[p].spends /\ r.at # "done"
      BY <1>2, <3>2 DEF Acceptable
    <3>. QED
      BY <3>1, <3>2
  <2>2. CASE n \in redeemable
    BY <2>1, <2>2 DEF Acceptable
  <2>3. ASSUME NEW q \in Commands, command[q].at # "done" \/ q \in together,
               n = command[q].spends
        PROVE  n \in Acceptable'
    <3>1. CASE q = p
      BY <2>1, <2>3, <3>1
    <3>2. CASE q # p
      BY <1>2, <2>3, <3>2 DEF Acceptable
    <3>. QED
      BY <3>1, <3>2
  <2>. QED
    BY <2>2, <2>3 DEF Acceptable
<1>4. CliConfigTypeOK'
  <2>1. Len(pairs) \in Nat /\ Len(pairs') \in Nat
    BY <1>1
  <2>2. aged' \subseteq 1..Len(pairs')
    BY <1>1, <2>1 DEF CliConfigTypeOK, Issued
  <2>. QED
    BY <1>1, <1>2, <2>2 DEF CliConfigTypeOK, Issued
<1>5. FileOK(cfgFile', pairs', Acceptable')
  BY <1>1, <1>3, FileStaysOK DEF CliInv
<1>6. \A q \in Commands : CommandOK(command'[q], pairs', Acceptable')
  <2>1. \A q \in Commands \ {p} : CommandOK(command[q], pairs', Acceptable')
    BY <1>1, <1>3, FileStaysOK DEF CliInv
  <2>. QED
    BY <1>2, <2>1
<1>7. RunTogether'
  BY <1>1, <1>2 DEF CliInv, RunTogether, Running
<1>. QED
  BY <1>4, <1>5, <1>6, <1>7 DEF CliInv

\* What is left of a command that has ended.
LEMMA RestOK ==
    ASSUME NEW at \in {"idle", "done", "unsaved", "failed"},
           NEW n \in {0} \cup Numbers, at = "idle" => n = 0
    PROVE  /\ Rest(at, n) \in Command
           /\ Rest(at, n).at = at /\ Rest(at, n).spends = n
           /\ \A prs, good : CommandOK(Rest(at, n), prs, good)
<1>1. EmptyConfig \in Config
  BY EmptyConfigOK DEF FileOK
<1>2. Rest(at, n) \in Command
  BY <1>1 DEF Rest, Command
<1>. QED
  BY <1>2, EmptyConfigOK DEF Rest, CommandOK

\* A command begins; pairs may have grown by the token it imports.
LEMMA BeginKeeps ==
    ASSUME CliInv, NEW p \in Commands,
           NEW kind \in Logins \cup {"logout", "use", "call"}, NEW c \in Contexts,
           NEW at \in {"ask", "save", "done", "failed"}, NEW copy,
           NEW spends \in {0} \cup Numbers,
           Begin(p, kind, c, at, copy, spends),
           \/ UNCHANGED pairs
           \/ Len(pairs) < MaxIssued /\ pairs' = Append(pairs, c),
           at \in {"ask", "save"} =>
              /\ FileOK(copy, pairs', Acceptable)
              /\ spends # 0 => spends \in 1..Len(pairs') /\ pairs'[spends] = c,
           at = "save" => spends = 0
    PROVE  CliInv'
<1> DEFINE r == IF at \in {"ask", "save"}
                THEN [kind |-> kind, context |-> c, at |-> at, copy |-> copy,
                      spends |-> spends]
                ELSE Rest(at, 0)
           others == {q \in Commands \ {p} : Running(q)}
<1>1. /\ command \in [Commands -> Command] /\ pairs \in Seq(Contexts)
      /\ Len(pairs) \in Nat /\ Len(pairs) <= MaxIssued
      /\ redeemable \subseteq 1..Len(pairs) /\ together \subseteq Commands
      /\ MaxIssued \in Nat
  BY CliConfigAssumption DEF CliInv, CliConfigTypeOK, Issued
<1>2. command[p].at = "idle" /\ command[p].spends = 0
  BY DEF CliInv, CommandOK, Begin
<1>3. command' = [command EXCEPT ![p] = r] /\ UNCHANGED <<cfgFile, aged, redeemable>>
  BY DEF Begin
<1>4. /\ pairs' \in Seq(Contexts) /\ Len(pairs') <= MaxIssued
      /\ Len(pairs) <= Len(pairs') /\ Len(pairs') \in Nat
      /\ \A n \in 1..Len(pairs) : pairs'[n] = pairs[n]
  <2>1. CASE UNCHANGED pairs
    BY <1>1, <2>1
  <2>2. CASE Len(pairs) < MaxIssued /\ pairs' = Append(pairs, c)
    BY <1>1, <2>2
  <2>. QED
    BY <2>1, <2>2
<1>5. /\ together \subseteq together' /\ together' \subseteq Commands
      /\ \A q \in Commands \ {p} : Running(q) => p \in together' /\ q \in together'
  BY <1>1 DEF Begin
<1>6. Acceptable \subseteq Acceptable'
  <2> SUFFICES ASSUME NEW n \in Acceptable PROVE n \in Acceptable'
    OBVIOUS
  <2>1. CASE n \in redeemable \cup {0}
    BY <1>3, <2>1 DEF Acceptable
  <2>2. ASSUME NEW q \in Commands, command[q].at # "done" \/ q \in together,
               n = command[q].spends
        PROVE  n \in Acceptable'
    <3>1. CASE q = p
      BY <1>2, <2>2, <3>1 DEF Acceptable
    <3>2. CASE q # p
      <4>1. command'[q] = command[q]
        BY <1>1, <1>3, <3>2
      <4>. QED
        BY <1>5, <2>2, <4>1 DEF Acceptable
    <3>. QED
      BY <3>1, <3>2
  <2>. QED
    BY <2>1, <2>2 DEF Acceptable
<1>7. r \in Command /\ CommandOK(r, pairs', Acceptable')
  <2>1. CASE at \in {"ask", "save"}
    <3>1. FileOK(copy, pairs', Acceptable')
      BY <1>4, <1>6, <2>1, FileStaysOK
    <3>2. copy \in Config
      BY <3>1 DEF FileOK
    <3>. QED
      BY <2>1, <3>1, <3>2 DEF CommandOK, Command
  <2>2. CASE at \notin {"ask", "save"}
    BY <2>2, RestOK
  <2>. QED
    BY <2>1, <2>2
<1>8. redeemable' \subseteq 1..Len(pairs')
  BY <1>1, <1>3, <1>4
<1> HIDE DEF r
<1>. QED
  BY <1>2, <1>3, <1>4, <1>5, <1>7, <1>8, OneCommandMoves

LEMMA BeginsKeep ==
    ASSUME CliInv, NEW p \in Commands, NEW c \in Contexts,
           \/ \E kind \in Logins : BeginLogin(p, kind, c)
           \/ BeginImport(p, c) \/ BeginLogout(p, c)
           \/ BeginUse(p, c) \/ BeginCall(p, c)
    PROVE  CliInv'
<1>1. /\ FileOK(cfgFile, pairs, Acceptable) /\ pairs \in Seq(Contexts)
      /\ Len(pairs) \in Nat /\ cfgFile \in Config
      /\ cfgFile.contexts \in [Contexts -> Entry \cup {NoContext}]
      /\ MaxIssued \in Nat
  BY CliConfigAssumption DEF CliInv, CliConfigTypeOK, Config
<1>2. 0 \in {0} \cup Numbers
  OBVIOUS
<1>3. ASSUME NEW kind \in Logins \cup {"logout", "use", "call"}, UNCHANGED pairs,
             NEW at \in {"done", "failed"}, Begin(p, kind, c, at, EmptyConfig, 0)
      PROVE  CliInv'
  BY <1>2, <1>3, BeginKeeps
<1>4. ASSUME NEW kind \in Logins, BeginLogin(p, kind, c) PROVE CliInv'
  <2>1. CASE UNCHANGED pairs /\ Begin(p, kind, c, "ask", cfgFile, 0)
    BY <1>1, <1>2, <2>1, BeginKeeps
  <2>. QED
    BY <1>3, <1>4, <2>1 DEF BeginLogin
<1>5. CASE BeginImport(p, c)
  <2> DEFINE n == Len(pairs) + 1
  <2>1. PICK e \in EntriesFor(n, "import") :
           Begin(p, "import", c, "save",
                 [Upserted(cfgFile, c, e) EXCEPT !.current = c], 0)
    BY <1>5 DEF BeginImport
  <2>2. Len(pairs) < MaxIssued /\ pairs' = Append(pairs, c)
    BY <1>5 DEF BeginImport
  <2>3. /\ n \in 1..Len(pairs') /\ pairs'[n] = c /\ n \in Numbers
        /\ pairs' \in Seq(Contexts) /\ Len(pairs) <= Len(pairs')
        /\ \A i \in 1..Len(pairs) : pairs'[i] = pairs[i]
    BY <1>1, <2>2 DEF Numbers
  <2>4. e \in Entry /\ e.token = n /\ e.refresh = 0
    BY <2>1, <2>3 DEF EntriesFor, Entry, Modes
  <2>5. EntryOK(e, c, pairs', Acceptable)
    BY <2>3, <2>4 DEF EntryOK, Acceptable
  <2>6. FileOK(cfgFile, pairs', Acceptable)
    BY <1>1, <2>3, FileStaysOK
  <2>7. FileOK([Upserted(cfgFile, c, e) EXCEPT !.current = c], pairs', Acceptable)
    BY <2>4, <2>5, <2>6, UpsertKeepsFile
  <2>8. "import" \in Logins
    BY DEF Logins
  <2>. QED
    BY <1>2, <2>1, <2>2, <2>7, <2>8, BeginKeeps
<1>6. CASE BeginLogout(p, c)
  <2> DEFINE e == cfgFile.contexts[c]
             out == LoggedOut(e)
  <2>1. CASE e # NoContext /\ Begin(p, "logout", c, "save",
                                    Upserted(cfgFile, c, out), 0)
    <3>1. e \in Entry
      BY <1>1, <2>1
    <3>2. out \in Entry /\ out.token = 0 /\ out.refresh = 0
      BY <3>1 DEF LoggedOut, Entry
    <3> HIDE DEF out
    <3>3. EntryOK(out, c, pairs, Acceptable)
      BY <3>2 DEF EntryOK, Acceptable
    <3>4. FileOK(Upserted(cfgFile, c, out), pairs, Acceptable)
      BY <1>1, <3>2, <3>3, UpsertKeepsFile
    <3>5. UNCHANGED pairs
      BY <1>6 DEF BeginLogout
    <3>. QED
      BY <1>2, <2>1, <3>4, <3>5, BeginKeeps
  <2>. QED
    BY <1>3, <1>6, <2>1 DEF BeginLogout
<1>7. CASE BeginUse(p, c)
  <2> DEFINE copy == [cfgFile EXCEPT !.current = c]
  <2>1. CASE cfgFile.contexts[c] # NoContext /\ Begin(p, "use", c, "save", copy, 0)
    <3>1. /\ copy \in Config /\ copy.current = c
          /\ copy.contexts = cfgFile.contexts
      BY <1>1 DEF Config
    <3> HIDE DEF copy
    <3>2. FileOK(copy, pairs, Acceptable)
      BY <1>1, <2>1, <3>1 DEF FileOK
    <3>3. UNCHANGED pairs
      BY <1>7 DEF BeginUse
    <3>. QED
      BY <1>2, <2>1, <3>2, <3>3, BeginKeeps
  <2>. QED
    BY <1>3, <1>7, <2>1 DEF BeginUse
<1>8. CASE BeginCall(p, c)
  <2> DEFINE e == cfgFile.contexts[c]
  <2>1. UNCHANGED pairs
    BY <1>8 DEF BeginCall
  <2>2. CASE e # NoContext /\ Begin(p, "call", c, "ask", cfgFile, e.refresh)
    <3>1. e \in Entry /\ EntryOK(e, c, pairs, Acceptable)
      BY <1>1, <2>2 DEF FileOK
    <3>2. /\ e.refresh \in {0} \cup Numbers
          /\ e.refresh # 0 => e.refresh \in 1..Len(pairs) /\ pairs[e.refresh] = c
      BY <3>1 DEF Entry, EntryOK
    <3>. QED
      BY <1>1, <2>1, <2>2, <3>2, BeginKeeps
  <2>. QED
    BY <1>3, <1>8, <2>1, <2>2 DEF BeginCall
<1>. QED
  BY <1>4, <1>5, <1>6, <1>7, <1>8

LEMMA EndsKeep ==
    ASSUME CliInv, NEW p \in Commands, Running(p), End(p, "failed") \/ End(p, "unsaved"),
           UNCHANGED <<cfgFile, pairs, aged, redeemable, together>>
    PROVE  CliInv'
<1>1. /\ command \in [Commands -> Command] /\ command[p] \in Command
      /\ command[p].spends \in {0} \cup Numbers
      /\ pairs \in Seq(Contexts) /\ Len(pairs) <= MaxIssued /\ Len(pairs) \in Nat
      /\ redeemable \subseteq 1..Len(pairs) /\ together \subseteq Commands
  BY DEF CliInv, CliConfigTypeOK, Command, Issued
<1>2. PICK at \in {"failed", "unsaved"} :
         command' = [command EXCEPT ![p] = Rest(at, command[p].spends)]
  BY <1>1 DEF End
<1> DEFINE r == Rest(at, command[p].spends)
<1>3. at \in {"idle", "done", "unsaved", "failed"} /\ at # "idle" /\ at # "done"
  BY <1>2
<1>4. /\ r \in Command /\ r.at = at /\ r.spends = command[p].spends
      /\ CommandOK(r, pairs', Acceptable')
  <2>1. at = "idle" => command[p].spends = 0
    BY <1>3
  <2> DEFINE m == command[p].spends
  <2>2. m \in {0} \cup Numbers /\ (at = "idle" => m = 0)
    BY <1>1, <2>1
  <2> HIDE DEF m
  <2>3. /\ Rest(at, m) \in Command /\ Rest(at, m).at = at /\ Rest(at, m).spends = m
        /\ \A prs, good : CommandOK(Rest(at, m), prs, good)
    BY <1>3, <2>2, RestOK
  <2>. QED
    BY <2>3 DEF m
<1>5. command' = [command EXCEPT ![p] = r]
  BY <1>2
<1>6. r.at \notin {"ask", "save", "done"}
  BY <1>2, <1>4
<1> HIDE DEF r
<1>7. /\ redeemable' \subseteq 1..Len(pairs') /\ Len(pairs) <= Len(pairs')
      /\ \A n \in 1..Len(pairs) : pairs'[n] = pairs[n]
      /\ pairs' \in Seq(Contexts) /\ Len(pairs') <= MaxIssued
      /\ together \subseteq together' /\ together' \subseteq Commands
      /\ redeemable \subseteq {command[p].spends} \cup redeemable'
  BY <1>1
<1>. QED
  BY <1>4, <1>5, <1>6, <1>7, OneCommandMoves

\* A login or a refresh is granted: the pair is new, and the one that was spent
\* is known as such.
LEMMA GrantKeeps == ASSUME CliInv, NEW p \in Commands, Grant(p) PROVE CliInv'
<1> DEFINE n == Len(pairs) + 1
           c == command[p].context
           old == command[p].spends
<1>1. /\ command \in [Commands -> Command] /\ command[p] \in Command
      /\ old \in {0} \cup Numbers /\ command[p].at = "ask"
      /\ command[p].kind \in Logins \cup {"logout", "use", "call", "none"}
      /\ pairs \in Seq(Contexts) /\ Len(pairs) < MaxIssued /\ Len(pairs) \in Nat
      /\ redeemable \subseteq 1..Len(pairs) /\ together \subseteq Commands
      /\ MaxIssued \in Nat /\ UNCHANGED <<cfgFile, aged, together>>
  BY CliConfigAssumption DEF CliInv, CliConfigTypeOK, Command, Issued, Grant
<1>2. /\ FileOK(command[p].copy, pairs, Acceptable) /\ c \in Contexts
      /\ old # 0 => old \in 1..Len(pairs) /\ pairs[old] = c
  BY <1>1 DEF CliInv, CommandOK
<1>3. PICK e \in EntriesFor(n, command[p].kind), spent \in {{}, {old}} :
         /\ redeemable' = (redeemable \ spent) \cup ({e.refresh} \ {0})
         /\ \/ LET copy == Upserted(command[p].copy, c, NewEntry(p, e))
               IN  command' = [command EXCEPT
                       ![p].at = "save",
                       ![p].copy = IF command[p].kind = "call" THEN copy
                                   ELSE [copy EXCEPT !.current = c]]
            \/ End(p, "failed")
  BY DEF Grant
<1>4. /\ pairs' = Append(pairs, c) /\ pairs' \in Seq(Contexts)
      /\ Len(pairs') = n /\ Len(pairs) <= n /\ n <= MaxIssued /\ pairs'[n] = c
      /\ \A i \in 1..Len(pairs) : pairs'[i] = pairs[i]
      /\ n \in Numbers /\ n \in 1..Len(pairs') /\ old # n
  BY <1>1, <1>2 DEF Grant, Numbers
<1>5. e \in Entry /\ e.token = n /\ e.refresh \in {0, n}
  BY <1>3, <1>4 DEF EntriesFor, Entry, Modes
<1>6. /\ redeemable' \subseteq 1..Len(pairs')
      /\ redeemable \subseteq {old} \cup redeemable'
      /\ e.refresh \in {0} \cup redeemable'
  BY <1>1, <1>3, <1>4, <1>5
<1>7. CASE End(p, "failed")
  <2> DEFINE r == Rest("failed", old)
  <2>1. /\ r \in Command /\ r.at = "failed" /\ r.spends = old
        /\ CommandOK(r, pairs', Acceptable')
    BY <1>1, RestOK
  <2>2. command' = [command EXCEPT ![p] = r]
    BY <1>1, <1>7 DEF End
  <2> HIDE DEF r
  <2>3. r.at \notin {"ask", "save", "done"}
    BY <2>1
  <2>4. Len(pairs) <= Len(pairs') /\ Len(pairs') <= MaxIssued
    BY <1>4
  <2>5. together \subseteq together' /\ together' \subseteq Commands
    BY <1>1
  <2> HIDE DEF n
  <2>. QED
    BY <1>1, <1>4, <1>6, <2>1, <2>2, <2>3, <2>4, <2>5, OneCommandMoves
<1>8. CASE ~End(p, "failed")
  <2> DEFINE up == Upserted(command[p].copy, c, e)
             copy == IF command[p].kind = "call" THEN up
                     ELSE [up EXCEPT !.current = c]
             r == [command[p] EXCEPT !.at = "save", !.copy = copy]
  <2>1. command' = [command EXCEPT ![p] = r]
    BY <1>1, <1>3, <1>8 DEF NewEntry
  <2>2. Acceptable \subseteq Acceptable'
    <3>1. command'[p].spends = old /\ command'[p].at = "save"
      BY <1>1, <2>1 DEF Command
    <3>2. \A q \in Commands \ {p} : command'[q] = command[q]
      BY <1>1, <2>1
    <3>3. old \in Acceptable'
      BY <3>1 DEF Acceptable
    <3>4. ASSUME NEW q \in Commands, command[q].at # "done" \/ q \in together
          PROVE  command[q].spends \in Acceptable'
      <4>1. CASE q = p
        BY <3>3, <4>1
      <4>2. CASE q # p
        BY <1>1, <3>2, <3>4, <4>2 DEF Acceptable
      <4>. QED
        BY <4>1, <4>2
    <3>5. {0} \cup redeemable \subseteq Acceptable'
      BY <1>6, <3>3 DEF Acceptable
    <3>. QED
      BY <3>4, <3>5 DEF Acceptable
  <2>3. FileOK(command[p].copy, pairs', Acceptable')
    <3>1. Len(pairs) <= Len(pairs')
      BY <1>4
    <3>. QED
      BY <1>1, <1>2, <1>4, <2>2, <3>1, FileStaysOK
  <2>4. EntryOK(e, c, pairs', Acceptable')
    BY <1>4, <1>5, <1>6 DEF EntryOK, Acceptable
  <2>5. FileOK(copy, pairs', Acceptable') /\ copy.contexts[c] = e
    BY <1>2, <1>5, <2>3, <2>4, UpsertKeepsFile
  <2>6. copy \in Config
    BY <2>5 DEF FileOK
  <2> HIDE DEF copy, up
  <2>7. /\ r \in Command /\ r.at = "save" /\ r.copy = copy /\ r.context = c
        /\ r.spends = old
    BY <1>1, <2>6 DEF Command
  <2> HIDE DEF r
  <2>8. old # 0 => old \in 1..Len(pairs') /\ pairs'[old] = c
    BY <1>1, <1>2, <1>4
  <2>9. old = 0 \/ e.refresh # old
    BY <1>4, <1>5
  <2>10. CommandOK(r, pairs', Acceptable')
    BY <1>2, <2>5, <2>7, <2>8, <2>9 DEF CommandOK
  <2>11. Running(p)
    BY <1>1 DEF Running
  <2>12. Len(pairs) <= Len(pairs') /\ Len(pairs') <= MaxIssued
    BY <1>4
  <2>13. together \subseteq together' /\ together' \subseteq Commands
    BY <1>1
  <2>14. r.at # "done"
    BY <2>7
  <2> HIDE DEF n
  <2>. QED
    BY <1>1, <1>4, <1>6, <2>1, <2>7, <2>10, <2>11, <2>12, <2>13, <2>14,
       OneCommandMoves
<1>. QED
  BY <1>7, <1>8

\* The copy that becomes the file has no token that its command has spent; and
\* a copy that has it is one of a command that runs beside it.
LEMMA SaveKeeps == ASSUME CliInv, NEW p \in Commands, Save(p) PROVE CliInv'
<1>1. /\ command \in [Commands -> Command] /\ command[p] \in Command
      /\ command[p].at = "save" /\ command[p].spends \in {0} \cup Numbers
      /\ UNCHANGED <<pairs, aged, redeemable, together>>
  BY DEF CliInv, CliConfigTypeOK, Command, Save
<1>2. CASE UNCHANGED cfgFile /\ (End(p, "failed") \/ End(p, "unsaved"))
  BY <1>1, <1>2, EndsKeep DEF Running
<1>3. CASE cfgFile' = command[p].copy /\ End(p, "done")
  <2> DEFINE n == command[p].spends
             r == Rest("done", n)
  <2>1. /\ r \in Command /\ r.at = "done" /\ r.spends = n
        /\ CommandOK(r, pairs', Acceptable')
    BY <1>1, RestOK
  <2>2. command' = [command EXCEPT ![p] = r]
    BY <1>1, <1>3 DEF End
  <2> HIDE DEF r
  <2>3. /\ command' \in [Commands -> Command] /\ command'[p] = r
        /\ \A q \in Commands \ {p} : command'[q] = command[q]
    BY <1>1, <2>1, <2>2
  <2>4. /\ Acceptable \ {n} \subseteq Acceptable' /\ 0 \in Acceptable'
        /\ p \in together => Acceptable \subseteq Acceptable'
    BY <1>1, <2>1, <2>3 DEF Acceptable
  <2>5. FileOK(cfgFile', pairs', Acceptable')
    <3> DEFINE cf == command[p].copy
    <3>1. /\ FileOK(cf, pairs, Acceptable) /\ CommandOK(command[p], pairs, Acceptable)
          /\ command[p].context \in Contexts
          /\ n # 0 => n \in 1..Len(pairs) /\ pairs[n] = command[p].context
      BY <1>1 DEF CliInv, CommandOK
    <3>2. ASSUME NEW c \in Contexts, cf.contexts[c] # NoContext
          PROVE  EntryOK(cf.contexts[c], c, pairs', Acceptable')
      <4>1. EntryOK(cf.contexts[c], c, pairs, Acceptable)
        BY <3>1, <3>2 DEF FileOK
      <4>2. cf.contexts[c].refresh # n \/ n = 0
        <5>1. CASE c = command[p].context
          BY <1>1, <3>1, <3>2, <5>1 DEF CommandOK
        <5>2. CASE c # command[p].context
          BY <3>1, <4>1, <5>2 DEF EntryOK
        <5>. QED
          BY <5>1, <5>2
      <4>. QED
        BY <1>1, <2>4, <4>1, <4>2 DEF EntryOK
    <3>. QED
      BY <1>3, <3>1, <3>2 DEF FileOK
  <2>6. ASSUME NEW q \in Commands
        PROVE  CommandOK(command'[q], pairs', Acceptable')
    <3>1. CASE q = p
      BY <2>1, <2>3, <3>1
    <3>2. CASE q # p /\ Running(q)
      <4>1. p \in together
        BY <1>1, <3>2 DEF CliInv, RunTogether, Running
      <4>2. CommandOK(command[q], pairs, Acceptable) /\ pairs \in Seq(Contexts)
        BY DEF CliInv, CliConfigTypeOK
      <4>3. CommandOK(command[q], pairs, Acceptable')
        BY <2>4, <4>1, <4>2, FileStaysOK
      <4>. QED
        BY <1>1, <2>3, <3>2, <4>3
    <3>3. CASE q # p /\ ~Running(q)
      <4>1. CommandOK(command[q], pairs, Acceptable)
        BY DEF CliInv
      <4>. QED
        BY <2>3, <3>3, <4>1, EmptyConfigOK DEF CommandOK, Running
    <3>. QED
      BY <3>1, <3>2, <3>3
  <2>7. CliConfigTypeOK'
    BY <1>1, <2>3, <2>5 DEF CliInv, CliConfigTypeOK, FileOK, Issued
  <2>8. RunTogether'
    BY <1>1, <2>1, <2>3 DEF CliInv, RunTogether, Running
  <2>. QED
    BY <2>5, <2>6, <2>7, <2>8 DEF CliInv
<1>. QED
  BY <1>2, <1>3 DEF Save

LEMMA CliInvariance == CliConfigSpec => []CliInv
<1>1. CliConfigInit => CliInv
  <2> SUFFICES ASSUME CliConfigInit PROVE CliInv
    OBVIOUS
  <2>1. PICK c \in Contexts :
           /\ pairs = <<c>>
           /\ cfgFile = [current |-> c, contexts |-> [d \in Contexts |->
                 IF d = c THEN [mode |-> "openshift", token |-> 1, refresh |-> 1]
                 ELSE NoContext]]
           /\ aged = {} /\ redeemable = {1} /\ together = {}
           /\ command = [p \in Commands |-> Rest("idle", 0)]
    BY DEF CliConfigInit
  <2> DEFINE e == [mode |-> "openshift", token |-> 1, refresh |-> 1]
  <2>2. /\ pairs \in Seq(Contexts) /\ Len(pairs) = 1 /\ pairs[1] = c
        /\ 1 <= MaxIssued /\ 1 \in Numbers
    BY <2>1, CliConfigAssumption DEF Numbers
  <2>3. e \in Entry /\ e # NoContext /\ EntryOK(e, c, pairs, Acceptable)
    <3>1. e \in Entry
      BY <2>2 DEF Entry, Modes
    <3>. QED
      BY <2>1, <2>2, <3>1, EntryIsThere DEF EntryOK, Acceptable
  <2> HIDE DEF e
  <2>4. FileOK(cfgFile, pairs, Acceptable)
    <3>1. cfgFile = [current |-> c,
                     contexts |-> [d \in Contexts |-> IF d = c THEN e ELSE NoContext]]
      BY <2>1 DEF e
    <3>. QED
      BY <2>3, <3>1 DEF FileOK, Config
  <2>5. /\ Rest("idle", 0) \in Command /\ Rest("idle", 0).at = "idle"
        /\ CommandOK(Rest("idle", 0), pairs, Acceptable)
    BY RestOK
  <2>. QED
    BY <2>1, <2>2, <2>4, <2>5
    DEF CliInv, CliConfigTypeOK, FileOK, Issued, RunTogether, Running
<1>2. CliInv /\ [CliConfigNext]_cliVars => CliInv'
  <2> SUFFICES ASSUME CliInv, [CliConfigNext]_cliVars PROVE CliInv'
    OBVIOUS
  <2>1. ASSUME UNCHANGED <<cfgFile, pairs, redeemable, command, together>>,
               aged' \subseteq Issued
        PROVE  CliInv'
    <3>1. Acceptable' = Acceptable
      BY <2>1 DEF Acceptable
    <3>. QED
      BY <2>1, <3>1 DEF CliInv, CliConfigTypeOK, Issued, RunTogether, Running
  <2>2. CASE UNCHANGED cliVars \/ \E n \in Issued : Age(n)
    BY <2>1, <2>2 DEF cliVars, Age, CliInv, CliConfigTypeOK
  <2>3. ASSUME NEW p \in Commands, Deny(p) PROVE CliInv'
    BY <2>3, EndsKeep DEF Deny, Running
  <2>. QED
    BY <2>2, <2>3, BeginsKeep, GrantKeeps, SaveKeeps DEF CliConfigNext
<1>. QED
  BY <1>1, <1>2, PTL DEF CliConfigSpec

\* The type invariant of CliConfig: the current context of every version of the
\* file is one of its contexts, whatever logs in or out (internal/cli).
THEOREM CurrentContextIsThere == CliConfigSpec => []CliConfigTypeOK
<1>1. CliInv => CliConfigTypeOK
  BY DEF CliInv
<1>. QED
  BY <1>1, CliInvariance, PTL

\* Whatever commands run beside each other, and whatever copy of the file is
\* saved last: the tokens of a context were issued to it (internal/cli).
THEOREM TokensStayInTheirContext == CliConfigSpec => []PairsStayWithTheirContext
<1>1. CliInv => PairsStayWithTheirContext
  BY DEF CliInv, FileOK, EntryOK, PairsStayWithTheirContext
<1>. QED
  BY <1>1, CliInvariance, PTL

\* The file has no refresh token that the provider does not accept, unless a
\* command is about to replace it, could not, or was not alone (maybeRefresh).
THEOREM SpentTokensHaveAReason == CliConfigSpec => []RefreshTokenIsAccepted
<1>1. CliInv => RefreshTokenIsAccepted
  <2> SUFFICES ASSUME CliInv, NEW c \in Contexts, cfgFile.contexts[c] # NoContext,
                      cfgFile.contexts[c].refresh \notin redeemable \cup {0}
               PROVE  \E p \in Commands :
                         /\ command[p].spends = cfgFile.contexts[c].refresh
                         /\ command[p].at # "done" \/ p \in together
    BY DEF RefreshTokenIsAccepted
  <2>1. cfgFile.contexts[c].refresh \in Acceptable
    BY DEF CliInv, FileOK, EntryOK
  <2>. QED
    BY <2>1 DEF Acceptable
<1>. QED
  BY <1>1, CliInvariance, PTL

-----------------------------------------------------------------------------
(* MCSessionsAndObjects.  A step of a part is a step of its component, and  *)
(* the others rest.                                                         *)

LEMMA SessionPartsBegin ==
    MCInit => /\ CliConfigInit /\ LdapLoginInit /\ ManagedObjectsInit
              /\ CappUpdateInit /\ BenchmarksInit /\ NamespacesInit
              /\ OAuthLoginInit
BY DEF MCInit, MCCappInit

LEMMA SessionPartsMove ==
    [MCNext]_MCvars => /\ [CliConfigNext]_cliVars
                       /\ [LdapLoginNext]_ldapVars
                       /\ [ManagedObjectsNext]_objectVars
                       /\ [CappUpdateNext]_cappVars
                       /\ [BenchmarksNext]_benchmarkVars
                       /\ [NamespacesNext]_namespaceVars
                       /\ [OAuthLoginNext]_oauthVars
<1> SUFFICES ASSUME [MCNext]_MCvars
             PROVE  /\ [CliConfigNext]_cliVars
                    /\ [LdapLoginNext]_ldapVars
                    /\ [ManagedObjectsNext]_objectVars
                    /\ [CappUpdateNext]_cappVars
                    /\ [BenchmarksNext]_benchmarkVars
                    /\ [NamespacesNext]_namespaceVars
                    /\ [OAuthLoginNext]_oauthVars
  OBVIOUS
<1>1. CappMoves => CappUpdateNext
  BY DEF CappMoves, CappUpdateNext, OthersWrite, Apply
<1> QED
  BY <1>1 DEF MCNext, MCvars, FileMoves, DirectoryMoves, KeysMove, ObjectsMove,
              CappMovesAlone, JobsMove, NamespaceMoves, BrowserMoves, Finished

\* Every component beside the others is what its own specification says.
LEMMA SessionPartsAreComponents ==
    MCSpec => /\ CliConfigSpec /\ LdapLoginSpec /\ ManagedObjectsSpec
              /\ CappUpdateSpec /\ BenchmarksSpec /\ NamespacesSpec
              /\ OAuthLoginSpec
BY SessionPartsBegin, SessionPartsMove, PTL
   DEF MCSpec, CliConfigSpec, LdapLoginSpec, ManagedObjectsSpec, CappUpdateSpec,
       BenchmarksSpec, NamespacesSpec, OAuthLoginSpec

\* Every variable of the parts that MCSessionsAndObjects puts side by side
\* keeps its type, whichever of them moves: a request writes a copy of a
\* managed object only, and the current context of the configuration file is
\* one of its contexts.
THEOREM SessionsAndObjectsTypes == MCSpec => []SessionsAndObjectsTypeOK
<1>1. TruthInv => LdapLoginTypeOK
  BY DEF TruthInv
<1>2. BenchmarksInv => BenchmarksTypeOK
  BY DEF BenchmarksInv
<1>3. (/\ CliConfigTypeOK /\ LdapLoginTypeOK /\ ManagedObjectsTypeOK
       /\ CappUpdateTypeOK /\ BenchmarksTypeOK /\ NamespacesTypeOK
       /\ OAuthLoginTypeOK) => SessionsAndObjectsTypeOK
  BY DEF SessionsAndObjectsTypeOK
<1> QED
  BY <1>1, <1>2, <1>3, SessionPartsAreComponents, CurrentContextIsThere,
     TruthInvariance, WritesFollowALook, CappUpdateTypeCorrect,
     BenchmarksInvariance, NamespacesTypeCorrect, TabsWereOpened, PTL

=============================================================================
