---------------------------- MODULE MigrateProofs ----------------------------
(***************************************************************************)
(* Proofs about Migrate, for any finite numbers of migrations and places   *)
(* and any faults: its type correctness, that a Capp is never lost, and    *)
(* that a copy with the hostname of its source carries the annotation.     *)
(***************************************************************************)
EXTENDS Migrate, FiniteSetTheorems, TLAPS

\* Initially every request is idle.
LEMMA InitRequests ==
    ASSUME Init
    PROVE  /\ request \in [Migrations -> Request]
           /\ \A m \in Migrations : request[m].pc = "idle"
<1> DEFINE Fresh ==
        {[pc |-> "idle", from |-> p, to |-> q, host |-> h, move |-> b,
          read |-> NoCapp, effective |-> NoHost, listed |-> {}, left |-> {},
          copied |-> {}, unanswered |-> "none", reply |-> "none"] :
            p \in Places, q \in Places, h \in Hosts, b \in BOOLEAN}
<1>1. Fresh \subseteq Request /\ \A r \in Fresh : r.pc = "idle"
  BY DEF Request, Hosts, Replies, Writes
<1>2. request \in [Migrations -> Fresh]
  BY DEF Init
<1> HIDE DEF Fresh
<1> QED
  BY <1>1, <1>2

LEMMA InitType == Init => TypeOK
<1> SUFFICES ASSUME Init PROVE TypeOK
  OBVIOUS
<1>1. capp \in [Places -> Capp \cup {NoCapp}]
  BY DEF Init
<1>2. dep \in [Places -> [Deps -> Migrations \cup {User, NoDep}]]
  <2>1. [Places -> [Deps -> {NoDep, User}]]
          \subseteq [Places -> [Deps -> Migrations \cup {User, NoDep}]]
    OBVIOUS
  <2> QED
    BY <2>1 DEF Init
<1>3. backup \subseteq Places
  BY DEF Init
<1> QED
  BY <1>1, <1>2, <1>3, InitRequests DEF TypeOK, Steps

-----------------------------------------------------------------------------
(* A step of a migration: its request changes to r, a Request that has the *)
(* Capp it needs.                                                          *)

NeedsCapp(r) == r.pc \in Steps \ {"source"} => r.read \in Capp

LEMMA RequestChange ==
    ASSUME TypeOK, NEW m \in Migrations, NEW r \in Request, NeedsCapp(r),
           request' = [request EXCEPT ![m] = r],
           capp' \in [Places -> Capp \cup {NoCapp}],
           dep' \in [Places -> [Deps -> Migrations \cup {User, NoDep}]],
           backup' = backup
    PROVE  TypeOK'
<1>1. request' \in [Migrations -> Request]
  BY DEF TypeOK
<1>2. \A n \in Migrations : NeedsCapp(request'[n])
  BY DEF TypeOK, NeedsCapp
<1> QED
  BY <1>1, <1>2 DEF TypeOK, NeedsCapp

\* The parts of a request that no step changes, and the Capp it needs.
LEMMA RequestParts ==
    ASSUME TypeOK, NEW m \in Migrations
    PROVE  /\ request[m] \in Request
           /\ request[m].from \in Places /\ request[m].to \in Places
           /\ request[m].listed \subseteq Deps /\ request[m].left \subseteq Deps
           /\ request[m].copied \subseteq Deps
           /\ NeedsCapp(request[m])
  BY DEF TypeOK, Request, NeedsCapp

\* prepareCapp makes a Capp.
LEMMA PrepareCappType ==
    ASSUME NEW c \in Capp, NEW h \in Hosts
    PROVE  PrepareCapp(c, h) \in Capp
  BY DEF PrepareCapp, Capp

\* Setting the capp of a place keeps the type of capp.
LEMMA CappChange ==
    ASSUME TypeOK, NEW p \in Places, NEW c \in Capp \cup {NoCapp}
    PROVE  [capp EXCEPT ![p] = c] \in [Places -> Capp \cup {NoCapp}]
  BY DEF TypeOK

\* Setting the creator of a resource keeps the type of dep.
LEMMA DepChange ==
    ASSUME TypeOK, NEW p \in Places, NEW d \in Deps,
           NEW o \in Migrations \cup {User, NoDep}
    PROVE  [dep EXCEPT ![p][d] = o]
             \in [Places -> [Deps -> Migrations \cup {User, NoDep}]]
<1>1. [dep[p] EXCEPT ![d] = o] \in [Deps -> Migrations \cup {User, NoDep}]
  BY DEF TypeOK
<1> QED
  BY <1>1 DEF TypeOK

\* The request of which a resource that is due has been dealt with.
Advancing(q, d, next, again) ==
    [q EXCEPT !.left = IF q.left \ {d} = {} THEN again ELSE q.left \ {d},
              !.pc = IF q.left \ {d} = {} THEN next ELSE q.pc]

\* What both r and q have, but for what is left to do.
SameButLeft(r, q) ==
    /\ r.from = q.from /\ r.to = q.to /\ r.host = q.host /\ r.move = q.move
    /\ r.read = q.read /\ r.effective = q.effective /\ r.listed = q.listed
    /\ r.copied = q.copied /\ r.unanswered = q.unanswered
    /\ r.reply = q.reply

\* What advances a request is a request.
AdvanceIsRight(m, d, next, again) ==
    LET q == request[m]
        r == Advancing(q, d, next, again)
    IN  /\ Advance(m, d, next, again) = [request EXCEPT ![m] = r]
        /\ r \in Request /\ SameButLeft(r, q)
        /\ r.left = IF q.left \ {d} = {} THEN again ELSE q.left \ {d}
        /\ r.pc = IF q.left \ {d} = {} THEN next ELSE q.pc

LEMMA AdvanceType ==
    ASSUME TypeOK, NEW m \in Migrations,
           NEW d, NEW next \in Steps \cup {"done"}, NEW again \in SUBSET Deps
    PROVE  AdvanceIsRight(m, d, next, again)
<1> DEFINE q == request[m]
           left == IF q.left \ {d} = {} THEN again ELSE q.left \ {d}
           pc == IF q.left \ {d} = {} THEN next ELSE q.pc
           r == [q EXCEPT !.left = left, !.pc = pc]
<1>1. q \in Request /\ left \in SUBSET Deps /\ pc \in Steps \cup {"idle", "done"}
  BY DEF TypeOK, Request
<1>2. Advance(m, d, next, again)
        = [request EXCEPT ![m].left = left, ![m].pc = pc]
  BY <1>1 DEF Advance, TypeOK, Request
<1>3. r = Advancing(q, d, next, again)
  BY DEF Advancing
<1>4. left = (IF q.left \ {d} = {} THEN again ELSE q.left \ {d})
      /\ pc = (IF q.left \ {d} = {} THEN next ELSE q.pc)
  OBVIOUS
<1> HIDE DEF left, pc
<1>5. [request EXCEPT ![m].left = left, ![m].pc = pc] = [request EXCEPT ![m] = r]
  BY <1>1 DEF TypeOK
<1>6. /\ r \in Request /\ SameButLeft(r, q) /\ r.left = left /\ r.pc = pc
  BY <1>1 DEF Request, SameButLeft
<1> HIDE DEF r
<1> QED
  BY <1>2, <1>3, <1>4, <1>5, <1>6 DEF AdvanceIsRight

-----------------------------------------------------------------------------
(* Every action preserves the type invariant. *)

\* The reply of a request, and its next step.
LEMMA ReplyType ==
    ASSUME TypeOK, NEW m \in Migrations, NEW code \in Replies, Reply(m, code),
           capp' \in [Places -> Capp \cup {NoCapp}],
           dep' \in [Places -> [Deps -> Migrations \cup {User, NoDep}]],
           backup' = backup
    PROVE  TypeOK'
<1> DEFINE r == [request[m] EXCEPT !.pc = "done", !.reply = code]
<1>1. r \in Request
  BY RequestParts DEF Request
<1>2. request' = [request EXCEPT ![m] = r]
  BY DEF Reply, TypeOK
<1>3. NeedsCapp(r)
  BY RequestParts DEF NeedsCapp, Request, Steps
<1> HIDE DEF r
<1> QED
  BY <1>1, <1>2, <1>3, RequestChange

LEMMA StartType ==
    ASSUME TypeOK, NEW m \in Migrations, Start(m)
    PROVE  TypeOK'
<1> DEFINE r == [request[m] EXCEPT !.pc = "source"]
<1>1. r \in Request
  BY RequestParts DEF Request, Steps
<1>2. request' = [request EXCEPT ![m] = r]
  BY DEF Start, Goto, TypeOK
<1>3. NeedsCapp(r)
  BY RequestParts DEF NeedsCapp, Request
<1>4. capp' = capp /\ dep' = dep /\ backup' = backup
  BY DEF Start
<1> HIDE DEF r
<1> QED
  BY <1>1, <1>2, <1>3, <1>4, RequestChange DEF TypeOK

LEMMA GetSourceType ==
    ASSUME TypeOK, NEW m \in Migrations, GetSource(m)
    PROVE  TypeOK'
<1> DEFINE source == capp[request[m].from]
           r == [request[m] EXCEPT !.read = source, !.pc = "target"]
<1>1. capp' = capp /\ dep' = dep /\ backup' = backup
  BY DEF GetSource
<1>2. CASE Reply(m, "failed")
  BY <1>1, <1>2, ReplyType DEF TypeOK, Replies
<1>3. CASE /\ source # NoCapp
           /\ request' = [request EXCEPT ![m].read = source, ![m].pc = "target"]
  <2>1. source \in Capp
    BY <1>3, RequestParts DEF TypeOK
  <2>2. r \in Request
    BY <2>1, RequestParts DEF Request, Steps
  <2>3. request' = [request EXCEPT ![m] = r]
    BY <1>3 DEF TypeOK
  <2>4. NeedsCapp(r)
    BY <2>1, RequestParts DEF NeedsCapp, Request
  <2> HIDE DEF r
  <2> QED
    BY <1>1, <2>2, <2>3, <2>4, RequestChange DEF TypeOK
<1> QED
  BY <1>2, <1>3 DEF GetSource

LEMMA GetTargetType ==
    ASSUME TypeOK, NEW m \in Migrations, GetTarget(m)
    PROVE  TypeOK'
<1> DEFINE host == EffectiveHostname(request[m].read.host, request[m].host,
                                     request[m].move)
           r == [request[m] EXCEPT !.pc = "secrets", !.effective = host]
<1>1. capp' = capp /\ dep' = dep /\ backup' = backup
  BY DEF GetTarget
<1>2. CASE Reply(m, "failed") \/ Reply(m, "conflict")
  BY <1>1, <1>2, ReplyType DEF TypeOK, Replies
<1>3. CASE /\ At(m, "target")
           /\ request' = [request EXCEPT ![m].pc = "secrets",
                                         ![m].effective = host]
  <2>1. host \in Hosts
    BY RequestParts DEF EffectiveHostname, Request, Hosts
  <2>2. r \in Request
    BY <2>1, RequestParts DEF Request, Steps
  <2>3. request' = [request EXCEPT ![m] = r]
    BY <1>3 DEF TypeOK
  <2>4. request[m].read \in Capp
    BY <1>3, RequestParts DEF At, NeedsCapp, Steps
  <2>5. NeedsCapp(r)
    BY <2>4, RequestParts DEF NeedsCapp, Request
  <2> HIDE DEF r
  <2> QED
    BY <1>1, <2>2, <2>3, <2>5, RequestChange DEF TypeOK
<1> QED
  BY <1>2, <1>3 DEF GetTarget

LEMMA ListSecretsType ==
    ASSUME TypeOK, NEW m \in Migrations, ListSecrets(m)
    PROVE  TypeOK'
<1> DEFINE names == AtSource(m, Secrets)
           r == [request[m] EXCEPT !.listed = names, !.pc = "configMaps"]
<1>1. capp' = capp /\ dep' = dep /\ backup' = backup
  BY DEF ListSecrets
<1>2. CASE Reply(m, "failed")
  BY <1>1, <1>2, ReplyType DEF TypeOK, Replies
<1>3. CASE request' = [request EXCEPT ![m].listed = names,
                                      ![m].pc = "configMaps"]
  <2>1. names \subseteq Deps
    BY DEF AtSource, Deps
  <2> HIDE DEF names
  <2>2. r \in Request
    BY <2>1, RequestParts DEF Request, Steps
  <2>3. request' = [request EXCEPT ![m] = r]
    BY <1>3 DEF TypeOK
  <2>4. request[m].read \in Capp
    BY RequestParts DEF ListSecrets, At, NeedsCapp, Steps
  <2>5. NeedsCapp(r)
    BY <2>4, RequestParts DEF NeedsCapp, Request
  <2> HIDE DEF r
  <2> QED
    BY <1>1, <2>2, <2>3, <2>5, RequestChange DEF TypeOK
<1> QED
  BY <1>2, <1>3 DEF ListSecrets

LEMMA ListConfigMapsType ==
    ASSUME TypeOK, NEW m \in Migrations, ListConfigMaps(m)
    PROVE  TypeOK'
<1> DEFINE names == request[m].listed \cup AtSource(m, ConfigMaps)
           next == IF names = {} THEN "capp" ELSE "check"
           r == [request[m] EXCEPT !.listed = names, !.left = names,
                                   !.pc = next]
<1>1. capp' = capp /\ dep' = dep /\ backup' = backup
  BY DEF ListConfigMaps
<1>2. CASE Reply(m, "failed")
  BY <1>1, <1>2, ReplyType DEF TypeOK, Replies
<1>3. CASE request' = [request EXCEPT ![m].listed = names, ![m].left = names,
                                      ![m].pc = next]
  <2>1. names \subseteq Deps /\ next \in Steps
    BY RequestParts DEF AtSource, Deps, Steps
  <2> HIDE DEF names, next
  <2>2. r \in Request
    BY <2>1, RequestParts DEF Request
  <2>3. request' = [request EXCEPT ![m] = r]
    BY <1>3 DEF TypeOK
  <2>4. request[m].read \in Capp
    BY RequestParts DEF ListConfigMaps, At, NeedsCapp, Steps
  <2>5. NeedsCapp(r)
    BY <2>4, RequestParts DEF NeedsCapp, Request
  <2> HIDE DEF r
  <2> QED
    BY <1>1, <2>2, <2>3, <2>5, RequestChange DEF TypeOK
<1> QED
  BY <1>2, <1>3 DEF ListConfigMaps

LEMMA CheckType ==
    ASSUME TypeOK, NEW m \in Migrations, Check(m)
    PROVE  TypeOK'
<1>1. capp' = capp /\ dep' = dep /\ backup' = backup
  BY DEF Check
<1>2. CASE Reply(m, "failed") \/ Reply(m, "conflict")
  BY <1>1, <1>2, ReplyType DEF TypeOK, Replies
<1>3. ASSUME NEW d \in Due(m),
             request' = Advance(m, d, "copy", request[m].listed)
      PROVE  TypeOK'
  <2> DEFINE r == Advancing(request[m], d, "copy", request[m].listed)
  <2>1. r \in Request /\ request' = [request EXCEPT ![m] = r]
        /\ r.read = request[m].read
    <3>1. AdvanceIsRight(m, d, "copy", request[m].listed)
      BY RequestParts, AdvanceType DEF Steps
    <3> QED
      BY <1>3, <3>1 DEF AdvanceIsRight, SameButLeft
  <2>2. request[m].read \in Capp
    BY RequestParts DEF Check, At, NeedsCapp, Steps
  <2>3. NeedsCapp(r)
    BY <2>1, <2>2 DEF NeedsCapp
  <2> HIDE DEF r
  <2> QED
    BY <1>1, <2>1, <2>3, RequestChange DEF TypeOK
<1> QED
  BY <1>2, <1>3 DEF Check

\* The clean-up after a failed Create.
LEMMA CreateFailedType ==
    ASSUME TypeOK, NEW m \in Migrations, request[m].read \in Capp,
           NEW error \in Replies, NEW effect \in Writes \cup {"none"},
           CreateFailed(m, error, effect),
           capp' \in [Places -> Capp \cup {NoCapp}],
           dep' \in [Places -> [Deps -> Migrations \cup {User, NoDep}]],
           backup' = backup
    PROVE  TypeOK'
<1> DEFINE next == IF ToCleanUp(m) = {} THEN "done" ELSE "cleanup"
           r == [request[m] EXCEPT !.left = ToCleanUp(m), !.reply = error,
                                   !.unanswered = effect, !.pc = next]
<1>1. ToCleanUp(m) \subseteq Deps /\ next \in Steps \cup {"done"}
  BY RequestParts DEF ToCleanUp, Steps
<1> HIDE DEF next
<1>2. r \in Request
  BY <1>1, RequestParts DEF Request
<1>3. request' = [request EXCEPT ![m] = r]
  BY DEF CreateFailed, TypeOK, next
<1>4. NeedsCapp(r)
  BY RequestParts DEF NeedsCapp, Request
<1> HIDE DEF r
<1> QED
  BY <1>2, <1>3, <1>4, RequestChange

\* A write that is answered with an error though it took effect.
LEMMA UnansweredType ==
    ASSUME TypeOK, NEW m \in Migrations, NEW code \in Replies,
           NEW write \in Writes, Unanswered(m, write, code),
           capp' \in [Places -> Capp \cup {NoCapp}],
           dep' \in [Places -> [Deps -> Migrations \cup {User, NoDep}]],
           backup' = backup
    PROVE  TypeOK'
<1> DEFINE r == [request[m] EXCEPT !.pc = "done", !.reply = code,
                                   !.unanswered = write]
<1>1. r \in Request
  BY RequestParts DEF Request
<1>2. request' = [request EXCEPT ![m] = r]
  BY DEF Unanswered, TypeOK
<1>3. NeedsCapp(r)
  BY RequestParts DEF NeedsCapp, Request, Steps
<1> HIDE DEF r
<1> QED
  BY <1>1, <1>2, <1>3, RequestChange

LEMMA CopyType ==
    ASSUME TypeOK, NEW m \in Migrations, Copy(m)
    PROVE  TypeOK'
<1>1. capp' = capp /\ backup' = backup
  BY DEF Copy
<1>2. request[m].read \in Capp
  BY RequestParts DEF Copy, At, NeedsCapp, Steps
<1>3. ASSUME NEW error \in {"conflict", "failed"},
             CreateFailed(m, error, "none"), dep' = dep
      PROVE  TypeOK'
  BY <1>1, <1>2, <1>3, CreateFailedType DEF Replies, TypeOK
<1>5. ASSUME NEW d \in Due(m), CreateFailed(m, "failed", d),
             dep' = [dep EXCEPT ![request[m].to][d] = m]
      PROVE  TypeOK'
  <2>1. PICK p \in Places : p = request[m].to
    BY RequestParts
  <2>2. d \in Deps
    BY RequestParts DEF Due
  <2>3. dep' \in [Places -> [Deps -> Migrations \cup {User, NoDep}]]
    BY <1>5, <2>1, <2>2, DepChange
  <2> QED
    BY <1>1, <1>2, <1>5, <2>2, <2>3, CreateFailedType
    DEF Replies, Writes, TypeOK
<1>4. ASSUME NEW d \in Due(m),
             dep' = [dep EXCEPT ![request[m].to][d] = m],
             request' = [Advance(m, d, "capp", {}) EXCEPT
                           ![m].copied = @ \cup {d}]
      PROVE  TypeOK'
  <2> DEFINE q == Advancing(request[m], d, "capp", {})
             r == [q EXCEPT !.copied = @ \cup {d}]
  <2>1. d \in Deps
    BY RequestParts DEF Due
  <2>2. q \in Request /\ Advance(m, d, "capp", {}) = [request EXCEPT ![m] = q]
        /\ q.read = request[m].read
    <3>1. AdvanceIsRight(m, d, "capp", {})
      BY AdvanceType DEF Steps
    <3> QED
      BY <3>1 DEF AdvanceIsRight, SameButLeft
  <2> HIDE DEF q
  <2>3. NeedsCapp(r)
    BY <1>2, <2>2 DEF NeedsCapp, Request
  <2>4. r \in Request
    BY <2>1, <2>2 DEF Request
  <2>5. request' = [request EXCEPT ![m] = r]
    BY <1>4, <2>2 DEF TypeOK
  <2>6. PICK p \in Places : p = request[m].to
    BY RequestParts
  <2>7. dep' \in [Places -> [Deps -> Migrations \cup {User, NoDep}]]
    BY <1>4, <2>1, <2>6, DepChange
  <2>8. capp' \in [Places -> Capp \cup {NoCapp}]
    BY <1>1 DEF TypeOK
  <2> HIDE DEF r
  <2> QED
    BY <1>1, <2>3, <2>4, <2>5, <2>7, <2>8, RequestChange
<1> QED
  BY <1>3, <1>4, <1>5 DEF Copy

LEMMA CleanupType ==
    ASSUME TypeOK, NEW m \in Migrations, Cleanup(m)
    PROVE  TypeOK'
<1>1. PICK d \in Due(m) :
         /\ \/ dep' = [dep EXCEPT ![request[m].to][d] = NoDep]
            \/ dep' = dep
         /\ \/ request' = Advance(m, d, "done", {})
            \/ request' = [Advance(m, d, "done", {}) EXCEPT
                             ![m].reply = "leftover"]
  BY DEF Cleanup
<1> DEFINE r == Advancing(request[m], d, "done", {})
           q == [r EXCEPT !.reply = "leftover"]
<1>2. d \in Deps
  BY RequestParts DEF Due
<1>3. r \in Request /\ Advance(m, d, "done", {}) = [request EXCEPT ![m] = r]
      /\ r.read = request[m].read
  <2>1. AdvanceIsRight(m, d, "done", {})
    BY AdvanceType
  <2> QED
    BY <2>1 DEF AdvanceIsRight, SameButLeft
<1> HIDE DEF r
<1>4. q \in Request /\ q.read = r.read
  BY <1>3 DEF Request, Replies
<1>5. request' \in {[request EXCEPT ![m] = r], [request EXCEPT ![m] = q]}
  <2>1. [[request EXCEPT ![m] = r] EXCEPT ![m].reply = "leftover"]
          = [request EXCEPT ![m] = q]
    BY DEF TypeOK
  <2> QED
    BY <1>1, <1>3, <2>1
<1>6. request[m].read \in Capp
  BY RequestParts DEF Cleanup, At, NeedsCapp, Steps
<1>7. NeedsCapp(r) /\ NeedsCapp(q)
  BY <1>3, <1>4, <1>6 DEF NeedsCapp
<1>8. PICK p \in Places : p = request[m].to
  BY RequestParts
<1>9. dep' \in [Places -> [Deps -> Migrations \cup {User, NoDep}]]
  <2>1. CASE dep' = dep
    BY <2>1 DEF TypeOK
  <2>2. CASE dep' = [dep EXCEPT ![request[m].to][d] = NoDep]
    BY <1>2, <1>8, <2>2, DepChange
  <2> QED
    BY <1>1, <2>1, <2>2
<1>10. capp' \in [Places -> Capp \cup {NoCapp}] /\ backup' = backup
  BY DEF Cleanup, TypeOK
<1> HIDE DEF q
<1> QED
  BY <1>3, <1>4, <1>5, <1>7, <1>9, <1>10, RequestChange

\* A request that goes on has the Capp it had.
LEMMA GotoType ==
    ASSUME TypeOK, NEW m \in Migrations, NEW pc \in Steps, Goto(m, pc),
           request[m].read \in Capp,
           capp' \in [Places -> Capp \cup {NoCapp}],
           dep' \in [Places -> [Deps -> Migrations \cup {User, NoDep}]],
           backup' = backup
    PROVE  TypeOK'
<1> DEFINE r == [request[m] EXCEPT !.pc = pc]
<1>1. r \in Request
  BY RequestParts DEF Request
<1>2. request' = [request EXCEPT ![m] = r]
  BY DEF Goto, TypeOK
<1>3. NeedsCapp(r)
  BY RequestParts DEF NeedsCapp, Request
<1> HIDE DEF r
<1> QED
  BY <1>1, <1>2, <1>3, RequestChange

LEMMA CreateCappType ==
    ASSUME TypeOK, NEW m \in Migrations, CreateCapp(m)
    PROVE  TypeOK'
<1>1. dep' = dep /\ backup' = backup /\ request[m].read \in Capp
  BY RequestParts DEF CreateCapp, At, NeedsCapp, Steps
<1>2. ASSUME NEW error \in {"conflict", "failed"},
             CreateFailed(m, error, "none"), capp' = capp
      PROVE  TypeOK'
  BY <1>1, <1>2, CreateFailedType DEF Replies, TypeOK
<1>3. ASSUME capp' = [capp EXCEPT ![request[m].to] =
                        PrepareCapp(request[m].read, request[m].effective)],
             AfterCreate(m) \/ CreateFailed(m, "failed", "capp")
      PROVE  TypeOK'
  <2>1. PrepareCapp(request[m].read, request[m].effective) \in Capp
    BY <1>1, RequestParts, PrepareCappType DEF Request
  <2>2. capp' \in [Places -> Capp \cup {NoCapp}]
    BY <1>3, <2>1, RequestParts, CappChange
  <2>3. CASE Goto(m, "delete")
    BY <1>1, <2>2, <2>3, GotoType DEF TypeOK, Steps
  <2>4. CASE Reply(m, "ok")
    BY <1>1, <2>2, <2>4, ReplyType DEF TypeOK, Replies
  <2>5. CASE CreateFailed(m, "failed", "capp")
    BY <1>1, <2>2, <2>5, CreateFailedType DEF TypeOK, Replies, Writes
  <2> QED
    BY <1>3, <2>3, <2>4, <2>5 DEF AfterCreate
<1> QED
  BY <1>2, <1>3 DEF CreateCapp

LEMMA DeleteSourceType ==
    ASSUME TypeOK, NEW m \in Migrations, DeleteSource(m)
    PROVE  TypeOK'
<1>1. dep' = dep /\ backup' = backup /\ request[m].read \in Capp
  BY RequestParts DEF DeleteSource, At, NeedsCapp, Steps
<1>2. capp' \in [Places -> Capp \cup {NoCapp}]
  BY RequestParts, CappChange DEF DeleteSource, TypeOK
<1>3. CASE Goto(m, "patch")
  BY <1>1, <1>2, <1>3, GotoType DEF TypeOK, Steps
<1>4. CASE Reply(m, "ok") \/ Reply(m, "kept")
  BY <1>1, <1>2, <1>4, ReplyType DEF TypeOK, Replies
<1>5. CASE Unanswered(m, "delete", "kept")
  BY <1>1, <1>2, <1>5, UnansweredType DEF TypeOK, Replies, Writes
<1> QED
  BY <1>3, <1>4, <1>5 DEF DeleteSource

LEMMA PatchBypassType ==
    ASSUME TypeOK, NEW m \in Migrations, PatchBypass(m)
    PROVE  TypeOK'
<1>1. dep' = dep /\ backup' = backup
  BY DEF PatchBypass
<1>2. capp' \in [Places -> Capp \cup {NoCapp}]
  <2>1. CASE /\ Target(m) # NoCapp
             /\ capp' = [capp EXCEPT ![request[m].to].bypass = FALSE]
    <3>1. Target(m) \in Capp
      BY <2>1, RequestParts DEF Target, TypeOK
    <3>2. [Target(m) EXCEPT !.bypass = FALSE] \in Capp
      BY <3>1 DEF Capp
    <3>3. capp' = [capp EXCEPT ![request[m].to] =
                                  [Target(m) EXCEPT !.bypass = FALSE]]
      BY <2>1, RequestParts DEF Target, TypeOK
    <3> QED
      BY <3>2, <3>3, RequestParts, CappChange
  <2> QED
    BY <2>1 DEF PatchBypass, TypeOK
<1>3. CASE Reply(m, "ok") \/ Reply(m, "unpatched")
  BY <1>1, <1>2, <1>3, ReplyType DEF TypeOK, Replies
<1>4. CASE Unanswered(m, "patch", "unpatched")
  BY <1>1, <1>2, <1>4, UnansweredType DEF TypeOK, Replies, Writes
<1> QED
  BY <1>3, <1>4 DEF PatchBypass

\* What others create, and a crash.
LEMMA CreateOtherType ==
    ASSUME TypeOK, NEW p \in Places, CreateOther(p)
    PROVE  TypeOK'
<1> DEFINE c == [host |-> NoHost, label |-> FALSE, bypass |-> FALSE]
<1>1. c \in Capp
  BY DEF Capp, Hosts
<1>2. capp' \in [Places -> Capp \cup {NoCapp}]
  BY <1>1, CappChange DEF CreateOther
<1> QED
  BY <1>2 DEF CreateOther, TypeOK

LEMMA CreateDepType ==
    ASSUME TypeOK, NEW p \in Places, NEW d \in Deps, CreateDep(p, d)
    PROVE  TypeOK'
<1>1. dep' \in [Places -> [Deps -> Migrations \cup {User, NoDep}]]
  BY DepChange DEF CreateDep
<1> QED
  BY <1>1 DEF CreateDep, TypeOK

LEMMA CrashType ==
    ASSUME TypeOK, NEW m \in Migrations, Crash(m)
    PROVE  TypeOK'
  BY ReplyType DEF Crash, TypeOK, Replies

LEMMA NextType == TypeOK /\ [Next]_vars => TypeOK'
<1> SUFFICES ASSUME TypeOK, [Next]_vars PROVE TypeOK'
  OBVIOUS
<1>1. CASE UNCHANGED vars
  BY <1>1 DEF vars, TypeOK
<1>2. ASSUME NEW m \in Migrations, Start(m) \/ Step(m) \/ Crash(m)
      PROVE  TypeOK'
  BY <1>2, StartType, GetSourceType, GetTargetType, ListSecretsType,
     ListConfigMapsType, CheckType, CopyType, CleanupType, CreateCappType, DeleteSourceType,
     PatchBypassType, CrashType DEF Step
<1>3. ASSUME NEW p \in Places,
             CreateOther(p) \/ \E d \in Deps : CreateDep(p, d)
      PROVE  TypeOK'
  BY <1>3, CreateOtherType, CreateDepType
<1> QED
  BY <1>1, <1>2, <1>3 DEF Next, Finished

\* The state and every request keep their types, and a request that has read
\* the source Capp has it: the handler never uses a Capp it does not have.
THEOREM TypeCorrect == Spec => []TypeOK
  BY InitType, NextType, PTL DEF Spec

-----------------------------------------------------------------------------
(* The Capp is never lost.  CappIsNeverLost is not inductive: it does not  *)
(* say that a request that is about to delete the source Capp has added    *)
(* another one, and that no other request counts on the same one.  Since   *)
(* Create never overwrites, every such request has added a home of its     *)
(* own, and its Delete takes away one at most.                             *)

\* The places that have the Capp.
Homes == {p \in Places : capp[p] # NoCapp}

\* The migrations that are about to delete the source Capp.
Pending == {m \in Migrations : At(m, "delete")}

HomesInv ==
    /\ TypeOK
    /\ Cardinality(Homes) >= 1 + Cardinality(Pending)

LEMMA FiniteSets ==
    /\ IsFiniteSet(Homes) /\ Cardinality(Homes) \in Nat
    /\ IsFiniteSet(Pending) /\ Cardinality(Pending) \in Nat
<1>1. Homes \in SUBSET Places /\ Pending \in SUBSET Migrations
  BY DEF Homes, Pending
<1>2. IsFiniteSet(Homes) /\ IsFiniteSet(Pending)
  BY <1>1, FS_Subset, ConstantsAssumption
<1> QED
  BY <1>2, FS_CardinalityType

\* A step that takes no home away and adds no deletion.
LEMMA NoHomeRemoved ==
    ASSUME HomesInv, TypeOK', Homes \subseteq Homes', Pending' \subseteq Pending,
           IsFiniteSet(Homes')
    PROVE  HomesInv'
<1> DEFINE H == Homes'
           P == Pending'
<1>1. IsFiniteSet(H) /\ H = Homes' /\ P = Pending'
  OBVIOUS
<1>2. Homes \in SUBSET H /\ P \in SUBSET Pending
  OBVIOUS
<1>3. Cardinality(Homes) <= Cardinality(H) /\ Cardinality(H) \in Nat
  BY <1>1, <1>2, FS_Subset, FS_CardinalityType
<1>4. Cardinality(P) <= Cardinality(Pending) /\ Cardinality(P) \in Nat
  BY <1>2, FS_Subset, FS_CardinalityType, FiniteSets
<1> HIDE DEF H, P
<1>5. Cardinality(H) >= 1 + Cardinality(P)
  BY <1>3, <1>4, FiniteSets DEF HomesInv
<1> QED
  BY <1>1, <1>5 DEF HomesInv

LEMMA HomesInit == Init => HomesInv
<1> SUFFICES ASSUME Init PROVE HomesInv
  OBVIOUS
<1>1. Pending = {}
  BY InitRequests DEF Pending, At
<1>2. PICK p \in Places : capp[p] # NoCapp
  <2>1. PICK p \in Places, c \in Capp :
           capp = [q \in Places |-> IF q = p THEN c ELSE NoCapp]
    BY DEF Init
  <2> QED
    BY <2>1, ConstantsAssumption
<1>3. Homes # {}
  BY <1>2 DEF Homes
<1>4. Cardinality(Homes) # 0
  BY <1>3, FiniteSets, FS_EmptySet
<1>5. Cardinality(Pending) = 0
  BY <1>1, FS_EmptySet
<1> QED
  BY <1>4, <1>5, InitType, FiniteSets DEF HomesInv

\* CreateCapp adds a home, and one deletion at most.
LEMMA CreateCappHomes ==
    ASSUME HomesInv, NEW m \in Migrations, CreateCapp(m)
    PROVE  HomesInv'
<1>1. TypeOK /\ TypeOK'
  BY CreateCappType DEF HomesInv
<1>2. CASE /\ capp' = capp
           /\ \/ CreateFailed(m, "conflict", "none")
              \/ CreateFailed(m, "failed", "none")
  <2>1. Homes' = Homes
    BY <1>2 DEF Homes
  <2>2. request'[m].pc # "delete"
    BY <1>1, <1>2 DEF CreateFailed, TypeOK, Request
  <2>3. \A n \in Migrations \ {m} : request'[n] = request[n]
    BY <1>1, <1>2 DEF CreateFailed, TypeOK
  <2>4. Pending' \subseteq Pending
    BY <2>2, <2>3 DEF Pending, At
  <2> QED
    BY <1>1, <2>1, <2>4, FiniteSets, NoHomeRemoved
<1>3. CASE /\ Target(m) = NoCapp
           /\ capp' = [capp EXCEPT ![request[m].to] =
                          PrepareCapp(request[m].read, request[m].effective)]
           /\ AfterCreate(m) \/ CreateFailed(m, "failed", "capp")
  <2>1. PICK q \in Places : q = request[m].to
    BY <1>1, RequestParts
  <2>2. PrepareCapp(request[m].read, request[m].effective) \in Capp
    BY <1>1, RequestParts, PrepareCappType
       DEF CreateCapp, At, NeedsCapp, Request, Steps
  <2>3. Homes' = Homes \cup {q} /\ q \notin Homes
    BY <1>1, <1>3, <2>1, <2>2, ConstantsAssumption DEF Homes, Target, TypeOK
  <2>4. m \notin Pending /\ Pending' \subseteq Pending \cup {m}
    <3>1. \A n \in Migrations \ {m} : request'[n] = request[n]
      BY <1>1, <1>3 DEF AfterCreate, CreateFailed, Goto, Reply, TypeOK
    <3> QED
      BY <3>1 DEF Pending, At, CreateCapp
  <2> DEFINE P == Pending'
  <2>5. P \in SUBSET (Pending \cup {m}) /\ P = Pending'
    BY <2>4
  <2> HIDE DEF P
  <2>6. /\ IsFiniteSet(Pending \cup {m})
        /\ Cardinality(Pending \cup {m}) = Cardinality(Pending) + 1
    BY <2>4, FiniteSets, FS_AddElement
  <2>7. Cardinality(P) <= Cardinality(Pending) + 1 /\ Cardinality(P) \in Nat
    BY <2>5, <2>6, FS_Subset, FS_CardinalityType
  <2>8. Cardinality(Homes \cup {q}) = Cardinality(Homes) + 1
    BY <2>3, FiniteSets, FS_AddElement
  <2>9. Cardinality(Homes \cup {q}) >= 1 + Cardinality(P)
    BY <2>7, <2>8, FiniteSets DEF HomesInv
  <2> QED
    BY <1>1, <2>3, <2>5, <2>9 DEF HomesInv
<1> QED
  BY <1>2, <1>3 DEF CreateCapp

\* DeleteSource takes away one home at most, and the deletion.
LEMMA DeleteSourceHomes ==
    ASSUME HomesInv, NEW m \in Migrations, DeleteSource(m)
    PROVE  HomesInv'
<1>1. TypeOK /\ TypeOK'
  BY DeleteSourceType DEF HomesInv
<1>2. PICK q \in Places : q = request[m].from
  BY <1>1, RequestParts
<1>3. m \in Pending /\ Pending' = Pending \ {m}
  <2>1. \/ Goto(m, "patch") \/ Reply(m, "ok") \/ Reply(m, "kept")
        \/ Unanswered(m, "delete", "kept")
    BY DEF DeleteSource
  <2>2. request'[m].pc # "delete"
    BY <1>1, <2>1 DEF Goto, Reply, Unanswered, TypeOK, Request
  <2>3. \A n \in Migrations \ {m} : request'[n] = request[n]
    BY <1>1, <2>1 DEF Goto, Reply, Unanswered, TypeOK
  <2> QED
    BY <2>2, <2>3 DEF Pending, At, DeleteSource
<1>4. CASE capp' = capp
  <2>1. Homes' = Homes
    BY <1>4 DEF Homes
  <2> QED
    BY <1>1, <1>3, <2>1, FiniteSets, NoHomeRemoved
<1>5. CASE capp[q] # NoCapp /\ capp' = [capp EXCEPT ![q] = NoCapp]
  <2>1. q \in Homes /\ Homes' = Homes \ {q}
    BY <1>1, <1>5 DEF Homes, TypeOK
  <2>2. Cardinality(Homes \ {q}) = Cardinality(Homes) - 1
    BY <2>1, FiniteSets, FS_RemoveElement
  <2>3. Cardinality(Pending \ {m}) = Cardinality(Pending) - 1
    BY <1>3, FiniteSets, FS_RemoveElement
  <2>4. Cardinality(Homes \ {q}) >= 1 + Cardinality(Pending \ {m})
    BY <2>2, <2>3, FiniteSets DEF HomesInv
  <2> QED
    BY <1>1, <1>3, <2>1, <2>4 DEF HomesInv
<1> QED
  BY <1>2, <1>4, <1>5 DEF DeleteSource

\* Dealing with a resource leads on to the next step or stays.
LEMMA AdvancePc ==
    ASSUME TypeOK, NEW m \in Migrations, NEW d, NEW next, NEW again
    PROVE  Advance(m, d, next, again)[m].pc \in {next, request[m].pc}
<1> DEFINE left == request[m].left \ {d}
<1>1. CASE left = {}
  BY <1>1 DEF Advance, TypeOK, Request
<1>2. CASE left # {}
  BY <1>2 DEF Advance, TypeOK, Request
<1> QED
  BY <1>1, <1>2

LEMMA CreateFailedPc ==
    ASSUME TypeOK, NEW m \in Migrations, NEW error, NEW effect,
           CreateFailed(m, error, effect)
    PROVE  request'[m].pc \in {"cleanup", "done"}
<1> DEFINE next == IF ToCleanUp(m) = {} THEN "done" ELSE "cleanup"
<1>1. next \in {"cleanup", "done"}
  OBVIOUS
<1>2. request' = [request EXCEPT ![m].left = ToCleanUp(m),
                                 ![m].reply = error, ![m].unanswered = effect,
                                 ![m].pc = next]
  BY DEF CreateFailed
<1> HIDE DEF next
<1> QED
  BY <1>1, <1>2 DEF TypeOK, Request

\* The two Lists touch nothing but the request.
LEMMA ListIsCalled ==
    ASSUME NEW m \in Migrations, ListSecrets(m) \/ ListConfigMaps(m)
    PROVE  request[m].pc \in {"secrets", "configMaps"} /\ UNCHANGED capp
<1>1. At(m, "secrets") \/ At(m, "configMaps")
  BY ZenonT(20) DEF ListSecrets, ListConfigMaps
<1>2. UNCHANGED <<capp, dep, backup>>
  BY ZenonT(20) DEF ListSecrets, ListConfigMaps
<1> QED
  BY <1>1, <1>2 DEF At

\* No other action touches a home or comes to a deletion.
LEMMA OtherActionsHomes ==
    ASSUME HomesInv, TypeOK', Homes \subseteq Homes', Pending' \subseteq Pending
    PROVE  HomesInv'
<1> DEFINE H == Homes'
<1>1. H \in SUBSET Places
  BY DEF Homes
<1> HIDE DEF H
<1>2. IsFiniteSet(H)
  BY <1>1, FS_Subset, ConstantsAssumption
<1> QED
  BY <1>2, NoHomeRemoved DEF H

\* A Capp that migrates is never lost, whatever the number of migrations and
\* of places, and whatever fails.
THEOREM CappNeverLost == Spec => []CappIsNeverLost
<1>1. Init => HomesInv
  BY HomesInit
<1>2. HomesInv /\ [Next]_vars => HomesInv'
  <2> SUFFICES ASSUME HomesInv, [Next]_vars PROVE HomesInv'
    OBVIOUS
  <2>1. TypeOK
    BY DEF HomesInv
  <2>2. CASE UNCHANGED vars
    <3>1. TypeOK' /\ Homes' = Homes /\ Pending' = Pending
      BY <2>1, <2>2 DEF vars, TypeOK, Homes, Pending, At
    <3> QED
      BY <3>1, OtherActionsHomes
  <2>3. ASSUME NEW m \in Migrations, CreateCapp(m)
        PROVE  HomesInv'
    BY <2>3, CreateCappHomes
  <2>4. ASSUME NEW m \in Migrations, DeleteSource(m)
        PROVE  HomesInv'
    BY <2>4, DeleteSourceHomes
  <2>5. ASSUME NEW m \in Migrations,
               \/ Start(m) \/ GetSource(m) \/ GetTarget(m)
               \/ ListSecrets(m) \/ ListConfigMaps(m)
               \/ Check(m) \/ Copy(m) \/ Cleanup(m) \/ Crash(m)
        PROVE  HomesInv'
    <3>1. TypeOK'
      BY <2>1, <2>5, StartType, GetSourceType, GetTargetType, ListSecretsType,
         ListConfigMapsType, CheckType, CopyType, CleanupType, CrashType
    <3>2. capp' = capp
      <4>1. CASE Start(m) \/ GetSource(m) \/ GetTarget(m) \/ Crash(m)
        BY <4>1 DEF Start, GetSource, GetTarget, Crash
      <4>2. CASE ListSecrets(m) \/ ListConfigMaps(m) \/ Check(m)
        BY <4>2, ListIsCalled DEF Check
      <4>3. CASE Copy(m) \/ Cleanup(m)
        BY <4>3 DEF Copy, Cleanup
      <4> QED
        BY <2>5, <4>1, <4>2, <4>3
    <3>3. request'[m].pc # "delete"
      <4>1. CASE Start(m)
        BY <2>1, <4>1 DEF TypeOK, Request, Start, Goto
      <4>2. CASE GetSource(m)
        BY <2>1, <4>2 DEF TypeOK, Request, GetSource, Reply
      <4>3. CASE GetTarget(m)
        BY <2>1, <4>3 DEF TypeOK, Request, GetTarget, Reply
      <4>9. CASE ListSecrets(m)
        BY <2>1, <4>9 DEF TypeOK, Request, ListSecrets, Reply
      <4>4. CASE ListConfigMaps(m)
        <5>1. CASE Reply(m, "failed")
          BY <2>1, <5>1 DEF TypeOK, Request, Reply
        <5> DEFINE names == request[m].listed \cup AtSource(m, ConfigMaps)
                   next == IF names = {} THEN "capp" ELSE "check"
        <5>2. next # "delete"
          OBVIOUS
        <5>3. CASE request' = [request EXCEPT ![m].listed = names,
                                 ![m].left = names, ![m].pc = next]
          <6> HIDE DEF names, next
          <6> QED
            BY <2>1, <5>2, <5>3 DEF TypeOK, Request
        <5> QED
          BY <4>4, <5>1, <5>3 DEF ListConfigMaps
      <4>5. CASE Check(m)
        <5>1. CASE Reply(m, "failed") \/ Reply(m, "conflict")
          BY <2>1, <5>1 DEF TypeOK, Request, Reply
        <5>2. ASSUME NEW d \in Due(m),
                     request' = Advance(m, d, "copy", request[m].listed)
              PROVE  request'[m].pc # "delete"
          <6>1. request'[m].pc \in {"copy", request[m].pc}
            BY <2>1, <5>2, AdvancePc
          <6> QED
            BY <4>5, <6>1 DEF Check, At
        <5> QED
          BY <4>5, <5>1, <5>2 DEF Check
      <4>6. CASE Copy(m)
        <5>1. ASSUME NEW d \in Due(m),
                     request' = [Advance(m, d, "capp", {}) EXCEPT
                                   ![m].copied = @ \cup {d}]
              PROVE  request'[m].pc # "delete"
          <6> DEFINE r == Advancing(request[m], d, "capp", {})
          <6>1. /\ r \in Request /\ r.pc \in {"capp", request[m].pc}
                /\ Advance(m, d, "capp", {}) = [request EXCEPT ![m] = r]
            <7>1. AdvanceIsRight(m, d, "capp", {})
              BY <2>1, AdvanceType DEF Steps
            <7> QED
              BY <7>1 DEF AdvanceIsRight
          <6> HIDE DEF r
          <6>2. request'[m].pc = r.pc
            BY <2>1, <5>1, <6>1 DEF TypeOK, Request
          <6>3. request[m].pc = "copy"
            BY <4>6 DEF Copy, At
          <6> QED
            BY <6>1, <6>2, <6>3
        <5>2. ASSUME NEW error, NEW effect, CreateFailed(m, error, effect)
              PROVE  request'[m].pc # "delete"
          BY <2>1, <5>2, CreateFailedPc
        <5> QED
          BY <4>6, <5>1, <5>2 DEF Copy
      <4>7. CASE Cleanup(m)
        <5>1. PICK d \in Due(m) :
                 \/ request' = Advance(m, d, "done", {})
                 \/ request' = [Advance(m, d, "done", {}) EXCEPT
                                  ![m].reply = "leftover"]
          BY <4>7 DEF Cleanup
        <5>2. request'[m].pc = Advance(m, d, "done", {})[m].pc
          <6> DEFINE r == Advancing(request[m], d, "done", {})
          <6>1. r \in Request
                /\ Advance(m, d, "done", {}) = [request EXCEPT ![m] = r]
            <7>1. AdvanceIsRight(m, d, "done", {})
              BY <2>1, AdvanceType
            <7> QED
              BY <7>1 DEF AdvanceIsRight
          <6> HIDE DEF r
          <6>2. [[request EXCEPT ![m] = r] EXCEPT ![m].reply = "leftover"]
                  = [request EXCEPT ![m] = [r EXCEPT !.reply = "leftover"]]
            BY <2>1 DEF TypeOK
          <6>3. [r EXCEPT !.reply = "leftover"].pc = r.pc
            BY DEF Request
          <6> QED
            BY <2>1, <5>1, <6>1, <6>2, <6>3 DEF TypeOK
        <5>3. request'[m].pc \in {"done", request[m].pc}
          BY <2>1, <5>2, AdvancePc
        <5> QED
          BY <4>7, <5>3 DEF Cleanup, At
      <4>8. CASE Crash(m)
        BY <2>1, <4>8 DEF TypeOK, Request, Crash, Reply
      <4> QED
        BY <2>5, <4>1, <4>2, <4>3, <4>4, <4>5, <4>6, <4>7, <4>8,
           <4>9
    <3>4. \A n \in Migrations \ {m} : request'[n] = request[n]
      <4>1. CASE Start(m) \/ GetSource(m) \/ GetTarget(m) \/ Crash(m)
        BY <2>1, <4>1
        DEF TypeOK, Start, GetSource, GetTarget, Crash, Goto, Reply
      <4>2. CASE ListSecrets(m)
        BY <2>1, <4>2 DEF TypeOK, ListSecrets, Reply
      <4>3. CASE ListConfigMaps(m)
        BY <2>1, <4>3 DEF TypeOK, ListConfigMaps, Reply
      <4>4. CASE Check(m)
        BY <2>1, <4>4 DEF TypeOK, Check, Reply, Advance
      <4>5. CASE Copy(m)
        <5>1. ASSUME NEW error, NEW effect, CreateFailed(m, error, effect)
              PROVE  \A n \in Migrations \ {m} : request'[n] = request[n]
          BY <2>1, <5>1 DEF TypeOK, CreateFailed
        <5>2. ASSUME NEW d, request' = [Advance(m, d, "capp", {}) EXCEPT
                                          ![m].copied = @ \cup {d}]
              PROVE  \A n \in Migrations \ {m} : request'[n] = request[n]
          <6> DEFINE r == Advancing(request[m], d, "capp", {})
          <6>1. Advance(m, d, "capp", {}) = [request EXCEPT ![m] = r]
            <7>1. AdvanceIsRight(m, d, "capp", {})
              BY <2>1, AdvanceType DEF Steps
            <7> QED
              BY <7>1 DEF AdvanceIsRight
          <6> HIDE DEF r
          <6> QED
            BY <2>1, <5>2, <6>1 DEF TypeOK
        <5> QED
          BY <4>5, <5>1, <5>2 DEF Copy
      <4>6. CASE Cleanup(m)
        <5>1. ASSUME NEW d,
                     \/ request' = Advance(m, d, "done", {})
                     \/ request' = [Advance(m, d, "done", {}) EXCEPT
                                      ![m].reply = "leftover"]
              PROVE  \A n \in Migrations \ {m} : request'[n] = request[n]
          <6> DEFINE r == Advancing(request[m], d, "done", {})
          <6>1. Advance(m, d, "done", {}) = [request EXCEPT ![m] = r]
            <7>1. AdvanceIsRight(m, d, "done", {})
              BY <2>1, AdvanceType
            <7> QED
              BY <7>1 DEF AdvanceIsRight
          <6> HIDE DEF r
          <6> QED
            BY <2>1, <5>1, <6>1 DEF TypeOK
        <5> QED
          BY <4>6, <5>1 DEF Cleanup
      <4> QED
        BY <2>5, <4>1, <4>2, <4>3, <4>4, <4>5, <4>6
    <3>5. Homes' = Homes /\ Pending' \subseteq Pending
      BY <3>2, <3>3, <3>4 DEF Homes, Pending, At
    <3> QED
      BY <3>1, <3>5, OtherActionsHomes
  <2>6. ASSUME NEW m \in Migrations, PatchBypass(m)
        PROVE  HomesInv'
    <3>1. TypeOK'
      BY <2>1, <2>6, PatchBypassType
    <3>2. Homes \subseteq Homes'
      <4>1. CASE capp' = capp
        BY <4>1 DEF Homes
      <4>2. CASE /\ Target(m) # NoCapp
                 /\ capp' = [capp EXCEPT ![request[m].to].bypass = FALSE]
        <5>1. Target(m) \in Capp /\ request[m].to \in Places
          BY <2>1, <4>2, RequestParts DEF Target, TypeOK
        <5>2. [Target(m) EXCEPT !.bypass = FALSE] \in Capp
          BY <5>1 DEF Capp
        <5>3. capp' = [capp EXCEPT ![request[m].to] =
                                      [Target(m) EXCEPT !.bypass = FALSE]]
          BY <2>1, <4>2, <5>1 DEF Target, TypeOK
        <5> HIDE <4>2
        <5> QED
          BY <2>1, <5>1, <5>2, <5>3, ConstantsAssumption DEF Homes, TypeOK
      <4> QED
        BY <2>6, <4>1, <4>2 DEF PatchBypass
    <3>3. \/ \E code \in Replies : Reply(m, code)
          \/ Unanswered(m, "patch", "unpatched")
      BY <2>6 DEF PatchBypass, Replies
    <3>4. Pending' \subseteq Pending
      <4>1. request'[m].pc = "done"
        BY <2>1, <3>3 DEF Reply, Unanswered, TypeOK, Request
      <4>2. \A n \in Migrations \ {m} : request'[n] = request[n]
        BY <2>1, <3>3 DEF Reply, Unanswered, TypeOK
      <4> QED
        BY <4>1, <4>2 DEF Pending, At
    <3> QED
      BY <3>1, <3>2, <3>4, OtherActionsHomes
  <2>7. ASSUME NEW p \in Places, CreateOther(p)
        PROVE  HomesInv'
    <3>1. TypeOK'
      BY <2>1, <2>7, CreateOtherType
    <3>2. capp'[p] \in Capp
      BY <2>1, <2>7 DEF CreateOther, TypeOK, Capp, Hosts
    <3>3. \A q \in Places \ {p} : capp'[q] = capp[q]
      BY <2>1, <2>7 DEF CreateOther, TypeOK
    <3>4. Homes \subseteq Homes' /\ Pending' = Pending
      BY <2>7, <3>2, <3>3, ConstantsAssumption
         DEF CreateOther, Homes, Pending, At
    <3> QED
      BY <3>1, <3>4, OtherActionsHomes
  <2>8. ASSUME NEW p \in Places, NEW d \in Deps, CreateDep(p, d)
        PROVE  HomesInv'
    <3>1. TypeOK'
      BY <2>1, <2>8, CreateDepType
    <3>2. Homes' = Homes /\ Pending' = Pending
      BY <2>8 DEF CreateDep, Homes, Pending, At
    <3> QED
      BY <3>1, <3>2, OtherActionsHomes
  <2> QED
    BY <2>2, <2>3, <2>4, <2>5, <2>6, <2>7, <2>8 DEF Next, Step, Finished
<1>3. HomesInv => CappIsNeverLost
  <2> SUFFICES ASSUME HomesInv PROVE Homes # {}
    BY DEF Homes, CappIsNeverLost
  <2>1. Cardinality(Homes) # 0
    BY FiniteSets DEF HomesInv
  <2> QED
    BY <2>1, FS_EmptySet
<1> QED
  BY <1>1, <1>2, <1>3, PTL DEF Spec
-----------------------------------------------------------------------------
(* What each action makes of the request m: the record r replaces it.      *)

\* What a handler does not change once it has resolved the hostname.
SameParts(r, q) ==
    /\ r.to = q.to /\ r.from = q.from /\ r.move = q.move
    /\ r.read = q.read /\ r.effective = q.effective

Answered(r, q, code) ==
    /\ SameParts(r, q) /\ r.pc = "done" /\ r.reply = code
    /\ r.listed = q.listed /\ r.unanswered = q.unanswered

Errors == {"conflict", "failed"}

LEMMA ReplyEffect ==
    ASSUME TypeOK, NEW m \in Migrations, NEW code \in Replies, Reply(m, code)
    PROVE  \E r \in Request : /\ request' = [request EXCEPT ![m] = r]
                              /\ Answered(r, request[m], code)
<1> DEFINE r == [request[m] EXCEPT !.pc = "done", !.reply = code]
<1>1. r \in Request /\ Answered(r, request[m], code)
  BY RequestParts DEF Request, Answered, SameParts
<1>2. request' = [request EXCEPT ![m] = r]
  BY DEF Reply, TypeOK
<1> QED
  BY <1>1, <1>2

\* The last write took effect, and the answer is as if it had not.
WasUnanswered(r, q, write, code) ==
    /\ SameParts(r, q) /\ r.pc = "done" /\ r.reply = code
    /\ r.listed = q.listed /\ r.unanswered = write

LEMMA UnansweredEffect ==
    ASSUME TypeOK, NEW m \in Migrations, NEW write \in Writes,
           NEW code \in Replies, Unanswered(m, write, code)
    PROVE  \E r \in Request : /\ request' = [request EXCEPT ![m] = r]
                              /\ WasUnanswered(r, request[m], write, code)
<1> DEFINE r == [request[m] EXCEPT !.pc = "done", !.reply = code,
                                   !.unanswered = write]
<1>1. r \in Request /\ WasUnanswered(r, request[m], write, code)
  BY RequestParts DEF Request, WasUnanswered, SameParts
<1>2. request' = [request EXCEPT ![m] = r]
  BY DEF Unanswered, TypeOK
<1> QED
  BY <1>1, <1>2

\* A request goes on with what it has.
GoesOn(r, q, pc) ==
    /\ SameParts(r, q) /\ r.pc = pc /\ r.reply = q.reply
    /\ r.listed = q.listed /\ r.copied = q.copied
    /\ r.unanswered = q.unanswered

LEMMA GotoEffect ==
    ASSUME TypeOK, NEW m \in Migrations, NEW pc \in Steps, Goto(m, pc)
    PROVE  \E r \in Request : /\ request' = [request EXCEPT ![m] = r]
                              /\ GoesOn(r, request[m], pc)
<1> DEFINE r == [request[m] EXCEPT !.pc = pc]
<1>1. r \in Request /\ GoesOn(r, request[m], pc)
  BY RequestParts DEF Request, GoesOn, SameParts
<1>2. request' = [request EXCEPT ![m] = r]
  BY DEF Goto, TypeOK
<1> QED
  BY <1>1, <1>2

\* After a failed Create there is something to clean up, or nothing.
FailedCreate(r, q, effect) ==
    /\ SameParts(r, q) /\ r.reply \in Errors /\ r.unanswered = effect
    /\ r.left = q.copied
    /\ r.pc = IF q.copied = {} THEN "done" ELSE "cleanup"

LEMMA CreateFailedEffect ==
    ASSUME TypeOK, NEW m \in Migrations, NEW error \in Errors,
           NEW effect \in Writes \cup {"none"},
           CreateFailed(m, error, effect)
    PROVE  \E r \in Request : /\ request' = [request EXCEPT ![m] = r]
                              /\ FailedCreate(r, request[m], effect)
<1> DEFINE next == IF ToCleanUp(m) = {} THEN "done" ELSE "cleanup"
           r == [request[m] EXCEPT !.left = ToCleanUp(m), !.reply = error,
                                   !.unanswered = effect, !.pc = next]
<1>1. ToCleanUp(m) \subseteq Deps /\ next \in Steps \cup {"done"}
  BY RequestParts DEF ToCleanUp, Steps
<1> HIDE DEF next
<1>2. r \in Request
  <2>1. error \in Replies
    BY DEF Errors, Replies
  <2> QED
    BY <1>1, <2>1, RequestParts DEF Request
<1>3. request' = [request EXCEPT ![m] = r]
  BY DEF CreateFailed, TypeOK, next
<1>4. /\ SameParts(r, request[m]) /\ r.reply = error /\ r.unanswered = effect
      /\ r.left = ToCleanUp(m) /\ r.pc = next
  BY RequestParts DEF SameParts, Request
<1> HIDE DEF r
<1>5. FailedCreate(r, request[m], effect)
  BY <1>4 DEF FailedCreate, ToCleanUp, next
<1> QED
  BY <1>2, <1>3, <1>5

\* One resource is dealt with.
Advanced(r, q, d, next, again) ==
    /\ SameParts(r, q) /\ r.reply = q.reply
    /\ r.listed = q.listed /\ r.copied = q.copied
    /\ r.unanswered = q.unanswered
    /\ r.left = IF q.left \ {d} = {} THEN again ELSE q.left \ {d}
    /\ r.pc = IF q.left \ {d} = {} THEN next ELSE q.pc

LEMMA AdvanceEffect ==
    ASSUME TypeOK, NEW m \in Migrations, NEW d,
           NEW next \in Steps \cup {"done"}, NEW again \in SUBSET Deps
    PROVE  \E r \in Request :
              /\ Advance(m, d, next, again) = [request EXCEPT ![m] = r]
              /\ Advanced(r, request[m], d, next, again)
<1> DEFINE r == Advancing(request[m], d, next, again)
<1>1. r \in Request /\ Advance(m, d, next, again) = [request EXCEPT ![m] = r]
  <2>1. AdvanceIsRight(m, d, next, again)
    BY AdvanceType
  <2> QED
    BY <2>1 DEF AdvanceIsRight
<1>2. Advanced(r, request[m], d, next, again)
  <2>1. AdvanceIsRight(m, d, next, again)
    BY AdvanceType
  <2> QED
    BY <2>1 DEF AdvanceIsRight, Advanced, SameParts, SameButLeft
<1> QED
  BY <1>1, <1>2

LEMMA GetSourceEffect ==
    ASSUME TypeOK, NEW m \in Migrations, GetSource(m)
    PROVE  \E r \in Request :
              /\ request' = [request EXCEPT ![m] = r]
              /\ \/ Answered(r, request[m], "failed")
                 \/ /\ r.pc = "target" /\ r.to = request[m].to
                    /\ r.reply = request[m].reply
                    /\ r.copied = request[m].copied
                    /\ r.unanswered = request[m].unanswered
                    /\ r.from = request[m].from
                    /\ r.read = capp[request[m].from] /\ r.read # NoCapp
<1>1. CASE Reply(m, "failed")
  BY <1>1, ReplyEffect DEF Replies
<1>2. CASE /\ capp[request[m].from] # NoCapp
           /\ request' = [request EXCEPT ![m].read = capp[request[m].from],
                                         ![m].pc = "target"]
  <2> DEFINE source == capp[request[m].from]
             r == [request[m] EXCEPT !.read = source, !.pc = "target"]
  <2>1. source \in Capp
    BY <1>2, RequestParts DEF TypeOK
  <2>2. r \in Request
    BY <2>1, RequestParts DEF Request, Steps
  <2>3. request' = [request EXCEPT ![m] = r]
    BY <1>2 DEF TypeOK
  <2>4. /\ r.pc = "target" /\ r.to = request[m].to
        /\ r.reply = request[m].reply /\ r.copied = request[m].copied
        /\ r.from = request[m].from /\ r.read = source
        /\ r.unanswered = request[m].unanswered
    BY RequestParts DEF Request
  <2> QED
    BY <1>2, <2>2, <2>3, <2>4
<1> QED
  BY <1>1, <1>2 DEF GetSource

\* The hostname stays as it is only when the caller asked for a move or there
\* is none.
HostSettled(r) == r.move \/ r.effective # NoHost \/ r.read.host = NoHost

\* The hostname that is to be set, if any, replaces another one.
HostDecided(r) ==
    r.effective # NoHost => r.read.host \notin {NoHost, r.effective}

LEMMA GetTargetEffect ==
    ASSUME TypeOK, NEW m \in Migrations, GetTarget(m)
    PROVE  \E r \in Request :
              /\ request' = [request EXCEPT ![m] = r]
              /\ \/ \E code \in Errors : Answered(r, request[m], code)
                 \/ /\ r.pc = "secrets" /\ r.to = request[m].to
                    /\ r.reply = request[m].reply
                    /\ r.copied = request[m].copied
                    /\ r.unanswered = request[m].unanswered
                    /\ r.from = request[m].from /\ r.read = request[m].read
                    /\ HostSettled(r) /\ HostDecided(r)
<1> DEFINE source == request[m].read.host
           wanted == request[m].host
           move   == request[m].move
           host   == EffectiveHostname(source, wanted, move)
<1>1. ASSUME NEW code \in Errors, Reply(m, code)
      PROVE  \E r \in Request : /\ request' = [request EXCEPT ![m] = r]
                                /\ Answered(r, request[m], code)
  BY <1>1, ReplyEffect DEF Replies, Errors
<1>2. CASE /\ ~HostnameRejected(source, wanted, move)
           /\ request' = [request EXCEPT ![m].pc = "secrets",
                                         ![m].effective = host]
  <2> DEFINE r == [request[m] EXCEPT !.pc = "secrets", !.effective = host]
  <2>1. host \in Hosts
    BY RequestParts DEF EffectiveHostname, Request, Hosts
  <2>2. r \in Request
    BY <2>1, RequestParts DEF Request, Steps
  <2>3. request' = [request EXCEPT ![m] = r]
    BY <1>2 DEF TypeOK
  <2>4. /\ r.pc = "secrets" /\ r.to = request[m].to /\ r.effective = host
        /\ r.reply = request[m].reply /\ r.copied = request[m].copied
        /\ r.move = move /\ r.read = request[m].read
        /\ r.from = request[m].from
        /\ r.unanswered = request[m].unanswered
    BY RequestParts DEF Request
  <2>5. move \/ host # NoHost \/ source = NoHost
    BY <1>2 DEF HostnameRejected, EffectiveHostname
  <2>6. HostSettled(r) /\ HostDecided(r)
    <3>1. host # NoHost => source \notin {NoHost, host}
      BY <1>2 DEF HostnameRejected, EffectiveHostname
    <3> QED
      BY <2>4, <2>5, <3>1 DEF HostSettled, HostDecided
  <2> QED
    BY <2>2, <2>3, <2>4, <2>6
<1>3. \/ \E code \in Errors : Reply(m, code)
      \/ /\ ~HostnameRejected(source, wanted, move)
         /\ request' = [request EXCEPT ![m].pc = "secrets",
                                       ![m].effective = host]
  BY DEF GetTarget, Errors
<1> QED
  BY <1>1, <1>2, <1>3

LEMMA ListSecretsEffect ==
    ASSUME TypeOK, NEW m \in Migrations, ListSecrets(m)
    PROVE  \E r \in Request :
              /\ request' = [request EXCEPT ![m] = r]
              /\ \/ Answered(r, request[m], "failed")
                 \/ /\ SameParts(r, request[m]) /\ r.reply = request[m].reply
                    /\ r.copied = request[m].copied
                    /\ r.unanswered = request[m].unanswered
                    /\ r.pc = "configMaps"
<1> DEFINE names == AtSource(m, Secrets)
           r == [request[m] EXCEPT !.listed = names, !.pc = "configMaps"]
<1>1. CASE Reply(m, "failed")
  BY <1>1, ReplyEffect DEF Replies
<1>2. CASE request' = [request EXCEPT ![m].listed = names,
                                      ![m].pc = "configMaps"]
  <2>1. names \subseteq Deps
    BY DEF AtSource, Deps
  <2> HIDE DEF names
  <2>2. r \in Request
    BY <2>1, RequestParts DEF Request, Steps
  <2>3. request' = [request EXCEPT ![m] = r]
    BY <1>2 DEF TypeOK
  <2>4. /\ SameParts(r, request[m]) /\ r.reply = request[m].reply
        /\ r.copied = request[m].copied /\ r.pc = "configMaps"
        /\ r.unanswered = request[m].unanswered
    BY RequestParts DEF Request, SameParts
  <2> HIDE DEF r
  <2> QED
    BY <2>2, <2>3, <2>4
<1> QED
  BY <1>1, <1>2 DEF ListSecrets

LEMMA ListConfigMapsEffect ==
    ASSUME TypeOK, NEW m \in Migrations, ListConfigMaps(m)
    PROVE  \E r \in Request :
              /\ request' = [request EXCEPT ![m] = r]
              /\ \/ Answered(r, request[m], "failed")
                 \/ /\ SameParts(r, request[m]) /\ r.reply = request[m].reply
                    /\ r.copied = request[m].copied
                    /\ r.unanswered = request[m].unanswered
                    /\ r.pc \in {"capp", "check"}
                    /\ r.pc = "capp" => r.listed = {}
<1> DEFINE names == request[m].listed \cup AtSource(m, ConfigMaps)
           next == IF names = {} THEN "capp" ELSE "check"
           r == [request[m] EXCEPT !.listed = names, !.left = names,
                                   !.pc = next]
<1>1. CASE Reply(m, "failed")
  BY <1>1, ReplyEffect DEF Replies
<1>2. CASE request' = [request EXCEPT ![m].listed = names, ![m].left = names,
                                      ![m].pc = next]
  <2>1. names \subseteq Deps /\ next \in {"capp", "check"}
        /\ (next = "capp" => names = {})
    BY RequestParts DEF AtSource, Deps
  <2>5. next \in Steps
    BY <2>1 DEF Steps
  <2> HIDE DEF names, next
  <2>2. r \in Request
    BY <2>1, <2>5, RequestParts DEF Request
  <2>3. request' = [request EXCEPT ![m] = r]
    BY <1>2 DEF TypeOK
  <2>4. /\ SameParts(r, request[m]) /\ r.reply = request[m].reply
        /\ r.copied = request[m].copied
        /\ r.unanswered = request[m].unanswered
        /\ r.pc = next /\ r.listed = names
    BY RequestParts DEF Request, SameParts
  <2> HIDE DEF r
  <2> QED
    BY <2>1, <2>2, <2>3, <2>4
<1> QED
  BY <1>1, <1>2 DEF ListConfigMaps

LEMMA CheckEffect ==
    ASSUME TypeOK, NEW m \in Migrations, Check(m)
    PROVE  \E r \in Request :
              /\ request' = [request EXCEPT ![m] = r]
              /\ \/ \E code \in Errors : Answered(r, request[m], code)
                 \/ \E d : Advanced(r, request[m], d, "copy",
                                    request[m].listed)
<1>1. ASSUME NEW code \in Errors, Reply(m, code)
      PROVE  \E r \in Request : /\ request' = [request EXCEPT ![m] = r]
                                /\ Answered(r, request[m], code)
  BY <1>1, ReplyEffect DEF Replies, Errors
<1>2. ASSUME NEW d, request' = Advance(m, d, "copy", request[m].listed)
      PROVE  \E r \in Request :
                /\ request' = [request EXCEPT ![m] = r]
                /\ Advanced(r, request[m], d, "copy", request[m].listed)
  BY <1>2, AdvanceEffect, RequestParts DEF Steps
<1>3. \/ \E code \in Errors : Reply(m, code)
      \/ \E d : request' = Advance(m, d, "copy", request[m].listed)
  BY DEF Check, Errors
<1> QED
  BY <1>1, <1>2, <1>3

\* A resource is created where there was none.  It counts as created, or the
\* answer is an error: then, or when none is created, what was created before
\* is cleaned up.
MakesCopy(m, d) ==
    /\ dep[request[m].to][d] = NoDep
    /\ dep' = [dep EXCEPT ![request[m].to][d] = m]

LEMMA CopyEffect ==
    ASSUME TypeOK, NEW m \in Migrations, Copy(m)
    PROVE  \E r \in Request :
              /\ request' = [request EXCEPT ![m] = r]
              /\ \/ UNCHANGED dep /\ FailedCreate(r, request[m], "none")
                 \/ \E d \in Deps :
                       MakesCopy(m, d) /\ FailedCreate(r, request[m], d)
                 \/ \E d \in Deps \cap request[m].left :
                       /\ MakesCopy(m, d)
                       /\ SameParts(r, request[m])
                       /\ r.reply = request[m].reply
                       /\ r.unanswered = request[m].unanswered
                       /\ r.listed = request[m].listed
                       /\ r.copied = request[m].copied \cup {d}
                       /\ r.left = request[m].left \ {d}
                       /\ r.pc = IF r.left = {} THEN "capp" ELSE request[m].pc
<1>1. ASSUME NEW error \in Errors, NEW effect \in Writes \cup {"none"},
             CreateFailed(m, error, effect)
      PROVE  \E r \in Request : /\ request' = [request EXCEPT ![m] = r]
                                /\ FailedCreate(r, request[m], effect)
  BY <1>1, CreateFailedEffect
<1>2. ASSUME NEW d \in Due(m),
             request' = [Advance(m, d, "capp", {}) EXCEPT
                           ![m].copied = @ \cup {d}]
      PROVE  \E r \in Request :
              /\ request' = [request EXCEPT ![m] = r]
              /\ SameParts(r, request[m])
              /\ r.reply = request[m].reply
              /\ r.unanswered = request[m].unanswered
              /\ r.listed = request[m].listed
              /\ r.copied = request[m].copied \cup {d}
              /\ r.left = request[m].left \ {d}
              /\ r.pc = IF r.left = {} THEN "capp" ELSE request[m].pc
  <2>1. PICK q \in Request :
              /\ Advance(m, d, "capp", {}) = [request EXCEPT ![m] = q]
              /\ Advanced(q, request[m], d, "capp", {})
    BY AdvanceEffect DEF Steps
  <2> DEFINE r == [q EXCEPT !.copied = @ \cup {d}]
  <2>2. d \in Deps
    BY RequestParts DEF Due
  <2>3. r \in Request
    BY <2>2 DEF Request
  <2>4. request' = [request EXCEPT ![m] = r]
    BY <1>2, <2>1 DEF TypeOK
  <2>5. /\ r.to = q.to /\ r.from = q.from /\ r.move = q.move
        /\ r.read = q.read /\ r.effective = q.effective
        /\ r.reply = q.reply /\ r.listed = q.listed
        /\ r.unanswered = q.unanswered
        /\ r.copied = q.copied \cup {d} /\ r.left = q.left /\ r.pc = q.pc
    BY DEF Request
  <2> HIDE DEF r
  <2>6. q.left = request[m].left \ {d}
    BY <2>1 DEF Advanced
  <2>7. SameParts(r, request[m])
    BY <2>1, <2>5 DEF Advanced, SameParts
  <2>8. r.pc = IF r.left = {} THEN "capp" ELSE request[m].pc
    BY <2>1, <2>5, <2>6 DEF Advanced
  <2> QED
    BY <2>1, <2>3, <2>4, <2>5, <2>6, <2>7, <2>8 DEF Advanced
<1>3. Due(m) \subseteq Deps \cap request[m].left
  BY RequestParts DEF Due
<1> DEFINE Made(d) == request' = [Advance(m, d, "capp", {}) EXCEPT
                                    ![m].copied = @ \cup {d}]
<1>4. \/ UNCHANGED dep /\ \E error \in Errors : CreateFailed(m, error, "none")
      \/ \E d \in Due(m) : MakesCopy(m, d) /\ CreateFailed(m, "failed", d)
      \/ \E d \in Due(m) : MakesCopy(m, d) /\ Made(d)
  BY DEF Copy, Errors, MakesCopy
<1>5. CASE UNCHANGED dep /\ \E error \in Errors : CreateFailed(m, error, "none")
  BY <1>1, <1>5
<1>7. CASE \E d \in Due(m) : MakesCopy(m, d) /\ CreateFailed(m, "failed", d)
  BY <1>1, <1>3, <1>7 DEF Errors, Writes
<1>6. CASE \E d \in Due(m) : MakesCopy(m, d) /\ Made(d)
  <2>1. PICK d \in Due(m) : MakesCopy(m, d) /\ Made(d)
    BY <1>6
  <2>2. d \in Deps \cap request[m].left
    BY <1>3
  <2> QED
    BY <1>2, <2>1, <2>2
<1> QED
  BY <1>4, <1>5, <1>6, <1>7

\* One resource less is left to clean up; it is gone unless the answer tells.
CleansUp(m, d) == dep' = [dep EXCEPT ![request[m].to][d] = NoDep]

LEMMA CleanupEffect ==
    ASSUME TypeOK, NEW m \in Migrations, Cleanup(m)
    PROVE  \E r \in Request, d \in request[m].left :
              /\ request' = [request EXCEPT ![m] = r]
              /\ SameParts(r, request[m])
              /\ r.left = request[m].left \ {d}
              /\ r.pc = IF r.left = {} THEN "done" ELSE "cleanup"
              /\ r.unanswered = request[m].unanswered
              /\ CleansUp(m, d) \/ UNCHANGED dep
              /\ \/ r.reply = request[m].reply /\ CleansUp(m, d)
                 \/ r.reply = "leftover"
<1>1. PICK d \in Due(m) :
          /\ CleansUp(m, d) \/ UNCHANGED dep
          /\ \/ /\ CleansUp(m, d)
                /\ request' = Advance(m, d, "done", {})
             \/ request' = [Advance(m, d, "done", {}) EXCEPT
                              ![m].reply = "leftover"]
  BY DEF Cleanup, CleansUp
<1>2. d \in request[m].left
  BY DEF Due
<1>3. PICK q \in Request :
              /\ Advance(m, d, "done", {}) = [request EXCEPT ![m] = q]
              /\ Advanced(q, request[m], d, "done", {})
  BY AdvanceEffect DEF Steps
<1>4. /\ q.left = request[m].left \ {d} /\ request[m].pc = "cleanup"
      /\ q.pc = IF q.left = {} THEN "done" ELSE "cleanup"
      /\ SameParts(q, request[m]) /\ q.reply = request[m].reply
      /\ q.unanswered = request[m].unanswered
  BY <1>3 DEF Advanced, Cleanup, At
<1>5. CASE CleansUp(m, d) /\ request' = Advance(m, d, "done", {})
  BY <1>2, <1>3, <1>4, <1>5
<1>6. CASE request' = [Advance(m, d, "done", {}) EXCEPT
                         ![m].reply = "leftover"]
  <2> DEFINE r == [q EXCEPT !.reply = "leftover"]
  <2>1. r \in Request
    BY DEF Request, Replies
  <2>2. request' = [request EXCEPT ![m] = r]
    BY <1>3, <1>6 DEF TypeOK
  <2>3. /\ SameParts(r, q) /\ r.left = q.left /\ r.pc = q.pc
        /\ r.reply = "leftover" /\ r.unanswered = q.unanswered
    BY DEF Request, SameParts
  <2> HIDE DEF r
  <2>4. SameParts(r, request[m])
    BY <1>4, <2>3 DEF SameParts
  <2> QED
    BY <1>1, <1>2, <1>4, <1>6, <2>1, <2>2, <2>3, <2>4
<1> QED
  BY <1>1, <1>5, <1>6

CreatesCapp(m) ==
    /\ Target(m) = NoCapp
    /\ capp' = [capp EXCEPT ![request[m].to] =
                  PrepareCapp(request[m].read, request[m].effective)]

LEMMA CreateCappEffect ==
    ASSUME TypeOK, NEW m \in Migrations, CreateCapp(m)
    PROVE  \E r \in Request :
              /\ request' = [request EXCEPT ![m] = r]
              /\ \/ UNCHANGED capp /\ FailedCreate(r, request[m], "none")
                 \/ CreatesCapp(m) /\ FailedCreate(r, request[m], "capp")
                 \/ /\ CreatesCapp(m)
                    /\ \/ GoesOn(r, request[m], "delete") /\ request[m].move
                       \/ Answered(r, request[m], "ok") /\ ~request[m].move
<1>1. ASSUME NEW error \in Errors, NEW effect \in {"none", "capp"},
             CreateFailed(m, error, effect)
      PROVE  \E r \in Request : /\ request' = [request EXCEPT ![m] = r]
                                /\ FailedCreate(r, request[m], effect)
  BY <1>1, CreateFailedEffect DEF Writes
<1>2. ASSUME Goto(m, "delete")
      PROVE  \E r \in Request : /\ request' = [request EXCEPT ![m] = r]
                                /\ GoesOn(r, request[m], "delete")
  BY <1>2, GotoEffect DEF Steps
<1>3. ASSUME Reply(m, "ok")
      PROVE  \E r \in Request : /\ request' = [request EXCEPT ![m] = r]
                                /\ Answered(r, request[m], "ok")
  BY <1>3, ReplyEffect DEF Replies
<1>4. \/ UNCHANGED capp /\ \E error \in Errors : CreateFailed(m, error, "none")
      \/ CreatesCapp(m) /\ CreateFailed(m, "failed", "capp")
      \/ /\ CreatesCapp(m)
         /\ \/ Goto(m, "delete") /\ request[m].move
            \/ Reply(m, "ok") /\ ~request[m].move
  BY DEF CreateCapp, CreatesCapp, AfterCreate, Errors
<1>5. "failed" \in Errors
  BY DEF Errors
<1> QED
  BY <1>1, <1>2, <1>3, <1>4, <1>5

LEMMA DeleteSourceEffect ==
    ASSUME TypeOK, NEW m \in Migrations, DeleteSource(m)
    PROVE  \E r \in Request :
              /\ request' = [request EXCEPT ![m] = r]
              /\ \/ /\ capp' = [capp EXCEPT ![request[m].from] = NoCapp]
                    /\ \/ GoesOn(r, request[m], "patch")
                       \/ Answered(r, request[m], "ok") /\ ~Bypassed(m)
                       \/ WasUnanswered(r, request[m], "delete", "kept")
                 \/ UNCHANGED capp /\ Answered(r, request[m], "kept")
<1>1. ASSUME Goto(m, "patch")
      PROVE  \E r \in Request : /\ request' = [request EXCEPT ![m] = r]
                                /\ GoesOn(r, request[m], "patch")
  BY <1>1, GotoEffect DEF Steps
<1>2. ASSUME NEW code \in {"ok", "kept"}, Reply(m, code)
      PROVE  \E r \in Request : /\ request' = [request EXCEPT ![m] = r]
                                /\ Answered(r, request[m], code)
  BY <1>2, ReplyEffect DEF Replies
<1>3. ASSUME Unanswered(m, "delete", "kept")
      PROVE  \E r \in Request :
                /\ request' = [request EXCEPT ![m] = r]
                /\ WasUnanswered(r, request[m], "delete", "kept")
  BY <1>3, UnansweredEffect DEF Replies, Writes
<1>4. \/ /\ capp' = [capp EXCEPT ![request[m].from] = NoCapp]
         /\ \/ Goto(m, "patch") \/ (Reply(m, "ok") /\ ~Bypassed(m))
            \/ Unanswered(m, "delete", "kept")
      \/ UNCHANGED capp /\ Reply(m, "kept")
  BY DEF DeleteSource
<1> QED
  BY <1>1, <1>2, <1>3, <1>4

LEMMA PatchBypassEffect ==
    ASSUME TypeOK, NEW m \in Migrations, PatchBypass(m)
    PROVE  \E r \in Request :
              /\ request' = [request EXCEPT ![m] = r]
              /\ \/ /\ capp' = [capp EXCEPT ![request[m].to].bypass = FALSE]
                    /\ Target(m) # NoCapp
                    /\ \/ Answered(r, request[m], "ok")
                       \/ WasUnanswered(r, request[m], "patch", "unpatched")
                 \/ UNCHANGED capp /\ Answered(r, request[m], "unpatched")
<1>1. ASSUME NEW code \in {"ok", "unpatched"}, Reply(m, code)
      PROVE  \E r \in Request : /\ request' = [request EXCEPT ![m] = r]
                                /\ Answered(r, request[m], code)
  BY <1>1, ReplyEffect DEF Replies
<1>2. ASSUME Unanswered(m, "patch", "unpatched")
      PROVE  \E r \in Request :
                /\ request' = [request EXCEPT ![m] = r]
                /\ WasUnanswered(r, request[m], "patch", "unpatched")
  BY <1>2, UnansweredEffect DEF Replies, Writes
<1> QED
  BY <1>1, <1>2 DEF PatchBypass

-----------------------------------------------------------------------------
(* The copied resources.  A migration's own copies at the target are, at   *)
(* each step of its handler, exactly the ones it remembers, but for the    *)
(* one whose Create was answered with an error; nobody else removes them,  *)
(* since a clean-up only deletes what the migration itself has created and *)
(* nothing is created over what is there.                                  *)

\* The resources at the target that the migration has created.
Copies(m) == {d \in Deps : dep[request[m].to][d] = m}

BeforeCopy == {"idle", "source", "target", "secrets", "configMaps", "check"}
AfterCopy == {"capp", "delete", "patch"}
Served == {"ok", "kept", "unpatched"}

\* What the request q remembers of its copies.
Remembers(q, copies) ==
    /\ q.pc \in BeforeCopy => copies = {} /\ q.copied = {}
    /\ q.pc = "copy" => copies = q.copied /\ q.listed = q.copied \cup q.left
    /\ q.pc \in AfterCopy => copies = q.copied /\ q.listed = q.copied
    /\ q.pc = "cleanup" => /\ q.left \subseteq copies
                           /\ q.reply \in Errors =>
                                 copies \subseteq q.left \cup {q.unanswered}
                           /\ q.reply \in Errors \cup {"leftover"}
    /\ q.pc = "done" => /\ q.reply \in Errors => copies \subseteq {q.unanswered}
                        /\ q.reply \in Served => q.listed \subseteq copies

CopiesInv ==
    /\ TypeOK
    /\ \A m \in Migrations : Remembers(request[m], Copies(m))

\* A step of the migration m: what has to be shown.
LEMMA OneMigrationMoves ==
    ASSUME CopiesInv, TypeOK', NEW m \in Migrations, NEW r \in Request,
           request' = [request EXCEPT ![m] = r],
           \A n \in Migrations \ {m} : Copies(n)' = Copies(n),
           Remembers(r, Copies(m)')
    PROVE  CopiesInv'
<1>1. request'[m] = r /\ \A n \in Migrations \ {m} : request'[n] = request[n]
  BY DEF CopiesInv, TypeOK
<1>2. ASSUME NEW n \in Migrations
      PROVE  Remembers(request'[n], Copies(n)')
  <2>1. CASE n = m
    BY <1>1, <2>1
  <2>2. CASE n # m
    BY <1>1, <2>2 DEF CopiesInv
  <2> QED
    BY <2>1, <2>2
<1> QED
  BY <1>2 DEF CopiesInv, Remembers

\* A step that leaves the resources alone.
LEMMA CopiesStay ==
    ASSUME TypeOK, NEW m \in Migrations, NEW r, r.to = request[m].to,
           request' = [request EXCEPT ![m] = r], UNCHANGED dep
    PROVE  \A n \in Migrations : Copies(n)' = Copies(n)
BY DEF TypeOK, Copies

LEMMA CopyKeepsCopies ==
    ASSUME CopiesInv, TypeOK', NEW m \in Migrations, Copy(m)
    PROVE  CopiesInv'
<1>1. TypeOK /\ Remembers(request[m], Copies(m)) /\ request[m].pc = "copy"
  BY DEF CopiesInv, Copy, At
<1>2. PICK r \in Request :
              /\ request' = [request EXCEPT ![m] = r]
              /\ \/ UNCHANGED dep /\ FailedCreate(r, request[m], "none")
                 \/ \E d \in Deps :
                       MakesCopy(m, d) /\ FailedCreate(r, request[m], d)
                 \/ \E d \in Deps \cap request[m].left :
                       /\ MakesCopy(m, d)
                       /\ SameParts(r, request[m])
                       /\ r.reply = request[m].reply
                       /\ r.unanswered = request[m].unanswered
                       /\ r.listed = request[m].listed
                       /\ r.copied = request[m].copied \cup {d}
                       /\ r.left = request[m].left \ {d}
                       /\ r.pc = IF r.left = {} THEN "capp" ELSE request[m].pc
  BY <1>1, CopyEffect
<1>3. CASE UNCHANGED dep /\ FailedCreate(r, request[m], "none")
  <2>1. \A n \in Migrations : Copies(n)' = Copies(n)
    BY <1>1, <1>2, <1>3, CopiesStay DEF FailedCreate, SameParts
  <2>2. Remembers(r, Copies(m)')
    BY <1>1, <1>3, <2>1
    DEF FailedCreate, Remembers, BeforeCopy, AfterCopy, Errors, Served
  <2> QED
    BY <1>2, <2>1, <2>2, OneMigrationMoves
<1>4. ASSUME NEW d \in Deps, MakesCopy(m, d), SameParts(r, request[m])
      PROVE  /\ Copies(m)' = Copies(m) \cup {d}
             /\ \A n \in Migrations \ {m} : Copies(n)' = Copies(n)
  <2>1. PICK q \in Places : q = request[m].to
    BY <1>1, RequestParts
  <2>2. \A n \in Migrations : request'[n].to = request[n].to
    BY <1>1, <1>2, <1>4 DEF SameParts, TypeOK
  <2>3. /\ dep'[q][d] = m /\ dep[q][d] = NoDep
        /\ \A p \in Places, e \in Deps :
              (p # q \/ e # d) => dep'[p][e] = dep[p][e]
    BY <1>1, <1>4, <2>1 DEF TypeOK, MakesCopy
  <2>4. \A n \in Migrations : request[n].to \in Places
    BY <1>1, RequestParts
  <2>5. Copies(m)' = Copies(m) \cup {d}
    BY <2>1, <2>2, <2>3 DEF Copies
  <2>6. ASSUME NEW n \in Migrations \ {m} PROVE Copies(n)' = Copies(n)
    BY <2>2, <2>3, <2>4, ConstantsAssumption DEF Copies
  <2> QED
    BY <2>5, <2>6
<1>5. ASSUME NEW d \in Deps, MakesCopy(m, d), FailedCreate(r, request[m], d)
      PROVE  CopiesInv'
  <2>1. /\ Copies(m)' = Copies(m) \cup {d}
        /\ \A n \in Migrations \ {m} : Copies(n)' = Copies(n)
    BY <1>4, <1>5 DEF FailedCreate
  <2>2. /\ Copies(m)' = request[m].copied \cup {d} /\ r.unanswered = d
        /\ r.left = request[m].copied /\ r.reply \in Errors
        /\ r.pc = IF r.left = {} THEN "done" ELSE "cleanup"
    BY <1>1, <1>5, <2>1 DEF Remembers, FailedCreate
  <2>3. Remembers(r, Copies(m)')
    BY <2>2 DEF Remembers, BeforeCopy, AfterCopy, Errors, Served
  <2> QED
    BY <1>2, <2>1, <2>3, OneMigrationMoves
<1>6. ASSUME NEW d \in Deps \cap request[m].left, MakesCopy(m, d), SameParts(r, request[m]),
             r.listed = request[m].listed,
             r.copied = request[m].copied \cup {d},
             r.left = request[m].left \ {d},
             r.pc = IF r.left = {} THEN "capp" ELSE request[m].pc
      PROVE  CopiesInv'
  <2>1. /\ Copies(m)' = Copies(m) \cup {d}
        /\ \A n \in Migrations \ {m} : Copies(n)' = Copies(n)
    BY <1>4, <1>6
  <2>2. Copies(m) = request[m].copied
        /\ request[m].listed = request[m].copied \cup request[m].left
    BY <1>1 DEF Remembers
  <2>3. r.listed = r.copied \cup r.left /\ Copies(m)' = r.copied
    <3>1. r.copied \cup r.left = request[m].copied \cup {d} \cup request[m].left
      BY <1>6
    <3>2. d \in request[m].listed
      BY <1>6, <2>2
    <3> QED
      BY <1>6, <2>1, <2>2, <3>1, <3>2
  <2>4. Remembers(r, Copies(m)')
    BY <1>1, <1>6, <2>3 DEF Remembers, BeforeCopy, AfterCopy
  <2> QED
    BY <1>2, <2>1, <2>4, OneMigrationMoves
<1> QED
  BY <1>2, <1>3, <1>5, <1>6

LEMMA CleanupKeepsCopies ==
    ASSUME CopiesInv, TypeOK', NEW m \in Migrations, Cleanup(m)
    PROVE  CopiesInv'
<1>1. TypeOK /\ Remembers(request[m], Copies(m)) /\ request[m].pc = "cleanup"
  BY DEF CopiesInv, Cleanup, At
<1>2. PICK r \in Request, d \in request[m].left :
              /\ request' = [request EXCEPT ![m] = r]
              /\ SameParts(r, request[m])
              /\ r.left = request[m].left \ {d}
              /\ r.pc = IF r.left = {} THEN "done" ELSE "cleanup"
              /\ r.unanswered = request[m].unanswered
              /\ CleansUp(m, d) \/ UNCHANGED dep
              /\ \/ r.reply = request[m].reply /\ CleansUp(m, d)
                 \/ r.reply = "leftover"
  BY <1>1, CleanupEffect
<1>3. d \in Deps /\ dep[request[m].to][d] = m
  BY <1>1 DEF Remembers, Copies
<1>4. /\ request[m].reply \in Errors =>
            Copies(m) \subseteq request[m].left \cup {request[m].unanswered}
      /\ request[m].left \subseteq Copies(m)
      /\ request[m].reply \in Errors \cup {"leftover"}
  BY <1>1 DEF Remembers
<1>5. CASE UNCHANGED dep /\ r.reply = "leftover"
  <2>1. \A n \in Migrations : Copies(n)' = Copies(n)
    BY <1>1, <1>2, <1>5, CopiesStay DEF SameParts
  <2>2. Remembers(r, Copies(m)')
    BY <1>2, <1>4, <1>5, <2>1
    DEF Remembers, BeforeCopy, AfterCopy, Errors, Served
  <2> QED
    BY <1>2, <2>1, <2>2, OneMigrationMoves
<1>6. CASE CleansUp(m, d) /\ r.reply \in {request[m].reply, "leftover"}
  <2>1. PICK q \in Places : q = request[m].to
    BY <1>1, RequestParts
  <2>2. \A n \in Migrations : request'[n].to = request[n].to
    BY <1>1, <1>2 DEF SameParts, TypeOK
  <2>3. /\ dep'[q][d] = NoDep /\ dep[q][d] = m
        /\ \A p \in Places, e \in Deps :
              (p # q \/ e # d) => dep'[p][e] = dep[p][e]
    BY <1>1, <1>3, <1>6, <2>1 DEF TypeOK, CleansUp
  <2>4. \A n \in Migrations : request[n].to \in Places
    BY <1>1, RequestParts
  <2>5. Copies(m)' = Copies(m) \ {d}
    BY <2>1, <2>2, <2>3, ConstantsAssumption DEF Copies
  <2>6. ASSUME NEW n \in Migrations \ {m} PROVE Copies(n)' = Copies(n)
    BY <2>2, <2>3, <2>4, ConstantsAssumption DEF Copies
  <2>7. /\ r.left \subseteq Copies(m)'
        /\ r.reply \in Errors => Copies(m)' \subseteq r.left \cup {r.unanswered}
    BY <1>2, <1>4, <1>6, <2>5 DEF Errors
  <2>8. Remembers(r, Copies(m)')
    BY <1>2, <1>4, <1>6, <2>7
    DEF Remembers, BeforeCopy, AfterCopy, Errors, Served
  <2> QED
    BY <1>2, <2>6, <2>8, OneMigrationMoves
<1> QED
  BY <1>2, <1>5, <1>6

\* The other steps of a handler leave the resources alone.
LEMMA OtherStepsKeepCopies ==
    ASSUME CopiesInv, TypeOK', NEW m \in Migrations,
           \/ Start(m) \/ GetSource(m) \/ GetTarget(m) \/ ListSecrets(m)
           \/ ListConfigMaps(m) \/ Check(m)
           \/ CreateCapp(m) \/ DeleteSource(m) \/ PatchBypass(m) \/ Crash(m)
    PROVE  CopiesInv'
<1> DEFINE q == request[m]
           c == Copies(m)
<1>1. TypeOK /\ Remembers(q, c) /\ UNCHANGED dep
  BY DEF CopiesInv, Start, GetSource, GetTarget, ListSecrets, ListConfigMaps,
     Check, CreateCapp, DeleteSource, PatchBypass, Crash
<1>2. \E r \in Request : /\ request' = [request EXCEPT ![m] = r]
                         /\ r.to = q.to /\ Remembers(r, c)
  <2> HIDE DEF c
  <2>1. CASE Start(m)
    <3>1. PICK r \in Request : /\ request' = [request EXCEPT ![m] = r]
                               /\ GoesOn(r, q, "source")
      BY <1>1, <2>1, GotoEffect DEF Start, Steps
    <3>2. Remembers(r, c)
      BY <1>1, <2>1, <3>1
      DEF Remembers, GoesOn, Start, At, BeforeCopy, AfterCopy
    <3> QED
      BY <3>1, <3>2 DEF GoesOn, SameParts
  <2>2. CASE GetSource(m)
    <3>1. PICK r \in Request :
              /\ request' = [request EXCEPT ![m] = r]
              /\ \/ Answered(r, q, "failed")
                 \/ /\ r.pc = "target" /\ r.to = q.to
                    /\ r.reply = q.reply /\ r.copied = q.copied
      BY <1>1, <2>2, GetSourceEffect
    <3>2. c = {} /\ q.copied = {}
      BY <1>1, <2>2 DEF Remembers, GetSource, At, BeforeCopy
    <3>3. Remembers(r, c)
      BY <3>1, <3>2
      DEF Remembers, Answered, BeforeCopy, AfterCopy, Errors, Served
    <3> QED
      BY <3>1, <3>3 DEF Answered, SameParts
  <2>3. CASE GetTarget(m)
    <3>1. PICK r \in Request :
              /\ request' = [request EXCEPT ![m] = r]
              /\ \/ \E code \in Errors : Answered(r, q, code)
                 \/ /\ r.pc = "secrets" /\ r.to = q.to
                    /\ r.reply = q.reply /\ r.copied = q.copied
                    /\ HostSettled(r)
      BY <1>1, <2>3, GetTargetEffect
    <3>2. c = {} /\ q.copied = {}
      BY <1>1, <2>3 DEF Remembers, GetTarget, At, BeforeCopy
    <3>3. Remembers(r, c)
      BY <3>1, <3>2
      DEF Remembers, Answered, BeforeCopy, AfterCopy, Errors, Served
    <3> QED
      BY <3>1, <3>3 DEF Answered, SameParts
  <2>9. CASE ListSecrets(m)
    <3>1. PICK r \in Request :
              /\ request' = [request EXCEPT ![m] = r]
              /\ \/ Answered(r, q, "failed")
                 \/ /\ SameParts(r, q) /\ r.reply = q.reply
                    /\ r.copied = q.copied
                    /\ r.pc = "configMaps"
      BY <1>1, <2>9, ListSecretsEffect
    <3>2. c = {} /\ q.copied = {}
      BY <1>1, <2>9 DEF Remembers, ListSecrets, At, BeforeCopy
    <3>3. Remembers(r, c)
      BY <3>1, <3>2
      DEF Remembers, Answered, BeforeCopy, AfterCopy, Errors, Served
    <3> QED
      BY <3>1, <3>3 DEF Answered, SameParts
  <2>4. CASE ListConfigMaps(m)
    <3>1. PICK r \in Request :
              /\ request' = [request EXCEPT ![m] = r]
              /\ \/ Answered(r, q, "failed")
                 \/ /\ SameParts(r, q) /\ r.reply = q.reply
                    /\ r.copied = q.copied
                    /\ r.pc \in {"capp", "check"}
                    /\ r.pc = "capp" => r.listed = {}
      BY <1>1, <2>4, ListConfigMapsEffect
    <3>2. c = {} /\ q.copied = {}
      BY <1>1, <2>4 DEF Remembers, ListConfigMaps, At, BeforeCopy
    <3>3. Remembers(r, c)
      BY <3>1, <3>2
      DEF Remembers, Answered, BeforeCopy, AfterCopy, Errors, Served
    <3> QED
      BY <3>1, <3>3 DEF Answered, SameParts
  <2>5. CASE Check(m)
    <3>1. PICK r \in Request :
              /\ request' = [request EXCEPT ![m] = r]
              /\ \/ \E code \in Errors : Answered(r, q, code)
                 \/ \E d : Advanced(r, q, d, "copy", q.listed)
      BY <1>1, <2>5, CheckEffect
    <3>2. c = {} /\ q.copied = {} /\ q.pc = "check"
      BY <1>1, <2>5 DEF Remembers, Check, At, BeforeCopy
    <3>3. CASE \E code \in Errors : Answered(r, q, code)
      BY <3>1, <3>2, <3>3
      DEF Remembers, Answered, SameParts, BeforeCopy, AfterCopy, Errors,
          Served
    <3>4. ASSUME NEW d, Advanced(r, q, d, "copy", q.listed)
          PROVE  Remembers(r, c) /\ r.to = q.to
      <4>1. /\ r.to = q.to /\ r.copied = {} /\ r.listed = q.listed
            /\ \/ r.pc = "copy" /\ r.left = q.listed
               \/ r.pc = "check"
        BY <3>2, <3>4 DEF Advanced, SameParts
      <4> QED
        BY <3>2, <4>1 DEF Remembers, BeforeCopy, AfterCopy
    <3> QED
      BY <3>1, <3>3, <3>4
  <2>6. CASE CreateCapp(m)
    <3>1. PICK r \in Request :
              /\ request' = [request EXCEPT ![m] = r]
              /\ \/ \E effect : FailedCreate(r, q, effect)
                 \/ GoesOn(r, q, "delete")
                 \/ Answered(r, q, "ok")
      BY <1>1, <2>6, CreateCappEffect
    <3>2. c = q.copied /\ q.listed = q.copied
      BY <1>1, <2>6 DEF Remembers, CreateCapp, At, AfterCopy
    <3>3. CASE \E effect : FailedCreate(r, q, effect)
      BY <3>1, <3>2, <3>3 DEF Remembers, FailedCreate, SameParts, BeforeCopy,
         AfterCopy, Errors, Served
    <3>4. CASE GoesOn(r, q, "delete") \/ Answered(r, q, "ok")
      BY <3>1, <3>2, <3>4 DEF Remembers, GoesOn, Answered, SameParts,
         BeforeCopy, AfterCopy, Errors, Served
    <3> QED
      BY <3>1, <3>3, <3>4
  <2>7. CASE DeleteSource(m) \/ PatchBypass(m)
    <3>1. PICK r \in Request :
              /\ request' = [request EXCEPT ![m] = r]
              /\ \/ GoesOn(r, q, "patch")
                 \/ \E code \in Served :
                       \/ Answered(r, q, code)
                       \/ \E write : WasUnanswered(r, q, write, code)
      BY <1>1, <2>7, DeleteSourceEffect, PatchBypassEffect DEF Served
    <3>2. c = q.copied /\ q.listed = q.copied
      BY <1>1, <2>7 DEF Remembers, DeleteSource, PatchBypass, At, AfterCopy
    <3>3. Remembers(r, c)
      BY <3>1, <3>2 DEF Remembers, GoesOn, Answered, WasUnanswered, BeforeCopy,
         AfterCopy, Errors, Served
    <3> QED
      BY <3>1, <3>3 DEF GoesOn, Answered, WasUnanswered, SameParts
  <2>8. CASE Crash(m)
    <3>1. PICK r \in Request : /\ request' = [request EXCEPT ![m] = r]
                               /\ Answered(r, q, "lost")
      BY <1>1, <2>8, ReplyEffect DEF Crash, Replies
    <3>2. Remembers(r, c)
      BY <3>1 DEF Remembers, Answered, BeforeCopy, AfterCopy, Errors, Served
    <3> QED
      BY <3>1, <3>2 DEF Answered, SameParts
  <2> QED
    BY <2>1, <2>2, <2>3, <2>4, <2>5, <2>6, <2>7, <2>8, <2>9
<1>3. PICK r \in Request : /\ request' = [request EXCEPT ![m] = r]
                           /\ r.to = q.to /\ Remembers(r, c)
  BY <1>2
<1>4. \A n \in Migrations : Copies(n)' = Copies(n)
  BY <1>1, <1>3, CopiesStay
<1> QED
  BY <1>3, <1>4, OneMigrationMoves

LEMMA CopiesInvariance == Spec => []CopiesInv
<1>1. Init => CopiesInv
  <2> SUFFICES ASSUME Init PROVE CopiesInv
    OBVIOUS
  <2>1. TypeOK
    BY InitType
  <2>2. \A m \in Migrations : request[m].pc = "idle" /\ request[m].copied = {}
    BY DEF Init
  <2>3. ASSUME NEW m \in Migrations PROVE Copies(m) = {}
    BY <2>1, RequestParts, ConstantsAssumption DEF Init, Copies
  <2> QED
    BY <2>1, <2>2, <2>3 DEF CopiesInv, Remembers, BeforeCopy, AfterCopy
<1>2. CopiesInv /\ [Next]_vars => CopiesInv'
  <2> SUFFICES ASSUME CopiesInv, [Next]_vars PROVE CopiesInv'
    OBVIOUS
  <2>1. TypeOK /\ TypeOK'
    BY NextType DEF CopiesInv
  <2>2. ASSUME NEW m \in Migrations, Start(m) \/ Step(m) \/ Crash(m)
        PROVE  CopiesInv'
    BY <2>1, <2>2, CopyKeepsCopies, CleanupKeepsCopies, OtherStepsKeepCopies
    DEF Step
  <2>3. ASSUME NEW p \in Places, NEW d \in Deps, CreateDep(p, d)
        PROVE  CopiesInv'
    <3>1. /\ dep'[p][d] = User /\ dep[p][d] = NoDep
          /\ \A q \in Places, e \in Deps :
                (q # p \/ e # d) => dep'[q][e] = dep[q][e]
          /\ UNCHANGED request
      BY <2>1, <2>3 DEF CreateDep, TypeOK
    <3>2. \A m \in Migrations : request[m].to \in Places
      BY <2>1, RequestParts
    <3>3. ASSUME NEW m \in Migrations PROVE Copies(m)' = Copies(m)
      BY <3>1, <3>2, ConstantsAssumption DEF Copies
    <3> QED
      BY <2>1, <3>1, <3>3 DEF CopiesInv, Remembers
  <2>4. CASE UNCHANGED <<dep, request>>
    <3>1. \A m \in Migrations : Copies(m)' = Copies(m)
      BY <2>4 DEF Copies
    <3> QED
      BY <2>1, <2>4, <3>1 DEF CopiesInv, Remembers
  <2> QED
    BY <2>2, <2>3, <2>4 DEF Next, CreateOther, Finished, vars
<1> QED
  BY <1>1, <1>2, PTL DEF Spec

\* A migration that was answered with an error has left at most one of its
\* copies at the target, the one whose Create was answered with that error, as
\* long as every Delete of the clean-up has succeeded; for any number of
\* resources, and with other migrations to the same place.
THEOREM FailureCleansUp == Spec => []FailedMigrationCleansUp
<1>1. CopiesInv => FailedMigrationCleansUp
  BY DEF CopiesInv, Remembers, Copies, Errors, FailedMigrationCleansUp, At
<1> QED
  BY <1>1, CopiesInvariance, PTL

\* A migrated Capp has all the Secrets and ConfigMaps it was migrated with,
\* whatever the clean-up of other migrations to the same place deletes.
THEOREM DependentsStay == Spec => []TargetHasDependents
<1>1. CopiesInv => TargetHasDependents
  BY DEF CopiesInv, Remembers, Copies, Served, TargetHasDependents, At
<1> QED
  BY <1>1, CopiesInvariance, PTL

-----------------------------------------------------------------------------
(* The bypass annotation.  BypassHasAReason is not inductive: a migration  *)
(* that is about to delete the source explains the annotation of the       *)
(* target only if it is going to remove it, one that copies without a move *)
(* and keeps the hostname has found no hostname to keep, and no write of   *)
(* a handler is unanswered before it has failed.                           *)

\* The migration m is why the Capp of p carries the annotation.
Explains(q, p) ==
    /\ q.to = p
    /\ \/ /\ q.pc = "delete"
          /\ PrepareCapp(q.read, q.effective).bypass
       \/ q.pc = "patch"
       \/ q.reply \in {"kept", "unpatched", "lost"}
       \/ q.unanswered = "capp"
       \/ /\ q.pc = "done" /\ q.reply = "ok"
          /\ ~q.move /\ q.read.bypass

\* The steps at which the hostname has been resolved, up to the Create.
Resolved == {"secrets", "configMaps", "check", "copy", "capp"}

Settled(q) ==
    /\ q.pc \in Resolved => HostSettled(q)
    /\ q.reply \in {"kept", "unpatched", "lost"} => q.pc = "done"
    /\ q.unanswered # "none" => q.pc \in {"cleanup", "done"}

BypassInv ==
    /\ TypeOK
    /\ \A m \in Migrations : Settled(request[m])
    /\ \A p \in Places : (capp[p] # NoCapp /\ capp[p].bypass) =>
          \E m \in Migrations : Explains(request[m], p)

\* A step of the migration m: it either explains what it has explained before
\* and what it adds, or takes the annotation away.
LEMMA OneMigrationExplains ==
    ASSUME BypassInv, TypeOK', NEW m \in Migrations, NEW r \in Request,
           request' = [request EXCEPT ![m] = r],
           Settled(r),
           \A p \in Places : (capp'[p] # NoCapp /\ capp'[p].bypass) =>
              \/ Explains(r, p)
              \/ /\ capp[p] # NoCapp /\ capp[p].bypass
                 /\ Explains(request[m], p) => Explains(r, p)
    PROVE  BypassInv'
<1>1. request'[m] = r /\ \A n \in Migrations \ {m} : request'[n] = request[n]
  BY DEF BypassInv, TypeOK
<1>2. \A n \in Migrations : Settled(request'[n])
  BY <1>1 DEF BypassInv
<1>3. ASSUME NEW p \in Places, capp'[p] # NoCapp, capp'[p].bypass
      PROVE  \E n \in Migrations : Explains(request'[n], p)
  <2>1. CASE Explains(r, p)
    BY <1>1, <2>1
  <2>2. CASE /\ capp[p] # NoCapp /\ capp[p].bypass
             /\ Explains(request[m], p) => Explains(r, p)
    <3>1. PICK n \in Migrations : Explains(request[n], p)
      BY <2>2 DEF BypassInv
    <3> QED
      BY <1>1, <2>2, <3>1
  <2> QED
    BY <1>3, <2>1, <2>2
<1> QED
  BY <1>2, <1>3 DEF BypassInv, Settled

\* Before the Capp is to be created no Capp changes.
LEMMA EarlyStepsKeepCapps ==
    ASSUME NEW m \in Migrations,
           \/ Start(m) \/ GetSource(m) \/ GetTarget(m) \/ ListSecrets(m)
           \/ ListConfigMaps(m) \/ Check(m) \/ Copy(m) \/ Cleanup(m)
    PROVE  UNCHANGED capp
<1>1. CASE Start(m) \/ GetSource(m) \/ GetTarget(m) \/ Check(m)
  BY <1>1 DEF Start, GetSource, GetTarget, Check
<1>2. CASE Copy(m)
  BY <1>2 DEF Copy
<1>3. CASE Cleanup(m)
  BY <1>3 DEF Cleanup
<1> QED
  BY <1>1, <1>2, <1>3, ListIsCalled

\* A step of a handler that has not created the target Capp, and leaves it
\* that way.
LEMMA BeforeCreateBypass ==
    ASSUME BypassInv, TypeOK', NEW m \in Migrations, UNCHANGED capp,
           \/ Start(m) \/ GetSource(m) \/ GetTarget(m) \/ ListSecrets(m)
           \/ ListConfigMaps(m) \/ Check(m) \/ Copy(m) \/ Cleanup(m)
    PROVE  BypassInv'
<1> DEFINE q == request[m]
           Goes(r) == /\ request' = [request EXCEPT ![m] = r] /\ Settled(r)
                      /\ \A p \in Places : Explains(q, p) => Explains(r, p)
<1>1. TypeOK /\ Settled(q)
  BY DEF BypassInv
<1>2. q.pc \notin {"delete", "patch", "cleanup", "done"}
        => \A p \in Places : ~Explains(q, p)
  BY <1>1 DEF Explains, Settled
<1>3. \E r \in Request : Goes(r)
  <2>1. CASE Start(m)
    <3>1. PICK r \in Request : /\ request' = [request EXCEPT ![m] = r]
                               /\ GoesOn(r, q, "source")
      BY <1>1, <2>1, GotoEffect DEF Start, Steps
    <3>2. q.pc = "idle"
      BY <2>1 DEF Start, At
    <3>3. Settled(r)
      BY <1>1, <3>1, <3>2 DEF Settled, GoesOn, Resolved
    <3> QED
      BY <1>2, <3>1, <3>2, <3>3
  <2>2. CASE GetSource(m)
    <3>1. PICK r \in Request :
              /\ request' = [request EXCEPT ![m] = r]
              /\ \/ Answered(r, q, "failed")
                 \/ /\ r.pc = "target" /\ r.reply = q.reply
                    /\ r.unanswered = q.unanswered
      BY <1>1, <2>2, GetSourceEffect
    <3>2. q.pc = "source"
      BY <2>2 DEF GetSource, At
    <3>3. Settled(r)
      BY <1>1, <3>1, <3>2 DEF Settled, Answered, Resolved
    <3> QED
      BY <1>2, <3>1, <3>2, <3>3
  <2>3. CASE GetTarget(m)
    <3>1. PICK r \in Request :
              /\ request' = [request EXCEPT ![m] = r]
              /\ \/ \E code \in Errors : Answered(r, q, code)
                 \/ /\ r.pc = "secrets" /\ r.reply = q.reply /\ HostSettled(r)
                    /\ r.unanswered = q.unanswered
      BY <1>1, <2>3, GetTargetEffect
    <3>2. q.pc = "target"
      BY <2>3 DEF GetTarget, At
    <3>3. Settled(r)
      BY <1>1, <3>1, <3>2 DEF Settled, Answered, Resolved, Errors
    <3> QED
      BY <1>2, <3>1, <3>2, <3>3
  <2>4. CASE ListSecrets(m) \/ ListConfigMaps(m)
    <3>1. PICK r \in Request :
              /\ request' = [request EXCEPT ![m] = r]
              /\ \/ Answered(r, q, "failed")
                 \/ /\ SameParts(r, q) /\ r.reply = q.reply
                    /\ r.unanswered = q.unanswered
      BY <1>1, <2>4, ListSecretsEffect, ListConfigMapsEffect
    <3>2. q.pc \in {"secrets", "configMaps"} /\ HostSettled(q)
      BY <1>1, <2>4, ListIsCalled DEF Settled, Resolved
    <3>3. Settled(r)
      BY <1>1, <3>1, <3>2
      DEF Settled, Answered, SameParts, HostSettled, Resolved
    <3> QED
      BY <1>2, <3>1, <3>2, <3>3
  <2>5. CASE Check(m)
    <3>1. PICK r \in Request :
              /\ request' = [request EXCEPT ![m] = r]
              /\ \/ \E code \in Errors : Answered(r, q, code)
                 \/ \E d : Advanced(r, q, d, "copy", q.listed)
      BY <1>1, <2>5, CheckEffect
    <3>2. q.pc = "check" /\ HostSettled(q)
      BY <1>1, <2>5 DEF Check, At, Settled, Resolved
    <3>3. Settled(r)
      BY <1>1, <3>1, <3>2
      DEF Settled, Answered, Advanced, SameParts, HostSettled, Resolved,
          Errors
    <3> QED
      BY <1>2, <3>1, <3>2, <3>3
  <2>6. CASE Copy(m)
    <3>1. PICK r \in Request :
              /\ request' = [request EXCEPT ![m] = r]
              /\ \/ \E effect : FailedCreate(r, q, effect)
                 \/ /\ SameParts(r, q) /\ r.reply = q.reply
                    /\ r.unanswered = q.unanswered
      BY <1>1, <2>6, CopyEffect
    <3>2. q.pc = "copy" /\ HostSettled(q)
      BY <1>1, <2>6 DEF Copy, At, Settled, Resolved
    <3>3. Settled(r)
      BY <1>1, <3>1, <3>2
      DEF Settled, FailedCreate, SameParts, HostSettled, Resolved, Errors
    <3> QED
      BY <1>2, <3>1, <3>2, <3>3
  <2>7. CASE Cleanup(m)
    <3>1. PICK r \in Request :
              /\ request' = [request EXCEPT ![m] = r]
              /\ SameParts(r, q)
              /\ r.pc \in {"done", "cleanup"}
              /\ r.unanswered = q.unanswered
              /\ r.reply \in {q.reply, "leftover"}
      BY <1>1, <2>7, CleanupEffect
    <3>2. q.pc = "cleanup" /\ q.reply \notin {"kept", "unpatched", "lost"}
      BY <1>1, <2>7 DEF Cleanup, At, Settled
    <3>3. Settled(r)
      BY <1>1, <3>1, <3>2 DEF Settled, Resolved
    <3>4. \A p \in Places : Explains(q, p) => Explains(r, p)
      BY <3>1, <3>2 DEF Explains, SameParts
    <3> QED
      BY <3>1, <3>3, <3>4
  <2> QED
    BY <2>1, <2>2, <2>3, <2>4, <2>5, <2>6, <2>7
<1>4. PICK r \in Request : Goes(r)
  BY <1>3
<1>5. \A p \in Places : capp'[p] = capp[p]
  OBVIOUS
<1> QED
  BY <1>4, <1>5, OneMigrationExplains

\* The target Capp is created with the annotation only if the migration is a
\* move that will remove it, if the Capp it has read carries it, or if the
\* Create is answered with an error.
LEMMA CreateCappBypass ==
    ASSUME BypassInv, TypeOK', NEW m \in Migrations, CreateCapp(m)
    PROVE  BypassInv'
<1> DEFINE q == request[m]
           c == PrepareCapp(q.read, q.effective)
<1>1. TypeOK /\ Settled(q) /\ q.pc = "capp"
  BY DEF BypassInv, CreateCapp, At
<1>2. \A p \in Places : ~Explains(q, p)
  BY <1>1 DEF Explains, Settled
<1>3. q.to \in Places /\ q.read \in Capp /\ HostSettled(q)
  BY <1>1, RequestParts DEF NeedsCapp, Settled, Resolved, Steps
<1>4. PICK r \in Request :
              /\ request' = [request EXCEPT ![m] = r]
              /\ \/ UNCHANGED capp /\ FailedCreate(r, q, "none")
                 \/ CreatesCapp(m) /\ FailedCreate(r, q, "capp")
                 \/ /\ CreatesCapp(m)
                    /\ \/ GoesOn(r, q, "delete") /\ q.move
                       \/ Answered(r, q, "ok") /\ ~q.move
  BY <1>1, CreateCappEffect
<1>5. Settled(r)
  BY <1>1, <1>4
  DEF Settled, FailedCreate, GoesOn, Answered, Resolved, Errors
<1>6. CASE UNCHANGED capp
  BY <1>2, <1>4, <1>5, <1>6, OneMigrationExplains
<1>7. CASE /\ CreatesCapp(m)
           /\ \/ FailedCreate(r, q, "capp")
              \/ GoesOn(r, q, "delete") /\ q.move
              \/ Answered(r, q, "ok") /\ ~q.move
  <2>1. /\ capp'[q.to] = c
        /\ \A p \in Places \ {q.to} : capp'[p] = capp[p]
    BY <1>1, <1>3, <1>7 DEF TypeOK, CreatesCapp
  <2>2. ASSUME c.bypass PROVE Explains(r, q.to)
    <3>1. CASE GoesOn(r, q, "delete")
      BY <2>2, <3>1 DEF GoesOn, SameParts, Explains
    <3>2. CASE Answered(r, q, "ok") /\ ~q.move
      <4>1. q.read.bypass
        BY <1>3, <2>2, <3>2 DEF PrepareCapp, HostSettled, Capp
      <4> QED
        BY <3>2, <4>1 DEF Answered, SameParts, Explains
    <3>3. CASE FailedCreate(r, q, "capp")
      BY <3>3 DEF FailedCreate, SameParts, Explains
    <3> QED
      BY <1>7, <3>1, <3>2, <3>3
  <2> HIDE DEF c
  <2> QED
    BY <1>2, <1>4, <1>5, <2>1, <2>2, OneMigrationExplains
<1> QED
  BY <1>4, <1>6, <1>7

LEMMA AfterCreateBypass ==
    ASSUME BypassInv, TypeOK', NEW m \in Migrations,
           DeleteSource(m) \/ PatchBypass(m) \/ Crash(m)
    PROVE  BypassInv'
<1> DEFINE q == request[m]
<1>1. TypeOK /\ Settled(q) /\ q.to \in Places /\ q.from \in Places
  BY RequestParts DEF BypassInv
<1>2. CASE DeleteSource(m)
  <2>1. PICK r \in Request :
              /\ request' = [request EXCEPT ![m] = r]
              /\ \/ /\ capp' = [capp EXCEPT ![q.from] = NoCapp]
                    /\ \/ GoesOn(r, q, "patch")
                       \/ Answered(r, q, "ok") /\ ~Bypassed(m)
                       \/ WasUnanswered(r, q, "delete", "kept")
                 \/ UNCHANGED capp /\ Answered(r, q, "kept")
    BY <1>1, <1>2, DeleteSourceEffect
  <2>2. q.pc = "delete" /\ q.reply \notin {"kept", "unpatched", "lost"}
    BY <1>1, <1>2 DEF DeleteSource, At, Settled
  <2>3. Settled(r) /\ q.unanswered = "none"
    BY <1>1, <2>1, <2>2
    DEF Settled, GoesOn, Answered, WasUnanswered, Resolved
  <2>4. ASSUME NEW p \in Places, Explains(q, p) PROVE Explains(r, p)
    BY <2>1, <2>2, <2>3, <2>4
    DEF Explains, GoesOn, Answered, WasUnanswered, SameParts, Bypassed
  <2>5. ASSUME NEW p \in Places, capp'[p] # NoCapp, capp'[p].bypass
        PROVE  capp[p] # NoCapp /\ capp[p].bypass
    BY <1>1, <2>1, <2>5 DEF TypeOK
  <2> QED
    BY <2>1, <2>3, <2>4, <2>5, OneMigrationExplains
<1>3. CASE PatchBypass(m)
  <2>1. PICK r \in Request :
              /\ request' = [request EXCEPT ![m] = r]
              /\ \/ /\ capp' = [capp EXCEPT ![q.to].bypass = FALSE]
                    /\ capp[q.to] # NoCapp
                    /\ \/ Answered(r, q, "ok")
                       \/ WasUnanswered(r, q, "patch", "unpatched")
                 \/ UNCHANGED capp /\ Answered(r, q, "unpatched")
    BY <1>1, <1>3, PatchBypassEffect DEF Target
  <2>2. Settled(r)
    BY <2>1 DEF Settled, Answered, WasUnanswered, Resolved
  <2>3. CASE UNCHANGED capp /\ Answered(r, q, "unpatched")
    <3>1. ASSUME NEW p \in Places, Explains(q, p) PROVE Explains(r, p)
      BY <2>3, <3>1 DEF Explains, Answered, SameParts
    <3> QED
      BY <2>1, <2>2, <2>3, <3>1, OneMigrationExplains
  <2>4. CASE /\ capp' = [capp EXCEPT ![q.to].bypass = FALSE]
             /\ capp[q.to] # NoCapp
    <3>1. capp[q.to] \in Capp
      BY <1>1, <2>4 DEF TypeOK
    <3>2. /\ capp'[q.to].bypass = FALSE
          /\ \A p \in Places \ {q.to} : capp'[p] = capp[p]
      BY <1>1, <2>4, <3>1 DEF TypeOK, Capp
    <3>3. \A p \in Places \ {q.to} : ~Explains(q, p)
      BY DEF Explains
    <3> QED
      BY <2>1, <2>2, <3>2, <3>3, OneMigrationExplains
  <2> QED
    BY <2>1, <2>3, <2>4
<1>4. CASE Crash(m)
  <2>1. PICK r \in Request : /\ request' = [request EXCEPT ![m] = r]
                             /\ Answered(r, q, "lost")
    BY <1>1, <1>4, ReplyEffect DEF Crash, Replies
  <2>2. Settled(r)
    BY <2>1 DEF Settled, Answered, Resolved
  <2>3. ASSUME NEW p \in Places, Explains(q, p) PROVE Explains(r, p)
    BY <2>1, <2>3 DEF Explains, Answered, SameParts
  <2>4. UNCHANGED capp
    BY <1>4 DEF Crash
  <2> QED
    BY <2>1, <2>2, <2>3, <2>4, OneMigrationExplains
<1> QED
  BY <1>2, <1>3, <1>4

LEMMA BypassInit == Init => BypassInv
<1> SUFFICES ASSUME Init PROVE BypassInv
  OBVIOUS
<1>1. TypeOK /\ \A m \in Migrations : request[m].pc = "idle"
  BY InitType, InitRequests
<1>2. \A m \in Migrations : /\ request[m].reply = "none"
                             /\ request[m].unanswered = "none"
  BY DEF Init
<1>3. \A p \in Places : capp[p] # NoCapp => ~capp[p].bypass
  <2>1. PICK p \in Places, c \in Capp :
           /\ ~c.bypass
           /\ capp = [q \in Places |-> IF q = p THEN c ELSE NoCapp]
    BY DEF Init
  <2> QED
    BY <2>1
<1> QED
  BY <1>1, <1>2, <1>3 DEF BypassInv, Settled, Resolved

LEMMA BypassStep == BypassInv /\ [Next]_vars => BypassInv'
<1> SUFFICES ASSUME BypassInv, [Next]_vars PROVE BypassInv'
  OBVIOUS
<1>1. TypeOK /\ TypeOK'
  BY NextType DEF BypassInv
<1>2. ASSUME NEW m \in Migrations, Start(m) \/ Step(m) \/ Crash(m)
      PROVE  BypassInv'
  <2>1. CASE \/ Start(m) \/ GetSource(m) \/ GetTarget(m) \/ ListSecrets(m)
             \/ ListConfigMaps(m) \/ Check(m) \/ Copy(m) \/ Cleanup(m)
    <3>1. UNCHANGED capp
      BY <2>1, EarlyStepsKeepCapps
    <3> QED
      BY <1>1, <2>1, <3>1, BeforeCreateBypass
  <2>2. CASE CreateCapp(m)
    BY <1>1, <2>2, CreateCappBypass
  <2>3. CASE DeleteSource(m) \/ PatchBypass(m) \/ Crash(m)
    BY <1>1, <2>3, AfterCreateBypass
  <2> QED
    BY <1>2, <2>1, <2>2, <2>3 DEF Step
<1>3. ASSUME NEW p \in Places, CreateOther(p)
      PROVE  BypassInv'
  <2>1. /\ capp'[p].bypass = FALSE
        /\ \A q \in Places \ {p} : capp'[q] = capp[q]
        /\ UNCHANGED request
    BY <1>1, <1>3 DEF CreateOther, TypeOK
  <2> QED
    BY <1>1, <2>1 DEF BypassInv
<1>4. CASE UNCHANGED <<capp, request>>
  BY <1>1, <1>4 DEF BypassInv
<1> QED
  BY <1>2, <1>3, <1>4 DEF Next, CreateDep, Finished, vars

LEMMA BypassInvariance == Spec => []BypassInv
  BY BypassInit, BypassStep, PTL DEF Spec

\* No Capp carries the bypass annotation without a migration that is about to
\* remove it, or that told its caller or the log that it stays: for any number
\* of places, and however migrations between them interleave.
THEOREM BypassIsExplained == Spec => []BypassHasAReason
<1>1. BypassInv => BypassHasAReason
  BY DEF BypassInv, Explains, BypassHasAReason, At
<1> QED
  BY <1>1, BypassInvariance, PTL

-----------------------------------------------------------------------------
(* What a step of a migration makes of the Capps, and of its request q.    *)

Keeps(q) ==
    \/ q.pc \in {"delete", "patch"}
    \/ q.pc = "done" /\ q.reply = "kept"
    \/ q.pc = "done" /\ q.reply = "unpatched" /\ q.unanswered # "patch"
    \/ q.unanswered = "capp"

Created(q) ==
    Keeps(q) \/ (q.pc = "done" /\ q.reply \in {"ok", "unpatched", "lost"})

OnlyChanges(p) == \A x \in Places \ {p} : capp'[x] = capp[x]

Rests(r, q) ==
    /\ UNCHANGED capp
    /\ SameParts(r, q)
    /\ Keeps(r) => Keeps(q)
    /\ r.pc # "patch"
    /\ r.pc \in Resolved => q.pc \in Resolved

Reads(r, q) ==
    /\ UNCHANGED capp
    /\ r.pc = "target"
    /\ r.read = capp[q.from] /\ r.read # NoCapp

Resolves(r, q) ==
    /\ UNCHANGED capp
    /\ r.pc = "secrets"
    /\ r.read = q.read /\ HostDecided(r)

Creates(r, q) ==
    /\ q.pc = "capp" /\ ~Created(q)
    /\ SameParts(r, q)
    /\ Created(r) /\ r.pc # "patch"
    /\ capp[q.to] = NoCapp
    /\ capp'[q.to] = PrepareCapp(q.read, q.effective)
    /\ OnlyChanges(q.to)

Deletes(r, q) ==
    /\ q.pc = "delete"
    /\ SameParts(r, q)
    /\ r.pc \in {"patch", "done"}
    /\ capp'[q.from] = NoCapp
    /\ OnlyChanges(q.from)

Patches(r, q) ==
    /\ q.pc = "patch"
    /\ SameParts(r, q)
    /\ r.pc = "done" /\ Created(r) /\ ~Keeps(r)
    /\ capp[q.to] # NoCapp /\ capp'[q.to] # NoCapp
    /\ capp'[q.to].host = capp[q.to].host
    /\ OnlyChanges(q.to)

Changes(r, q) ==
    \/ Rests(r, q) \/ Reads(r, q) \/ Resolves(r, q)
    \/ Creates(r, q) \/ Deletes(r, q) \/ Patches(r, q)

LEMMA EarlyStepEffect ==
    ASSUME BypassInv, NEW m \in Migrations, UNCHANGED capp,
           \/ Start(m) \/ GetSource(m) \/ GetTarget(m) \/ ListSecrets(m)
           \/ ListConfigMaps(m) \/ Check(m) \/ Copy(m) \/ Cleanup(m)
    PROVE  \E r \in Request :
              /\ request' = [request EXCEPT ![m] = r]
              /\ r.from = request[m].from /\ r.to = request[m].to
              /\ Created(request[m]) => Created(r)
              /\ Changes(r, request[m])
<1> DEFINE q == request[m]
<1>1. TypeOK /\ Settled(q)
  BY DEF BypassInv
<1>2. q.pc \notin {"delete", "patch", "cleanup", "done"}
        => ~Created(q) /\ q.unanswered = "none"
  BY <1>1 DEF Created, Keeps, Settled
<1>4. CASE Start(m)
  <2>1. PICK r \in Request : /\ request' = [request EXCEPT ![m] = r]
                             /\ GoesOn(r, q, "source")
    BY <1>1, <1>4, GotoEffect DEF Start, Steps
  <2>2. q.pc = "idle"
    BY <1>4 DEF Start, At
  <2>3. Rests(r, q)
    BY <1>2, <2>1, <2>2 DEF Rests, GoesOn, Keeps, Resolved
  <2> QED
    BY <1>2, <2>1, <2>2, <2>3 DEF Changes, Rests, SameParts
<1>5. CASE GetSource(m)
  <2>1. PICK r \in Request :
            /\ request' = [request EXCEPT ![m] = r]
            /\ \/ Answered(r, q, "failed")
               \/ /\ r.pc = "target" /\ r.to = q.to /\ r.from = q.from
                  /\ r.read = capp[q.from] /\ r.read # NoCapp
    BY <1>1, <1>5, GetSourceEffect
  <2>2. q.pc = "source"
    BY <1>5 DEF GetSource, At
  <2>3. Rests(r, q) \/ (Reads(r, q) /\ r.from = q.from /\ r.to = q.to)
    BY <1>2, <2>1, <2>2 DEF Rests, Reads, Answered, Keeps, Resolved
  <2> QED
    BY <1>2, <2>1, <2>2, <2>3 DEF Changes, Rests, SameParts
<1>6. CASE GetTarget(m)
  <2>1. PICK r \in Request :
            /\ request' = [request EXCEPT ![m] = r]
            /\ \/ \E code \in Errors : Answered(r, q, code)
               \/ /\ r.pc = "secrets" /\ r.to = q.to /\ r.from = q.from
                  /\ r.read = q.read /\ HostDecided(r)
    BY <1>1, <1>6, GetTargetEffect
  <2>2. q.pc = "target"
    BY <1>6 DEF GetTarget, At
  <2>3. Rests(r, q) \/ (Resolves(r, q) /\ r.from = q.from /\ r.to = q.to)
    BY <1>2, <2>1, <2>2 DEF Rests, Resolves, Answered, Keeps, Resolved, Errors
  <2> QED
    BY <1>2, <2>1, <2>2, <2>3 DEF Changes, Rests, SameParts
<1>7. CASE ListSecrets(m) \/ ListConfigMaps(m)
  <2>1. PICK r \in Request :
            /\ request' = [request EXCEPT ![m] = r]
            /\ \/ Answered(r, q, "failed")
               \/ /\ SameParts(r, q) /\ r.unanswered = q.unanswered
                  /\ r.pc \in {"configMaps", "capp", "check"}
    BY <1>1, <1>7, ListSecretsEffect, ListConfigMapsEffect
  <2>2. q.pc \in {"secrets", "configMaps"}
    BY <1>7, ListIsCalled
  <2>3. Rests(r, q)
    BY <1>2, <2>1, <2>2 DEF Rests, Answered, Keeps, Resolved
  <2> QED
    BY <1>2, <2>1, <2>2, <2>3 DEF Changes, Rests, SameParts
<1>8. CASE Check(m)
  <2>1. PICK r \in Request :
            /\ request' = [request EXCEPT ![m] = r]
            /\ \/ \E code \in Errors : Answered(r, q, code)
               \/ \E d : Advanced(r, q, d, "copy", q.listed)
    BY <1>1, <1>8, CheckEffect
  <2>2. q.pc = "check"
    BY <1>8 DEF Check, At
  <2>3. Rests(r, q)
    BY <1>2, <2>1, <2>2
    DEF Rests, Answered, Advanced, Keeps, Resolved, Errors
  <2> QED
    BY <1>2, <2>1, <2>2, <2>3 DEF Changes, Rests, SameParts
<1>9. CASE Copy(m)
  <2>1. PICK r \in Request :
            /\ request' = [request EXCEPT ![m] = r]
            /\ \/ FailedCreate(r, q, "none")
               \/ \E d \in Deps : FailedCreate(r, q, d)
               \/ /\ SameParts(r, q) /\ r.unanswered = q.unanswered
                  /\ r.pc = IF r.left = {} THEN "capp" ELSE q.pc
    BY <1>1, <1>9, CopyEffect
  <2>2. q.pc = "copy"
    BY <1>9 DEF Copy, At
  <2>3. CASE SameParts(r, q) /\ r.unanswered = q.unanswered
             /\ r.pc \in {"capp", "copy"}
    <3>1. Rests(r, q)
      BY <1>2, <2>2, <2>3 DEF Rests, Keeps, Resolved
    <3> QED
      BY <1>2, <2>1, <2>2, <3>1 DEF Changes, Rests, SameParts
  <2>4. ASSUME NEW effect \in Deps \cup {"none"}, FailedCreate(r, q, effect)
        PROVE  Rests(r, q)
    <3>1. r.unanswered # "capp" /\ r.reply \in Errors /\ SameParts(r, q)
          /\ r.pc \in {"done", "cleanup"}
      BY <2>4, ConstantsAssumption DEF FailedCreate
    <3> QED
      BY <2>2, <3>1 DEF Rests, Keeps, Resolved, Errors
  <2> QED
    BY <1>2, <2>1, <2>2, <2>3, <2>4 DEF Changes, Rests, SameParts
<1>10. CASE Cleanup(m)
  <2>1. PICK r \in Request :
            /\ request' = [request EXCEPT ![m] = r]
            /\ SameParts(r, q)
            /\ r.pc \in {"done", "cleanup"}
            /\ r.unanswered = q.unanswered
            /\ r.reply \in {q.reply, "leftover"}
    BY <1>1, <1>10, CleanupEffect
  <2>2. q.pc = "cleanup" /\ q.reply \notin {"kept", "unpatched", "lost"}
    BY <1>1, <1>10 DEF Cleanup, At, Settled
  <2>3. Rests(r, q) /\ (Created(q) => Created(r))
    BY <2>1, <2>2 DEF Rests, Created, Keeps, Resolved
  <2> QED
    BY <2>1, <2>3 DEF Changes, Rests, SameParts
<1> QED
  BY <1>4, <1>5, <1>6, <1>7, <1>8, <1>9, <1>10

LEMMA LateStepEffect ==
    ASSUME BypassInv, NEW m \in Migrations,
           CreateCapp(m) \/ DeleteSource(m) \/ PatchBypass(m) \/ Crash(m)
    PROVE  \E r \in Request :
              /\ request' = [request EXCEPT ![m] = r]
              /\ r.from = request[m].from /\ r.to = request[m].to
              /\ Created(request[m]) => Created(r)
              /\ Changes(r, request[m])
<1> DEFINE q == request[m]
<1>1. TypeOK /\ Settled(q) /\ q.to \in Places /\ q.from \in Places
  BY RequestParts DEF BypassInv
<1>2. CASE CreateCapp(m)
  <2> DEFINE c == PrepareCapp(q.read, q.effective)
  <2>1. PICK r \in Request :
              /\ request' = [request EXCEPT ![m] = r]
              /\ \/ UNCHANGED capp /\ FailedCreate(r, q, "none")
                 \/ /\ CreatesCapp(m)
                    /\ \/ FailedCreate(r, q, "capp")
                       \/ GoesOn(r, q, "delete") \/ Answered(r, q, "ok")
    BY <1>1, <1>2, CreateCappEffect
  <2>2. q.pc = "capp" /\ ~Created(q) /\ q.unanswered = "none"
    BY <1>1, <1>2 DEF CreateCapp, At, Created, Keeps, Settled
  <2>3. CASE UNCHANGED capp /\ FailedCreate(r, q, "none")
    <3>1. Rests(r, q)
      BY <2>2, <2>3 DEF Rests, FailedCreate, Keeps, Resolved, Errors
    <3> QED
      BY <2>1, <2>2, <3>1 DEF Changes, Rests, SameParts
  <2>4. CASE /\ CreatesCapp(m)
             /\ \/ FailedCreate(r, q, "capp")
                \/ GoesOn(r, q, "delete") \/ Answered(r, q, "ok")
    <3>1. /\ capp[q.to] = NoCapp /\ OnlyChanges(q.to)
          /\ capp'[q.to] = PrepareCapp(q.read, q.effective)
      BY <1>1, <2>4 DEF TypeOK, OnlyChanges, CreatesCapp, Target
    <3>2. SameParts(r, q) /\ Created(r) /\ r.pc # "patch"
      BY <2>4
      DEF FailedCreate, GoesOn, Answered, Created, Keeps, SameParts
    <3>3. Creates(r, q)
      BY <2>2, <3>1, <3>2 DEF Creates
    <3> QED
      BY <2>1, <2>2, <3>2, <3>3 DEF Changes, SameParts
  <2> QED
    BY <2>1, <2>3, <2>4
<1>3. CASE DeleteSource(m)
  <2>1. PICK r \in Request :
              /\ request' = [request EXCEPT ![m] = r]
              /\ \/ /\ capp' = [capp EXCEPT ![q.from] = NoCapp]
                    /\ \/ GoesOn(r, q, "patch") \/ Answered(r, q, "ok")
                       \/ WasUnanswered(r, q, "delete", "kept")
                 \/ UNCHANGED capp /\ Answered(r, q, "kept")
    BY <1>1, <1>3, DeleteSourceEffect
  <2>2. q.pc = "delete" /\ SameParts(r, q) /\ r.pc \in {"patch", "done"}
    BY <1>3, <2>1
    DEF DeleteSource, At, GoesOn, Answered, WasUnanswered, SameParts
  <2>3. Created(r)
    BY <2>1 DEF Created, Keeps, GoesOn, Answered, WasUnanswered
  <2>4. CASE UNCHANGED capp /\ Answered(r, q, "kept")
    <3>1. Rests(r, q)
      BY <2>2, <2>4 DEF Rests, Answered, Keeps, Resolved
    <3> QED
      BY <2>1, <2>2, <2>3, <3>1 DEF Changes, SameParts
  <2>5. CASE capp' = [capp EXCEPT ![q.from] = NoCapp]
    <3>1. capp'[q.from] = NoCapp /\ OnlyChanges(q.from)
      BY <1>1, <2>5 DEF TypeOK, OnlyChanges
    <3>2. Deletes(r, q)
      BY <2>2, <3>1 DEF Deletes
    <3> QED
      BY <2>1, <2>2, <2>3, <3>2 DEF Changes, SameParts
  <2> QED
    BY <2>1, <2>4, <2>5
<1>4. CASE PatchBypass(m)
  <2>1. PICK r \in Request :
              /\ request' = [request EXCEPT ![m] = r]
              /\ \/ /\ capp' = [capp EXCEPT ![q.to].bypass = FALSE]
                    /\ capp[q.to] # NoCapp
                    /\ \/ Answered(r, q, "ok")
                       \/ WasUnanswered(r, q, "patch", "unpatched")
                 \/ UNCHANGED capp /\ Answered(r, q, "unpatched")
    BY <1>1, <1>4, PatchBypassEffect DEF Target
  <2>2. /\ q.pc = "patch" /\ q.unanswered = "none"
        /\ SameParts(r, q) /\ r.pc = "done" /\ Created(r)
    BY <1>1, <1>4, <2>1
    DEF PatchBypass, At, Created, Keeps, Answered, WasUnanswered, SameParts,
        Settled
  <2>3. CASE UNCHANGED capp /\ Answered(r, q, "unpatched")
    <3>1. Rests(r, q)
      BY <2>2, <2>3 DEF Rests, Answered, Keeps, Resolved
    <3> QED
      BY <2>1, <2>2, <3>1 DEF Changes, SameParts
  <2>4. CASE /\ capp' = [capp EXCEPT ![q.to].bypass = FALSE]
             /\ capp[q.to] # NoCapp
             /\ \/ Answered(r, q, "ok")
                \/ WasUnanswered(r, q, "patch", "unpatched")
    <3>1. capp[q.to] \in Capp
      BY <1>1, <2>4 DEF TypeOK
    <3>2. PICK c \in Capp : c = [capp[q.to] EXCEPT !.bypass = FALSE]
      BY <3>1 DEF Capp
    <3>3. capp'[q.to] = c /\ c.host = capp[q.to].host /\ OnlyChanges(q.to)
      BY <1>1, <2>4, <3>1, <3>2 DEF TypeOK, OnlyChanges, Capp
    <3>4. ~Keeps(r)
      BY <2>2, <2>4 DEF Keeps, Answered, WasUnanswered
    <3>5. Patches(r, q)
      BY <2>2, <2>4, <3>2, <3>3, <3>4, ConstantsAssumption DEF Patches
    <3> QED
      BY <2>1, <2>2, <3>5 DEF Changes, SameParts
  <2> QED
    BY <2>1, <2>3, <2>4
<1>5. CASE Crash(m)
  <2>1. PICK r \in Request : /\ request' = [request EXCEPT ![m] = r]
                             /\ Answered(r, q, "lost")
    BY <1>1, <1>5, ReplyEffect DEF Crash, Replies
  <2>2. Rests(r, q) /\ Created(r)
    BY <1>5, <2>1 DEF Rests, Crash, Answered, Created, Keeps, Resolved
  <2> QED
    BY <2>1, <2>2 DEF Changes, Rests, SameParts
<1> QED
  BY <1>2, <1>3, <1>4, <1>5

LEMMA MigrationEffect ==
    ASSUME BypassInv, NEW m \in Migrations, Start(m) \/ Step(m) \/ Crash(m)
    PROVE  \E r \in Request :
              /\ request' = [request EXCEPT ![m] = r]
              /\ r.from = request[m].from /\ r.to = request[m].to
              /\ Created(request[m]) => Created(r)
              /\ Changes(r, request[m])
<1>1. CASE \/ Start(m) \/ GetSource(m) \/ GetTarget(m) \/ ListSecrets(m)
           \/ ListConfigMaps(m) \/ Check(m) \/ Copy(m) \/ Cleanup(m)
  <2>1. UNCHANGED capp
    BY <1>1, EarlyStepsKeepCapps
  <2> QED
    BY <1>1, <2>1, EarlyStepEffect
<1> QED
  BY <1>1, LateStepEffect DEF Step

-----------------------------------------------------------------------------
(* How long a copy carries the annotation.  A copy that keeps its hostname *)
(* is created with the annotation, since the hostname the handler sets is  *)
(* never the one that was read; and whoever else comes to the place comes  *)
(* to a place that is free.                                                *)

CopyInv ==
    /\ BypassInv
    /\ \A m \in Migrations :
          request[m].pc \in Resolved => HostDecided(request[m])
    /\ CopyIsBypassed

\* The same statement, about requests.
Alone(m) ==
    \A n \in Migrations \ {m} :
        request[n].to = request[m].to => ~Created(request[n])

HostIsKept(m) ==
    /\ Target(m) # NoCapp /\ Target(m).host # NoHost
    /\ Target(m).host = request[m].read.host

LEMMA CopyIsBypassedIff ==
    CopyIsBypassed <=>
        \A m \in Migrations :
            Keeps(request[m]) /\ Alone(m) /\ HostIsKept(m) => Target(m).bypass
  BY DEF CopyIsBypassed, KeepsBypass, HasCreated, Alone, HostIsKept, Keeps,
     Created, At

\* prepareCapp gives the copy the hostname that was read only together with
\* the annotation.
LEMMA KeptHostIsBypassed ==
    ASSUME NEW q \in Request, q.read \in Capp, HostDecided(q),
           NEW c, c = PrepareCapp(q.read, q.effective),
           c.host # NoHost, c.host = q.read.host
    PROVE  c.bypass
<1>1. q.effective = NoHost
  BY DEF PrepareCapp, HostDecided, Capp
<1>2. c = [q.read EXCEPT !.bypass = q.read.bypass \/ q.read.host # NoHost]
  BY <1>1 DEF PrepareCapp
<1>3. c.bypass = (q.read.bypass \/ q.read.host # NoHost)
  BY <1>2 DEF Capp
<1>4. q.read.host # NoHost
  OBVIOUS
<1> QED
  BY <1>3, <1>4

LEMMA MigrationKeepsCopies ==
    ASSUME CopyInv, BypassInv', NEW m \in Migrations,
           Start(m) \/ Step(m) \/ Crash(m)
    PROVE  CopyInv'
<1> DEFINE q == request[m]
<1>1. TypeOK /\ TypeOK' /\ q \in Request /\ q.to \in Places /\ q.from \in Places
  BY RequestParts DEF CopyInv, BypassInv
<1>2. PICK r \in Request :
          /\ request' = [request EXCEPT ![m] = r]
          /\ r.from = q.from /\ r.to = q.to
          /\ Created(q) => Created(r)
          /\ Changes(r, q)
  BY MigrationEffect DEF CopyInv
<1>3. request'[m] = r /\ \A n \in Migrations \ {m} : request'[n] = request[n]
  BY <1>1, <1>2 DEF TypeOK
<1>4. \A n \in Migrations : request'[n].pc \in Resolved => HostDecided(request'[n])
  <2>1. r.pc \in Resolved => HostDecided(r)
    BY <1>2 DEF CopyInv, Changes, Rests, Reads, Resolves, Creates, Deletes,
       Patches, Resolved, HostDecided, SameParts, Created, Keeps
  <2> QED
    BY <1>3, <2>1 DEF CopyInv
<1>5. \A n \in Migrations \ {m} : Alone(n)' => Alone(n)
  BY <1>2, <1>3 DEF Alone
<1>6. Alone(m)' => Alone(m)
  BY <1>2, <1>3 DEF Alone
<1>7. \A n \in Migrations : request[n].to \in Places
  BY <1>1, RequestParts
<1>8. ASSUME NEW n \in Migrations \ {m}, Keeps(request'[n]), Alone(n)',
             HostIsKept(n)'
      PROVE  Target(n)'.bypass
  <2>1. Keeps(request[n]) /\ Alone(n) /\ request[n].to \in Places
    BY <1>3, <1>5, <1>7, <1>8
  <2>2. q.to = request[n].to => ~Created(r)
    BY <1>2, <1>3, <1>8 DEF Alone
  <2>3. Target(n)' = Target(n)
    <3>1. capp'[request[n].to] = capp[request[n].to]
      <4>1. CASE Rests(r, q) \/ Reads(r, q) \/ Resolves(r, q)
        BY <4>1 DEF Rests, Reads, Resolves
      <4>2. CASE Creates(r, q)
        BY <2>1, <2>2, <4>2 DEF Creates, OnlyChanges
      <4>3. CASE Deletes(r, q)
        BY <1>3, <1>8, <2>1, <4>3 DEF Deletes, OnlyChanges, HostIsKept, Target
      <4>4. CASE Patches(r, q)
        BY <2>1, <2>2, <4>4 DEF Patches, OnlyChanges, Created
      <4> QED
        BY <1>2, <4>1, <4>2, <4>3, <4>4 DEF Changes
    <3> QED
      BY <1>3, <3>1 DEF Target
  <2>4. HostIsKept(n)
    BY <1>3, <1>8, <2>3 DEF HostIsKept
  <2> QED
    BY <2>1, <2>3, <2>4, CopyIsBypassedIff DEF CopyInv
<1>9. ASSUME Keeps(r), Alone(m)', HostIsKept(m)'
      PROVE  Target(m)'.bypass
  <2>1. Target(m)' = capp'[q.to]
    BY <1>2, <1>3 DEF Target
  <2>2. CASE Rests(r, q)
    <3>1. Keeps(q) /\ Target(m)' = Target(m) /\ r.read = q.read
      BY <1>9, <2>1, <2>2 DEF Rests, SameParts, Target
    <3>2. HostIsKept(m)
      BY <1>3, <1>9, <3>1 DEF HostIsKept
    <3> QED
      BY <1>6, <1>9, <3>1, <3>2, CopyIsBypassedIff DEF CopyInv
  <2>3. CASE Creates(r, q)
    <3>1. q.read \in Capp /\ HostDecided(q) /\ r.read = q.read
      BY <1>1, <2>3, RequestParts
      DEF Creates, CopyInv, Resolved, NeedsCapp, Steps, SameParts
    <3>2. Target(m)' = PrepareCapp(q.read, q.effective)
      BY <2>1, <2>3 DEF Creates
    <3>3. Target(m)'.host # NoHost /\ Target(m)'.host = q.read.host
      BY <1>3, <1>9, <3>1 DEF HostIsKept
    <3> QED
      BY <1>1, <3>1, <3>2, <3>3, KeptHostIsBypassed
  <2>4. CASE Deletes(r, q)
    <3>1. q.to # q.from
      BY <1>9, <2>1, <2>4 DEF Deletes, HostIsKept
    <3>2. Keeps(q) /\ Target(m)' = Target(m) /\ r.read = q.read
      BY <1>1, <2>1, <2>4, <3>1
      DEF Deletes, OnlyChanges, SameParts, Target, Keeps
    <3>3. HostIsKept(m)
      BY <1>3, <1>9, <3>2 DEF HostIsKept
    <3> QED
      BY <1>6, <1>9, <3>2, <3>3, CopyIsBypassedIff DEF CopyInv
  <2>5. ~Reads(r, q) /\ ~Resolves(r, q) /\ ~Patches(r, q)
    <3>1. ~Patches(r, q)
      BY <1>9 DEF Patches
    <3>2. ASSUME Reads(r, q) \/ Resolves(r, q) PROVE FALSE
      <4>1. r.pc \in {"target", "secrets"} /\ Settled(r)
        BY <1>1, <1>3, <3>2 DEF Reads, Resolves, BypassInv
      <4>2. r.unanswered = "none"
        BY <4>1 DEF Settled
      <4> QED
        BY <1>9, <4>1, <4>2 DEF Keeps
    <3> QED
      BY <3>1, <3>2
  <2> QED
    BY <1>2, <2>2, <2>3, <2>4, <2>5 DEF Changes
<1>10. CopyIsBypassed'
  <2>1. ASSUME NEW n \in Migrations, Keeps(request'[n]), Alone(n)',
               HostIsKept(n)'
        PROVE  Target(n)'.bypass
    BY <1>3, <1>8, <1>9, <2>1
  <2> QED
    BY <2>1 DEF CopyIsBypassed, KeepsBypass, HasCreated, Alone, HostIsKept, Keeps,
       Created, At
<1> QED
  BY <1>4, <1>10 DEF CopyInv

\* A Capp that others create has no hostname.
LEMMA CreateOtherEffect ==
    ASSUME TypeOK, NEW p \in Places, CreateOther(p)
    PROVE  /\ capp[p] = NoCapp /\ capp'[p].host = NoHost
           /\ OnlyChanges(p)
           /\ UNCHANGED request
<1>1. capp' = [capp EXCEPT ![p] = [host |-> NoHost, label |-> FALSE,
                                   bypass |-> FALSE]]
  BY DEF CreateOther
<1> QED
  BY <1>1 DEF CreateOther, OnlyChanges, TypeOK

LEMMA OthersKeepCopies ==
    ASSUME CopyInv, BypassInv', NEW p \in Places, CreateOther(p)
    PROVE  CopyInv'
<1>1. TypeOK
  BY DEF CopyInv, BypassInv
<1>2. /\ capp[p] = NoCapp /\ capp'[p].host = NoHost
      /\ OnlyChanges(p) /\ UNCHANGED request
  BY <1>1, CreateOtherEffect
<1>3. \A n \in Migrations : request[n].to \in Places
  BY <1>1, RequestParts
<1>4. ASSUME NEW n \in Migrations, Keeps(request[n]), Alone(n), HostIsKept(n)'
      PROVE  Target(n)'.bypass
  <2>1. capp'[request[n].to] = capp[request[n].to]
    BY <1>2, <1>3, <1>4 DEF OnlyChanges, HostIsKept, Target
  <2>2. HostIsKept(n) /\ Target(n)' = Target(n)
    BY <1>2, <1>4, <2>1 DEF HostIsKept, Target
  <2> QED
    BY <1>4, <2>2, CopyIsBypassedIff DEF CopyInv
<1>5. CopyIsBypassed'
  BY <1>2, <1>4 DEF CopyIsBypassed, KeepsBypass, HasCreated, Alone, HostIsKept,
     Keeps, Created, At
<1> QED
  BY <1>2, <1>5 DEF CopyInv

LEMMA CopyInit == Init => CopyInv
<1> SUFFICES ASSUME Init, BypassInv PROVE CopyInv
  BY BypassInit
<1>1. \A m \in Migrations : request[m].pc = "idle"
  BY InitRequests
<1>2. \A m \in Migrations : request[m].unanswered = "none"
  BY DEF Init
<1> QED
  BY <1>1, <1>2 DEF CopyInv, CopyIsBypassed, KeepsBypass, At, Resolved

LEMMA CopyStep == CopyInv /\ [Next]_vars => CopyInv'
<1> SUFFICES ASSUME CopyInv, [Next]_vars PROVE CopyInv'
  OBVIOUS
<1>1. BypassInv'
  BY BypassStep DEF CopyInv
<1>2. ASSUME NEW m \in Migrations, Start(m) \/ Step(m) \/ Crash(m)
      PROVE  CopyInv'
  BY <1>1, <1>2, MigrationKeepsCopies
<1>3. ASSUME NEW p \in Places, CreateOther(p)
      PROVE  CopyInv'
  BY <1>1, <1>3, OthersKeepCopies
<1>4. CASE UNCHANGED <<capp, request>>
  BY <1>1, <1>4 DEF CopyInv, CopyIsBypassed, KeepsBypass, HasCreated, Target,
     At
<1> QED
  BY <1>2, <1>3, <1>4 DEF Next, CreateDep, Finished, vars

-----------------------------------------------------------------------------
(* Two places, and migrations that cross between them.  As long as no      *)
(* three have: what a handler has read is still the Capp it moves, until   *)
(* somebody has come from there; a handler that is about to patch has left *)
(* a place behind that others can only refill with a copy that carries the *)
(* annotation; and of two such handlers one has taken a Capp away that is  *)
(* not replaced.                                                           *)

Hosted(p) == capp[p] # NoCapp /\ capp[p].host # NoHost
Alike(p, q) == Hosted(p) /\ Hosted(q) /\ capp[p].host = capp[q].host

\* The migrations that have come to the place p.
Arrived(p) == {m \in Migrations : request[m].to = p /\ Created(request[m])}

\* The migration m, from p to q.
Crossing(m, p, q) ==
    /\ request[m].read # NoCapp /\ Arrived(q) = {} =>
          capp[p] # NoCapp /\ capp[p].host = request[m].read.host
    /\ (/\ request[m].read # NoCapp /\ request[m].read.host # NoHost
        /\ Arrived(p) = {} /\ Hosted(p))
          => capp[p].host = request[m].read.host
    /\ request[m].pc = "patch" /\ Arrived(p) = {} => ~Hosted(p)
    /\ request[m].pc = "patch" /\ Alike(p, q) => capp[p].bypass
    /\ \A n \in Migrations :
          (/\ request[m].pc = "patch" /\ request[n].pc = "patch"
           /\ request[n].to = p)
              => ~Hosted(p) \/ ~Hosted(q)

Crossings ==
    /\ \A p, q \in Places :
          p # q /\ Alike(p, q) => capp[p].bypass \/ capp[q].bypass
    /\ \A m \in Migrations : Crossing(m, request[m].from, request[m].to)

CrossInv ==
    /\ CopyInv
    /\ \A m \in Migrations : request[m].from # request[m].to
    /\ Cardinality(Places) <= 2 /\ ~ThreeHaveCrossed => Crossings

\* If there are two places at most, a and b are all.
LEMMA TwoPlaces ==
    ASSUME Cardinality(Places) <= 2, NEW a \in Places, NEW b \in Places, a # b
    PROVE  Places = {a, b}
<1>1. {a, b} \in SUBSET Places
  OBVIOUS
<1>2. Cardinality({a, b}) = 2 /\ IsFiniteSet({a, b})
  <2>1. IsFiniteSet({a}) /\ Cardinality({a}) = 1
    BY FS_Singleton
  <2>2. {a} \cup {b} = {a, b} /\ b \notin {a}
    OBVIOUS
  <2>3. IsFiniteSet({a} \cup {b}) /\ Cardinality({a} \cup {b}) = 1 + 1
    BY <2>1, <2>2, FS_AddElement
  <2> QED
    BY <2>2, <2>3
<1>3. IsFiniteSet(Places)
  BY ConstantsAssumption
<1>4. Cardinality(Places) \in Nat
  BY <1>3, FS_CardinalityType
<1>5. /\ Cardinality({a, b}) <= Cardinality(Places)
      /\ Cardinality({a, b}) = Cardinality(Places) => {a, b} = Places
  BY <1>1, <1>3, FS_Subset
<1> QED
  BY <1>2, <1>4, <1>5

\* Three have crossed when two have come to one place and one to the other.
LEMMA ThreeCross ==
    ASSUME \A m \in Migrations : request[m].from # request[m].to,
           \A m \in Migrations : request[m].from \in Places,
           ~ThreeHaveCrossed,
           NEW a \in Places, NEW b \in Places, Places = {a, b},
           NEW m \in Arrived(b), NEW n \in Arrived(b), m # n
    PROVE  Arrived(a) = {}
<1>1. ASSUME NEW r \in Arrived(a) PROVE FALSE
  <2>1. request[r].from = b
    BY DEF Arrived
  <2>2. /\ m \in Migrations /\ n \in Migrations /\ r \in Migrations
        /\ request[m].to = request[n].to /\ request[r].from = request[m].to
    BY <2>1 DEF Arrived
  <2>3. HasCreated(m) /\ HasCreated(n) /\ HasCreated(r)
    BY DEF Arrived, Created, Keeps, HasCreated, KeepsBypass, At
  <2> QED
    BY <2>2, <2>3 DEF ThreeHaveCrossed
<1> QED
  BY <1>1

\* What the steps of m between the places a and b have in common.
CrossStep(m, r, a, b) ==
    /\ CrossInv /\ TypeOK /\ TypeOK'
    /\ r \in Request /\ r.from = a /\ r.to = b
    /\ request[m].from = a /\ request[m].to = b
    /\ a # b /\ Places = {a, b}
    /\ request'[m] = r /\ \A n \in Migrations \ {m} : request'[n] = request[n]
    /\ \A n \in Migrations :
          /\ request'[n].from = request[n].from /\ request'[n].to = request[n].to
          /\ \/ request[n].from = a /\ request[n].to = b
             \/ request[n].from = b /\ request[n].to = a
    /\ Crossings
    /\ Arrived(a) \subseteq Arrived(a)' /\ Arrived(b) \subseteq Arrived(b)'
    /\ \A x, y \in Migrations :
          x # y /\ x \in Arrived(a)' /\ y \in Arrived(a)' => Arrived(b)' = {}
    /\ \A x, y \in Migrations :
          x # y /\ x \in Arrived(b)' /\ y \in Arrived(b)' => Arrived(a)' = {}

\* The places are a and b: what has to be shown.
LEMMA CrossGoal ==
    ASSUME NEW m \in Migrations, NEW r, NEW a \in Places, NEW b \in Places,
           CrossStep(m, r, a, b),
           Alike(a, b)' => capp'[a].bypass \/ capp'[b].bypass,
           \A n \in Migrations :
              /\ request[n].from = a /\ request[n].to = b => Crossing(n, a, b)'
              /\ request[n].from = b /\ request[n].to = a => Crossing(n, b, a)'
    PROVE  Crossings'
<1>1. ASSUME NEW n \in Migrations
      PROVE  Crossing(n, request[n].from, request[n].to)'
  <2>1. CASE request[n].from = a /\ request[n].to = b
    <3>1. Crossing(n, a, b)' /\ request'[n].from = a /\ request'[n].to = b
      BY <2>1 DEF CrossStep
    <3> QED
      BY <3>1
  <2>2. CASE request[n].from = b /\ request[n].to = a
    <3>1. Crossing(n, b, a)' /\ request'[n].from = b /\ request'[n].to = a
      BY <2>2 DEF CrossStep
    <3> QED
      BY <3>1
  <2> QED
    BY <2>1, <2>2 DEF CrossStep
<1>2. \A p, q \in Places :
          p # q /\ Alike(p, q)' => capp'[p].bypass \/ capp'[q].bypass
  BY DEF CrossStep, Alike, Hosted
<1> QED
  BY <1>1, <1>2 DEF Crossings

LEMMA QuietCrossing ==
    ASSUME NEW m \in Migrations, NEW r, NEW a \in Places, NEW b \in Places,
           CrossStep(m, r, a, b),
           Rests(r, request[m]) \/ Reads(r, request[m]) \/ Resolves(r, request[m])
    PROVE  Crossings'
<1>1. UNCHANGED capp /\ r.pc # "patch"
      /\ \/ r.read = request[m].read
         \/ r.read = capp[a] /\ r.read # NoCapp
  BY DEF CrossStep, Rests, Reads, Resolves, SameParts
<1>2. Hosted(a)' = Hosted(a) /\ Hosted(b)' = Hosted(b)
      /\ Alike(a, b)' = Alike(a, b) /\ Alike(b, a)' = Alike(b, a)
  BY <1>1 DEF Hosted, Alike
<1>3. ASSUME NEW n \in Migrations, request[n].from = a, request[n].to = b
      PROVE  Crossing(n, a, b)'
  <2>1. Crossing(n, a, b)
    BY <1>3 DEF CrossStep, Crossings
  <2>2. CASE n = m
    BY <1>1, <1>2, <2>1, <2>2 DEF CrossStep, Crossing
  <2>3. CASE n # m
    BY <1>1, <1>2, <2>1, <2>3 DEF CrossStep, Crossing
  <2> QED
    BY <2>2, <2>3
<1>4. ASSUME NEW n \in Migrations, request[n].from = b, request[n].to = a
      PROVE  Crossing(n, b, a)'
  <2>1. Crossing(n, b, a) /\ n # m
    BY <1>4 DEF CrossStep, Crossings
  <2> QED
    BY <1>1, <1>2, <2>1 DEF CrossStep, Crossing
<1>5. Alike(a, b)' => capp'[a].bypass \/ capp'[b].bypass
  BY <1>1, <1>2 DEF CrossStep, Crossings
<1> QED
  BY <1>3, <1>4, <1>5, CrossGoal

LEMMA DeleteCrossing ==
    ASSUME NEW m \in Migrations, NEW r, NEW a \in Places, NEW b \in Places,
           CrossStep(m, r, a, b), Deletes(r, request[m])
    PROVE  Crossings'
<1>1. /\ capp'[a] = NoCapp /\ capp'[b] = capp[b]
      /\ r.read = request[m].read
  BY DEF CrossStep, Deletes, OnlyChanges, SameParts
<1>2. m \in Arrived(b)
  BY DEF CrossStep, Deletes, Arrived, Created, Keeps
<1>3. ~Hosted(a)' /\ Hosted(b)' = Hosted(b)
  BY <1>1 DEF Hosted
<1>4. ASSUME NEW n \in Migrations, request[n].from = a, request[n].to = b
      PROVE  Crossing(n, a, b)'
  BY <1>2, <1>3 DEF CrossStep, Crossing, Alike
<1>5. ASSUME NEW n \in Migrations, request[n].from = b, request[n].to = a
      PROVE  Crossing(n, b, a)'
  <2>1. Crossing(n, b, a) /\ request'[n] = request[n]
    BY <1>5 DEF CrossStep, Crossings
  <2> QED
    BY <1>1, <1>3, <2>1 DEF CrossStep, Crossing, Alike
<1> QED
  BY <1>3, <1>4, <1>5, CrossGoal DEF Alike

LEMMA PatchCrossing ==
    ASSUME NEW m \in Migrations, NEW r, NEW a \in Places, NEW b \in Places,
           CrossStep(m, r, a, b), Patches(r, request[m])
    PROVE  Crossings'
<1>1. /\ capp'[b] # NoCapp /\ capp[b] # NoCapp /\ capp'[b].host = capp[b].host
      /\ capp'[a] = capp[a] /\ r.read = request[m].read /\ r.pc = "done"
  BY DEF CrossStep, Patches, OnlyChanges, SameParts
<1>2. Hosted(a)' = Hosted(a) /\ Hosted(b)' = Hosted(b)
      /\ Alike(a, b)' = Alike(a, b)
  BY <1>1 DEF Hosted, Alike
<1>3. Crossing(m, a, b) /\ request[m].pc = "patch"
  BY DEF CrossStep, Crossings, Patches
<1>4. ASSUME NEW n \in Migrations, request[n].from = a, request[n].to = b
      PROVE  Crossing(n, a, b)'
  <2>1. Crossing(n, a, b)
    BY <1>4 DEF CrossStep, Crossings
  <2>2. CASE n = m
    BY <1>1, <1>2, <2>1, <2>2 DEF CrossStep, Crossing
  <2>3. CASE n # m
    BY <1>1, <1>2, <2>1, <2>3 DEF CrossStep, Crossing
  <2> QED
    BY <2>2, <2>3
<1>5. ASSUME NEW n \in Migrations, request[n].from = b, request[n].to = a
      PROVE  Crossing(n, b, a)'
  <2>1. Crossing(n, b, a) /\ request'[n] = request[n]
    BY <1>5 DEF CrossStep, Crossings
  <2>2. request[n].pc = "patch" => ~Hosted(a) \/ ~Hosted(b)
    BY <1>3, <2>1 DEF CrossStep, Crossing
  <2> QED
    BY <1>1, <1>2, <2>1, <2>2 DEF CrossStep, Crossing, Alike
<1>6. Alike(a, b)' => capp'[a].bypass
  BY <1>1, <1>2, <1>3 DEF Crossing
<1> QED
  BY <1>4, <1>5, <1>6, CrossGoal

LEMMA CreateCrossing ==
    ASSUME NEW m \in Migrations, NEW r, NEW a \in Places, NEW b \in Places,
           CrossStep(m, r, a, b), Creates(r, request[m])
    PROVE  Crossings'
<1> DEFINE q == request[m]
<1>1. /\ q \in Request /\ q.read \in Capp /\ q.read # NoCapp /\ HostDecided(q)
      /\ q.pc = "capp"
  BY RequestParts, ConstantsAssumption
  DEF CrossStep, CrossInv, CopyInv, Creates, NeedsCapp, Steps, Resolved
<1>2. /\ capp[b] = NoCapp /\ capp'[b] = PrepareCapp(q.read, q.effective)
      /\ capp'[a] = capp[a] /\ r.read = q.read /\ r.pc # "patch"
      /\ m \in Arrived(b)' /\ m \notin Arrived(b)
  BY <1>1
  DEF CrossStep, Creates, OnlyChanges, SameParts, Arrived, Created, Keeps
<1>3. Hosted(a)' = Hosted(a)
  BY <1>2 DEF Hosted
<1>4. Crossing(m, a, b)
  BY DEF CrossStep, Crossings
<1>5. Arrived(b) # {} => Arrived(a)' = {} /\ Arrived(a) = {}
  <2> SUFFICES ASSUME Arrived(b) # {}
               PROVE  Arrived(a)' = {} /\ Arrived(a) = {}
    OBVIOUS
  <2>1. PICK n \in Arrived(b) : n # m
    BY <1>2
  <2>2. n \in Migrations /\ n \in Arrived(b)'
    BY <2>1 DEF CrossStep, Arrived
  <2>3. Arrived(a)' = {}
    BY <1>2, <2>1, <2>2 DEF CrossStep
  <2> QED
    BY <2>3 DEF CrossStep
<1>6. Alike(a, b)' => capp'[b].bypass
  <2> SUFFICES ASSUME Alike(a, b)' PROVE capp'[b].bypass
    OBVIOUS
  <2>1. Hosted(a) /\ capp'[b].host = capp[a].host /\ capp[a].host # NoHost
    BY <1>2, <1>3 DEF Alike, Hosted
  <2>2. CASE q.read.host = NoHost
    <3>1. capp'[b].host = NoHost
      <4>1. q.effective = NoHost
        BY <2>2 DEF HostDecided, CrossStep, CrossInv, CopyInv, Creates, Resolved
      <4> QED
        BY <1>1, <1>2, <2>2, <4>1 DEF PrepareCapp, Capp
    <3> QED
      BY <2>1, <3>1
  <2>3. CASE q.read.host # NoHost
    <3>1. capp[a].host = q.read.host
      BY <1>1, <1>4, <1>5, <2>1, <2>3 DEF Crossing
    <3> QED
      BY <1>1, <1>2, <2>1, <3>1, KeptHostIsBypassed
  <2> QED
    BY <2>2, <2>3
<1>7. ASSUME NEW n \in Migrations, request[n].from = a, request[n].to = b
      PROVE  Crossing(n, a, b)'
  <2>1. Crossing(n, a, b)
    BY <1>7 DEF CrossStep, Crossings
  <2>2. request'[n].read = request[n].read
    BY <1>2 DEF CrossStep
  <2>3. request'[n].pc = "patch" => ~Hosted(a)
    <3>1. SUFFICES ASSUME request'[n].pc = "patch" PROVE ~Hosted(a)
      OBVIOUS
    <3>2. n # m /\ request[n].pc = "patch"
      BY <1>2, <3>1 DEF CrossStep
    <3>3. n \in Arrived(b)
      BY <1>7, <3>2 DEF Arrived, Created, Keeps
    <3> QED
      BY <1>5, <2>1, <3>2, <3>3 DEF Crossing
  <2>4. (/\ request'[n].read # NoCapp /\ request'[n].read.host # NoHost
         /\ Arrived(a)' = {} /\ Hosted(a)')
           => capp'[a].host = request'[n].read.host
    BY <1>2, <1>3, <2>1, <2>2 DEF CrossStep, Crossing
  <2> QED
    BY <1>2, <1>3, <2>3, <2>4 DEF Crossing, Alike
<1>8. ASSUME NEW n \in Migrations, request[n].from = b, request[n].to = a
      PROVE  Crossing(n, b, a)'
  <2>1. Crossing(n, b, a) /\ request'[n] = request[n]
    BY <1>8 DEF CrossStep, Crossings
  <2>2. ~(request'[n].read # NoCapp /\ Arrived(a)' = {})
    BY <1>2, <2>1 DEF CrossStep, Crossing
  <2>3. Alike(b, a)' => capp'[b].bypass
    BY <1>6 DEF Alike
  <2>4. ASSUME NEW k \in Migrations, request'[n].pc = "patch",
               request'[k].pc = "patch", request'[k].to = b
        PROVE  FALSE
    <3>1. k # m /\ k \in Arrived(b)' /\ n \in Arrived(a)'
      BY <1>2, <1>8, <2>4 DEF CrossStep, Arrived, Created, Keeps
    <3> QED
      BY <1>2, <3>1 DEF CrossStep
  <2> QED
    BY <1>2, <2>2, <2>3, <2>4 DEF Crossing
<1> QED
  BY <1>6, <1>7, <1>8, CrossGoal

LEMMA MigrationKeepsCrossings ==
    ASSUME CrossInv, CopyInv', NEW m \in Migrations,
           Start(m) \/ Step(m) \/ Crash(m)
    PROVE  CrossInv'
<1> DEFINE q == request[m]
<1>1. /\ TypeOK /\ TypeOK' /\ q.from \in Places /\ q.to \in Places
      /\ BypassInv
  BY RequestParts DEF CrossInv, CopyInv, BypassInv
<1>2. PICK r \in Request :
          /\ request' = [request EXCEPT ![m] = r]
          /\ r.from = q.from /\ r.to = q.to
          /\ Created(q) => Created(r)
          /\ Changes(r, q)
  BY <1>1, MigrationEffect
<1>3. request'[m] = r /\ \A n \in Migrations \ {m} : request'[n] = request[n]
  BY <1>1, <1>2 DEF TypeOK
<1>4. \A n \in Migrations : request'[n].from = request[n].from
                            /\ request'[n].to = request[n].to
                            /\ (Created(request[n]) => Created(request'[n]))
  BY <1>2, <1>3
<1>5. \A n \in Migrations : request'[n].from # request'[n].to
  BY <1>4 DEF CrossInv
<1>6. ASSUME Cardinality(Places) <= 2, ~ThreeHaveCrossed'
      PROVE  Crossings'
  <2>1. PICK a \in Places, b \in Places : a = q.from /\ b = q.to
    BY <1>1
  <2>2. a # b /\ Places = {a, b}
    BY <1>6, <2>1, TwoPlaces DEF CrossInv
  <2>3. \A n \in Migrations : HasCreated(n) => HasCreated(n)'
    BY <1>4 DEF HasCreated, KeepsBypass, At, Created, Keeps
  <2>4. ~ThreeHaveCrossed
    BY <1>4, <1>6, <2>3 DEF ThreeHaveCrossed
  <2>5. Crossings
    BY <1>6, <2>4 DEF CrossInv
  <2>6. \A n \in Migrations :
            \/ request[n].from = a /\ request[n].to = b
            \/ request[n].from = b /\ request[n].to = a
    <3>1. \A n \in Migrations : request[n].from \in {a, b} /\ request[n].to \in {a, b}
      BY <1>1, <2>2, RequestParts
    <3> QED
      BY <3>1 DEF CrossInv
  <2>7. Arrived(a) \subseteq Arrived(a)' /\ Arrived(b) \subseteq Arrived(b)'
    BY <1>4 DEF Arrived
  <2>8. ASSUME NEW u \in Places, NEW v \in Places, Places = {u, v},
               NEW x \in Migrations, NEW y \in Migrations, x # y,
               x \in Arrived(u)', y \in Arrived(u)'
        PROVE  Arrived(v)' = {}
    <3>1. ASSUME NEW k \in Arrived(v)' PROVE FALSE
      <4>1. k \in Migrations /\ request'[k].from = u
        <5>1. /\ k \in Migrations /\ request'[k].to = v
              /\ request'[k].from \in {u, v} /\ request'[k].from # v
          BY <1>1, <1>4, <1>5, <2>8, <3>1, RequestParts DEF Arrived
        <5> QED
          BY <5>1
      <4>2. HasCreated(x)' /\ HasCreated(y)' /\ HasCreated(k)'
        BY <2>8, <3>1
        DEF Arrived, Created, Keeps, HasCreated, KeepsBypass, At
      <4>3. request'[x].to = u /\ request'[y].to = u
        BY <2>8 DEF Arrived
      <4> QED
        BY <1>6, <2>8, <4>1, <4>2, <4>3 DEF ThreeHaveCrossed
    <3> QED
      BY <3>1
  <2>9. CrossStep(m, r, a, b)
    <3>1. /\ \A x, y \in Migrations :
                x # y /\ x \in Arrived(a)' /\ y \in Arrived(a)' => Arrived(b)' = {}
          /\ \A x, y \in Migrations :
                x # y /\ x \in Arrived(b)' /\ y \in Arrived(b)' => Arrived(a)' = {}
      BY <2>2, <2>8
    <3> QED
      BY <1>1, <1>2, <1>3, <1>4, <2>1, <2>2, <2>5, <2>6, <2>7, <3>1
      DEF CrossStep
  <2> QED
    BY <1>2, <2>9, QuietCrossing, CreateCrossing, DeleteCrossing, PatchCrossing
    DEF Changes
<1> QED
  BY <1>5, <1>6 DEF CrossInv

LEMMA OthersKeepCrossings ==
    ASSUME CrossInv, CopyInv', NEW p \in Places, CreateOther(p)
    PROVE  CrossInv'
<1>1. TypeOK
  BY DEF CrossInv, CopyInv, BypassInv
<1>2. /\ capp[p] = NoCapp /\ capp'[p].host = NoHost
      /\ OnlyChanges(p) /\ UNCHANGED request
  BY <1>1, CreateOtherEffect
<1>3. ~ThreeHaveCrossed' => ~ThreeHaveCrossed
  BY <1>2 DEF ThreeHaveCrossed, HasCreated, KeepsBypass, At
<1>4. /\ ~Hosted(p)' /\ \A x \in Places \ {p} : Hosted(x)' = Hosted(x)
      /\ \A x \in Places : Arrived(x)' = Arrived(x)
  BY <1>2 DEF Hosted, OnlyChanges, Arrived
<1>5. ASSUME Crossings PROVE Crossings'
  <2>1. ASSUME NEW n \in Migrations, NEW x \in Places, NEW y \in Places,
               Crossing(n, x, y)
        PROVE  Crossing(n, x, y)'
    <3>1. /\ Alike(x, y)' => Alike(x, y) /\ capp'[x] = capp[x]
          /\ Hosted(x)' => Hosted(x) /\ capp'[x] = capp[x]
          /\ Hosted(y)' => Hosted(y)
          /\ capp[x] # NoCapp => capp'[x] = capp[x]
      BY <1>2, <1>4 DEF Alike, Hosted, OnlyChanges
    <3> QED
      BY <1>2, <1>4, <2>1, <3>1 DEF Crossing
  <2>2. \A n \in Migrations : request[n].from \in Places /\ request[n].to \in Places
    BY <1>1, RequestParts
  <2>3. \A n \in Migrations : Crossing(n, request[n].from, request[n].to)'
    <3>1. ASSUME NEW n \in Migrations
          PROVE  Crossing(n, request[n].from, request[n].to)'
      <4>1. PICK x \in Places, y \in Places : x = request[n].from /\ y = request[n].to
        BY <2>2
      <4>2. Crossing(n, x, y)' /\ request'[n].from = x /\ request'[n].to = y
        BY <1>2, <1>5, <2>1, <4>1 DEF Crossings
      <4> QED
        BY <4>2
    <3> QED
      BY <3>1
  <2>4. ASSUME NEW x \in Places, NEW y \in Places, x # y, Alike(x, y)'
        PROVE  capp'[x].bypass \/ capp'[y].bypass
    <3>1. capp'[x] = capp[x] /\ capp'[y] = capp[y] /\ Alike(x, y)
      BY <1>2, <1>4, <2>4 DEF Alike, OnlyChanges, Hosted
    <3> QED
      BY <1>5, <2>4, <3>1 DEF Crossings
  <2> QED
    BY <2>3, <2>4 DEF Crossings
<1> QED
  BY <1>2, <1>3, <1>5 DEF CrossInv

LEMMA CrossInit == Init => CrossInv
<1> SUFFICES ASSUME Init PROVE CrossInv
  OBVIOUS
<1>1. CopyInv /\ \A m \in Migrations : request[m].from # request[m].to
  <2>1. CopyInv
    BY CopyInit
  <2>2. ASSUME NEW m \in Migrations PROVE request[m].from # request[m].to
    BY SMT DEF Init
  <2> QED
    BY <2>1, <2>2
<1>2. \A m \in Migrations : request[m].pc = "idle" /\ request[m].read = NoCapp
  BY DEF Init
<1>3. ASSUME NEW p \in Places, NEW q \in Places, p # q PROVE ~Alike(p, q)
  <2>1. PICK o \in Places, c \in Capp :
           capp = [x \in Places |-> IF x = o THEN c ELSE NoCapp]
    BY DEF Init
  <2> QED
    BY <1>3, <2>1 DEF Alike, Hosted
<1>4. Crossings
  BY <1>2, <1>3 DEF Crossings, Crossing
<1> QED
  BY <1>1, <1>4 DEF CrossInv

LEMMA CrossStepKeeps == CrossInv /\ [Next]_vars => CrossInv'
<1> SUFFICES ASSUME CrossInv, [Next]_vars PROVE CrossInv'
  OBVIOUS
<1>1. CopyInv'
  BY CopyStep DEF CrossInv
<1>2. ASSUME NEW m \in Migrations, Start(m) \/ Step(m) \/ Crash(m)
      PROVE  CrossInv'
  BY <1>1, <1>2, MigrationKeepsCrossings
<1>3. ASSUME NEW p \in Places, CreateOther(p)
      PROVE  CrossInv'
  BY <1>1, <1>3, OthersKeepCrossings
<1>4. CASE UNCHANGED <<capp, request>>
  BY <1>1, <1>4 DEF CrossInv, Crossings, Crossing, Arrived, Alike, Hosted,
     ThreeHaveCrossed, HasCreated, KeepsBypass, At
<1> QED
  BY <1>2, <1>3, <1>4 DEF Next, CreateDep, Finished, vars

LEMMA CrossInvariance == Spec => []CrossInv
  BY CrossInit, CrossStepKeeps, PTL DEF Spec

\* The annotation lasts as long as the move: no Capp carries it without a
\* reason, and as long as a copy has the hostname of its source and its
\* migration has not removed the annotation, it is there, for any number of
\* migrations and places; and between two places no two Capps have the same
\* hostname without it, unless three migrations have crossed.
THEOREM BypassLasts == Spec => []BypassLastsAsLongAsTheMove
<1>1. CrossInv => BypassLastsAsLongAsTheMove
  <2> SUFFICES ASSUME CrossInv PROVE BypassLastsAsLongAsTheMove
    OBVIOUS
  <2>1. CopyIsBypassed /\ BypassHasAReason
    BY DEF CrossInv, CopyInv, BypassInv, Explains, BypassHasAReason, At
  <2>2. SharedHostIsBypassed
    BY DEF CrossInv, Crossings, Alike, Hosted, SharedHostIsBypassed
  <2> QED
    BY <2>1, <2>2 DEF BypassLastsAsLongAsTheMove
<1> QED
  BY <1>1, CrossInvariance, PTL

==============================================================================
