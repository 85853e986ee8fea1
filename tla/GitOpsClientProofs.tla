------------------------- MODULE GitOpsClientProofs -------------------------
(***************************************************************************)
(* Proofs about GitOpsClient, for every number of replicas, calls, paths   *)
(* and contents.  What depends on the local clone not failing is proved    *)
(* from the assumption NetworkFaultsOnly.                                  *)
(***************************************************************************)
EXTENDS TornClones, TLAPS

\* The file system of the replica does not fail: only the network and the
\* processes do.
NetworkFaultsOnly == Faults \cap {"stage", "commit", "reset"} = {}

Results == {"ok", "failed"}
Locked == {"pull", "commit", "push", "reset"}

-----------------------------------------------------------------------------
(* Types. *)

LEMMA FreshCloneType == ASSUME TypeOK PROVE FreshClone \in Clone
BY DEF TypeOK, FreshClone, Clone

LEMMA CloneOfType ==
    ASSUME TypeOK, NEW c \in Calls
    PROVE  /\ CloneOf(c) \in Clone
           /\ call[c] \in Call
           /\ call[c].at \in Replicas
           /\ call[c].path \in Paths
           /\ call[c].value \in Content
BY DEF TypeOK, CloneOf, Call

LEMMA CheckoutsType ==
    ASSUME NEW cl \in Clone, NEW files \in FileMap,
           NEW d \in Checkouts(cl, files)
    PROVE  d \in FileMap
BY DEF Checkouts, Clone, FileMap

LEMMA PulledType ==
    ASSUME TypeOK, NEW cl \in Clone, NEW new \in Pulled(cl)
    PROVE  new \in Clone
<1>1. remote.version \in Nat /\ remote.files \in FileMap
  BY DEF TypeOK
<1>2. CASE cl.local > 0 \/ cl.base = remote.version
  BY <1>1, <1>2 DEF Pulled, Clone
<1>3. CASE ~(cl.local > 0 \/ cl.base = remote.version)
  <2>1. PICK d \in Checkouts(cl, remote.files) :
          new = [FreshClone EXCEPT !.disk = d]
    BY <1>3 DEF Pulled
  <2>2. d \in FileMap
    BY <1>1, CheckoutsType
  <2>. QED
    BY <2>1, <2>2, FreshCloneType DEF Clone
<1>. QED
  BY <1>2, <1>3

LEMMA CommittedType ==
    ASSUME TypeOK, NEW c \in Calls
    PROVE  Written(c) \in Clone /\ Staged(c) \in Clone /\ Committed(c) \in Clone
<1>1. CloneOf(c) \in Clone /\ call[c].path \in Paths /\ call[c].value \in Content
  BY CloneOfType
<1>2. Written(c) \in Clone
  BY <1>1 DEF Written, Clone, FileMap
<1>3. Staged(c) \in Clone
  BY <1>1, <1>2 DEF Staged, Clone, FileMap
<1>4. \A cl \in Clone, n \in Nat :
        [cl EXCEPT !.head = cl.index, !.local = n] \in Clone
  BY DEF Clone
<1>5. Staged(c).local + 1 \in Nat
  BY <1>3 DEF Clone
<1>6. Committed(c) \in Clone
  BY <1>3, <1>4, <1>5 DEF Committed
<1>. QED
  BY <1>2, <1>3, <1>6

\* The three variables a call changes besides the remote.
LEMMA GotoType ==
    ASSUME TypeOK, NEW c \in Calls, NEW pc \in Steps \cup Results, Goto(c, pc)
    PROVE  /\ call' \in [Calls -> Call]
           /\ call' = [call EXCEPT ![c].pc = pc]
           /\ call'[c] = [call[c] EXCEPT !.pc = pc]
           /\ call'[c].pc = pc /\ call'[c].at = call[c].at
           /\ call'[c].path = call[c].path /\ call'[c].value = call[c].value
           /\ \A x \in Calls \ {c} : call'[x] = call[x]
<1>1. call \in [Calls -> Call]
  BY DEF TypeOK
<1>2. call'[c] = [call[c] EXCEPT !.pc = pc]
  BY <1>1 DEF Goto
<1>3. call'[c] \in Call
  BY <1>1, <1>2 DEF Call, Results
<1>4. /\ call'[c].pc = pc /\ call'[c].at = call[c].at
      /\ call'[c].path = call[c].path /\ call'[c].value = call[c].value
  BY <1>1, <1>2 DEF Call
<1>. QED
  BY <1>1, <1>2, <1>3, <1>4 DEF Goto

LEMMA SetCloneType ==
    ASSUME TypeOK, NEW c \in Calls, NEW new \in Clone, SetClone(c, new)
    PROVE  clone' \in [Replicas -> Clone]
BY CloneOfType DEF SetClone, TypeOK

LEMMA ReturnType ==
    ASSUME TypeOK, NEW c \in Calls, NEW pc \in Results, Return(c, pc)
    PROVE  call' \in [Calls -> Call] /\ holder' \in [Replicas -> Calls \cup {NoCall}]
<1>1. call' \in [Calls -> Call]
  BY GotoType DEF Return
<1>. QED
  BY <1>1, CloneOfType DEF Return, TypeOK

LEMMA KeepLockType ==
    ASSUME TypeOK, NEW c \in Calls, NEW pc \in Steps, KeepLock(c, pc)
    PROVE  call' \in [Calls -> Call] /\ holder' \in [Replicas -> Calls \cup {NoCall}]
BY GotoType DEF KeepLock, TypeOK

LEMMA InitType == Init => TypeOK
<1> SUFFICES ASSUME Init PROVE TypeOK
  OBVIOUS
<1>1. remote \in [version: Nat, files: FileMap]
  BY DEF Init
<1>2. FreshClone \in Clone
  BY <1>1 DEF FreshClone, Clone
<1>3. call \in [Calls -> Call]
  BY DEF Init, Call
<1>. QED
  BY <1>1, <1>2, <1>3 DEF Init, TypeOK

LEMMA PullType == ASSUME TypeOK, NEW c \in Calls, Pull(c) PROVE TypeOK'
<1>1. CloneOf(c) \in Clone /\ remote.version \in Nat /\ remote.files \in FileMap
  BY CloneOfType DEF TypeOK
<1>2. ASSUME NEW new \in Pulled(CloneOf(c)), SetClone(c, new)
      PROVE  clone' \in [Replicas -> Clone]
  BY <1>1, <1>2, PulledType, SetCloneType
<1>4. clone' \in [Replicas -> Clone]
  <2>1. CASE UNCHANGED clone
    BY <2>1 DEF TypeOK
  <2>2. CASE \E new \in Pulled(CloneOf(c)) : SetClone(c, new)
    BY <1>2, <2>2
  <2>3. ASSUME NEW new \in Refused(CloneOf(c)), SetClone(c, new)
        PROVE  clone' \in [Replicas -> Clone]
    <3>1. new \in Clone
      BY <1>1 DEF Refused, Clone
    <3>. QED
      BY <2>3, <3>1, SetCloneType
  <2>. QED
    BY <2>1, <2>2, <2>3 DEF Pull
<1>5. Return(c, "ok") \/ Return(c, "failed") \/ KeepLock(c, "commit")
  BY DEF Pull
<1>6. call' \in [Calls -> Call] /\ holder' \in [Replicas -> Calls \cup {NoCall}]
  BY <1>5, ReturnType, KeepLockType DEF Results, Steps
<1>. QED
  BY <1>4, <1>6 DEF Pull, TypeOK

LEMMA CommitType == ASSUME TypeOK, NEW c \in Calls, Commit(c) PROVE TypeOK'
<1>1. clone' \in [Replicas -> Clone]
  BY CommittedType, SetCloneType DEF Commit
<1>2. Return(c, "failed") \/ KeepLock(c, "push")
  BY DEF Commit
<1>3. call' \in [Calls -> Call] /\ holder' \in [Replicas -> Calls \cup {NoCall}]
  BY <1>2, ReturnType, KeepLockType DEF Results, Steps
<1>. QED
  BY <1>1, <1>3 DEF Commit, TypeOK

LEMMA AfterPushType ==
    ASSUME TypeOK, NEW c \in Calls PROVE AfterPush(c) \in Clone
<1>1. CloneOf(c) \in Clone /\ remote.version + 1 \in Nat
  BY CloneOfType DEF TypeOK
<1>2. \A cl \in Clone, n \in Nat :
        [cl EXCEPT !.base = n, !.local = 0, !.track = n,
                   !.trackFiles = cl.head] \in Clone
  BY DEF Clone
<1>. QED
  BY <1>1, <1>2 DEF AfterPush

LEMMA PushType == ASSUME TypeOK, NEW c \in Calls, Push(c) PROVE TypeOK'
<1>1. CloneOf(c) \in Clone /\ remote.version \in Nat /\ remote.files \in FileMap
  BY CloneOfType DEF TypeOK
<1>2. AfterPush(c) \in Clone
  BY AfterPushType
<1>3. [AfterPush(c) EXCEPT !.track = CloneOf(c).track,
                           !.trackFiles = CloneOf(c).trackFiles] \in Clone
  BY <1>1, <1>2 DEF Clone
<1>4. clone' \in [Replicas -> Clone]
  BY <1>2, <1>3, SetCloneType DEF Push, TypeOK
<1>5. Pushed(c) \in [version: Nat, files: FileMap]
  BY <1>1 DEF Pushed, Clone
<1>6. Return(c, "ok") \/ KeepLock(c, "reset")
  BY DEF Push
<1>7. call' \in [Calls -> Call] /\ holder' \in [Replicas -> Calls \cup {NoCall}]
  BY <1>6, ReturnType, KeepLockType DEF Results, Steps
<1>. QED
  BY <1>4, <1>5, <1>7 DEF Push, TypeOK

LEMMA ResetType == ASSUME TypeOK, NEW c \in Calls, Reset(c) PROVE TypeOK'
<1>1. ASSUME NEW d \in Checkouts(CloneOf(c), CloneOf(c).trackFiles),
             SetClone(c, ResetTo(CloneOf(c), d))
      PROVE  clone' \in [Replicas -> Clone]
  <2>1. CloneOf(c) \in Clone /\ CloneOf(c).trackFiles \in FileMap
    BY CloneOfType DEF Clone
  <2>2. d \in FileMap
    BY <2>1, CheckoutsType
  <2>3. ResetTo(CloneOf(c), d) \in Clone
    BY <2>1, <2>2 DEF ResetTo, Clone
  <2>. QED
    BY <1>1, <2>3, SetCloneType
<1>2. clone' \in [Replicas -> Clone]
  BY <1>1 DEF Reset, TypeOK
<1>3. call' \in [Calls -> Call] /\ holder' \in [Replicas -> Calls \cup {NoCall}]
  BY ReturnType DEF Reset, Results
<1>. QED
  BY <1>2, <1>3 DEF Reset, TypeOK

LEMMA RestartType == ASSUME TypeOK, NEW r \in Replicas, Restart(r) PROVE TypeOK'
<1>1. clone' \in [Replicas -> Clone]
  BY FreshCloneType DEF Restart, TypeOK
<1>2. call' \in [Calls -> Call]
  BY DEF Restart, TypeOK, Call
<1>. QED
  BY <1>1, <1>2 DEF Restart, TypeOK

LEMMA NextType == TypeOK /\ [Next]_vars => TypeOK'
<1> SUFFICES ASSUME TypeOK, [Next]_vars
             PROVE  TypeOK'
  OBVIOUS
<1>1. ASSUME NEW c \in Calls, Invoke(c) PROVE TypeOK'
  BY <1>1, GotoType DEF Invoke, Steps, TypeOK
<1>2. ASSUME NEW c \in Calls, Lock(c) PROVE TypeOK'
  BY <1>2, GotoType, CloneOfType DEF Lock, Steps, TypeOK
<1>3. ASSUME NEW c \in Calls, Step(c) PROVE TypeOK'
  BY <1>2, <1>3, PullType, CommitType, PushType, ResetType DEF Step
<1>4. ASSUME NEW r \in Replicas, Restart(r) PROVE TypeOK'
  BY <1>4, RestartType
<1>5. CASE UNCHANGED vars
  BY <1>5 DEF vars, TypeOK
<1>. QED
  BY <1>1, <1>3, <1>4, <1>5 DEF Next, Finished

\* Every variable keeps its type, whatever fails.
THEOREM TypeCorrect == Spec => []TypeOK
BY InitType, NextType, PTL DEF Spec

-----------------------------------------------------------------------------
(* The inductive invariant of a client whose file system does not fail.    *)

\* What a clone knows of the remote: no version the remote has not reached,
\* and of the version the remote is at, the files it has.
KnowsRemote(r) ==
    /\ clone[r].track <= remote.version
    /\ clone[r].track = remote.version => clone[r].trackFiles = remote.files
    /\ clone[r].base <= remote.version
    /\ (clone[r].base = remote.version /\ clone[r].local = 0)
          => clone[r].head = remote.files

\* The mutex is held by the call that is between Lock and its return.
HoldsIffLocked(c) ==
    \A r \in Replicas :
        (holder[r] = c) <=> (call[c].at = r /\ call[c].pc \in Locked)

\* The index and the working tree are those of HEAD.
CheckedOut(cl) == cl.index = cl.head /\ cl.disk = cl.head

\* The clone of a call that holds the mutex, at each of its steps.
CloneAtStep(c) ==
    /\ call[c].pc = "pull" => Clean(CloneOf(c))
    /\ call[c].pc = "commit" =>
          Clean(CloneOf(c)) /\ CloneOf(c).disk[call[c].path] # call[c].value
    /\ call[c].pc = "push" =>
          /\ CloneOf(c).local = 1
          /\ CheckedOut(CloneOf(c))
          /\ CloneOf(c).base = remote.version =>
                CloneOf(c).head =
                    [remote.files EXCEPT ![call[c].path] = call[c].value]
    /\ call[c].pc = "reset" => CheckedOut(CloneOf(c))

NetInv ==
    /\ TypeOK
    /\ \A r \in Replicas : KnowsRemote(r)
    /\ \A c \in Calls : HoldsIffLocked(c)
    /\ \A c \in Calls : CloneAtStep(c)
    /\ UnlockedCloneIsClean

LEMMA CleanClone ==
    ASSUME NEW cl \in Clone, Clean(cl), NEW files \in FileMap
    PROVE  Dirty(cl) = {} /\ Checkouts(cl, files) = {files}
<1>1. Dirty(cl) = {}
  BY DEF Clean, Dirty
<1>2. \A kept \in SUBSET {p \in Dirty(cl) : cl.index[p] = NoFile
                                           /\ files[p] = NoFile} : kept = {}
  BY <1>1
<1>3. [p \in Paths |-> IF p \in {} THEN cl.disk[p] ELSE files[p]] = files
  BY DEF FileMap
<1>. QED
  BY <1>1, <1>2, <1>3 DEF Checkouts

LEMMA CheckedOutClone ==
    ASSUME NEW cl \in Clone, CheckedOut(cl), NEW files \in FileMap
    PROVE  Dirty(cl) = {} /\ Checkouts(cl, files) = {files}
<1>1. Dirty(cl) = {}
  BY DEF CheckedOut, Dirty
<1>2. \A kept \in SUBSET {p \in Dirty(cl) : cl.index[p] = NoFile
                                           /\ files[p] = NoFile} : kept = {}
  BY <1>1
<1>3. [p \in Paths |-> IF p \in {} THEN cl.disk[p] ELSE files[p]] = files
  BY DEF FileMap
<1>. QED
  BY <1>1, <1>2, <1>3 DEF Checkouts

\* Two calls at one replica are not both between Lock and their return.
LEMMA Exclusion ==
    ASSUME NetInv, NEW c \in Calls, NEW x \in Calls,
           call[c].at = call[x].at,
           call[c].pc \in Locked, call[x].pc \in Locked
    PROVE  c = x
BY CloneOfType DEF NetInv, HoldsIffLocked

\* A step of one call leaves what is known of the others as it is.
LEMMA OthersKeepInvariant ==
    ASSUME NetInv, TypeOK', NEW c \in Calls, NEW r \in Replicas,
           call[c].at = r, call[c].pc \in Locked,
           \A x \in Calls \ {c} : call'[x] = call[x],
           \A q \in Replicas \ {r} : clone'[q] = clone[q],
           remote' = remote \/ remote'.version = remote.version + 1
    PROVE  /\ \A q \in Replicas \ {r} : KnowsRemote(q)'
           /\ \A x \in Calls \ {c} : CloneAtStep(x)'
<1>1. remote.version \in Nat
  BY DEF NetInv, TypeOK
<1>2. ASSUME NEW q \in Replicas \ {r} PROVE KnowsRemote(q)'
  <2>1. clone[q] \in Clone /\ clone'[q] = clone[q] /\ KnowsRemote(q)
    BY DEF NetInv, TypeOK
  <2>. QED
    BY <1>1, <2>1 DEF KnowsRemote, Clone
<1>3. ASSUME NEW x \in Calls \ {c} PROVE CloneAtStep(x)'
  <2>1. call'[x] = call[x]
    OBVIOUS
  <2>2. CASE call[x].pc \notin Locked
    BY <2>1, <2>2 DEF CloneAtStep, Locked
  <2>3. CASE call[x].pc \in Locked
    <3>1. call[x].at \in Replicas /\ call[x].at # r
      BY <2>3, Exclusion, CloneOfType DEF NetInv
    <3>2. CloneOf(x)' = CloneOf(x) /\ CloneOf(x) \in Clone
      BY <2>1, <3>1, CloneOfType DEF CloneOf, NetInv
    <3>3. CloneAtStep(x) /\ CloneOf(x).base <= remote.version
      BY <3>1 DEF NetInv, KnowsRemote, CloneOf
    <3>. QED
      BY <1>1, <2>1, <3>2, <3>3 DEF CloneAtStep, Clone
  <2>. QED
    BY <2>2, <2>3
<1>. QED
  BY <1>2, <1>3

LEMMA ReturnUnlocks ==
    ASSUME NetInv, NEW c \in Calls, call[c].pc \in Locked,
           NEW pc \in Results, Return(c, pc)
    PROVE  /\ \A x \in Calls : HoldsIffLocked(x)'
           /\ \A q \in Replicas \ {call[c].at} : holder'[q] = holder[q]
<1>1. /\ holder \in [Replicas -> Calls \cup {NoCall}] /\ call[c].at \in Replicas
      /\ holder' = [holder EXCEPT ![call[c].at] = NoCall]
  BY CloneOfType DEF NetInv, TypeOK, Return
<1>2. holder[call[c].at] = c
  BY <1>1 DEF NetInv, HoldsIffLocked
<1>3. /\ call'[c] = [call[c] EXCEPT !.pc = pc] /\ call[c] \in Call
      /\ \A x \in Calls \ {c} : call'[x] = call[x]
  BY GotoType, CloneOfType DEF NetInv, Return
<1>4. call'[c].pc \notin Locked
  BY <1>3 DEF Call, Results, Locked
<1>5. NoCall # c
  BY ConstantsAssumption
<1>6. \A r \in Replicas : holder'[r] # c
  BY <1>1, <1>2, <1>5 DEF NetInv, HoldsIffLocked
<1>7. HoldsIffLocked(c)'
  BY <1>4, <1>6 DEF HoldsIffLocked
<1>8. ASSUME NEW x \in Calls \ {c} PROVE HoldsIffLocked(x)'
  <2>1. HoldsIffLocked(x) /\ call'[x] = call[x] /\ x # NoCall
    BY <1>3, ConstantsAssumption DEF NetInv
  <2>2. \A r \in Replicas : (holder'[r] = x) <=> (holder[r] = x)
    BY <1>1, <1>2, <2>1
  <2>. QED
    BY <2>1, <2>2 DEF HoldsIffLocked
<1>. QED
  BY <1>1, <1>7, <1>8

LEMMA KeepLockHolds ==
    ASSUME NetInv, NEW c \in Calls, call[c].pc \in Locked,
           NEW pc \in Locked, KeepLock(c, pc)
    PROVE  \A x \in Calls : HoldsIffLocked(x)'
<1>1. /\ call'[c] = [call[c] EXCEPT !.pc = pc] /\ call[c] \in Call
      /\ \A x \in Calls \ {c} : call'[x] = call[x]
  BY GotoType, CloneOfType DEF NetInv, KeepLock, Locked, Steps
<1>2. call'[c].pc \in Locked /\ call'[c].at = call[c].at
  BY <1>1 DEF Call
<1>3. holder' = holder
  BY DEF KeepLock
<1>4. ASSUME NEW x \in Calls PROVE HoldsIffLocked(x)'
  <2>1. HoldsIffLocked(x) /\ call'[x].at = call[x].at
        /\ (call'[x].pc \in Locked <=> call[x].pc \in Locked)
    BY <1>1, <1>2 DEF NetInv
  <2>. QED
    BY <1>3, <2>1 DEF HoldsIffLocked
<1>. QED
  BY <1>4

\* What a step of a call that holds the mutex has to show.
LEMMA LockedStep ==
    ASSUME NetInv, TypeOK', NEW c \in Calls, NEW r \in Replicas,
           call[c].at = r, call[c].pc \in Locked,
           \/ \E pc \in Results : Return(c, pc) /\ Clean(clone'[r])
           \/ \E pc \in Locked : KeepLock(c, pc),
           \A q \in Replicas \ {r} : clone'[q] = clone[q],
           remote' = remote \/ remote'.version = remote.version + 1,
           KnowsRemote(r)', CloneAtStep(c)'
    PROVE  NetInv'
<1>1. \A x \in Calls \ {c} : call'[x] = call[x]
  BY GotoType DEF NetInv, Return, KeepLock, Locked, Steps
<1>2. \A q \in Replicas : KnowsRemote(q)'
  BY <1>1, OthersKeepInvariant
<1>3. \A x \in Calls : CloneAtStep(x)'
  BY <1>1, OthersKeepInvariant
<1>4. \A x \in Calls : HoldsIffLocked(x)'
  BY ReturnUnlocks, KeepLockHolds
<1>5. UnlockedCloneIsClean'
  <2>1. CASE \E pc \in Results : Return(c, pc) /\ Clean(clone'[r])
    BY <2>1, ReturnUnlocks DEF UnlockedCloneIsClean, NetInv
  <2>2. CASE \E pc \in Locked : KeepLock(c, pc)
    <3>1. holder' = holder /\ holder[r] = c
      BY <2>2 DEF KeepLock, NetInv, HoldsIffLocked
    <3>. QED
      BY <3>1, ConstantsAssumption DEF UnlockedCloneIsClean, NetInv
  <2>. QED
    BY <2>1, <2>2
<1>. QED
  BY <1>2, <1>3, <1>4, <1>5 DEF NetInv

\* What the steps below use of the state they start from.
LEMMA AtLockedStep ==
    ASSUME NetInv, NEW c \in Calls, call[c].pc \in Locked
    PROVE  /\ TypeOK /\ call[c] \in Call /\ call[c].at \in Replicas
           /\ CloneOf(c) \in Clone /\ CloneOf(c) = clone[call[c].at]
           /\ CloneAtStep(c) /\ KnowsRemote(call[c].at)
           /\ remote.version \in Nat /\ remote.files \in FileMap
           /\ clone \in [Replicas -> Clone]
BY CloneOfType DEF NetInv, TypeOK, CloneOf

\* The clone and the call after the step.
LEMMA AfterSetClone ==
    ASSUME TypeOK, NEW c \in Calls, NEW new, SetClone(c, new)
    PROVE  /\ clone'[call[c].at] = new
           /\ \A q \in Replicas \ {call[c].at} : clone'[q] = clone[q]
BY CloneOfType DEF SetClone, TypeOK

LEMMA AfterReturn ==
    ASSUME TypeOK, NEW c \in Calls, NEW pc \in Results, Return(c, pc)
    PROVE  call'[c] = [call[c] EXCEPT !.pc = pc] /\ CloneAtStep(c)'
<1>1. call'[c] = [call[c] EXCEPT !.pc = pc] /\ call[c] \in Call
  BY GotoType, CloneOfType DEF Return
<1>2. call'[c].pc = pc
  BY <1>1 DEF Call
<1>. QED
  BY <1>1, <1>2 DEF CloneAtStep, Results

LEMMA AfterKeepLock ==
    ASSUME TypeOK, NEW c \in Calls, NEW pc \in Locked, KeepLock(c, pc)
    PROVE  /\ call'[c].pc = pc /\ call'[c].at = call[c].at
           /\ call'[c].path = call[c].path /\ call'[c].value = call[c].value
<1>1. call'[c] = [call[c] EXCEPT !.pc = pc] /\ call[c] \in Call
  BY GotoType, CloneOfType DEF KeepLock, Locked, Steps
<1>. QED
  BY <1>1 DEF Call

\* A pull in a clean clone brings it to the remote's version.
LEMMA PulledClone ==
    ASSUME NetInv, NEW c \in Calls, call[c].pc = "pull",
           NEW new \in Pulled(CloneOf(c))
    PROVE  /\ new \in Clone /\ Clean(new)
           /\ new.track = remote.version /\ new.trackFiles = remote.files
           /\ new.base = remote.version /\ new.head = remote.files
<1> DEFINE cl == CloneOf(c)
<1>1. /\ TypeOK /\ cl \in Clone /\ Clean(cl)
      /\ remote.version \in Nat /\ remote.files \in FileMap
  BY AtLockedStep DEF CloneAtStep, Locked
<1>2. CASE cl.base = remote.version
  <2>1. cl.head = remote.files
    BY <1>2, AtLockedStep DEF KnowsRemote, Clean, CloneAtStep, Locked
  <2>. QED
    BY <1>1, <1>2, <2>1 DEF Pulled, Clean, Clone
<1>3. CASE cl.base # remote.version
  <2>1. new = [FreshClone EXCEPT !.disk = remote.files]
    BY <1>1, <1>3, CleanClone DEF Pulled, Clean
  <2>. QED
    BY <1>1, <2>1, FreshCloneType DEF Clean, Clone, FreshClone
<1>. QED
  BY <1>2, <1>3

LEMMA PullNet == ASSUME NetInv, NEW c \in Calls, Pull(c) PROVE NetInv'
<1> DEFINE cl == CloneOf(c)
<1>1. call[c].pc = "pull" /\ call[c].pc \in Locked
  BY DEF Pull, Locked
<1>0. PICK r \in Replicas : r = call[c].at
  BY <1>1, AtLockedStep
<1>2. /\ TypeOK /\ r = call[c].at /\ cl \in Clone /\ cl = clone[r]
      /\ Clean(cl) /\ KnowsRemote(r)
      /\ remote.version \in Nat /\ remote.files \in FileMap
  BY <1>0, <1>1, AtLockedStep DEF CloneAtStep
<1>3. TypeOK' /\ remote' = remote
  BY <1>2, PullType DEF Pull
<1>4. ~Diverged(cl) /\ ~Blocked(cl)
  BY <1>2, CleanClone DEF Diverged, Blocked, Clean
<1>5. ASSUME NEW new \in Pulled(cl), SetClone(c, new),
             \/ new.disk[call[c].path] = call[c].value /\ Return(c, "ok")
             \/ new.disk[call[c].path] # call[c].value /\ KeepLock(c, "commit")
      PROVE  NetInv'
  <2>1. new \in Clone /\ Clean(new)
    BY <1>1, PulledClone
  <2>2. /\ new.track = remote.version /\ new.trackFiles = remote.files
        /\ new.base = remote.version /\ new.head = remote.files
    BY <1>1, PulledClone
  <2>3. clone'[r] = new /\ \A q \in Replicas \ {r} : clone'[q] = clone[q]
    BY <1>2, <1>5, AfterSetClone
  <2>4. KnowsRemote(r)'
    BY <1>2, <1>3, <2>2, <2>3 DEF KnowsRemote
  <2>5. CASE Return(c, "ok")
    BY <1>1, <1>2, <1>3, <2>1, <2>3, <2>4, <2>5, AfterReturn, LockedStep
       DEF Results
  <2>6. CASE new.disk[call[c].path] # call[c].value /\ KeepLock(c, "commit")
    <3>1. CloneAtStep(c)'
      BY <1>2, <2>1, <2>3, <2>6, AfterKeepLock DEF CloneAtStep, CloneOf, Locked
    <3>. QED
      BY <1>1, <1>2, <1>3, <2>3, <2>4, <2>6, <3>1, LockedStep DEF Locked
  <2>. QED
    BY <1>5, <2>5, <2>6
<1>6. ASSUME Return(c, "failed"), UNCHANGED clone PROVE NetInv'
  <2>1. KnowsRemote(r)'
    BY <1>2, <1>3, <1>6 DEF KnowsRemote
  <2>. QED
    BY <1>1, <1>2, <1>3, <1>6, <2>1, AfterReturn, LockedStep DEF Results
<1>. QED
  BY <1>2, <1>4, <1>5, <1>6 DEF Pull

\* The commit holds the call's file, besides those HEAD had.
LEMMA CommittedClone ==
    ASSUME NetInv, NEW c \in Calls, call[c].pc = "commit"
    PROVE  /\ CanStage(c) /\ CanCommit(c)
           /\ Committed(c).local = 1 /\ CheckedOut(Committed(c))
           /\ Committed(c).head =
                [CloneOf(c).head EXCEPT ![call[c].path] = call[c].value]
           /\ Committed(c).track = CloneOf(c).track
           /\ Committed(c).trackFiles = CloneOf(c).trackFiles
           /\ Committed(c).base = CloneOf(c).base
<1> DEFINE cl == CloneOf(c)
           file == [cl.head EXCEPT ![call[c].path] = call[c].value]
<1>1. /\ cl \in Clone /\ Clean(cl) /\ cl.disk[call[c].path] # call[c].value
      /\ call[c].path \in Paths
  BY AtLockedStep, CloneOfType DEF CloneAtStep, Locked
<1>2. /\ Written(c) \in Clone /\ Written(c).disk = file
      /\ Written(c).index = cl.head /\ Written(c).head = cl.head
      /\ Written(c).local = 0 /\ Written(c).base = cl.base
      /\ Written(c).track = cl.track /\ Written(c).trackFiles = cl.trackFiles
  BY <1>1, CommittedType DEF NetInv, Written, Clean, Clone
<1>3. /\ Staged(c) \in Clone /\ Staged(c).disk = file /\ Staged(c).index = file
      /\ Staged(c).head = cl.head
      /\ Staged(c).local = 0 /\ Staged(c).base = cl.base
      /\ Staged(c).track = cl.track /\ Staged(c).trackFiles = cl.trackFiles
  BY <1>2, CommittedType DEF NetInv, Staged, Clone
<1>4. CanStage(c)
  BY <1>1 DEF CanStage, Clean
<1>5. CanCommit(c)
  <2>1. cl.head \in FileMap /\ cl.head[call[c].path] # call[c].value
    BY <1>1 DEF Clean, Clone
  <2>2. file # cl.head
    BY <1>1, <2>1 DEF FileMap
  <2>. QED
    BY <1>3, <2>2 DEF CanCommit
<1>6. /\ Committed(c).head = file /\ Committed(c).index = file
      /\ Committed(c).disk = file
      /\ Committed(c).local = 1 /\ Committed(c).base = cl.base
      /\ Committed(c).track = cl.track
      /\ Committed(c).trackFiles = cl.trackFiles
  BY <1>3 DEF Committed, Clone
<1>. QED
  BY <1>4, <1>5, <1>6 DEF CheckedOut

LEMMA CommitNet ==
    ASSUME NetworkFaultsOnly, NetInv, NEW c \in Calls, Commit(c)
    PROVE  NetInv' /\ KeepLock(c, "push")
<1>1. call[c].pc = "commit" /\ call[c].pc \in Locked
  BY DEF Commit, Locked
<1>2. PICK r \in Replicas : r = call[c].at
  BY <1>1, AtLockedStep
<1>3. TypeOK /\ TypeOK' /\ remote' = remote
  BY CommitType DEF NetInv, Commit
<1>4. /\ CloneOf(c) = clone[r] /\ CloneOf(c) \in Clone /\ KnowsRemote(r)
      /\ Clean(CloneOf(c)) /\ remote.version \in Nat /\ remote.files \in FileMap
  BY <1>1, <1>2, AtLockedStep DEF CloneAtStep
<1>5. SetClone(c, Committed(c)) /\ KeepLock(c, "push")
  BY <1>1, CommittedClone DEF Commit, NetworkFaultsOnly
<1>6. clone'[r] = Committed(c) /\ \A q \in Replicas \ {r} : clone'[q] = clone[q]
  BY <1>2, <1>3, <1>5, AfterSetClone
<1>7. KnowsRemote(r)'
  <2>1. /\ clone'[r].track = clone[r].track
        /\ clone'[r].trackFiles = clone[r].trackFiles
        /\ clone'[r].base = clone[r].base /\ clone'[r].local = 1
    BY <1>1, <1>4, <1>6, CommittedClone
  <2>. QED
    BY <1>3, <1>4, <2>1 DEF KnowsRemote
<1>8. CloneAtStep(c)'
  <2>1. CloneOf(c)' = Committed(c) /\ call'[c].pc = "push"
        /\ call'[c].path = call[c].path /\ call'[c].value = call[c].value
    BY <1>2, <1>3, <1>5, <1>6, AfterKeepLock DEF CloneOf, Locked
  <2>2. CloneOf(c).base = remote.version => CloneOf(c).head = remote.files
    BY <1>4 DEF KnowsRemote, Clean
  <2>. QED
    BY <1>1, <1>3, <2>1, <2>2, CommittedClone DEF CloneAtStep
<1>. QED
  BY <1>1, <1>2, <1>3, <1>5, <1>6, <1>7, <1>8, LockedStep DEF Locked

LEMMA PushNet ==
    ASSUME NetInv, NEW c \in Calls, Push(c)
    PROVE  NetInv'
<1> DEFINE cl == CloneOf(c)
<1>1. call[c].pc = "push" /\ call[c].pc \in Locked
  BY DEF Push, Locked
<1>2. PICK r \in Replicas : r = call[c].at
  BY <1>1, AtLockedStep
<1>3. TypeOK /\ TypeOK'
  BY PushType DEF NetInv
<1>4. /\ cl = clone[r] /\ cl \in Clone /\ KnowsRemote(r) /\ CheckedOut(cl)
      /\ remote.version \in Nat /\ remote.files \in FileMap
  BY <1>1, <1>2, AtLockedStep DEF CloneAtStep
<1>5. ASSUME NEW new \in Clone, SetClone(c, new), remote' = Pushed(c),
             new.base = remote.version + 1, new.local = 0,
             new.head = cl.head, new.index = cl.head, new.disk = cl.head,
             \/ /\ new.track = remote.version + 1
                /\ new.trackFiles = cl.head
             \/ new.track = cl.track,
             Return(c, "ok") \/ KeepLock(c, "reset")
      PROVE  NetInv'
  <2>1. clone'[r] = new /\ \A q \in Replicas \ {r} : clone'[q] = clone[q]
    BY <1>2, <1>3, <1>5, AfterSetClone
  <2>2. remote'.version = remote.version + 1 /\ remote'.files = cl.head
    BY <1>5 DEF Pushed
  <2>3. KnowsRemote(r)'
    BY <1>4, <1>5, <2>1, <2>2 DEF KnowsRemote, Clone
  <2>4. CASE Return(c, "ok")
    <3>1. CloneAtStep(c)' /\ Clean(clone'[r])
      BY <1>3, <1>5, <2>1, <2>4, AfterReturn DEF Clean, Results
    <3>. QED
      BY <1>1, <1>2, <1>3, <2>1, <2>2, <2>3, <2>4, <3>1, LockedStep DEF Results
  <2>5. CASE KeepLock(c, "reset")
    <3>1. CloneAtStep(c)'
      BY <1>2, <1>3, <1>5, <2>1, <2>5, AfterKeepLock
         DEF CloneAtStep, CheckedOut, CloneOf, Locked
    <3>. QED
      BY <1>1, <1>2, <1>3, <2>1, <2>2, <2>3, <2>5, <3>1, LockedStep DEF Locked
  <2>. QED
    BY <1>5, <2>4, <2>5
<1>6. CASE SetClone(c, AfterPush(c)) /\ remote' = Pushed(c) /\ Return(c, "ok")
  <2>1. AfterPush(c) \in Clone
    BY <1>3, AfterPushType
  <2>2. /\ AfterPush(c).base = remote.version + 1 /\ AfterPush(c).local = 0
        /\ AfterPush(c).head = cl.head /\ AfterPush(c).index = cl.head
        /\ AfterPush(c).disk = cl.head
        /\ AfterPush(c).track = remote.version + 1
        /\ AfterPush(c).trackFiles = cl.head
    BY <1>4 DEF AfterPush, Clone, CheckedOut
  <2>. QED
    BY <1>5, <1>6, <2>1, <2>2
<1>7. CASE /\ SetClone(c, [AfterPush(c) EXCEPT !.track = cl.track,
                                          !.trackFiles = cl.trackFiles])
           /\ remote' = Pushed(c) /\ KeepLock(c, "reset")
  <2> DEFINE new == [AfterPush(c) EXCEPT !.track = cl.track,
                                         !.trackFiles = cl.trackFiles]
  <2>1. new \in Clone
    BY <1>3, <1>4, AfterPushType DEF Clone
  <2>2. /\ new.base = remote.version + 1 /\ new.local = 0
        /\ new.head = cl.head /\ new.index = cl.head
        /\ new.disk = cl.head /\ new.track = cl.track
    BY <1>3, <1>4, AfterPushType DEF AfterPush, Clone, CheckedOut
  <2>. QED
    BY <1>5, <1>7, <2>1, <2>2
<1>8. CASE KeepLock(c, "reset") /\ UNCHANGED <<remote, clone>>
  <2>1. CloneAtStep(c)'
    BY <1>2, <1>3, <1>4, <1>8, AfterKeepLock
       DEF CloneAtStep, CheckedOut, CloneOf, Locked
  <2>2. KnowsRemote(r)'
    BY <1>4, <1>8 DEF KnowsRemote
  <2>. QED
    BY <1>1, <1>2, <1>3, <1>8, <2>1, <2>2, LockedStep DEF Locked
<1>. QED
  BY <1>6, <1>7, <1>8 DEF Push

LEMMA ResetNet ==
    ASSUME NetworkFaultsOnly, NetInv, NEW c \in Calls, Reset(c)
    PROVE  NetInv'
<1> DEFINE cl == CloneOf(c)
<1>1. call[c].pc = "reset" /\ call[c].pc \in Locked
  BY DEF Reset, Locked
<1>2. PICK r \in Replicas : r = call[c].at
  BY <1>1, AtLockedStep
<1>3. TypeOK /\ TypeOK' /\ remote' = remote /\ Return(c, "failed")
  BY ResetType DEF NetInv, Reset
<1>4. /\ cl = clone[r] /\ cl \in Clone /\ KnowsRemote(r) /\ CheckedOut(cl)
      /\ cl.trackFiles \in FileMap
  BY <1>1, <1>2, AtLockedStep DEF CloneAtStep, Clone
<1>5. SetClone(c, ResetTo(cl, cl.trackFiles))
  BY <1>4, CheckedOutClone DEF Reset, NetworkFaultsOnly
<1>6. /\ clone'[r] = ResetTo(cl, cl.trackFiles)
      /\ \A q \in Replicas \ {r} : clone'[q] = clone[q]
  BY <1>2, <1>3, <1>5, AfterSetClone
<1>7. /\ clone'[r].base = cl.track /\ clone'[r].local = 0
      /\ clone'[r].head = cl.trackFiles /\ clone'[r].index = cl.trackFiles
      /\ clone'[r].disk = cl.trackFiles /\ clone'[r].track = cl.track
      /\ clone'[r].trackFiles = cl.trackFiles
  BY <1>4, <1>6 DEF ResetTo, Clone
<1>8. KnowsRemote(r)' /\ Clean(clone'[r])
  BY <1>3, <1>4, <1>7 DEF KnowsRemote, Clean
<1>9. CloneAtStep(c)'
  BY <1>3, AfterReturn DEF Results
<1>. QED
  BY <1>1, <1>2, <1>3, <1>6, <1>8, <1>9, LockedStep DEF Results

LEMMA LockNet == ASSUME NetInv, NEW c \in Calls, Lock(c) PROVE NetInv'
<1>1. /\ TypeOK /\ TypeOK' /\ call[c].pc = "lock" /\ remote' = remote
      /\ clone' = clone /\ Goto(c, "pull")
  BY GotoType, CloneOfType DEF NetInv, Lock, TypeOK, Steps
<1>2. PICK r \in Replicas : r = call[c].at
  BY <1>1, CloneOfType
<1>3. holder[r] = NoCall /\ holder' = [holder EXCEPT ![r] = c]
      /\ holder \in [Replicas -> Calls \cup {NoCall}]
  BY <1>1, <1>2 DEF Lock, TypeOK
<1>4. /\ call'[c].pc = "pull" /\ call'[c].at = r
      /\ \A x \in Calls \ {c} : call'[x] = call[x]
  <2>1. call'[c] = [call[c] EXCEPT !.pc = "pull"] /\ call[c] \in Call
    BY <1>1, GotoType, CloneOfType DEF Steps
  <2>. QED
    BY <1>1, <1>2, <2>1, GotoType DEF Call, Steps
<1>5. \A q \in Replicas : KnowsRemote(q)'
  BY <1>1 DEF NetInv, KnowsRemote
<1>6. ASSUME NEW x \in Calls PROVE HoldsIffLocked(x)'
  <2>1. CASE x = c
    <3>1. \A q \in Replicas : holder[q] # c
      BY <1>1 DEF NetInv, HoldsIffLocked, Locked
    <3>. QED
      BY <1>3, <1>4, <2>1, <3>1 DEF HoldsIffLocked, Locked
  <2>2. CASE x # c
    BY <1>3, <1>4, <2>2, ConstantsAssumption DEF NetInv, HoldsIffLocked
  <2>. QED
    BY <2>1, <2>2
<1>7. ASSUME NEW x \in Calls PROVE CloneAtStep(x)'
  <2>1. CASE x = c
    BY <1>1, <1>2, <1>3, <1>4, <2>1
       DEF NetInv, UnlockedCloneIsClean, CloneAtStep, CloneOf
  <2>2. CASE x # c
    BY <1>1, <1>4, <2>2 DEF NetInv, CloneAtStep, CloneOf
  <2>. QED
    BY <2>1, <2>2
<1>8. UnlockedCloneIsClean'
  BY <1>1, <1>3, ConstantsAssumption DEF NetInv, UnlockedCloneIsClean
<1>. QED
  BY <1>1, <1>5, <1>6, <1>7, <1>8 DEF NetInv

LEMMA InvokeNet == ASSUME NetInv, NEW c \in Calls, Invoke(c) PROVE NetInv'
<1>1. /\ TypeOK /\ TypeOK' /\ call[c].pc = "idle" /\ remote' = remote
      /\ clone' = clone /\ holder' = holder /\ Goto(c, "lock")
  BY GotoType DEF NetInv, Invoke, TypeOK, Steps
<1>2. /\ call'[c].pc = "lock" /\ \A x \in Calls \ {c} : call'[x] = call[x]
  <2>1. call'[c] = [call[c] EXCEPT !.pc = "lock"] /\ call[c] \in Call
    BY <1>1, GotoType, CloneOfType DEF Steps
  <2>. QED
    BY <1>1, <2>1, GotoType DEF Call, Steps
<1>3. \A q \in Replicas : KnowsRemote(q)'
  BY <1>1 DEF NetInv, KnowsRemote
<1>4. ASSUME NEW x \in Calls PROVE HoldsIffLocked(x)' /\ CloneAtStep(x)'
  <2>1. CASE x = c
    BY <1>1, <1>2, <2>1 DEF NetInv, HoldsIffLocked, CloneAtStep, Locked
  <2>2. CASE x # c
    BY <1>1, <1>2, <2>2 DEF NetInv, HoldsIffLocked, CloneAtStep, CloneOf
  <2>. QED
    BY <2>1, <2>2
<1>. QED
  BY <1>1, <1>3, <1>4 DEF NetInv, UnlockedCloneIsClean

LEMMA FreshCloneKnows ==
    ASSUME TypeOK PROVE /\ Clean(FreshClone) /\ FreshClone.track = remote.version
                        /\ FreshClone.base = remote.version
                        /\ FreshClone.trackFiles = remote.files
                        /\ FreshClone.head = remote.files
BY DEF FreshClone, Clean

LEMMA RestartNet == ASSUME NetInv, NEW r \in Replicas, Restart(r) PROVE NetInv'
<1>1. /\ TypeOK /\ TypeOK' /\ remote' = remote /\ remote.version \in Nat
      /\ clone'[r] = FreshClone /\ holder'[r] = NoCall
      /\ \A q \in Replicas \ {r} : clone'[q] = clone[q] /\ holder'[q] = holder[q]
  BY RestartType DEF NetInv, Restart, TypeOK
<1>2. ASSUME NEW x \in Calls
      PROVE  /\ call[x] \in Call
             /\ call[x].at = r /\ call[x].pc \in Steps
                  => call'[x] = [call[x] EXCEPT !.pc = "failed"]
             /\ ~(call[x].at = r /\ call[x].pc \in Steps) => call'[x] = call[x]
  BY <1>1, CloneOfType DEF Restart
<1>3. ASSUME NEW q \in Replicas PROVE KnowsRemote(q)'
  <2>1. CASE q = r
    BY <1>1, <2>1, FreshCloneKnows DEF KnowsRemote
  <2>2. CASE q # r
    BY <1>1, <2>2 DEF NetInv, KnowsRemote
  <2>. QED
    BY <2>1, <2>2
<1>4. ASSUME NEW x \in Calls PROVE HoldsIffLocked(x)' /\ CloneAtStep(x)'
  <2>0. HoldsIffLocked(x) /\ CloneAtStep(x) /\ x # NoCall
    BY ConstantsAssumption DEF NetInv
  <2>1. CASE call[x].at = r /\ call[x].pc \in Steps
    <3>1. call'[x].pc = "failed"
      BY <1>2, <2>1 DEF Call
    <3>2. \A q \in Replicas : holder'[q] # x
      BY <1>1, <2>0, <2>1 DEF HoldsIffLocked
    <3>. QED
      BY <3>1, <3>2 DEF HoldsIffLocked, CloneAtStep, Locked
  <2>2. CASE ~(call[x].at = r /\ call[x].pc \in Steps)
    <3>1. call'[x] = call[x] /\ (call[x].pc \in Locked => call[x].at # r)
      BY <1>2, <2>2 DEF Locked, Steps
    <3>2. HoldsIffLocked(x)'
      BY <1>1, <2>0, <3>1 DEF HoldsIffLocked
    <3>3. CASE call[x].pc \in Locked
      <4>1. CloneOf(x)' = CloneOf(x)
        BY <1>1, <3>1, <3>3, CloneOfType DEF CloneOf
      <4>. QED
        BY <1>1, <2>0, <3>1, <3>2, <4>1 DEF CloneAtStep
    <3>4. CASE call[x].pc \notin Locked
      BY <3>1, <3>2, <3>4 DEF CloneAtStep, Locked
    <3>. QED
      BY <3>3, <3>4
  <2>. QED
    BY <2>1, <2>2
<1>5. UnlockedCloneIsClean'
  BY <1>1, FreshCloneKnows DEF NetInv, UnlockedCloneIsClean
<1>. QED
  BY <1>1, <1>3, <1>4, <1>5 DEF NetInv

LEMMA InitNet == Init => NetInv
<1> SUFFICES ASSUME Init PROVE NetInv
  OBVIOUS
<1>1. TypeOK /\ remote.version \in Nat
  BY InitType DEF TypeOK
<1>2. \A r \in Replicas : clone[r] = FreshClone /\ holder[r] = NoCall
  BY DEF Init
<1>3. \A c \in Calls : call[c].pc = "idle"
  BY DEF Init
<1>4. ASSUME NEW r \in Replicas PROVE KnowsRemote(r)
  <2>1. clone[r].track = remote.version /\ clone[r].base = remote.version
        /\ clone[r].trackFiles = remote.files /\ clone[r].head = remote.files
    BY <1>1, <1>2, FreshCloneKnows
  <2>. QED
    BY <1>1, <2>1 DEF KnowsRemote
<1>5. \A c \in Calls : HoldsIffLocked(c) /\ CloneAtStep(c)
  BY <1>2, <1>3, ConstantsAssumption DEF HoldsIffLocked, CloneAtStep, Locked
<1>6. UnlockedCloneIsClean
  BY <1>1, <1>2, FreshCloneKnows DEF UnlockedCloneIsClean
<1>. QED
  BY <1>1, <1>4, <1>5, <1>6 DEF NetInv

LEMMA NextNet == ASSUME NetworkFaultsOnly PROVE NetInv /\ [Next]_vars => NetInv'
<1> SUFFICES ASSUME NetInv, [Next]_vars PROVE NetInv'
  OBVIOUS
<1>1. ASSUME NEW c \in Calls, Step(c) PROVE NetInv'
  BY <1>1, LockNet, PullNet, CommitNet, PushNet, ResetNet DEF Step
<1>2. CASE UNCHANGED vars
  BY <1>2 DEF vars, NetInv, TypeOK, KnowsRemote, HoldsIffLocked, CloneAtStep,
              CloneOf, UnlockedCloneIsClean
<1>. QED
  BY <1>1, <1>2, InvokeNet, RestartNet DEF Next, Finished

\* When only the network and the processes fail, the clone of a replica holds
\* no change of its own between two calls.
THEOREM UnlockedCloneStaysClean ==
    ASSUME NetworkFaultsOnly PROVE Spec => []UnlockedCloneIsClean
<1>1. NetInv => UnlockedCloneIsClean
  BY DEF NetInv
<1>. QED
  BY <1>1, InitNet, NextNet, PTL DEF Spec

-----------------------------------------------------------------------------
(* The refinement of GitStore. *)

LEMMA InitRefines == Init => Store!Init
<1> SUFFICES ASSUME Init PROVE Store!Init
  OBVIOUS
<1>1. TypeOK
  BY InitType
<1>2. remote.files \in [Paths -> Contents \cup {NoFile}]
  BY <1>1 DEF TypeOK, FileMap, Content
<1>3. \A c \in Calls : call[c].pc = "idle"
  BY DEF Init
<1>4. StoreStatus = [c \in Calls |-> "idle"]
  BY <1>3 DEF StoreStatus, AppliedNotReturned, Steps
<1>5. [c \in Calls |-> [path |-> call[c].path, value |-> call[c].value]]
        \in [Calls -> [path: Paths, value: Contents \cup {NoFile}]]
  BY <1>1, CloneOfType DEF Content
<1>. QED
  BY <1>2, <1>4, <1>5 DEF Store!Init, Store!FileMap, Store!Target

\* What GitStore calls the target of each call.
Targets == [x \in Calls |-> [path |-> call[x].path, value |-> call[x].value]]

\* A call is asked for the same file throughout.
LEMMA TargetStays ==
    ASSUME TypeOK, NEW c \in Calls, NEW pc \in Steps \cup Results, Goto(c, pc)
    PROVE  Targets' = Targets
<1>1. ASSUME NEW x \in Calls
      PROVE  call'[x].path = call[x].path /\ call'[x].value = call[x].value
  BY GotoType, CloneOfType DEF Call
<1>. QED
  BY <1>1 DEF Targets

\* A step of one call does not change the status of the others, and what it
\* changes of its own is known from where it goes.
LEMMA StatusStep ==
    ASSUME NetInv, NEW c \in Calls, call[c].pc \in Locked \/ clone' = clone,
           NEW pc \in Steps \cup Results, Goto(c, pc),
           \A q \in Replicas \ {call[c].at} : clone'[q] = clone[q],
           NEW s,
           s = IF pc = "reset" /\ clone'[call[c].at].local = 0 THEN "applied"
               ELSE IF pc \in Steps THEN "pending" ELSE pc
    PROVE  /\ StoreStatus' = [StoreStatus EXCEPT ![c] = s]
           /\ s = StoreStatus[c] => StoreStatus' = StoreStatus
<1>1. /\ call'[c].pc = pc /\ call'[c].at = call[c].at
      /\ \A x \in Calls \ {c} : call'[x] = call[x]
  BY GotoType DEF NetInv
<1>2. StoreStatus'[c] = s
  BY <1>1 DEF StoreStatus, AppliedNotReturned, CloneOf
<1>3. ASSUME NEW x \in Calls, x # c PROVE StoreStatus'[x] = StoreStatus[x]
  <2>1. call'[x] = call[x]
    BY <1>1, <1>3
  <2>2. AppliedNotReturned(x)' <=> AppliedNotReturned(x)
    <3>1. CASE call[x].pc = "reset" /\ call[c].pc \in Locked
      <4>1. call[x].at \in Replicas /\ call[x].at # call[c].at
        BY <1>3, <3>1, Exclusion, CloneOfType DEF NetInv, Locked
      <4>. QED
        BY <2>1, <4>1 DEF AppliedNotReturned, CloneOf
    <3>2. CASE call[x].pc # "reset" \/ clone' = clone
      BY <2>1, <3>2 DEF AppliedNotReturned, CloneOf
    <3>. QED
      BY <3>1, <3>2
  <2>. QED
    BY <2>1, <2>2 DEF StoreStatus
<1>. QED
  BY <1>2, <1>3 DEF StoreStatus

\* The three kinds of step of one call, as GitStore sees them.
LEMMA StutterRefines ==
    ASSUME StoreStatus' = StoreStatus, Targets' = Targets, remote' = remote
    PROVE  [Store!Next]_(Store!vars)
BY DEF Store!vars, Targets

LEMMA EffectRefines ==
    ASSUME NEW c \in Calls, NEW s \in {"ok", "applied"},
           StoreStatus[c] = "pending", Targets' = Targets,
           StoreStatus' = [StoreStatus EXCEPT ![c] = s],
           remote'.files = [remote.files EXCEPT ![call[c].path] = call[c].value]
    PROVE  [Store!Next]_(Store!vars)
<1>1. Targets[c].path = call[c].path /\ Targets[c].value = call[c].value
  BY DEF Targets
<1>2. Store!TakeEffect(c)
  BY <1>1 DEF Store!TakeEffect, Targets
<1>. QED
  BY <1>2 DEF Store!Next

LEMMA FailRefines ==
    ASSUME NEW C \in SUBSET Calls,
           \A c \in C : StoreStatus[c] \in {"pending", "applied"},
           Targets' = Targets, remote' = remote,
           StoreStatus' = [c \in Calls |-> IF c \in C THEN "failed"
                                           ELSE StoreStatus[c]]
    PROVE  [Store!Next]_(Store!vars)
<1>1. Store!Fail(C)
  BY DEF Store!Fail, Targets
<1>. QED
  BY <1>1 DEF Store!Next

LEMMA InvokeRefines ==
    ASSUME NetInv, NEW c \in Calls, Invoke(c) PROVE [Store!Next]_(Store!vars)
<1>1. /\ Goto(c, "lock") /\ remote' = remote /\ clone' = clone
      /\ call[c].pc = "idle"
  BY DEF Invoke
<1>2. Targets' = Targets
  BY <1>1, TargetStays DEF NetInv, Steps
<1>3. StoreStatus' = [StoreStatus EXCEPT ![c] = "pending"]
  BY <1>1, StatusStep DEF Steps
<1>4. StoreStatus[c] = "idle"
  BY <1>1 DEF StoreStatus, AppliedNotReturned, Steps
<1>5. Store!Invoke(c)
  BY <1>1, <1>2, <1>3, <1>4 DEF Store!Invoke, Targets
<1>. QED
  BY <1>5 DEF Store!Next

LEMMA LockRefines ==
    ASSUME NetInv, NEW c \in Calls, Lock(c) PROVE [Store!Next]_(Store!vars)
<1>1. /\ Goto(c, "pull") /\ remote' = remote /\ clone' = clone
      /\ call[c].pc = "lock"
  BY DEF Lock
<1>2. Targets' = Targets
  BY <1>1, TargetStays DEF NetInv, Steps
<1>3. StoreStatus[c] = "pending"
  BY <1>1 DEF StoreStatus, AppliedNotReturned, Steps
<1>4. StoreStatus' = StoreStatus
  BY <1>1, <1>3, StatusStep DEF Steps
<1>. QED
  BY <1>1, <1>2, <1>4, StutterRefines

\* The error of a call.
LEMMA FailedReturnRefines ==
    ASSUME NetInv, NEW c \in Calls, call[c].pc \in Locked,
           Return(c, "failed"), remote' = remote,
           \A q \in Replicas \ {call[c].at} : clone'[q] = clone[q]
    PROVE  [Store!Next]_(Store!vars)
<1>1. Goto(c, "failed")
  BY DEF Return
<1>2. Targets' = Targets
  BY <1>1, TargetStays DEF NetInv, Results
<1>3. StoreStatus' = [StoreStatus EXCEPT ![c] = "failed"]
  BY <1>1, StatusStep DEF Steps, Results
<1>4. StoreStatus[c] \in {"pending", "applied"}
  BY DEF StoreStatus, Locked, Steps
<1>5. StoreStatus' = [x \in Calls |-> IF x \in {c} THEN "failed"
                                       ELSE StoreStatus[x]]
  BY <1>3 DEF StoreStatus
<1>. QED
  BY <1>2, <1>4, <1>5, FailRefines

LEMMA PullRefines ==
    ASSUME NetInv, NEW c \in Calls, Pull(c) PROVE [Store!Next]_(Store!vars)
<1>1. /\ TypeOK /\ remote' = remote /\ call[c].pc = "pull"
      /\ call[c].pc \in Locked /\ remote.files \in FileMap
      /\ call[c].path \in Paths
  BY CloneOfType DEF NetInv, Pull, Locked, TypeOK
<1>2. StoreStatus[c] = "pending"
  BY <1>1 DEF StoreStatus, AppliedNotReturned, Steps
<1>3. ASSUME NEW new, SetClone(c, new)
      PROVE  \A q \in Replicas \ {call[c].at} : clone'[q] = clone[q]
  BY <1>1, <1>3, AfterSetClone
<1>4. CASE Return(c, "failed")
  <2>1. \A q \in Replicas \ {call[c].at} : clone'[q] = clone[q]
    BY <1>3 DEF Pull
  <2>. QED
    BY <1>1, <1>4, <2>1, FailedReturnRefines
<1>5. ASSUME NEW new \in Pulled(CloneOf(c)), SetClone(c, new),
             new.disk[call[c].path] = call[c].value, Return(c, "ok")
      PROVE  [Store!Next]_(Store!vars)
  <2>1. Goto(c, "ok")
    BY <1>5 DEF Return
  <2>2. Targets' = Targets
    BY <1>1, <2>1, TargetStays DEF Results
  <2>3. StoreStatus' = [StoreStatus EXCEPT ![c] = "ok"]
    BY <1>1, <1>3, <1>5, <2>1, StatusStep DEF Steps, Results
  <2>4. new.disk = remote.files
    BY <1>1, <1>5, PulledClone DEF Clean
  <2>5. remote.files = [remote.files EXCEPT ![call[c].path] = call[c].value]
    BY <1>1, <1>5, <2>4 DEF FileMap
  <2>. QED
    BY <1>1, <1>2, <2>2, <2>3, <2>5, EffectRefines
<1>6. ASSUME NEW new, SetClone(c, new), KeepLock(c, "commit")
      PROVE  [Store!Next]_(Store!vars)
  <2>1. Goto(c, "commit")
    BY <1>6 DEF KeepLock
  <2>2. Targets' = Targets
    BY <1>1, <2>1, TargetStays DEF Steps
  <2>3. StoreStatus' = StoreStatus
    BY <1>1, <1>2, <1>3, <1>6, <2>1, StatusStep DEF Steps
  <2>. QED
    BY <1>1, <2>2, <2>3, StutterRefines
<1>. QED
  BY <1>4, <1>5, <1>6 DEF Pull

LEMMA CommitRefines ==
    ASSUME NetworkFaultsOnly, NetInv, NEW c \in Calls, Commit(c)
    PROVE  [Store!Next]_(Store!vars)
<1>1. /\ TypeOK /\ remote' = remote /\ call[c].pc = "commit"
      /\ call[c].pc \in Locked
  BY DEF NetInv, Commit, Locked
<1>2. StoreStatus[c] = "pending"
  BY <1>1 DEF StoreStatus, AppliedNotReturned, Steps
<1>3. \A q \in Replicas \ {call[c].at} : clone'[q] = clone[q]
  BY <1>1, AfterSetClone DEF Commit
<1>4. Goto(c, "push")
  BY CommitNet DEF KeepLock
<1>5. Targets' = Targets
  BY <1>1, <1>4, TargetStays DEF Steps
<1>6. StoreStatus' = StoreStatus
  BY <1>1, <1>2, <1>3, <1>4, StatusStep DEF Steps
<1>. QED
  BY <1>1, <1>5, <1>6, StutterRefines

LEMMA PushRefines ==
    ASSUME NetInv, NEW c \in Calls, Push(c) PROVE [Store!Next]_(Store!vars)
<1>1. /\ TypeOK /\ call[c].pc = "push" /\ call[c].pc \in Locked
      /\ CloneOf(c) \in Clone
  BY CloneOfType DEF NetInv, Push, Locked
<1>2. StoreStatus[c] = "pending"
  BY <1>1 DEF StoreStatus, AppliedNotReturned, Steps
<1>3. Goto(c, "ok") \/ Goto(c, "reset")
  BY DEF Push, Return, KeepLock
<1>4. Targets' = Targets
  BY <1>1, <1>3, TargetStays DEF Steps, Results
<1>5. ASSUME CloneOf(c).base = remote.version, remote' = Pushed(c)
      PROVE  remote'.files =
               [remote.files EXCEPT ![call[c].path] = call[c].value]
  BY <1>1, <1>5, AtLockedStep DEF CloneAtStep, Pushed
<1>6. CASE /\ CloneOf(c).base = remote.version /\ remote' = Pushed(c)
           /\ SetClone(c, AfterPush(c)) /\ Return(c, "ok")
  <2>1. StoreStatus' = [StoreStatus EXCEPT ![c] = "ok"]
    BY <1>1, <1>6, AfterSetClone, StatusStep DEF Steps, Results, Return
  <2>. QED
    BY <1>2, <1>4, <1>5, <1>6, <2>1, EffectRefines
<1>7. CASE /\ CloneOf(c).base = remote.version /\ remote' = Pushed(c)
           /\ SetClone(c, [AfterPush(c) EXCEPT
                             !.track = CloneOf(c).track,
                             !.trackFiles = CloneOf(c).trackFiles])
           /\ KeepLock(c, "reset")
  <2>1. clone'[call[c].at].local = 0
    <3>1. AfterPush(c).local = 0 /\ AfterPush(c) \in Clone
      BY <1>1, AfterPushType DEF AfterPush, Clone
    <3>2. clone'[call[c].at] = [AfterPush(c) EXCEPT
                                  !.track = CloneOf(c).track,
                                  !.trackFiles = CloneOf(c).trackFiles]
      BY <1>1, <1>7, AfterSetClone
    <3>. QED
      BY <3>1, <3>2 DEF Clone
  <2>2. StoreStatus' = [StoreStatus EXCEPT ![c] = "applied"]
    BY <1>1, <1>7, <2>1, AfterSetClone, StatusStep DEF Steps, KeepLock
  <2>. QED
    BY <1>2, <1>4, <1>5, <1>7, <2>2, EffectRefines
<1>8. CASE KeepLock(c, "reset") /\ UNCHANGED <<remote, clone>>
  <2>1. clone'[call[c].at].local # 0
    <3>1. clone' = clone /\ CloneOf(c) = clone[call[c].at] /\ CloneAtStep(c)
      BY <1>1, <1>8, AtLockedStep
    <3>2. CloneOf(c).local = 1
      BY <1>1, <3>1 DEF CloneAtStep
    <3>. QED
      BY <3>1, <3>2
  <2>2. StoreStatus' = StoreStatus
    BY <1>1, <1>2, <1>8, <2>1, StatusStep DEF Steps, KeepLock
  <2>. QED
    BY <1>4, <1>8, <2>2, StutterRefines
<1>. QED
  BY <1>6, <1>7, <1>8 DEF Push

LEMMA ResetRefines ==
    ASSUME NetInv, NEW c \in Calls, Reset(c) PROVE [Store!Next]_(Store!vars)
<1>1. /\ TypeOK /\ remote' = remote /\ Return(c, "failed")
      /\ call[c].pc \in Locked
  BY DEF NetInv, Reset, Locked
<1>2. \A q \in Replicas \ {call[c].at} : clone'[q] = clone[q]
  BY <1>1, AfterSetClone DEF Reset
<1>. QED
  BY <1>1, <1>2, FailedReturnRefines

LEMMA RestartRefines ==
    ASSUME NetInv, NEW r \in Replicas, Restart(r)
    PROVE  [Store!Next]_(Store!vars)
<1> DEFINE C == {c \in Calls : call[c].at = r /\ call[c].pc \in Steps}
<1>1. ASSUME NEW x \in Calls
      PROVE  /\ call[x] \in Call /\ call[x].at \in Replicas
             /\ x \in C => call'[x] = [call[x] EXCEPT !.pc = "failed"]
             /\ x \notin C => call'[x] = call[x]
  BY CloneOfType DEF NetInv, Restart
<1>2. Targets' = Targets
  <2>1. ASSUME NEW x \in Calls
        PROVE  call'[x].path = call[x].path /\ call'[x].value = call[x].value
    BY <1>1 DEF Call
  <2>. QED
    BY <2>1 DEF Targets
<1>3. ASSUME NEW x \in Calls
      PROVE  StoreStatus'[x] = IF x \in C THEN "failed" ELSE StoreStatus[x]
  <2>1. CASE x \in C
    <3>1. call'[x].pc = "failed"
      BY <1>1, <2>1 DEF Call
    <3>. QED
      BY <2>1, <3>1 DEF StoreStatus, AppliedNotReturned, Steps
  <2>2. CASE x \notin C
    <3>1. call'[x] = call[x] /\ (call[x].pc \in Steps => call[x].at # r)
      BY <1>1, <2>2
    <3>2. call[x].pc \in Steps => CloneOf(x)' = CloneOf(x)
      BY <1>1, <3>1 DEF CloneOf, Restart, NetInv, TypeOK
    <3>. QED
      BY <2>2, <3>1, <3>2 DEF StoreStatus, AppliedNotReturned, Steps
  <2>. QED
    BY <2>1, <2>2
<1>4. StoreStatus' = [x \in Calls |-> IF x \in C THEN "failed"
                                       ELSE StoreStatus[x]]
  BY <1>3 DEF StoreStatus
<1>5. \A x \in C : StoreStatus[x] \in {"pending", "applied"}
  BY DEF StoreStatus
<1>6. remote' = remote
  BY DEF Restart
<1>. QED
  BY <1>2, <1>4, <1>5, <1>6, FailRefines

LEMMA NextRefines ==
    ASSUME NetworkFaultsOnly
    PROVE  NetInv /\ [Next]_vars => [Store!Next]_(Store!vars)
<1> SUFFICES ASSUME NetInv, [Next]_vars PROVE [Store!Next]_(Store!vars)
  OBVIOUS
<1>1. ASSUME NEW c \in Calls, Step(c) PROVE [Store!Next]_(Store!vars)
  BY <1>1, LockRefines, PullRefines, CommitRefines, PushRefines, ResetRefines
     DEF Step
<1>2. CASE UNCHANGED vars
  BY <1>2, StutterRefines
     DEF vars, StoreStatus, AppliedNotReturned, CloneOf, Targets
<1>. QED
  BY <1>1, <1>2, InvokeRefines, RestartRefines DEF Next, Finished

\* When only the network and the processes fail, the client implements its
\* abstract specification: a call takes effect in one step, at most once, on
\* its own file, and has taken effect when it returns without an error.
THEOREM ClientImplementsGitStore ==
    ASSUME NetworkFaultsOnly PROVE Spec => ImplementsGitStore
<1>. QED
  BY InitNet, NextNet, InitRefines, NextRefines, PTL
     DEF Spec, ImplementsGitStore, Store!Spec

\* Only its effect lets a call of GitStore return without an error.
LEMMA OkIsAnEffect ==
    ASSUME TypeOK, [Store!Next]_(Store!vars), NEW c \in Calls,
           StoreStatus[c] # "ok", StoreStatus'[c] = "ok"
    PROVE  remote'.files[call[c].path] = call[c].value
<1>1. DOMAIN StoreStatus = Calls
  BY DEF StoreStatus
<1>2. StoreStatus' # StoreStatus
  OBVIOUS
<1>3. ASSUME NEW x \in Calls, Store!Invoke(x) PROVE FALSE
  BY <1>1, <1>3 DEF Store!Invoke
<1>4. ASSUME NEW C \in SUBSET Calls, Store!Fail(C) PROVE FALSE
  BY <1>4 DEF Store!Fail
<1>5. PICK x \in Calls : Store!TakeEffect(x)
  BY <1>2, <1>3, <1>4 DEF Store!Next, Store!vars
<1>6. x = c
  BY <1>1, <1>5 DEF Store!TakeEffect
<1>7. remote'.files = [remote.files EXCEPT ![call[c].path] = call[c].value]
  BY <1>5, <1>6 DEF Store!TakeEffect
<1>8. call[c].path \in DOMAIN remote.files
  BY CloneOfType DEF TypeOK, FileMap
<1> QED
  BY <1>7, <1>8

\* When only the network and the processes fail, a call that returns without
\* an error leaves its file in the remote branch as it was asked to, for any
\* number of replicas that race for the branch: the failures of the local
\* clone are all that breaks what client.go says of SyncValues.
THEOREM AcknowledgementsAreTrue ==
    ASSUME NetworkFaultsOnly PROVE Spec => AcknowledgedIsPushed
<1> DEFINE Acknowledged ==
             \A c \in Calls :
                (call[c].pc # "ok" /\ call'[c].pc = "ok") =>
                   remote'.files[call[c].path] = call[c].value
<1>1. NetInv /\ [Next]_vars => [Acknowledged]_vars
  <2> SUFFICES ASSUME NetInv, [Next]_vars, NEW c \in Calls,
                      call[c].pc # "ok", call'[c].pc = "ok"
               PROVE  remote'.files[call[c].path] = call[c].value
    BY DEF vars
  <2>1. TypeOK /\ [Store!Next]_(Store!vars)
    BY NextRefines DEF NetInv
  <2>2. StoreStatus[c] # "ok"
    BY DEF StoreStatus, Steps
  <2>3. StoreStatus'[c] = "ok"
    BY DEF StoreStatus, AppliedNotReturned, Steps
  <2> QED
    BY <2>1, <2>2, <2>3, OkIsAnEffect
<1> QED
  BY InitNet, NextNet, <1>1, PTL DEF Spec, AcknowledgedIsPushed

-----------------------------------------------------------------------------
(* What a push may change, whatever fails.  The mutex is not needed for    *)
(* this, nor are clean clones: a file of a clone that differs from the     *)
(* remote's was asked for by some call, unless the clone is torn.          *)

\* What is staged but not committed was asked for, and so was, as long as the
\* remote has not moved on, what is committed but not pushed.
HoldsOnlyRequests(r) ==
    /\ \A p \in Paths : \/ clone[r].index[p] = clone[r].head[p]
                        \/ Requested(p, clone[r].index[p])
    /\ clone[r].base = remote.version =>
          \A p \in Paths : \/ clone[r].head[p] = remote.files[p]
                           \/ Requested(p, clone[r].head[p])

TornInv ==
    /\ TypeOK
    /\ \A r \in Replicas : KnowsRemote(r)
    /\ \A r \in Replicas \ torn : HoldsOnlyRequests(r)

\* A step of one call does not take back what was asked for.
LEMMA GotoKeepsRequests ==
    ASSUME TypeOK, NEW c \in Calls, NEW pc \in Steps \cup Results, Goto(c, pc)
    PROVE  \A p, v : Requested(p, v) => Requested(p, v)'
<1>1. pc # "idle"
  BY DEF Steps, Results
<1>2. ASSUME NEW d \in Calls
      PROVE  /\ call'[d].path = call[d].path /\ call'[d].value = call[d].value
             /\ call[d].pc # "idle" => call'[d].pc # "idle"
  <2>1. CASE d = c
    BY <1>1, <2>1, GotoType
  <2>2. CASE d # c
    BY <2>2, GotoType
  <2>. QED
    BY <2>1, <2>2
<1>. QED
  BY <1>2 DEF Requested

\* No step does.
LEMMA RequestsStay ==
    ASSUME TypeOK, Next
    PROVE  \A p, v : Requested(p, v) => Requested(p, v)'
<1>1. ASSUME NEW c \in Calls, NEW pc \in Steps \cup Results, Goto(c, pc)
      PROVE  \A p, v : Requested(p, v) => Requested(p, v)'
  BY <1>1, GotoKeepsRequests
<1>2. ASSUME NEW c \in Calls, Invoke(c) \/ Step(c)
      PROVE  \E pc \in Steps \cup Results : Goto(c, pc)
  BY <1>2 DEF Invoke, Step, Lock, Pull, Commit, Push, Reset, Return, KeepLock,
              Steps, Results
<1>3. ASSUME NEW r \in Replicas, Restart(r)
      PROVE  \A p, v : Requested(p, v) => Requested(p, v)'
  <2>1. ASSUME NEW d \in Calls
        PROVE  /\ call'[d].path = call[d].path
               /\ call'[d].value = call[d].value
               /\ call[d].pc # "idle" => call'[d].pc # "idle"
    BY <1>3, CloneOfType DEF Restart, Call, Steps
  <2>. QED
    BY <2>1 DEF Requested
<1>4. CASE Finished
  BY <1>4 DEF Finished, vars, Requested
<1>. QED
  BY <1>1, <1>2, <1>3, <1>4 DEF Next

\* The steps below keep what is known of each replica, and a replica that
\* holds only what was asked for does so after them, or its HEAD was moved by
\* a refused pull.
Keeps(q) ==
    /\ KnowsRemote(q)'
    /\ HoldsOnlyRequests(q) => MovesHeadOnly(q) \/ HoldsOnlyRequests(q)'

\* A clone that is left alone keeps it, also when the remote moves on.
LEMMA LeftAlone ==
    ASSUME TornInv, NEW q \in Replicas, clone'[q] = clone[q],
           \A p, v : Requested(p, v) => Requested(p, v)',
           remote' = remote \/ remote'.version = remote.version + 1
    PROVE  Keeps(q)
<1>1. /\ clone[q] \in Clone /\ remote.version \in Nat /\ KnowsRemote(q)
  BY DEF TornInv, TypeOK
<1>2. KnowsRemote(q)'
  BY <1>1 DEF KnowsRemote, Clone
<1>3. ASSUME HoldsOnlyRequests(q) PROVE HoldsOnlyRequests(q)'
  <2>1. CASE remote' = remote
    BY <1>3, <2>1 DEF HoldsOnlyRequests
  <2>2. CASE remote'.version = remote.version + 1
    <3>1. clone'[q].base # remote'.version
      BY <1>1, <2>2 DEF KnowsRemote, Clone
    <3>. QED
      BY <1>3, <3>1 DEF HoldsOnlyRequests
  <2>. QED
    BY <2>1, <2>2
<1>. QED
  BY <1>2, <1>3 DEF Keeps

\* So does one that is brought to a version of the remote it knows.
LEMMA BroughtTo ==
    ASSUME TornInv, NEW q \in Replicas, remote' = remote,
           clone'[q].track <= remote.version,
           clone'[q].track = remote.version =>
              clone'[q].trackFiles = remote.files,
           clone'[q].base = clone'[q].track,
           clone'[q].head = clone'[q].trackFiles,
           clone'[q].index = clone'[q].head
    PROVE  Keeps(q)
<1>1. KnowsRemote(q)'
  BY DEF KnowsRemote
<1>2. HoldsOnlyRequests(q)'
  BY DEF HoldsOnlyRequests
<1>. QED
  BY <1>1, <1>2 DEF Keeps

\* The replicas other than that of the call are left alone.
LEMMA OthersLeftAlone ==
    ASSUME TornInv, NEW c \in Calls,
           UNCHANGED clone \/ \E new : SetClone(c, new),
           \A p, v : Requested(p, v) => Requested(p, v)',
           remote' = remote \/ remote'.version = remote.version + 1
    PROVE  \A q \in Replicas \ {call[c].at} : Keeps(q)
<1>1. \A q \in Replicas \ {call[c].at} : clone'[q] = clone[q]
  BY AfterSetClone DEF TornInv
<1>. QED
  BY <1>1, LeftAlone

LEMMA PullKeeps ==
    ASSUME TornInv, NEW c \in Calls, Pull(c),
           \A p, v : Requested(p, v) => Requested(p, v)'
    PROVE  \A q \in Replicas : Keeps(q)
<1> DEFINE cl == CloneOf(c)
<1>1. PICK r \in Replicas : r = call[c].at
  BY CloneOfType DEF TornInv
<1>2. /\ TypeOK /\ cl = clone[r] /\ cl \in Clone /\ KnowsRemote(r)
      /\ remote.version \in Nat /\ remote.files \in FileMap
      /\ remote' = remote /\ call[c].pc = "pull"
  BY <1>1, CloneOfType DEF TornInv, TypeOK, CloneOf, Pull
<1>3. UNCHANGED clone \/ \E new : SetClone(c, new)
  BY DEF Pull
<1>4. \A q \in Replicas \ {r} : Keeps(q)
  BY <1>1, <1>2, <1>3, OthersLeftAlone
<1>5. ASSUME clone'[r] = [cl EXCEPT !.track = remote.version,
                                    !.trackFiles = remote.files]
      PROVE  Keeps(r)
  <2>1. /\ clone'[r].track = remote.version /\ clone'[r].base = cl.base
        /\ clone'[r].trackFiles = remote.files /\ clone'[r].head = cl.head
        /\ clone'[r].index = cl.index /\ clone'[r].local = cl.local
    BY <1>2, <1>5 DEF Clone
  <2>2. KnowsRemote(r)'
    BY <1>2, <2>1 DEF KnowsRemote
  <2>3. HoldsOnlyRequests(r) => HoldsOnlyRequests(r)'
    BY <1>2, <2>1 DEF HoldsOnlyRequests
  <2>. QED
    BY <2>2, <2>3 DEF Keeps
<1>6. ASSUME NEW new \in Pulled(cl), SetClone(c, new) PROVE Keeps(r)
  <2>1. clone'[r] = new
    BY <1>1, <1>2, <1>6, AfterSetClone
  <2>2. CASE cl.local > 0 \/ cl.base = remote.version
    BY <1>5, <1>6, <2>1, <2>2 DEF Pulled
  <2>3. CASE ~(cl.local > 0 \/ cl.base = remote.version)
    <3>1. PICK d : new = [FreshClone EXCEPT !.disk = d]
      BY <1>6, <2>3 DEF Pulled
    <3>2. /\ new.track = remote.version /\ new.trackFiles = remote.files
          /\ new.base = remote.version /\ new.head = remote.files
          /\ new.index = remote.files
      BY <3>1 DEF FreshClone
    <3>. QED
      BY <1>2, <2>1, <3>2, BroughtTo
  <2>. QED
    BY <2>2, <2>3
<1>7. ASSUME NEW new \in Refused(cl), SetClone(c, new), Return(c, "failed"),
             Diverged(cl) \/ Blocked(cl)
      PROVE  Keeps(r)
  <2> DEFINE fetched == [cl EXCEPT !.track = remote.version,
                                   !.trackFiles = remote.files]
  <2>1. clone'[r] = new
    BY <1>1, <1>2, <1>7, AfterSetClone
  <2>2. CASE new = fetched
    BY <1>5, <2>1, <2>2
  <2>3. CASE ~Diverged(cl) /\ new = [fetched EXCEPT !.base = remote.version,
                                                    !.head = remote.files]
    <3>1. /\ clone'[r].track = remote.version
          /\ clone'[r].trackFiles = remote.files
          /\ clone'[r].base = remote.version /\ clone'[r].head = remote.files
          /\ clone'[r].index = cl.index
      BY <1>2, <2>1, <2>3 DEF Clone
    <3>2. KnowsRemote(r)'
      BY <1>2, <3>1 DEF KnowsRemote
    <3>3. CASE cl.head = remote.files
      <4>1. HoldsOnlyRequests(r) => HoldsOnlyRequests(r)'
        BY <1>2, <3>1, <3>3 DEF HoldsOnlyRequests
      <4>. QED
        BY <3>2, <4>1 DEF Keeps
    <3>4. CASE cl.head # remote.files
      <4>1. cl.base # remote.version
        BY <1>7, <2>3 DEF Diverged, Blocked
      <4>2. call'[c].pc = "failed"
        BY <1>2, <1>7, GotoType DEF Return, Results
      <4>3. MovesHeadOnly(r)
        BY <1>1, <1>2, <3>1, <3>4, <4>1, <4>2 DEF MovesHeadOnly
      <4>. QED
        BY <3>2, <4>3 DEF Keeps
    <3>. QED
      BY <3>3, <3>4
  <2>. QED
    BY <1>7, <2>2, <2>3 DEF Refused
<1>8. CASE UNCHANGED clone
  BY <1>2, <1>8, LeftAlone
<1>9. Keeps(r)
  BY <1>6, <1>7, <1>8 DEF Pull
<1>. QED
  BY <1>4, <1>9

\* Staging and committing change the file of the call, and it was asked for.
LEMMA CommitKeeps ==
    ASSUME TornInv, NEW c \in Calls, Commit(c),
           \A p, v : Requested(p, v) => Requested(p, v)'
    PROVE  \A q \in Replicas : Keeps(q)
<1> DEFINE cl == CloneOf(c)
<1>1. PICK r \in Replicas : r = call[c].at
  BY CloneOfType DEF TornInv
<1>2. /\ TypeOK /\ cl = clone[r] /\ cl \in Clone /\ KnowsRemote(r)
      /\ remote.version \in Nat /\ remote.files \in FileMap
      /\ remote' = remote /\ call[c].pc = "commit"
      /\ call[c].path \in Paths /\ call[c].value \in Content
  BY <1>1, CloneOfType DEF TornInv, TypeOK, CloneOf, Commit
<1>3. \A q \in Replicas \ {r} : Keeps(q)
  BY <1>1, <1>2, OthersLeftAlone DEF Commit
<1>4. Requested(call[c].path, call[c].value)
  BY <1>2 DEF Requested
<1>5. /\ Written(c) \in Clone /\ Written(c).index = cl.index
      /\ Written(c).head = cl.head /\ Written(c).local = cl.local
      /\ Written(c).base = cl.base /\ Written(c).track = cl.track
      /\ Written(c).trackFiles = cl.trackFiles
  BY <1>2, CommittedType DEF Written, Clone
<1>6. /\ Staged(c) \in Clone
      /\ Staged(c).index = [cl.index EXCEPT ![call[c].path] = call[c].value]
      /\ Staged(c).head = cl.head /\ Staged(c).local = cl.local
      /\ Staged(c).base = cl.base /\ Staged(c).track = cl.track
      /\ Staged(c).trackFiles = cl.trackFiles
  BY <1>2, <1>5, CommittedType DEF Staged, Clone
<1>7. /\ Committed(c).index = Staged(c).index
      /\ Committed(c).head = Staged(c).index
      /\ Committed(c).local = cl.local + 1
      /\ Committed(c).base = cl.base /\ Committed(c).track = cl.track
      /\ Committed(c).trackFiles = cl.trackFiles
  BY <1>6 DEF Committed, Clone
<1>8. ASSUME NEW p \in Paths
      PROVE  Staged(c).index[p] = cl.index[p] \/ Requested(p, Staged(c).index[p])
  <2>1. cl.index \in [Paths -> Content]
    BY <1>2 DEF Clone, FileMap
  <2>2. CASE p = call[c].path
    BY <1>4, <1>6, <2>1, <2>2
  <2>3. CASE p # call[c].path
    BY <1>6, <2>1, <2>3
  <2>. QED
    BY <2>2, <2>3
<1>9. CASE SetClone(c, Written(c))
  <2>1. clone'[r] = Written(c)
    BY <1>1, <1>2, <1>9, AfterSetClone
  <2>2. KnowsRemote(r)'
    BY <1>2, <1>5, <2>1 DEF KnowsRemote
  <2>3. HoldsOnlyRequests(r) => HoldsOnlyRequests(r)'
    BY <1>2, <1>5, <2>1 DEF HoldsOnlyRequests
  <2>. QED
    BY <1>3, <2>2, <2>3 DEF Keeps
<1>10. CASE SetClone(c, Staged(c))
  <2>1. clone'[r] = Staged(c)
    BY <1>1, <1>2, <1>10, AfterSetClone
  <2>2. KnowsRemote(r)'
    BY <1>2, <1>6, <2>1 DEF KnowsRemote
  <2>3. ASSUME HoldsOnlyRequests(r), NEW p \in Paths
        PROVE  \/ Staged(c).index[p] = cl.head[p]
               \/ Requested(p, Staged(c).index[p])
    BY <1>2, <1>8, <2>3 DEF HoldsOnlyRequests
  <2>4. ASSUME HoldsOnlyRequests(r), NEW p \in Paths, cl.base = remote.version
        PROVE  cl.head[p] = remote.files[p] \/ Requested(p, cl.head[p])
    BY <1>2, <2>4 DEF HoldsOnlyRequests
  <2>5. HoldsOnlyRequests(r) => HoldsOnlyRequests(r)'
    BY <1>2, <1>6, <2>1, <2>3, <2>4 DEF HoldsOnlyRequests
  <2>. QED
    BY <1>3, <2>2, <2>5 DEF Keeps
<1>11. CASE SetClone(c, Committed(c))
  <2>1. clone'[r] = Committed(c) /\ cl.local + 1 # 0
    BY <1>1, <1>2, <1>11, AfterSetClone DEF Clone
  <2>2. KnowsRemote(r)'
    BY <1>2, <1>7, <2>1 DEF KnowsRemote
  <2>3. ASSUME HoldsOnlyRequests(r), NEW p \in Paths, cl.base = remote.version
        PROVE  \/ Staged(c).index[p] = remote.files[p]
               \/ Requested(p, Staged(c).index[p])
    BY <1>2, <1>8, <2>3 DEF HoldsOnlyRequests
  <2>4. HoldsOnlyRequests(r) => HoldsOnlyRequests(r)'
    BY <1>2, <1>7, <2>1, <2>3 DEF HoldsOnlyRequests
  <2>. QED
    BY <1>3, <2>2, <2>4 DEF Keeps
<1>. QED
  BY <1>9, <1>10, <1>11 DEF Commit

LEMMA PushKeeps ==
    ASSUME TornInv, NEW c \in Calls, Push(c),
           \A p, v : Requested(p, v) => Requested(p, v)'
    PROVE  \A q \in Replicas : Keeps(q)
<1> DEFINE cl == CloneOf(c)
<1>1. PICK r \in Replicas : r = call[c].at
  BY CloneOfType DEF TornInv
<1>2. /\ TypeOK /\ cl = clone[r] /\ cl \in Clone /\ KnowsRemote(r)
      /\ remote.version \in Nat
  BY <1>1, CloneOfType DEF TornInv, TypeOK, CloneOf
<1>3. CASE UNCHANGED <<remote, clone>>
  BY <1>3, LeftAlone
<1>4. ASSUME NEW new, SetClone(c, new), remote' = Pushed(c),
             new.base = remote.version + 1,
             new.head = cl.head, new.index = cl.index,
             \/ new.track = remote.version + 1 /\ new.trackFiles = cl.head
             \/ new.track = cl.track
      PROVE  \A q \in Replicas : Keeps(q)
  <2>1. clone'[r] = new
    BY <1>1, <1>2, <1>4, AfterSetClone
  <2>2. remote'.version = remote.version + 1 /\ remote'.files = cl.head
    BY <1>4 DEF Pushed
  <2>3. KnowsRemote(r)'
    BY <1>2, <1>4, <2>1, <2>2 DEF KnowsRemote, Clone
  <2>4. HoldsOnlyRequests(r) => HoldsOnlyRequests(r)'
    BY <1>2, <1>4, <2>1, <2>2 DEF HoldsOnlyRequests
  <2>5. \A q \in Replicas \ {r} : Keeps(q)
    BY <1>1, <1>4, <2>2, OthersLeftAlone
  <2>. QED
    BY <2>3, <2>4, <2>5 DEF Keeps
<1>5. /\ AfterPush(c).base = remote.version + 1
      /\ AfterPush(c).head = cl.head /\ AfterPush(c).index = cl.index
      /\ AfterPush(c).track = remote.version + 1
      /\ AfterPush(c).trackFiles = cl.head
  BY <1>2 DEF AfterPush, Clone
<1>6. CASE SetClone(c, AfterPush(c)) /\ remote' = Pushed(c)
  BY <1>4, <1>5, <1>6
<1>7. CASE /\ SetClone(c, [AfterPush(c) EXCEPT !.track = cl.track,
                                          !.trackFiles = cl.trackFiles])
           /\ remote' = Pushed(c)
  <2> DEFINE new == [AfterPush(c) EXCEPT !.track = cl.track,
                                         !.trackFiles = cl.trackFiles]
  <2>1. AfterPush(c) \in Clone
    BY <1>2, AfterPushType
  <2>2. /\ new.base = remote.version + 1 /\ new.head = cl.head
        /\ new.index = cl.index /\ new.track = cl.track
    BY <1>5, <2>1 DEF Clone
  <2>. QED
    BY <1>4, <1>7, <2>2
<1>. QED
  BY <1>3, <1>6, <1>7 DEF Push

LEMMA ResetKeeps ==
    ASSUME TornInv, NEW c \in Calls, Reset(c),
           \A p, v : Requested(p, v) => Requested(p, v)'
    PROVE  \A q \in Replicas : Keeps(q)
<1> DEFINE cl == CloneOf(c)
<1>1. PICK r \in Replicas : r = call[c].at
  BY CloneOfType DEF TornInv
<1>2. /\ TypeOK /\ cl = clone[r] /\ cl \in Clone /\ KnowsRemote(r)
      /\ remote' = remote
  BY <1>1, CloneOfType DEF TornInv, CloneOf, Reset
<1>3. CASE UNCHANGED clone
  BY <1>2, <1>3, LeftAlone
<1>4. ASSUME NEW d, SetClone(c, ResetTo(cl, d)) PROVE \A q \in Replicas : Keeps(q)
  <2>1. clone'[r] = ResetTo(cl, d)
    BY <1>1, <1>2, <1>4, AfterSetClone
  <2>2. /\ clone'[r].base = cl.track /\ clone'[r].head = cl.trackFiles
        /\ clone'[r].index = cl.trackFiles /\ clone'[r].track = cl.track
        /\ clone'[r].trackFiles = cl.trackFiles
    BY <1>2, <2>1 DEF ResetTo, Clone
  <2>3. Keeps(r)
    BY <1>2, <2>2, BroughtTo DEF KnowsRemote
  <2>4. \A q \in Replicas \ {r} : Keeps(q)
    BY <1>1, <1>2, <1>4, OthersLeftAlone
  <2>. QED
    BY <2>3, <2>4
<1>. QED
  BY <1>3, <1>4 DEF Reset

LEMMA RestartKeeps ==
    ASSUME TornInv, NEW r \in Replicas, Restart(r),
           \A p, v : Requested(p, v) => Requested(p, v)'
    PROVE  \A q \in Replicas : Keeps(q)
<1>1. /\ TypeOK /\ clone'[r] = FreshClone /\ remote' = remote
      /\ \A q \in Replicas \ {r} : clone'[q] = clone[q]
      /\ remote.version \in Nat
  BY DEF TornInv, TypeOK, Restart
<1>2. Keeps(r)
  BY <1>1, BroughtTo DEF FreshClone
<1>3. \A q \in Replicas \ {r} : Keeps(q)
  BY <1>1, LeftAlone
<1>. QED
  BY <1>2, <1>3

\* Every step does, and a clone that is not torn any more has nothing of its
\* own.
LEMMA NextTorn == TornInv /\ [Next /\ TornNext]_<<vars, torn>> => TornInv'
<1> SUFFICES ASSUME TornInv, [Next /\ TornNext]_<<vars, torn>> PROVE TornInv'
  OBVIOUS
<1>1. CASE UNCHANGED <<vars, torn>>
  BY <1>1 DEF TornInv, TypeOK, KnowsRemote, HoldsOnlyRequests, Requested, vars
<1>2. CASE Next /\ TornNext
  <2>1. \A p, v : Requested(p, v) => Requested(p, v)'
    BY <1>2, RequestsStay DEF TornInv
  <2>2. TypeOK'
    BY <1>2, NextType DEF TornInv
  <2>3. ASSUME NEW q \in Replicas PROVE Keeps(q)
    <3>1. ASSUME NEW c \in Calls, Invoke(c) \/ Lock(c) PROVE Keeps(q)
      BY <2>1, <3>1, LeftAlone DEF Invoke, Lock
    <3>2. ASSUME NEW c \in Calls, Step(c) PROVE Keeps(q)
      BY <2>1, <3>1, <3>2, PullKeeps, CommitKeeps, PushKeeps, ResetKeeps DEF Step
    <3>3. ASSUME NEW r \in Replicas, Restart(r) PROVE Keeps(q)
      BY <2>1, <3>3, RestartKeeps
    <3>4. CASE Finished
      BY <2>1, <3>4, LeftAlone DEF Finished, vars
    <3>. QED
      BY <1>2, <3>1, <3>2, <3>3, <3>4 DEF Next
  <2>4. ASSUME NEW q \in Replicas, q \notin torn' PROVE HoldsOnlyRequests(q)'
    <3>1. ~MovesHeadOnly(q)
      BY <1>2, <2>4 DEF TornNext
    <3>2. CASE q \notin torn
      BY <2>3, <3>1, <3>2 DEF Keeps, TornInv
    <3>3. CASE q \in torn
      <4>1. clone'[q].local = 0 /\ clone'[q].index = clone'[q].head
        BY <1>2, <2>4, <3>3 DEF TornNext, NothingOfItsOwn
      <4>. QED
        BY <2>3, <4>1 DEF Keeps, KnowsRemote, HoldsOnlyRequests
    <3>. QED
      BY <3>2, <3>3
  <2>. QED
    BY <2>2, <2>3, <2>4 DEF TornInv, Keeps
<1>. QED
  BY <1>1, <1>2

LEMMA InitTorn == TornInit => TornInv
<1> SUFFICES ASSUME TornInit PROVE TornInv
  OBVIOUS
<1>1. TypeOK /\ \A r \in Replicas : clone[r] = FreshClone
  BY InitType DEF TornInit, Init
<1>2. remote.version \in Nat
  BY <1>1 DEF TypeOK
<1>. QED
  BY <1>1, <1>2 DEF TornInv, KnowsRemote, HoldsOnlyRequests, FreshClone

\* A push changes a file of the branch only to what some call asked for,
\* whatever fails and restarts and for any number of replicas, except from a
\* clone that a refused pull has torn.
THEOREM PushesWhatWasAskedFor == TornSpec => OnlyRequestedChangesArePushed
<1> DEFINE OnlyRequested ==
             \A c \in Calls, p \in Paths :
               (/\ call[c].pc = "push" /\ call'[c].pc # "push"
                /\ call[c].at \notin torn
                /\ remote'.files[p] # remote.files[p]) =>
                  Requested(p, remote'.files[p])
<1>1. TornInv /\ [Next /\ TornNext]_<<vars, torn>> => [OnlyRequested]_vars
  <2> SUFFICES ASSUME TornInv, Next, NEW c \in Calls, NEW p \in Paths,
                      call[c].pc = "push", call'[c].pc # "push",
                      call[c].at \notin torn,
                      remote'.files[p] # remote.files[p]
               PROVE  Requested(p, remote'.files[p])
    BY DEF vars
  <2>1. PICK x \in Calls : Push(x)
    BY DEF Next, Step, Invoke, Lock, Pull, Commit, Reset, Restart, Finished, vars
  <2>2. x = c
    <3>1. CASE x # c
      <4>1. PICK pc \in Steps \cup Results : Goto(x, pc)
        BY <2>1 DEF Push, Return, KeepLock, Steps, Results
      <4>2. TypeOK /\ c \in Calls \ {x}
        BY <3>1 DEF TornInv
      <4>3. call'[c] = call[c]
        BY <4>1, <4>2, GotoType
      <4>. QED
        BY <4>3
    <3>. QED
      BY <3>1
  <2>3. /\ CloneOf(c).base = remote.version /\ remote'.files = CloneOf(c).head
    BY <2>1, <2>2 DEF Push, Pushed
  <2>4. call[c].at \in Replicas \ torn
    BY CloneOfType DEF TornInv
  <2>. QED
    BY <2>3, <2>4 DEF TornInv, HoldsOnlyRequests, CloneOf
<1>. QED
  BY InitTorn, NextTorn, <1>1, PTL DEF TornSpec, OnlyRequestedChangesArePushed

=============================================================================
