---------------------------- MODULE GitOpsClient ----------------------------
(***************************************************************************)
(* internal/gitops: the client every replica of the backend has for the    *)
(* GitOps repository.  A replica keeps one clone of the branch; SyncValues *)
(* and DeleteValues hold the client's mutex from their first to their last *)
(* line and pull, change one file, commit and push.  The clones of several *)
(* replicas meet only in the remote branch.                                *)
(*                                                                         *)
(* A commit is represented by the files it holds and by where it stands:   *)
(* `base` is the remote version a clone's HEAD descends from and `local`   *)
(* the number of commits it has on top.  go-git is external: it is         *)
(* modelled from how client.go uses it and handles its errors.             *)
(***************************************************************************)
EXTENDS Naturals

CONSTANTS
    Replicas,   \* the processes of the backend, each with a clone
    Calls,      \* the calls of SyncValues and DeleteValues
    Paths,      \* the repository-relative paths of the values files
    Contents,   \* what a values file may hold
    NoFile,     \* the file does not exist
    NoCall,     \* nobody holds the mutex
    Faults      \* the kinds of fault the environment may inject:
                \*   "net"    a fetch or a push fails and has no effect
                \*   "lost"   a push is accepted, its reply is lost
                \*   "stage"  the local clone fails before the commit
                \*   "commit" the local clone fails to commit
                \*   "reset"  the local clone fails to reset
                \*   "crash"  a process dies and starts again

ASSUME ConstantsAssumption ==
    /\ NoFile \notin Contents
    /\ NoCall \notin Calls

VARIABLES
    remote,     \* the remote branch: its version and its files
    clone,      \* the local clone of each replica
    holder,     \* the call that holds the mutex of each replica
    call        \* the calls, each with its local state

vars == <<remote, clone, holder, call>>

Content == Contents \cup {NoFile}
FileMap == [Paths -> Content]

\* track, trackFiles: the remote-tracking reference, as of the last fetch
\* or push.  head, index, disk: the files of HEAD, the staging area, the
\* working tree.
Clone == [track: Nat, trackFiles: FileMap, base: Nat, local: Nat,
          head: FileMap, index: FileMap, disk: FileMap]

Steps == {"lock", "pull", "commit", "push", "reset"}

Call == [pc: Steps \cup {"idle", "ok", "failed"},
         at: Replicas, path: Paths, value: Content]

-----------------------------------------------------------------------------
(* Helpers. *)

CloneOf(c) == clone[call[c].at]
SetClone(c, new) == clone' = [clone EXCEPT ![call[c].at] = new]

Goto(c, pc) == call' = [call EXCEPT ![c].pc = pc]

\* A return of SyncValues or DeleteValues runs the deferred Unlock.
Return(c, result) ==
    /\ Goto(c, result)
    /\ holder' = [holder EXCEPT ![call[c].at] = NoCall]

KeepLock(c, pc) == Goto(c, pc) /\ UNCHANGED holder

\* Mutant of FreshClone: the tracking reference is one version behind.
CloneOneBehind ==
    [track |-> remote.version - 1, trackFiles |-> remote.files,
     base |-> remote.version, local |-> 0, head |-> remote.files,
     index |-> remote.files, disk |-> remote.files]

\* PlainClone: a clone of the remote as it is.
FreshClone ==
    [track |-> remote.version, trackFiles |-> remote.files,
     base |-> remote.version, local |-> 0, head |-> remote.files,
     index |-> remote.files, disk |-> remote.files]

\* A file differs on disk from what is staged.
Dirty(cl) == {p \in Paths : cl.disk[p] # cl.index[p]}

\* The working tree after a checkout of `files`: the dirty files that are
\* not tracked may stay.
Checkouts(cl, files) ==
    {[p \in Paths |-> IF p \in kept THEN cl.disk[p] ELSE files[p]] :
        kept \in SUBSET {p \in Dirty(cl) : cl.index[p] = NoFile
                                           /\ files[p] = NoFile}}

-----------------------------------------------------------------------------
Init ==
    /\ \E f \in FileMap : remote = [version |-> 0, files |-> f]
    /\ clone = [r \in Replicas |-> FreshClone]
    /\ holder = [r \in Replicas |-> NoCall]
    /\ call \in [Calls -> {[pc |-> "idle", at |-> r, path |-> p, value |-> v] :
                             r \in Replicas, p \in Paths, v \in Content}]

\* A handler of the replica call[c].at calls SyncValues, or DeleteValues
\* when the value is NoFile.
Invoke(c) ==
    /\ call[c].pc = "idle"
    /\ Goto(c, "lock")
    /\ UNCHANGED <<remote, clone, holder>>

\* c.mu.Lock(): not bounded by the context of the request.
Lock(c) ==
    /\ call[c].pc = "lock"
    /\ holder[call[c].at] = NoCall
    /\ holder' = [holder EXCEPT ![call[c].at] = c]
    /\ Goto(c, "pull")
    /\ UNCHANGED <<remote, clone>>

\* Mutant of Pulled: the pull moves HEAD but not the index and the files.
PulledWithoutCheckout(cl) ==
    {[FreshClone EXCEPT !.index = cl.index, !.disk = cl.disk]}

\* The clones a pull that succeeds may leave.  HEAD has commits of its own
\* and the remote none that HEAD lacks: nothing changes.  HEAD is an
\* ancestor of the remote: it is fast-forwarded, unless it is there already.
Pulled(cl) ==
    IF cl.local > 0 \/ cl.base = remote.version
    THEN {[cl EXCEPT !.track = remote.version, !.trackFiles = remote.files]}
    ELSE {[FreshClone EXCEPT !.disk = d] : d \in Checkouts(cl, remote.files)}

\* HEAD and the remote have both moved on: no fast-forward.
Diverged(cl) == cl.local > 0 /\ cl.base # remote.version

\* A tracked file was changed on disk: the fast-forward refuses.
Blocked(cl) ==
    cl.base # remote.version /\ \E p \in Dirty(cl) : cl.index[p] # NoFile

\* The clones a pull that is refused may leave: the fetch is done, and of a
\* blocked fast-forward the library may have moved HEAD before it found that
\* it cannot check the files out.
Refused(cl) ==
    LET fetched == [cl EXCEPT !.track = remote.version,
                              !.trackFiles = remote.files]
    IN  {fetched} \cup
        IF Diverged(cl) THEN {}
        ELSE {[fetched EXCEPT !.base = remote.version, !.head = remote.files]}

\* pullCtx, and the comparison of the file with the values that follows it:
\* a file that is as it should be is not committed again.
Pull(c) ==
    LET cl == CloneOf(c)
    IN  /\ call[c].pc = "pull"
        /\ \/ /\ ~Diverged(cl)
              /\ ~Blocked(cl)
              /\ \E new \in Pulled(cl) :
                    /\ SetClone(c, new)
                    /\ IF new.disk[call[c].path] = call[c].value
                       THEN Return(c, "ok")
                       ELSE KeepLock(c, "commit")
           \/ /\ Diverged(cl) \/ Blocked(cl)
              /\ \E new \in Refused(cl) : SetClone(c, new)
              /\ Return(c, "failed")
           \/ /\ "net" \in Faults
              /\ Return(c, "failed")
              /\ UNCHANGED clone
        /\ UNCHANGED remote

\* The clone with the call's file written to disk, or removed from it.
Written(c) == [CloneOf(c) EXCEPT !.disk[call[c].path] = call[c].value]

\* ... and staged.
Staged(c) == [Written(c) EXCEPT !.index[call[c].path] = call[c].value]

\* ... and committed: the commit holds all that is staged.
Committed(c) == [Staged(c) EXCEPT !.head = Staged(c).index, !.local = @ + 1]

\* wt.Remove refuses a file that is not tracked.
CanStage(c) ==
    call[c].value = NoFile => CloneOf(c).index[call[c].path] # NoFile

\* wt.Commit refuses to commit nothing.
CanCommit(c) == Staged(c).index # CloneOf(c).head

\* os.WriteFile and wt.Add, or os.Remove and wt.Remove; then wt.Commit.  A
\* failure of any of them returns at once and leaves the clone as it is.
Commit(c) ==
    /\ call[c].pc = "commit"
    /\ \/ /\ CanStage(c) /\ CanCommit(c)
          /\ SetClone(c, Committed(c))
          /\ KeepLock(c, "push")
       \/ /\ CanStage(c) /\ (~CanCommit(c) \/ "commit" \in Faults)
          /\ SetClone(c, Staged(c))
          /\ Return(c, "failed")
       \/ /\ ~CanStage(c) \/ "stage" \in Faults
          /\ SetClone(c, Written(c))
          /\ Return(c, "failed")
    /\ UNCHANGED remote

\* The remote accepts a push of commits that descend from its own.
Pushed(c) == [version |-> remote.version + 1, files |-> CloneOf(c).head]

\* The clone after the push: its HEAD is the remote's.
AfterPush(c) ==
    [CloneOf(c) EXCEPT !.base = remote.version + 1, !.local = 0,
                       !.track = remote.version + 1,
                       !.trackFiles = CloneOf(c).head]

\* Mutant of Push: the refspec forces the push.
ForcePush(c) ==
    /\ call[c].pc = "push"
    /\ \/ /\ remote' = Pushed(c)
          /\ SetClone(c, AfterPush(c))
          /\ Return(c, "ok")
       \/ /\ "net" \in Faults
          /\ KeepLock(c, "reset")
          /\ UNCHANGED <<remote, clone>>

\* pushCtx.
Push(c) ==
    LET cl == CloneOf(c)
    IN  /\ call[c].pc = "push"
        /\ \/ /\ cl.base = remote.version
              /\ remote' = Pushed(c)
              /\ SetClone(c, AfterPush(c))
              /\ Return(c, "ok")
           \/ /\ cl.base = remote.version /\ "lost" \in Faults
              /\ remote' = Pushed(c)
              /\ SetClone(c, [AfterPush(c) EXCEPT !.track = cl.track,
                                         !.trackFiles = cl.trackFiles])
              /\ KeepLock(c, "reset")
           \/ /\ cl.base # remote.version \/ "net" \in Faults
              /\ KeepLock(c, "reset")
              /\ UNCHANGED <<remote, clone>>

\* Mutant of ResetTo: a soft reset moves HEAD only.
SoftReset(cl, d) ==
    [cl EXCEPT !.base = cl.track, !.local = 0, !.head = cl.trackFiles]

\* The clone after wt.Reset to the remote-tracking reference.
ResetTo(cl, d) ==
    [cl EXCEPT !.base = cl.track, !.local = 0, !.head = cl.trackFiles,
               !.index = cl.trackFiles, !.disk = d]

\* Mutant of Reset: a failed push is tried again from the start.
ResetAndRetry(c) ==
    /\ call[c].pc = "reset"
    /\ \E d \in Checkouts(CloneOf(c), CloneOf(c).trackFiles) :
          SetClone(c, ResetTo(CloneOf(c), d))
    /\ KeepLock(c, "pull")
    /\ UNCHANGED remote

\* resetToRemote: its own failures are only logged.
Reset(c) ==
    LET cl == CloneOf(c)
    IN  /\ call[c].pc = "reset"
        /\ \/ \E d \in Checkouts(cl, cl.trackFiles) :
                 SetClone(c, ResetTo(cl, d))
           \/ "reset" \in Faults /\ UNCHANGED clone
        /\ Return(c, "failed")
        /\ UNCHANGED remote

\* A replica dies with all its calls and comes back with a new clone.
Restart(r) ==
    /\ "crash" \in Faults
    /\ \E c \in Calls : call[c].at = r /\ call[c].pc \in Steps
    /\ clone' = [clone EXCEPT ![r] = FreshClone]
    /\ holder' = [holder EXCEPT ![r] = NoCall]
    /\ call' = [c \in Calls |->
                  IF call[c].at = r /\ call[c].pc \in Steps
                  THEN [call[c] EXCEPT !.pc = "failed"] ELSE call[c]]
    /\ UNCHANGED remote

\* Every call has returned: nothing more happens.
Finished ==
    /\ \A c \in Calls : call[c].pc \in {"ok", "failed"}
    /\ UNCHANGED vars

Step(c) == Lock(c) \/ Pull(c) \/ Commit(c) \/ Push(c) \/ Reset(c)

Next ==
    \/ \E c \in Calls : Invoke(c) \/ Step(c)
    \/ \E r \in Replicas : Restart(r)
    \/ Finished

Spec == Init /\ [][Next]_vars

\* The library calls return (they have a deadline or are local), and a Go
\* mutex that is released time and again is not withheld from one waiter.
Fairness ==
    \A c \in Calls : /\ WF_vars(Pull(c) \/ Commit(c) \/ Push(c) \/ Reset(c))
                     /\ SF_vars(Lock(c))

FairSpec == Spec /\ Fairness

-----------------------------------------------------------------------------
(* Properties. *)

\* The type invariant of the module.
TypeOK ==
    /\ remote \in [version: Nat, files: FileMap]
    /\ clone \in [Replicas -> Clone]
    /\ holder \in [Replicas -> Calls \cup {NoCall}]
    /\ call \in [Calls -> Call]

\* The clone is what it was when it was last in step with the remote.
Clean(cl) ==
    /\ cl.local = 0
    /\ cl.index = cl.head
    /\ cl.disk = cl.head

\* Between two calls the clone of a replica holds no change of its own,
\* neither committed nor staged nor on disk: whatever failed on the network,
\* resetToRemote has discarded it.  Without this a later call would take the
\* file for unchanged, push what had been reported as failed, or find that
\* the branch cannot be fast-forwarded any more.
UnlockedCloneIsClean ==
    \A r \in Replicas : holder[r] = NoCall => Clean(clone[r])

\* A call has taken effect although it has not returned.
AppliedNotReturned(c) == call[c].pc = "reset" /\ CloneOf(c).local = 0

\* The state of a call as GitStore sees it.
StoreStatus ==
    [c \in Calls |->
        IF AppliedNotReturned(c) THEN "applied"
        ELSE IF call[c].pc \in Steps THEN "pending"
        ELSE call[c].pc]

Store == INSTANCE GitStore WITH
    files  <- remote.files,
    status <- StoreStatus,
    target <- [c \in Calls |-> [path |-> call[c].path,
                                value |-> call[c].value]]

\* The client implements its abstract specification: a call of SyncValues or
\* DeleteValues changes its own file only, in one step, and has done so when
\* it returns without an error, however the replicas race for the branch.
ImplementsGitStore == Store!Spec

\* client.go: "SyncValues writes a per-capp values file to the GitOps
\* repository."  A call that returns without an error leaves its file in the
\* remote branch as it was asked to.  (With one replica nobody else writes
\* the branch between the pull and the return.)
AcknowledgedIsPushed ==
    [][\A c \in Calls :
         (call[c].pc # "ok" /\ call'[c].pc = "ok") =>
            remote'.files[call[c].path] = call[c].value]_vars

\* A call that has been made returns: no handler waits for the mutex for
\* ever, although Lock has no deadline.
EveryCallReturns ==
    \A c \in Calls : (call[c].pc = "lock") ~> (call[c].pc \in {"ok", "failed"})

=============================================================================
