--------------------------- MODULE ManagedObjects ---------------------------
(***************************************************************************)
(* The Secrets and ConfigMaps that belong to Capps                         *)
(* (internal/resources/namespaced/secrets and .../configmaps, which do the *)
(* same).  Users see and change only objects that carry the managed label; *)
(* other objects live beside them under the same names.  A change reads    *)
(* the object, looks at the label, and writes: two calls, between which    *)
(* others act.  One name is modelled, objects do not influence each other. *)
(***************************************************************************)
EXTENDS Naturals

CONSTANTS
    Accesses,       \* the requests
    Payloads,       \* what an object may hold
    NoObject,       \* there is no object with that name
    ObjectFaults    \* the kinds of fault the environment may inject:
                    \*   "api"  a call fails and has had no effect
                    \*   "lost" a call has had its effect, and fails

ASSUME ManagedObjectsAssumption ==
    NoObject \notin Payloads \cup [managed: BOOLEAN, data: Payloads]

VARIABLES
    object,         \* the object with the name
    current,        \* the requests whose copy of the object has its present
                    \* resourceVersion
    access          \* the requests

objectVars == <<object, current, access>>

Object == [managed: BOOLEAN, data: Payloads]
Kinds == {"create", "get", "update", "delete"}
Access == [kind: Kinds, at: {"idle", "call", "write", "ok", "not found",
                             "already exists", "conflict", "error"},
           body: Payloads, copy: Object \cup {NoObject}]

InProgress(a) == access[a].at \in {"call", "write"}
Managed(o) == o # NoObject /\ o.managed

ManagedObjectsInit ==
    /\ object \in Object \cup {NoObject}
    /\ current = {}
    /\ \E b \in Payloads :
          access = [a \in Accesses |-> [kind |-> "get", at |-> "idle",
                                        body |-> b, copy |-> NoObject]]

-----------------------------------------------------------------------------
\* The object becomes o.  A write that changes nothing leaves the version.
Becomes(o) ==
    /\ object' = o
    /\ current' = IF o = object THEN current ELSE {}

Stays == UNCHANGED <<object, current>>

IsAnswered(a, at) == access' = [access EXCEPT ![a].at = at]

\* A call takes effect, if it arrives, and is answered, if the answer arrives.
Attempt(a, o) ==
    \/ Becomes(o) /\ IsAnswered(a, "ok")
    \/ "lost" \in ObjectFaults /\ Becomes(o) /\ IsAnswered(a, "error")
    \/ "api" \in ObjectFaults /\ Stays /\ IsAnswered(a, "error")

BeginAccess(a, kind, b) ==
    /\ access[a].at = "idle"
    /\ access' = [access EXCEPT ![a] = [@ EXCEPT !.kind = kind, !.at = "call",
                                                 !.body = b]]
    /\ UNCHANGED <<object, current>>

\* create: one call, no look at what is there.
CreateObject(a) ==
    /\ access[a].kind = "create" /\ access[a].at = "call"
    /\ \/ object # NoObject /\ IsAnswered(a, "already exists") /\ Stays
       \/ /\ object = NoObject
          /\ Attempt(a, [managed |-> TRUE, data |-> access[a].body])

\* What get, update and delete look for: the label, with its value.
Shows(o) == Managed(o)

\* The Get call of get, update and delete.
FetchObject(a) ==
    /\ access[a].kind \in {"get", "update", "delete"} /\ access[a].at = "call"
    /\ \/ /\ ~Shows(object)
          /\ IsAnswered(a, "not found")
          /\ UNCHANGED current
       \/ /\ Shows(object)
          /\ access' = [access EXCEPT
                ![a].at = IF access[a].kind = "get" THEN "ok" ELSE "write",
                ![a].copy = object]
          /\ current' = IF access[a].kind = "get" THEN current
                        ELSE current \cup {a}
       \/ /\ "api" \in ObjectFaults
          /\ IsAnswered(a, "error")
          /\ UNCHANGED current
    /\ UNCHANGED object

\* The copy with the data of the request: labels are kept.
Updated(a) == [access[a].copy EXCEPT !.data = access[a].body]

\* Mutant of Matches: the resourceVersion is not passed on.
MatchesIfThere(a) == object # NoObject

\* The copy carries the resourceVersion it was read with.
Matches(a) == a \in current

UpdateObject(a) ==
    /\ access[a].kind = "update" /\ access[a].at = "write"
    /\ \/ object = NoObject /\ IsAnswered(a, "not found") /\ Stays
       \/ object # NoObject /\ ~Matches(a) /\ IsAnswered(a, "conflict") /\ Stays
       \/ object # NoObject /\ Matches(a) /\ Attempt(a, Updated(a))

\* The Delete call names the object and nothing else.
DeleteObject(a) ==
    /\ access[a].kind = "delete" /\ access[a].at = "write"
    /\ \/ object = NoObject /\ IsAnswered(a, "not found") /\ Stays
       \/ object # NoObject /\ Attempt(a, NoObject)

\* Someone creates, changes, labels or deletes the object with other means.
OthersChange(o) ==
    /\ o # object
    /\ Becomes(o)
    /\ UNCHANGED access

ManagedObjectsNext ==
    \/ \E a \in Accesses :
          \/ \E kind \in Kinds, b \in Payloads : BeginAccess(a, kind, b)
          \/ CreateObject(a) \/ FetchObject(a)
          \/ UpdateObject(a) \/ DeleteObject(a)
    \/ \E o \in Object \cup {NoObject} : OthersChange(o)

ManagedObjectsSpec == ManagedObjectsInit /\ [][ManagedObjectsNext]_objectVars

-----------------------------------------------------------------------------
\* What a request is about to write or delete was managed when it was read.
ManagedObjectsTypeOK ==
    /\ object \in Object \cup {NoObject}
    /\ current \subseteq Accesses
    /\ \A a \in Accesses : access[a].at = "write" => Managed(access[a].copy)
    /\ access \in [Accesses -> Access]

\* A request changes an object only if it is managed and has not changed since
\* the request has looked at it; and an object stays managed.  Except that a
\* delete may remove what has taken the place of the object it has looked at.
OnlyManagedObjectsChange ==
    [][\A a \in Accesses :
          (object' # object /\ access'[a] # access[a] /\ object # NoObject) =>
              \/ a \in current /\ Managed(object) /\ object' = NoObject
              \/ a \in current /\ Managed(object) /\ Managed(object')
              \/ access[a].kind = "delete" /\ a \notin current]_objectVars

=============================================================================
