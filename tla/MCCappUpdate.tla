---------------------------- MODULE MCCappUpdate ----------------------------
(***************************************************************************)
(* CappUpdate for TLC: Capps that differ from a plain one in at most two   *)
(* fields, and requests and command lines that give one or two.            *)
(***************************************************************************)
EXTENDS CappUpdate

SizesByName ==
    [s \in CappSizes |-> CASE s = "small" -> [requests |-> 1, limits |-> 2]
                           [] s = "medium" -> [requests |-> 2, limits |-> 4]
                           [] s = "large" -> [requests |-> Malformed, limits |-> 8]]

\* The requests of two sizes with the limits of each, and with none, and the
\* limits of the size the configuration gets wrong.
SomeAmounts == [requests : {1, 2}, limits : {2, 4}] \cup
               {[requests |-> r, limits |-> 0] : r \in {0, 1}} \cup
               {[requests |-> 4, limits |-> 8]}

PlainCapp ==
    [plain |-> "v1", env |-> "value", extras |-> "proper", amounts |-> SizesByName["small"],
     mounts |-> [v \in Volumes |-> 0], volumes |-> NoVolumes,
     route |-> {}, log |-> {}, rest |-> Unset, sidecar |-> FALSE]

\* An NFS volume and one of each kind, mounted or not, or twice.
Mountings == {<<1, "none">>, <<1, "secret">>, <<0, "configMap">>, <<1, "other">>,
              <<2, "none">>}

Vary(c) ==
    {[c EXCEPT !.plain = "v2"], [c EXCEPT !.env = "field"],
     [c EXCEPT !.env = "key"], [c EXCEPT !.sidecar = TRUE],
     [c EXCEPT !.rest = "v1"], [c EXCEPT !.plain = Blank],
     [c EXCEPT !.extras = "improper"]}
    \cup {[c EXCEPT !.amounts = a] : a \in SomeAmounts}
    \cup {[c EXCEPT !.mounts = [v \in Volumes |-> m[1]],
                    !.volumes = [v \in Volumes |-> m[2]]] : m \in Mountings}
    \cup {[c EXCEPT !.route = r] : r \in {{"hostname", "tls"}, {"tls"}, {"timeout"}}}
    \cup {[c EXCEPT !.log = l] : l \in {LogFields, {"host"}}}

SomeCapps == UNION {Vary(c) : c \in Vary(PlainCapp)}

PlainBody == Seed(FromK8s(PlainCapp))

VaryBody(req) ==
    {[req EXCEPT !.plain = "v2"], [req EXCEPT !.env = "empty"],
     [req EXCEPT !.size = Unset], [req EXCEPT !.route = {"hostname"}],
     [req EXCEPT !.log = LogFields], [req EXCEPT !.log = {"host"}],
     [req EXCEPT !.plain = Blank], [req EXCEPT !.extras = "improper"],
     [req EXCEPT !.size = "large"], [req EXCEPT !.size = Malformed],
     [req EXCEPT !.custom = [requests |-> Malformed, limits |-> 3]]}
    \cup {[req EXCEPT !.custom = a] : a \in SomeAmounts}
    \cup {[req EXCEPT !.mounts = [v \in Volumes |-> m],
                      !.volumes = [v \in Volumes |-> k]] :
             m \in 0..1, k \in {"none", "secret"}}

\* Requests give a size, or custom resources, or both, or neither.
SomeBodies ==
    VaryBody(PlainBody) \cup VaryBody([PlainBody EXCEPT !.size = Unset])

NoFlags == [plain |-> Unset, env |-> Unset, size |-> Unset, custom |-> Unset,
            set |-> {}, clear |-> {}]

VaryFlags(f) ==
    {f, [f EXCEPT !.plain = "v2"], [f EXCEPT !.env = "value"],
     [f EXCEPT !.size = "medium"], [f EXCEPT !.custom = [requests |-> 0, limits |-> 3]],
     [f EXCEPT !.custom = [requests |-> 0, limits |-> 0]],
     [f EXCEPT !.custom = [requests |-> 1, limits |-> Malformed]],
     [f EXCEPT !.plain = Blank], [f EXCEPT !.env = Malformed],
     [f EXCEPT !.size = Blank], [f EXCEPT !.size = Malformed],
     [f EXCEPT !.set = {"tls"}], [f EXCEPT !.set = {"timeout"}],
     [f EXCEPT !.clear = {"tls"}]}

SomeFlags == VaryFlags(NoFlags) \cup VaryFlags([NoFlags EXCEPT !.size = "large"])

\* Clients of the API write the Capp before the command, and others once more
\* while it has its copy.
CappMoves ==
    \/ \E u \in Updates : UpdateStep(u)
    \/ /\ \A u \in Updates : update[u].at = "idle"
       /\ \E req \in Bodies : PostBody(req) \/ PutBody(req)
    \/ /\ \A u \in Updates : update[u].at = "put" /\ capp = update[u].current
       /\ OthersWrite
       /\ capp' \in {NoCapp, [capp EXCEPT !.env = "field"], [capp EXCEPT !.rest = "v1"]}

UpdatesAreAnswered == \A u \in Updates : update[u].at \notin {"idle", "fetch", "put"}

MCCappInit == CappUpdateInit /\ \A u \in Updates : update[u].flags = NoFlags

MCCappSpec ==
    /\ MCCappInit
    /\ [][CappMoves \/ (UpdatesAreAnswered /\ UNCHANGED cappVars)]_cappVars

=============================================================================
