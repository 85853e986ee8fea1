------------------------------ MODULE Startup ------------------------------
(***************************************************************************)
(* The life of a server process (cmd/server/main.go): it loads and         *)
(* validates its configuration, connects to the clusters one after the     *)
(* other, builds the authentication and the GitOps client, serves, and on  *)
(* a signal drains its requests for 30 s and ends.  An error on the way    *)
(* ends it; an operator repairs what the error names and starts it again.  *)
(*                                                                         *)
(* A setting stands for all the keys the code treats alike.  What matters  *)
(* of its value is whether it is there, is well-formed and is what the     *)
(* operator wants.  The health flags are ClusterHealth's.                  *)
(***************************************************************************)
EXTENDS Naturals

CONSTANTS
    Sites,          \* how many clusters are configured, in that order
    Calls,          \* the HTTP requests that may come
    MaxStarts,      \* how often the process is started
    HostFaults,     \* "pod": not in a cluster, "port": the port is taken
    NoCause         \* the process has not ended by an error of its own

ListedKeys == {"syntax", "keyIDs", "cluster", "connection", "gitOpsPath"}
DefaultedKeys == {"mode", "maxIPTracked", "directory", "ldap", "bindPassword",
                  "signingKeyID", "signingPrivateKey", "method", "timeout", "level"}
KeysReadByName == {"clusterToken", "vmURLs", "apiKey"}
PlainKeys == {"openshift", "clientSecret", "openshiftCA", "verificationKeys",
              "activeKey", "repoURL", "gitopsToken", "sshKey", "image"}

\* syntax: the file can be read and decoded.  cluster: name and credential of
\* each cluster.  clusterToken is absent from the file when the clusters have
\* no inline credential, and blank when they have one without a token.
\* connection: CA or "insecure", or a kubeconfig that loads.  openshift: API
\* server, client ID, redirect URI.  Of auth.ldap, directory is the URL and
\* the CA bundle, keyIDs are the IDs of the verification keys,
\* verificationKeys what they hold, activeKey the one that has the ID of the
\* signing key and is wrong when it is another key, and ldap is the rest.
Settings == ListedKeys \cup DefaultedKeys \cup KeysReadByName \cup PlainKeys

ASSUME StartupAssumption ==
    /\ Sites \in Nat \ {0}
    /\ MaxStarts \in Nat
    /\ HostFaults \subseteq {"pod", "port"}
    /\ NoCause \notin Settings \cup {"pod", "port", "repository", "report"}

VARIABLES
    want,       \* what the operator wants: the mode, GitOps and how it
                \* authenticates, benchmarks
    file,       \* the settings in the configuration file
    env,        \* the settings in the environment
    site,       \* what happens to a call to each cluster
    repository, \* and to a call to the Git repository
    process,    \* where the process is, which cluster is next, whether it
                \* listens, how it ended and why
    report,     \* what Load or Validate complains of
    call,       \* the HTTP requests to this process
    told,       \* history: what earlier reports have named
    starts      \* history: how often the process was started

startupVars == <<want, file, env, site, repository, process, report, call,
                 told, starts>>

\* "hangs": takes the connection and does not answer.  A connection that
\* cannot be set up is given up by the client library, and is "refuses".
Links == {"answers", "refuses", "hangs"}
BootSteps == {"load", "validate", "logger", "clusters", "platform", "auth",
              "gitops", "listen"}

Outside == <<want, file, env, site, repository, told, starts>>

-----------------------------------------------------------------------------
(* Load: a variable is only seen for a key Viper knows of, by its default  *)
(* or from the file, or that the code reads by name.                       *)

\* setDefaults.  The other defaults are empty strings, or there are none.
Default(s) ==
    IF s \in {"syntax", "keyIDs", "gitOpsPath", "mode", "maxIPTracked", "method",
              "timeout", "level"}
    THEN "default" ELSE "blank"

\* Is the variable of s seen?  Elements of lists have none, except the token
\* of a cluster whose inline credential is in the file.
EnvReaches(s) ==
    \/ s \in DefaultedKeys \cup (KeysReadByName \ {"clusterToken"})
    \/ s \in PlainKeys \cup {"clusterToken"} /\ file[s] # "absent"

Value(s) ==
    IF env[s] # "unset" /\ EnvReaches(s) THEN env[s]
    ELSE IF file[s] # "absent" THEN file[s] ELSE Default(s)

Blank(s) == Value(s) = "blank"
Wrong(s) == Value(s) = "wrong"
Bad(s) == Blank(s) \/ Wrong(s)

Mode == CASE Value("mode") = "right" -> want.mode
          [] Value("mode") = "default" -> "passthrough"
          [] OTHER -> "unknown"

Method == CASE Value("method") = "right" -> want.gitops
            [] Value("method") = "default" -> "token"
            [] OTHER -> "unknown"

GitOpsOn == want.gitops # "off"
Impersonates == Mode \in {"openshift", "ldap"}

\* readConfigFile: the IDs are read from the original bytes, before Viper
\* makes them lower case.
LoadErrors ==
    IF Wrong("syntax") THEN {"syntax"}
    ELSE IF Mode = "ldap" /\ Wrong("keyIDs") THEN {"keyIDs"} ELSE {}

-----------------------------------------------------------------------------
(* Validate. *)

ClusterErrors == {s \in {"cluster"} : Bad(s)}

\* A verification key with the ID of the signing key must be its public half:
\* not looked at without that ID and a private key that can be read.
KeyConflicts == {s \in {"activeKey"} : /\ Wrong(s)
                                      /\ ~Bad("signingKeyID")
                                      /\ ~Bad("signingPrivateKey")}

LDAPErrors ==
    {s \in {"directory", "ldap", "signingKeyID", "signingPrivateKey"} : Bad(s)}
    \cup {s \in {"bindPassword"} : Blank(s)}
    \cup {s \in {"keyIDs", "verificationKeys"} : Wrong(s)}
    \cup KeyConflicts

\* With an unknown mode nothing of a mode is looked at.
AuthErrors ==
    {s \in {"maxIPTracked"} : Bad(s)} \cup
    CASE Mode = "unknown" -> {"mode"}
      [] Mode = "openshift" -> {s \in {"openshift", "clientSecret"} : Blank(s)}
      [] Mode = "ldap" -> LDAPErrors
      [] OTHER -> {}

\* Mutant of MethodErrors: only the default method is looked at.
TokenErrors == {s \in {"gitopsToken"} : Method = "token" /\ Blank(s)}

MethodErrors ==
    CASE Method = "unknown" -> {"method"}
      [] Method = "token" -> {s \in {"gitopsToken"} : Blank(s)}
      [] OTHER -> {s \in {"sshKey"} : Blank(s)}

GitOpsErrors ==
    IF GitOpsOn
    THEN {s \in {"repoURL"} : Blank(s)} \cup {s \in {"timeout"} : Bad(s)}
         \cup MethodErrors
    ELSE {}

BenchmarkErrors ==
    {s \in {"image", "vmURLs", "apiKey"} : want.benchmarks /\ Blank(s)}

\* The clusters that are listed, if any.
PathErrors == {s \in {"gitOpsPath"} : GitOpsOn /\ Wrong(s) /\ file["cluster"] # "absent"}

ImpersonationErrors ==
    {s \in {"clusterToken"} : /\ Impersonates /\ Blank(s)
                              /\ file["cluster"] # "absent"}

\* Mutant of Errors: stops at the first section with an error.
ErrorsOfFirstSection ==
    IF ClusterErrors # {} THEN ClusterErrors
    ELSE IF AuthErrors # {} THEN AuthErrors
    ELSE GitOpsErrors \cup BenchmarkErrors \cup PathErrors \cup ImpersonationErrors

Errors == ClusterErrors \cup AuthErrors \cup GitOpsErrors \cup BenchmarkErrors
          \cup PathErrors \cup ImpersonationErrors

-----------------------------------------------------------------------------
StartupInit ==
    /\ want \in [mode: {"passthrough", "openshift", "ldap"},
                 gitops: {"off", "token", "ssh"}, benchmarks: BOOLEAN]
    /\ file \in [Settings -> {"absent", "blank", "wrong", "right"}]
    /\ env \in [Settings -> {"unset", "wrong", "right"}]
    /\ site \in [1..Sites -> Links] /\ repository \in Links
    /\ process = [step |-> "load", site |-> 1, listens |-> FALSE,
                  exit |-> "none", cause |-> NoCause]
    /\ report = {}
    /\ call = [c \in Calls |-> "none"]
    /\ told = {} /\ starts = 1

At(step) == process.step = step

Goto(step) ==
    /\ process' = [process EXCEPT !.step = step]
    /\ UNCHANGED <<report, call, Outside>>

\* The requests in progress when the process goes.
Open == {c \in Calls : call[c] = "open"}
CutOff == [c \in Calls |-> IF c \in Open THEN "cut" ELSE call[c]]

EndsWith(exit, cause) ==
    /\ process' = [process EXCEPT !.step = "ended", !.exit = exit, !.cause = cause]
    /\ call' = CutOff
    /\ UNCHANGED Outside

\* logger.Fatal
Fatal(cause) == EndsWith("error", cause) /\ UNCHANGED report

\* main: the errors are printed, all of them.
Complain(errors, next) ==
    \/ errors = {} /\ Goto(next)
    \/ errors # {} /\ EndsWith("error", "report") /\ report' = errors

LoadConfig == At("load") /\ Complain(LoadErrors, "validate")
ValidateConfig == At("validate") /\ Complain(Errors, "logger")

\* An empty level is "info".
BuildLogger ==
    /\ At("logger")
    /\ IF Wrong("level") THEN Fatal("level") ELSE Goto("clusters")

\* cluster.New for one cluster, up to the health check, which ends after 5 s.
ConnectCluster ==
    /\ At("clusters")
    /\ IF Bad("connection") THEN Fatal("connection") ELSE Goto("platform")

\* IsOpenShift for that cluster: no timeout.  Its errors are only logged.
DetectOpenShift ==
    /\ At("platform")
    /\ site[process.site] # "hangs"
    /\ process' = IF process.site < Sites
                  THEN [process EXCEPT !.step = "clusters", !.site = @ + 1]
                  ELSE [process EXCEPT !.step = "auth"]
    /\ UNCHANGED <<report, call, Outside>>

\* What the constructors of the auth managers refuse.
ManagerErrors ==
    CASE Mode = "unknown" -> {"mode"}
      [] Mode = "openshift" -> {s \in {"openshiftCA"} : Wrong(s)}
      [] Mode = "ldap" -> {s \in {"directory", "signingPrivateKey"} : Bad(s)}
                          \cup {s \in {"verificationKeys"} : Wrong(s)} \cup KeyConflicts
      [] OTHER -> {}

\* auth.New.  The discovery of the OAuth endpoints is given up after 10 s.
NewAuthManager ==
    /\ At("auth")
    /\ \/ \E s \in ManagerErrors : Fatal(s)
       \/ Mode = "openshift" /\ "pod" \in HostFaults /\ Fatal("pod")
       \/ ManagerErrors = {} /\ Goto("gitops")

\* What buildAuth and the clone find wrong.
CredentialErrors ==
    CASE Method = "unknown" -> {"method"}
      [] Method = "token" -> {s \in {"gitopsToken"} : Bad(s)}
      [] OTHER -> {s \in {"sshKey"} : Bad(s)}

\* gitops.NewClient: the clone has no timeout either.
NewGitOpsClient ==
    LET errors == CredentialErrors \cup {s \in {"repoURL"} : Bad(s)}
    IN  /\ At("gitops")
        /\ \/ ~GitOpsOn /\ Goto("listen")
           \/ GitOpsOn /\ \E s \in errors : Fatal(s)
           \/ GitOpsOn /\ errors = {} /\ repository = "refuses" /\ Fatal("repository")
           \/ GitOpsOn /\ errors = {} /\ repository = "answers" /\ Goto("listen")

\* srv.Start, in a goroutine of its own.
Listen ==
    /\ process.step \in {"listen", "serving"} /\ ~process.listens
    /\ process' = [process EXCEPT !.listens = TRUE]
    /\ UNCHANGED <<report, call, Outside>>

\* A listener that fails takes the way of a signal, with nothing to drain.
ListenFails ==
    /\ "port" \in HostFaults
    /\ At("serving") /\ ~process.listens
    /\ EndsWith("ok", "port")
    /\ UNCHANGED report

\* signal.Notify: from here on a signal does not kill the process.
Notify == At("listen") /\ Goto("serving")

Accept(c) ==
    /\ process.listens /\ process.step \in {"listen", "serving"}
    /\ call[c] = "none"
    /\ call' = [call EXCEPT ![c] = "open"]
    /\ UNCHANGED <<process, report, Outside>>

\* A handler returns; nothing says that it does.
Answer(c) ==
    /\ call[c] = "open"
    /\ call' = [call EXCEPT ![c] = "answered"]
    /\ UNCHANGED <<process, report, Outside>>

\* Mutant of Signal: the process ends at once.
SignalWithoutDrain ==
    /\ At("serving")
    /\ EndsWith("ok", NoCause)
    /\ UNCHANGED report

\* SIGTERM: the listener is closed, and the draining begins.
Signal == At("serving") /\ Goto("draining")

\* Before Notify a signal has its default effect.
SignalKills ==
    /\ process.step \in BootSteps
    /\ EndsWith("killed", NoCause)
    /\ UNCHANGED report

\* Shutdown returns.
Drained ==
    /\ At("draining") /\ Open = {}
    /\ EndsWith("ok", NoCause)
    /\ UNCHANGED report

\* Mutant of DrainTimeout: Shutdown with a context that does not end.
DrainWithoutTimeout == At("draining") /\ Open = {} /\ EndsWith("ok", NoCause)
                       /\ UNCHANGED report

\* The 30 s have passed: exit code 1.
DrainTimeout ==
    /\ At("draining") /\ Open # {}
    /\ EndsWith("error", NoCause)
    /\ UNCHANGED report

-----------------------------------------------------------------------------
(* The world. *)

SiteChanges(n) ==
    /\ site' \in [1..Sites -> Links]
    /\ \A m \in 1..Sites \ {n} : site'[m] = site[m]
    /\ UNCHANGED <<want, file, env, repository, process, report, call, told, starts>>

RepositoryChanges ==
    /\ repository' \in Links
    /\ UNCHANGED <<want, file, env, site, process, report, call, told, starts>>

\* The settings whose errors name a variable of the environment.
NamedByVariable == {"clientSecret", "bindPassword", "gitopsToken", "sshKey",
                    "vmURLs", "apiKey"}

\* Where the operator mends a setting: in the variable if the error says so or
\* if the variable is what is wrong, else in the file.
MendedInEnv(s) == \/ s \in report \cap NamedByVariable
                  \/ env[s] # "unset" /\ EnvReaches(s)

\* Everything the errors name is mended, and the process is started again.
Repair ==
    LET named == report \cup ({process.cause} \cap Settings)
    IN  /\ At("ended") /\ process.exit = "error"
        /\ starts < MaxStarts
        /\ env' = [s \in Settings |->
                     IF s \in named /\ MendedInEnv(s) THEN "right" ELSE env[s]]
        /\ file' = [s \in Settings |->
                     IF s \in named /\ ~MendedInEnv(s) THEN "right" ELSE file[s]]
        /\ process' = [step |-> "load", site |-> 1, listens |-> FALSE,
                       exit |-> "none", cause |-> NoCause]
        /\ told' = told \cup report
        /\ report' = {}
        /\ starts' = starts + 1
        /\ call' = [c \in Calls |-> "none"]
        /\ UNCHANGED <<want, site, repository>>

Boot == \/ LoadConfig \/ ValidateConfig \/ BuildLogger \/ ConnectCluster
        \/ DetectOpenShift
        \/ NewAuthManager \/ NewGitOpsClient \/ Notify

StartupNext ==
    \/ Boot \/ Listen \/ ListenFails
    \/ Signal \/ SignalKills \/ Drained \/ DrainTimeout
    \/ \E c \in Calls : Accept(c) \/ Answer(c)
    \/ \E n \in 1..Sites : SiteChanges(n)
    \/ RepositoryChanges \/ Repair

\* The process goes on while nothing holds it up, a cluster that comes back
\* answers the call that waits for it, and the 30 s pass.  Nothing is assumed
\* of handlers, clusters, the repository and the operator.
StartupFairness ==
    SF_startupVars(Boot) /\ WF_startupVars(Drained \/ DrainTimeout)

StartupSpec == StartupInit /\ [][StartupNext]_startupVars /\ StartupFairness

-----------------------------------------------------------------------------
(* Properties. *)

\* Nothing is open in a process that has ended, and only what has ended has
\* an exit code.
StartupTypeOK ==
    /\ want \in [mode: {"passthrough", "openshift", "ldap"},
                 gitops: {"off", "token", "ssh"}, benchmarks: BOOLEAN]
    /\ file \in [Settings -> {"absent", "blank", "wrong", "right"}]
    /\ env \in [Settings -> {"unset", "wrong", "right"}]
    /\ site \in [1..Sites -> Links] /\ repository \in Links
    /\ process \in [step: BootSteps \cup {"serving", "draining", "ended"},
                    site: 1..Sites, listens: BOOLEAN,
                    exit: {"none", "ok", "error", "killed"},
                    cause: Settings \cup {"report", "pod", "port", "repository",
                                          NoCause}]
    /\ process.exit # "none" <=> At("ended")
    /\ report \subseteq Settings /\ told \subseteq Settings
    /\ call \in [Calls -> {"none", "open", "answered", "cut"}]
    /\ At("ended") => Open = {}
    /\ starts \in Nat

\* Validate "checks the fully-loaded Config for semantic errors": what it has
\* accepted is only refused by the constructors for what it does not look at
\* (whether a connection's certificate is there, whether what is there works),
\* never for a setting it asks for.
AcceptedSettingsStart ==
    (At("ended") /\ process.cause \in Settings) =>
        \/ process.cause = "connection"
        \/ /\ Wrong(process.cause)
           /\ process.cause \in {"level", "openshiftCA", "sshKey", "gitopsToken",
                                 "repoURL"}

\* What an error of s keeps Load or Validate from looking at.
HiddenBy(s) ==
    CASE s \in {"syntax", "keyIDs"} -> Settings
      [] s = "mode" -> {"openshift", "clientSecret", "directory", "ldap",
                        "bindPassword", "keyIDs", "signingKeyID",
                        "signingPrivateKey", "verificationKeys", "activeKey",
                        "clusterToken"}
      [] s \in {"signingKeyID", "signingPrivateKey"} -> {"activeKey"}
      [] s = "method" -> {"gitopsToken", "sshKey"}
      [] s = "cluster" -> {"clusterToken", "gitOpsPath"}
      [] OTHER -> {}

\* Validate: "All validation errors are collected and returned together so the
\* operator can fix them all at once without repeated restarts."  An operator
\* who has fixed all that was named is only told more of what an unreadable
\* file, an unknown mode or method, an empty list of clusters or, of a key that
\* conflicts with it, an unusable signing key has hidden, or again of a
\* variable the configuration does not see.
NothingIsToldLate ==
    starts > 1 => \A s \in report :
        \/ \E t \in told : s \in HiddenBy(t)
        \/ s \in told /\ env[s] # "unset" /\ ~EnvReaches(s)

\* The same, as it is said, of an operator who sets what the errors name: no
\* error comes twice.
MendedAsToldIsAccepted == report \cap told = {}

\* A process that says all is well (exit code 0) has cut no request off.
CleanExitAnswersAll == process.exit = "ok" => \A c \in Calls : call[c] # "cut"

\* main: "graceful shutdown with a 30-second drain timeout": the process ends
\* whatever the handlers do.
StopEnds == At("draining") ~> At("ended")

\* cluster.New: "If a cluster is simply unreachable at startup, it is
\* registered as unhealthy [...] so that the server can still serve other
\* healthy clusters": start-up gets past the clusters.
UnreachableClustersAreSkipped == At("clusters") ~> At("auth") \/ At("ended")

=============================================================================
