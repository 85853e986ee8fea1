----------------------------- MODULE MCStartup -----------------------------
(***************************************************************************)
(* Startup for TLC, in two parts.  "settings": at most MaxOff settings are *)
(* not simply right in the file, the world is well and nobody calls.       *)
(* "life": the settings are right, and everything else happens.            *)
(***************************************************************************)
EXTENDS Startup, FiniteSetsExt

CONSTANT MaxOff

Wants == {[mode |-> "passthrough", gitops |-> "token", benchmarks |-> FALSE],
          [mode |-> "openshift", gitops |-> "ssh", benchmarks |-> FALSE],
          [mode |-> "ldap", gitops |-> "off", benchmarks |-> TRUE]}

\* The settings that matter for w.
Matters(w) ==
    {"syntax", "cluster", "connection", "mode", "maxIPTracked", "level"}
    \cup (CASE w.mode = "openshift" -> {"clusterToken", "openshift", "clientSecret",
                                        "openshiftCA"}
            [] w.mode = "ldap" -> {"clusterToken", "directory", "ldap", "bindPassword",
                                   "keyIDs", "signingKeyID", "signingPrivateKey",
                                   "verificationKeys", "activeKey"}
            [] OTHER -> {})
    \cup (CASE w.gitops = "token" -> {"method", "repoURL", "gitopsToken", "gitOpsPath"}
            [] w.gitops = "ssh" -> {"method", "repoURL", "sshKey", "timeout"}
            [] OTHER -> {})
    \cup (IF w.benchmarks THEN {"image", "vmURLs", "apiKey"} ELSE {})

\* A setting that is off, as <<in the file, in the environment>>.
Off == {<<"absent", "unset">>, <<"blank", "unset">>, <<"wrong", "unset">>,
        <<"absent", "right">>, <<"right", "wrong">>}

MCStartupInit(w, off, how) ==
    /\ want = w
    /\ file = [s \in Settings |-> IF s \in off THEN how[s][1] ELSE "right"]
    /\ env = [s \in Settings |-> IF s \in off THEN how[s][2] ELSE "unset"]
    /\ site = [n \in 1..Sites |-> "answers"] /\ repository = "answers"
    /\ process = [step |-> "load", site |-> 1, listens |-> FALSE,
                  exit |-> "none", cause |-> NoCause]
    /\ report = {} /\ told = {} /\ starts = 1
    /\ call = [c \in Calls |-> "none"]

SettingsInit ==
    \E w \in Wants : \E off \in UNION {kSubset(n, Matters(w)) : n \in 0..MaxOff} :
        \E how \in [off -> Off] : MCStartupInit(w, off, how)

LifeInit == \E w \in Wants : w.mode = "openshift" /\ MCStartupInit(w, {}, <<>>)

\* Nothing but the settings is in the way.
SettingsMove ==
    /\ StartupNext
    /\ site' = site /\ repository' = repository /\ call' = call
    /\ process'.step # "draining"
    /\ process'.exit # "killed" /\ process'.cause \notin {"pod", "port"}

\* One process.
LifeMoves == StartupNext /\ starts' = 1

SettingsSpec == SettingsInit /\ [][SettingsMove]_startupVars
LifeSpec == LifeInit /\ [][LifeMoves]_startupVars /\ StartupFairness

\* The process serves or has ended, and nobody does anything about it.
StartupRests == At("ended") \/ (At("serving") /\ process.listens)

=============================================================================
