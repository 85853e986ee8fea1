----------------------- MODULE MCSessionsAndObjects -----------------------
(***************************************************************************)
(* CliConfig, LdapLogin, OAuthLogin, ManagedObjects, CappUpdate,           *)
(* Benchmarks and Namespaces for TLC.  They share nothing, so it is enough *)
(* that one of them moves in a behaviour while the others rest; `part`     *)
(* says which one.                                                         *)
(* LdapLogin has two parts: one login while the directory changes, and two *)
(* logins while keys are rotated.                                          *)
(***************************************************************************)
EXTENDS CliConfig, LdapLogin, ManagedObjects, MCCappUpdate, MCBenchmarks,
        Namespaces, OAuthLogin

CONSTANTS
    MaxRunning,         \* commands at once
    MaxUserChanges      \* different things that happen to the entries of the
                        \* directory while a login runs

VARIABLE part   \* what moves

MCvars == <<part, cliVars, ldapVars, objectVars, cappVars, benchmarkVars,
            namespaceVars, oauthVars>>

\* Commands, logins and accesses are numbers, and come in their order.
ComeInOrder(f, g) ==
    \A n \in DOMAIN f :
        f[n].at = "idle" /\ g[n].at # "idle" =>
            \A m \in 1..(n - 1) : f[m].at # "idle"

MCInit ==
    /\ part \in {"file", "directory", "keys", "objects", "capp", "jobs", "namespace", "browser"}
    /\ CliConfigInit /\ cfgFile.current = 1
    /\ LdapLoginInit
    /\ directory[1] = [name |-> "alice", password |-> "right", groups |-> {}]
    /\ part # "directory" => directory[2] = NoUser
    /\ \A r \in Replicas : config[r].signs = "old"
    /\ \A l \in LdapLogins :
          /\ login[l].kid = "old" /\ login[l].dn = 1
          /\ login[l].name = "alice" /\ login[l].password = "right"
    /\ ManagedObjectsInit /\ \A a \in Accesses : access[a].body = "v1"
    /\ part # "objects" => object = NoObject
    /\ MCCappInit
    /\ part # "capp" => capp = NoCapp
    /\ BenchmarksInit
    /\ part # "jobs" => \A t \in Triggers : trigger[t].capp = capp1
    /\ NamespacesInit
    /\ OAuthLoginInit

\* A token ages while the file has it and a command is still to begin.
FileMoves ==
    /\ part = "file"
    /\ CliConfigNext
    /\ ComeInOrder(command, command')
    /\ Cardinality({p \in Commands : Running(p)'}) <= MaxRunning
    /\ aged' # aged =>
          /\ \E p \in Commands : command[p].at = "idle"
          /\ \E c \in Contexts : /\ cfgFile.contexts[c] # NoContext
                                 /\ cfgFile.contexts[c].token \in aged' \ aged
    /\ UNCHANGED <<part, ldapVars, objectVars, cappVars, benchmarkVars,
                   namespaceVars, oauthVars>>

DirectoryMoves ==
    /\ part = "directory"
    /\ LdapLoginNext
    /\ config' = config
    /\ \A l \in LdapLogins \ {1} : login'[l] = login[l]
    /\ directory' # directory =>
          /\ InLogin(1)
          /\ Cardinality(UNION {{d} \X was[1][d] : d \in DNs})
                < Cardinality(DNs) + MaxUserChanges
    /\ UNCHANGED <<part, cliVars, objectVars, cappVars, benchmarkVars,
                   namespaceVars, oauthVars>>

\* Every login succeeds.
KeysMove ==
    /\ part = "keys"
    /\ LdapLoginNext
    /\ directory' = directory
    /\ ComeInOrder(login, login')
    /\ \A l \in LdapLogins : /\ login'[l].name = "alice"
                             /\ login'[l].password = "right"
    /\ UNCHANGED <<part, cliVars, objectVars, cappVars, benchmarkVars,
                   namespaceVars, oauthVars>>

\* Others act while a request runs.
ObjectsMove ==
    /\ part = "objects"
    /\ ManagedObjectsNext
    /\ ComeInOrder(access, access')
    /\ access' = access => \E a \in Accesses : InProgress(a)
    /\ UNCHANGED <<part, cliVars, ldapVars, cappVars, benchmarkVars,
                   namespaceVars, oauthVars>>

CappMovesAlone ==
    /\ part = "capp"
    /\ CappMoves
    /\ UNCHANGED <<part, cliVars, ldapVars, objectVars, benchmarkVars,
                   namespaceVars, oauthVars>>

JobsMove ==
    /\ part = "jobs"
    /\ BenchmarksNext
    /\ UNCHANGED <<part, cliVars, ldapVars, objectVars, cappVars, namespaceVars,
                   oauthVars>>

\* Requests to a namespace come in their order.  The first one is a POST, as
\* long as there is no namespace the others change nothing; a later one names
\* a quota or users.
NamespaceMoves ==
    /\ part = "namespace"
    /\ NamespacesNext
    /\ \A n \in NamespaceRequests :
          At(n, "idle") /\ ~At(n, "idle")' =>
              /\ \A m \in 1..(n - 1) : ~At(m, "idle")
              /\ n = 1 => request'[n].kind = "post"
              /\ n # 1 => \/ request'[n].quota = NoQuota
                          \/ request'[n].users = NoBinding
    /\ UNCHANGED <<part, cliVars, ldapVars, objectVars, cappVars, benchmarkVars,
                   oauthVars>>

\* Logins come in their order.
BrowserMoves ==
    /\ part = "browser"
    /\ OAuthLoginNext
    /\ ComeInOrder(browserLogin, browserLogin')
    /\ UNCHANGED <<part, cliVars, ldapVars, objectVars, cappVars, benchmarkVars,
                   namespaceVars>>

\* Everything has been answered.
Finished ==
    /\ \/ part = "file" /\ \A p \in Commands : ~Running(p) /\ command[p].at # "idle"
       \/ part = "directory" /\ login[1].at # "idle" /\ ~InLogin(1)
       \/ part = "objects" /\ \A a \in Accesses : access[a].at # "idle" /\ ~InProgress(a)
       \/ part = "capp" /\ UpdatesAreAnswered
    /\ UNCHANGED MCvars

MCNext ==
    \/ FileMoves \/ DirectoryMoves \/ KeysMove \/ ObjectsMove \/ CappMovesAlone
    \/ JobsMove \/ NamespaceMoves \/ BrowserMoves \/ Finished

MCSpec == MCInit /\ [][MCNext]_MCvars

\* The users of RoleBindings and the replicas that serve a browser login are
\* only compared for equality.
Symmetry == Permutations(Users) \cup Permutations(OAuthReplicas)

\* The type invariants of the seven modules; the current context of every
\* version of the file is one of its contexts, whatever logs in or out.
SessionsAndObjectsTypeOK ==
    /\ CliConfigTypeOK /\ LdapLoginTypeOK /\ ManagedObjectsTypeOK
    /\ CappUpdateTypeOK /\ BenchmarksTypeOK /\ NamespacesTypeOK
    /\ OAuthLoginTypeOK

=============================================================================
