--------------------------- MODULE StartupProofs ---------------------------
(***************************************************************************)
(* What TLAPS proves of Startup: its types, that the constructors refuse   *)
(* no setting that Validate asks for, that a clean exit has answered every *)
(* request, and that no error is told late.  The first two invariants      *)
(* below are inductive: past Validate there is nothing to complain of,     *)
(* because the settings are only changed while no process runs; and no     *)
(* request is cut off before the process ends, or open before it listens.  *)
(***************************************************************************)
EXTENDS Startup, TLAPS

\* The settings a process runs with have passed Load and Validate.
PastChecksNothingIsWrong ==
    /\ process.step \notin {"load", "ended"} => LoadErrors = {}
    /\ process.step \notin {"load", "validate", "ended"} => Errors = {}

\* Requests come after the process listens, and are cut off when it ends.
RequestsFitProcess ==
    /\ ~process.listens => Open = {}
    /\ ~At("ended") => \A c \in Calls : call[c] # "cut"

StartupInv ==
    /\ StartupTypeOK
    /\ PastChecksNothingIsWrong
    /\ RequestsFitProcess
    /\ AcceptedSettingsStart
    /\ CleanExitAnswersAll

-----------------------------------------------------------------------------
(* The settings *)

\* What is wrong with the settings depends on what is wanted, the file and the
\* environment alone.
LEMMA SettingsStay ==
    ASSUME UNCHANGED <<want, file, env>>
    PROVE  /\ \A s \in Settings : Wrong(s)' = Wrong(s)
           /\ LoadErrors' = LoadErrors
           /\ Errors' = Errors
<1> USE DEF Wrong, Blank, Bad, Value, EnvReaches, Mode, Method, GitOpsOn, Impersonates
<1>1. \A s \in Settings : Wrong(s)' = Wrong(s)
    OBVIOUS
<1>2. LoadErrors' = LoadErrors
    BY DEF LoadErrors
<1>3. Errors' = Errors
    BY DEF Errors, ClusterErrors, AuthErrors, LDAPErrors,
           KeyConflicts, GitOpsErrors, MethodErrors, BenchmarkErrors,
           PathErrors, ImpersonationErrors
<1>4. QED
    BY <1>1, <1>2, <1>3

LEMMA ReportsNameSettings == LoadErrors \subseteq Settings /\ Errors \subseteq Settings
BY DEF LoadErrors, Errors, ClusterErrors, AuthErrors, LDAPErrors,
       KeyConflicts, GitOpsErrors, MethodErrors, BenchmarkErrors,
       PathErrors, ImpersonationErrors, Settings,
       ListedKeys, DefaultedKeys, KeysReadByName, PlainKeys

\* The settings the constructors may refuse though Validate has accepted them.
RefusedLate(s) == s \in {"level", "openshiftCA", "sshKey", "gitopsToken", "repoURL"}

LEMMA RefusedLateAreSettings == \A s : RefusedLate(s) => s \in Settings
BY DEF RefusedLate, Settings, DefaultedKeys, PlainKeys

\* A manager that is built from accepted settings only refuses the CA bundle.
LEMMA ManagerRefusesTheBundle ==
    ASSUME Errors = {}, NEW s \in ManagerErrors
    PROVE  RefusedLate(s) /\ Wrong(s)
<1>1. AuthErrors = {}
    BY DEF Errors
<1>2. Mode # "unknown"
    BY <1>1 DEF AuthErrors
<1>3. Mode = "ldap" => LDAPErrors = {}
    BY <1>1 DEF AuthErrors
<1>4. Mode # "ldap"
  <2>1. ASSUME Mode = "ldap"
        PROVE  /\ KeyConflicts = {}
               /\ ~Bad("directory") /\ ~Bad("signingPrivateKey")
               /\ ~Wrong("verificationKeys")
    BY <1>3, <2>1 DEF LDAPErrors
  <2>. QED
    BY <2>1 DEF ManagerErrors
<1>5. QED
    BY <1>2, <1>4 DEF ManagerErrors, RefusedLate

\* A client that is built from accepted settings refuses what is there and
\* does not work.
LEMMA ClientRefusesWhatDoesNotWork ==
    ASSUME Errors = {}, GitOpsOn,
           NEW s \in CredentialErrors \cup {t \in {"repoURL"} : Bad(t)}
    PROVE  RefusedLate(s) /\ Wrong(s)
<1>1. GitOpsErrors = {}
    BY DEF Errors
<1>2. MethodErrors = {} /\ ~Blank("repoURL")
    BY <1>1 DEF GitOpsErrors
<1>3. Method # "unknown"
    BY <1>2 DEF MethodErrors
<1>4. CASE s = "repoURL"
    BY <1>2, <1>4 DEF Bad, RefusedLate, CredentialErrors
<1>5. CASE s # "repoURL"
    BY <1>2, <1>3, <1>5 DEF Bad, RefusedLate, CredentialErrors, MethodErrors
<1>6. QED
    BY <1>4, <1>5

-----------------------------------------------------------------------------
(* Steps *)

LEMMA InitKeeps ==
    ASSUME StartupAssumption, StartupInit
    PROVE  StartupInv
<1>1. NoCause \notin Settings
    BY DEF StartupAssumption
<1>2. StartupTypeOK
    BY DEF StartupAssumption, StartupInit, StartupTypeOK, At, BootSteps, Open
<1>3. QED
    BY <1>1, <1>2 DEF StartupInv, StartupInit, PastChecksNothingIsWrong,
       RequestsFitProcess, AcceptedSettingsStart, CleanExitAnswersAll, Open, At

\* What a step of the process that leaves the settings alone has to show.
LEMMA ProcessStepKeeps ==
    ASSUME StartupInv, UNCHANGED <<want, file, env>>, StartupTypeOK',
           RequestsFitProcess', CleanExitAnswersAll',
           process'.step \notin {"load", "ended"} => LoadErrors = {},
           process'.step \notin {"load", "validate", "ended"} => Errors = {},
           (process'.step = "ended" /\ process'.cause \in Settings) =>
               \/ process'.cause = "connection"
               \/ RefusedLate(process'.cause) /\ Wrong(process'.cause)
    PROVE  StartupInv'
<1>1. PastChecksNothingIsWrong'
    BY SettingsStay DEF PastChecksNothingIsWrong
<1>2. AcceptedSettingsStart'
  <2> SUFFICES ASSUME process'.step = "ended", process'.cause \in Settings,
                      process'.cause # "connection"
               PROVE  Wrong(process.cause)' /\ RefusedLate(process'.cause)
    BY DEF AcceptedSettingsStart, At, RefusedLate
  <2>1. QED
    BY DEF Wrong, Value, EnvReaches
<1>3. QED
    BY <1>1, <1>2 DEF StartupInv

\* Going on while nothing is wrong.
LEMMA GotoKeeps ==
    ASSUME StartupInv, NEW step, Goto(step), ~At("ended"),
           step \in BootSteps \cup {"serving", "draining"},
           step # "load" => LoadErrors = {},
           step \notin {"load", "validate"} => Errors = {}
    PROVE  StartupInv'
<1> USE DEF StartupInv
<1>1. /\ process' = [process EXCEPT !.step = step]
      /\ UNCHANGED <<report, call, want, file, env, site, repository, told, starts>>
    BY DEF Goto, Outside
<1>2. step # "ended"
    BY DEF BootSteps
<1>3. /\ process'.step = step /\ process'.site = process.site
      /\ process'.listens = process.listens /\ process'.exit = process.exit
      /\ process'.cause = process.cause
    BY <1>1 DEF StartupTypeOK
<1>4. StartupTypeOK'
    BY <1>1, <1>2, <1>3 DEF StartupTypeOK, At
<1>5. RequestsFitProcess' /\ CleanExitAnswersAll'
    BY <1>1, <1>2, <1>3 DEF RequestsFitProcess, CleanExitAnswersAll, Open, At, StartupTypeOK
<1>6. QED
    BY <1>1, <1>2, <1>3, <1>4, <1>5, ProcessStepKeeps

\* Ending: with exit code 0 there is nothing left to cut off.
LEMMA EndKeeps ==
    ASSUME StartupInv, NEW exit \in {"ok", "error", "killed"}, NEW cause,
           EndsWith(exit, cause), ~At("ended"), report' \subseteq Settings,
           cause \in Settings \cup {"report", "pod", "port", "repository", NoCause},
           exit = "ok" => Open = {},
           cause \in Settings => \/ cause = "connection"
                                 \/ RefusedLate(cause) /\ Wrong(cause)
    PROVE  StartupInv'
<1> USE DEF StartupInv
<1>1. /\ process' = [process EXCEPT !.step = "ended", !.exit = exit, !.cause = cause]
      /\ call' = CutOff
      /\ UNCHANGED <<want, file, env, site, repository, told, starts>>
    BY DEF EndsWith, Outside
<1>2. /\ process'.step = "ended" /\ process'.site = process.site
      /\ process'.listens = process.listens /\ process'.exit = exit
      /\ process'.cause = cause
    BY <1>1 DEF StartupTypeOK
<1>3. call' \in [Calls -> {"none", "answered", "cut"}]
    BY <1>1 DEF CutOff, Open, StartupTypeOK
<1>4. Open' = {}
    BY <1>3 DEF Open
<1>5. StartupTypeOK'
  <2>1. process' \in [step: BootSteps \cup {"serving", "draining", "ended"},
                     site: 1..Sites, listens: BOOLEAN,
                     exit: {"none", "ok", "error", "killed"},
                     cause: Settings \cup {"report", "pod", "port", "repository",
                                           NoCause}]
    BY <1>1 DEF StartupTypeOK
  <2>2. call' \in [Calls -> {"none", "open", "answered", "cut"}]
    BY <1>3
  <2>3. QED
    BY <1>1, <1>2, <1>4, <2>1, <2>2 DEF StartupTypeOK, At
<1>6. RequestsFitProcess'
    BY <1>2, <1>4 DEF RequestsFitProcess, At
<1>7. CleanExitAnswersAll'
  <2> SUFFICES ASSUME exit = "ok" PROVE \A c \in Calls : call'[c] # "cut"
    BY <1>2 DEF CleanExitAnswersAll
  <2>1. call' = [c \in Calls |-> call[c]]
    BY <1>1 DEF CutOff
  <2>2. QED
    BY <2>1 DEF RequestsFitProcess
<1>8. QED
    BY <1>1, <1>2, <1>5, <1>6, <1>7, ProcessStepKeeps

\* An error the code calls fatal.
LEMMA FatalKeeps ==
    ASSUME StartupInv, NEW cause, Fatal(cause), ~At("ended"),
           \/ cause \in {"pod", "port", "repository"} \ Settings
           \/ cause = "connection"
           \/ RefusedLate(cause) /\ Wrong(cause)
    PROVE  StartupInv'
<1>1. EndsWith("error", cause) /\ report' \subseteq Settings
    BY DEF Fatal, StartupInv, StartupTypeOK
<1>2. cause \in Settings \cup {"report", "pod", "port", "repository", NoCause}
    BY RefusedLateAreSettings DEF Settings, ListedKeys
<1>3. QED
    BY <1>1, <1>2, EndKeeps

\* Causes that are no settings.
LEMMA OtherCauses ==
    {"report", "pod", "port", "repository"} \cap Settings = {}
BY DEF Settings, ListedKeys, DefaultedKeys, KeysReadByName, PlainKeys

LEMMA LoadKeeps ==
    ASSUME StartupInv, LoadConfig \/ ValidateConfig
    PROVE  StartupInv'
<1>1. ASSUME NEW errors \in SUBSET Settings, errors # {}, ~At("ended"),
             EndsWith("error", "report"), report' = errors
      PROVE  StartupInv'
    BY <1>1, EndKeeps, OtherCauses
<1>2. CASE LoadConfig
  <2>1. CASE LoadErrors = {} /\ Goto("validate")
    BY <1>2, <2>1, GotoKeeps DEF LoadConfig, At, BootSteps
  <2>2. QED
    BY <1>1, <1>2, <2>1, ReportsNameSettings DEF LoadConfig, Complain, At
<1>3. CASE ValidateConfig
  <2>1. CASE Errors = {} /\ Goto("logger")
    BY <1>3, <2>1, GotoKeeps
       DEF ValidateConfig, At, BootSteps, StartupInv, PastChecksNothingIsWrong
  <2>2. QED
    BY <1>1, <1>3, <2>1, ReportsNameSettings DEF ValidateConfig, Complain, At
<1>4. QED
    BY <1>2, <1>3

\* A step after Validate: nothing is wrong with the settings.
PastValidate == ~At("ended") /\ LoadErrors = {} /\ Errors = {}

LEMMA BuiltFromAcceptedSettings ==
    ASSUME StartupInv,
           process.step \in {"logger", "clusters", "platform", "auth", "gitops",
                             "listen", "serving", "draining"}
    PROVE  PastValidate
BY DEF StartupInv, PastChecksNothingIsWrong, PastValidate, At

LEMMA GoOn ==
    ASSUME StartupInv, PastValidate, NEW step, Goto(step),
           step \in BootSteps \cup {"serving", "draining"}
    PROVE  StartupInv'
BY GotoKeeps DEF PastValidate

LEMMA BootKeeps ==
    ASSUME StartupInv, Boot
    PROVE  StartupInv'
<1>1. CASE BuildLogger
    BY <1>1, BuiltFromAcceptedSettings, GoOn, FatalKeeps
       DEF BuildLogger, PastValidate, BootSteps, At, RefusedLate
<1>2. CASE ConnectCluster
    BY <1>2, BuiltFromAcceptedSettings, GoOn, FatalKeeps
       DEF ConnectCluster, PastValidate, BootSteps, At
<1>3. CASE DetectOpenShift
  <2> USE DEF StartupInv
  <2>1. /\ UNCHANGED <<report, call, want, file, env, site, repository, told, starts>>
        /\ process' = IF process.site < Sites
                      THEN [process EXCEPT !.step = "clusters", !.site = @ + 1]
                      ELSE [process EXCEPT !.step = "auth"]
    BY <1>3 DEF DetectOpenShift, Outside
  <2>2. At("platform") /\ PastValidate
    BY <1>3, BuiltFromAcceptedSettings DEF DetectOpenShift, At
  <2>3. Sites \in Nat
    BY StartupAssumption DEF StartupAssumption
  <2>4. /\ process' \in [step: BootSteps \cup {"serving", "draining", "ended"},
                         site: 1..Sites, listens: BOOLEAN,
                         exit: {"none", "ok", "error", "killed"},
                         cause: Settings \cup {"report", "pod", "port", "repository",
                                               NoCause}]
        /\ process'.step \in {"clusters", "auth"}
        /\ process'.listens = process.listens /\ process'.exit = process.exit
    <3>1. {"clusters", "auth"} \subseteq BootSteps
        BY DEF BootSteps
    <3>2. CASE process.site < Sites
      <4>1. process.site + 1 \in 1..Sites
        BY <2>3, <3>2 DEF StartupTypeOK
      <4>2. process' = [process EXCEPT !.step = "clusters", !.site = process.site + 1]
        BY <2>1, <3>2
      <4>3. QED
        BY <3>1, <4>1, <4>2 DEF StartupTypeOK
    <3>3. CASE ~(process.site < Sites)
        BY <2>1, <3>1, <3>3 DEF StartupTypeOK
    <3>4. QED
        BY <3>2, <3>3
  <2>5. StartupTypeOK'
    BY <2>1, <2>2, <2>4 DEF StartupTypeOK, At
  <2>6. RequestsFitProcess' /\ CleanExitAnswersAll'
    BY <2>1, <2>2, <2>4 DEF RequestsFitProcess, CleanExitAnswersAll, Open, At
  <2>7. QED
    BY <2>1, <2>2, <2>4, <2>5, <2>6, ProcessStepKeeps DEF PastValidate
<1>4. CASE NewAuthManager
  <2>1. At("auth") /\ PastValidate
    BY <1>4, BuiltFromAcceptedSettings DEF NewAuthManager, At
  <2>2. ASSUME NEW s \in ManagerErrors, Fatal(s) PROVE StartupInv'
    BY <2>1, <2>2, ManagerRefusesTheBundle, FatalKeeps DEF PastValidate
  <2>3. CASE Fatal("pod")
    BY <2>1, <2>3, OtherCauses, FatalKeeps DEF PastValidate
  <2>4. CASE Goto("gitops")
    BY <2>1, <2>4, GoOn DEF BootSteps
  <2>5. QED
    BY <1>4, <2>2, <2>3, <2>4 DEF NewAuthManager
<1>5. CASE NewGitOpsClient
  <2>1. At("gitops") /\ PastValidate
    BY <1>5, BuiltFromAcceptedSettings DEF NewGitOpsClient, At
  <2>2. ASSUME GitOpsOn, NEW s \in CredentialErrors \cup {t \in {"repoURL"} : Bad(t)},
               Fatal(s)
        PROVE  StartupInv'
    BY <2>1, <2>2, ClientRefusesWhatDoesNotWork, FatalKeeps DEF PastValidate
  <2>3. CASE Fatal("repository")
    BY <2>1, <2>3, OtherCauses, FatalKeeps DEF PastValidate
  <2>4. CASE Goto("listen")
    BY <2>1, <2>4, GoOn DEF BootSteps
  <2>5. QED
    BY <1>5, <2>2, <2>3, <2>4 DEF NewGitOpsClient
<1>6. CASE Notify
    BY <1>6, BuiltFromAcceptedSettings, GoOn DEF Notify, At
<1>7. QED
    BY <1>1, <1>2, <1>3, <1>4, <1>5, <1>6, LoadKeeps DEF Boot

LEMMA ShutdownKeeps ==
    ASSUME StartupInv,
           ListenFails \/ Signal \/ SignalKills \/ Drained \/ DrainTimeout
    PROVE  StartupInv'
<1> USE DEF At
<1>1. ASSUME EndsWith("ok", NoCause) \/ EndsWith("ok", "port"),
             ~At("ended"), Open = {}, UNCHANGED report
      PROVE  StartupInv'
    BY <1>1, EndKeeps, OtherCauses, StartupAssumption
       DEF StartupAssumption, StartupInv, StartupTypeOK
<1>2. ASSUME EndsWith("error", NoCause) \/ EndsWith("killed", NoCause),
             ~At("ended"), UNCHANGED report
      PROVE  StartupInv'
    BY <1>2, EndKeeps, StartupAssumption
       DEF StartupAssumption, StartupInv, StartupTypeOK
<1>3. CASE ListenFails
    BY <1>1, <1>3 DEF ListenFails, StartupInv, RequestsFitProcess
<1>4. CASE Signal
    BY <1>4, BuiltFromAcceptedSettings, GoOn DEF Signal
<1>5. CASE SignalKills
    BY <1>2, <1>5 DEF SignalKills, BootSteps
<1>6. CASE Drained
    BY <1>1, <1>6 DEF Drained
<1>7. CASE DrainTimeout
    BY <1>2, <1>7 DEF DrainTimeout
<1>8. QED
    BY <1>3, <1>4, <1>5, <1>6, <1>7

\* Only requests move, or only whether the process listens.
LEMMA ServingKeeps ==
    ASSUME StartupInv, Listen \/ \E c \in Calls : Accept(c) \/ Answer(c)
    PROVE  StartupInv'
<1> USE DEF StartupInv, At
<1>1. UNCHANGED <<report, want, file, env, site, repository, told, starts>>
    BY DEF Listen, Accept, Answer, Outside
<1>2. CASE Listen
  <2>1. /\ process' = [process EXCEPT !.listens = TRUE] /\ call' = call
        /\ process.step \notin {"ended"}
    BY <1>2 DEF Listen
  <2>2. /\ process'.step = process.step /\ process'.exit = process.exit
        /\ process'.listens
    BY <2>1 DEF StartupTypeOK
  <2>3. StartupTypeOK'
    BY <1>1, <2>1, <2>2 DEF StartupTypeOK
  <2>4. RequestsFitProcess' /\ CleanExitAnswersAll'
    BY <2>1, <2>2 DEF RequestsFitProcess, CleanExitAnswersAll
  <2>5. QED
    BY <1>1, <2>1, <2>2, <2>3, <2>4, ProcessStepKeeps DEF PastChecksNothingIsWrong
<1>3. ASSUME NEW c \in Calls, Accept(c) \/ Answer(c)
      PROVE  StartupInv'
  <2>1. /\ process' = process /\ process.step # "ended" /\ process.listens
        /\ call' \in [Calls -> {"none", "open", "answered", "cut"}]
        /\ \A d \in Calls : call'[d] # "cut" \/ call[d] = "cut"
    BY <1>3 DEF Accept, Answer, StartupTypeOK, RequestsFitProcess, Open
  <2>2. StartupTypeOK'
    BY <1>1, <2>1 DEF StartupTypeOK
  <2>3. RequestsFitProcess' /\ CleanExitAnswersAll'
    BY <2>1 DEF RequestsFitProcess, CleanExitAnswersAll
  <2>4. QED
    BY <1>1, <2>1, <2>2, <2>3, ProcessStepKeeps
       DEF PastChecksNothingIsWrong
<1>4. QED
    BY <1>2, <1>3

-----------------------------------------------------------------------------
(* The world *)

LEMMA RepairKeeps ==
    ASSUME StartupInv, Repair
    PROVE  StartupInv'
<1> USE DEF StartupInv, Repair
<1>1. /\ process' = [step |-> "load", site |-> 1, listens |-> FALSE,
                     exit |-> "none", cause |-> NoCause]
      /\ call' = [c \in Calls |-> "none"] /\ report' = {}
    OBVIOUS
<1>2. NoCause \notin Settings /\ 1 \in 1..Sites
    BY StartupAssumption DEF StartupAssumption
<1>3. /\ file' \in [Settings -> {"absent", "blank", "wrong", "right"}]
      /\ env' \in [Settings -> {"unset", "wrong", "right"}]
    BY DEF StartupTypeOK
<1>4. told' \subseteq Settings /\ starts' \in Nat
    BY DEF StartupTypeOK
<1>5. StartupTypeOK'
    BY <1>1, <1>2, <1>3, <1>4 DEF StartupTypeOK, BootSteps, At, Open
<1>6. QED
    BY <1>1, <1>2, <1>5 DEF PastChecksNothingIsWrong, RequestsFitProcess,
       AcceptedSettingsStart, CleanExitAnswersAll, At, Open

LEMMA LinksKeep ==
    ASSUME StartupInv, (\E n \in 1..Sites : SiteChanges(n)) \/ RepositoryChanges
    PROVE  StartupInv'
<1> USE DEF StartupInv, SiteChanges, RepositoryChanges
<1>1. UNCHANGED <<want, file, env, process, report, call, told, starts>>
    OBVIOUS
<1>2. StartupTypeOK'
    BY <1>1 DEF StartupTypeOK, At, Open
<1>3. RequestsFitProcess' /\ CleanExitAnswersAll'
    BY <1>1 DEF RequestsFitProcess, CleanExitAnswersAll, At, Open
<1>4. QED
    BY <1>1, <1>2, <1>3, ProcessStepKeeps
       DEF PastChecksNothingIsWrong, AcceptedSettingsStart, RefusedLate, At

LEMMA StutterKeeps ==
    ASSUME StartupInv, UNCHANGED startupVars
    PROVE  StartupInv'
<1> USE DEF StartupInv, startupVars
<1>1. StartupTypeOK'
    BY DEF StartupTypeOK, At, Open
<1>2. RequestsFitProcess' /\ CleanExitAnswersAll'
    BY DEF RequestsFitProcess, CleanExitAnswersAll, At, Open
<1>3. QED
    BY <1>1, <1>2, ProcessStepKeeps
       DEF PastChecksNothingIsWrong, AcceptedSettingsStart, RefusedLate, At

\* The invariant is inductive.
LEMMA StartupInvStep == StartupInv /\ [StartupNext]_startupVars => StartupInv'
<1> SUFFICES ASSUME StartupInv, [StartupNext]_startupVars PROVE StartupInv'
    OBVIOUS
<1>1. CASE Boot
    BY <1>1, BootKeeps
<1>2. CASE ListenFails \/ Signal \/ SignalKills \/ Drained \/ DrainTimeout
    BY <1>2, ShutdownKeeps
<1>3. CASE Listen \/ \E c \in Calls : Accept(c) \/ Answer(c)
    BY <1>3, ServingKeeps
<1>4. CASE Repair
    BY <1>4, RepairKeeps
<1>5. CASE (\E n \in 1..Sites : SiteChanges(n)) \/ RepositoryChanges
    BY <1>5, LinksKeep
<1>6. CASE UNCHANGED startupVars
    BY <1>6, StutterKeeps
<1>7. QED
    BY <1>1, <1>2, <1>3, <1>4, <1>5, <1>6 DEF StartupNext

LEMMA StartupInvariant == StartupSpec => []StartupInv
    BY StartupAssumption, InitKeeps, StartupInvStep, PTL DEF StartupSpec

-----------------------------------------------------------------------------
(* What is told late: after a repair, all errors there are have been hidden, *)
(* or are of a variable that is not seen.                                    *)

\* What NothingIsToldLate allows to be told of after a repair.
Excused(s) ==
    \/ \E t \in told : s \in HiddenBy(t)
    \/ s \in told /\ env[s] # "unset" /\ ~EnvReaches(s)

\* A report is all that Load, or Validate, complains of; who has been told is
\* told of nothing else.
ReportInv ==
    /\ report # {} => /\ At("ended") /\ process.exit = "error"
                      /\ process.cause = "report"
                      /\ \/ report = LoadErrors
                         \/ report = Errors /\ LoadErrors = {}
    /\ At("ended") /\ process.exit = "error" /\ report = {} =>
           LoadErrors = {} /\ Errors = {}
    /\ starts > 1 => \A s \in LoadErrors \cup Errors : Excused(s)

LEMMA ValueRange ==
    ASSUME StartupTypeOK, NEW s \in Settings
    PROVE  Value(s) \in {"blank", "wrong", "right", "default"}
<1>1. /\ file[s] \in {"absent", "blank", "wrong", "right"}
      /\ env[s] \in {"unset", "wrong", "right"}
    BY DEF StartupTypeOK
<1>2. Default(s) \in {"default", "blank"}
    BY DEF Default
<1>. QED
    BY <1>1, <1>2 DEF Value

\* The settings that are only asked to be there.
OnlyAskedFor == {"openshift", "clientSecret", "openshiftCA", "clusterToken", "repoURL",
                 "gitopsToken", "sshKey", "image"}

\* An error is about a setting that is blank, or wrong where wrong is looked for;
\* one of the verification keys is about keys that are there.
ErrorsAreBad ==
    \A s \in LoadErrors \cup Errors :
        /\ Blank(s) \/ (Wrong(s) /\ s \notin OnlyAskedFor)
        /\ s \in {"verificationKeys", "activeKey"} => Wrong(s)

LEMMA OnlyBadSettingsAreErrors == StartupTypeOK => ErrorsAreBad
<1> SUFFICES ASSUME StartupTypeOK, NEW s \in LoadErrors \cup Errors
             PROVE  /\ Blank(s) \/ (Wrong(s) /\ s \notin OnlyAskedFor)
                    /\ s \in {"verificationKeys", "activeKey"} => Wrong(s)
    BY DEF ErrorsAreBad
<1>1. {"mode", "method"} \subseteq Settings
    BY DEF Settings, DefaultedKeys
<1>2. CASE s = "mode"
  <2>1. Mode = "unknown"
    BY <1>2 DEF LoadErrors, Errors, ClusterErrors, AuthErrors, LDAPErrors,
       KeyConflicts, GitOpsErrors, MethodErrors, BenchmarkErrors,
       PathErrors, ImpersonationErrors
  <2>2. Value("mode") \notin {"right", "default"}
    BY <2>1 DEF Mode, StartupTypeOK
  <2>3. Value("mode") \in {"blank", "wrong", "right", "default"}
    BY <1>1, ValueRange
  <2>. QED
    BY <1>2, <2>2, <2>3 DEF Blank, Wrong, OnlyAskedFor
<1>3. CASE s = "method"
  <2>1. Method = "unknown" /\ GitOpsOn
    BY <1>3 DEF LoadErrors, Errors, ClusterErrors, AuthErrors, LDAPErrors,
       KeyConflicts, GitOpsErrors, MethodErrors, BenchmarkErrors,
       PathErrors, ImpersonationErrors
  <2>2. Value("method") \notin {"right", "default"}
    BY <2>1 DEF Method, StartupTypeOK, GitOpsOn
  <2>3. Value("method") \in {"blank", "wrong", "right", "default"}
    BY <1>1, ValueRange
  <2>. QED
    BY <1>3, <2>2, <2>3 DEF Blank, Wrong, OnlyAskedFor
<1>4. CASE s \notin {"mode", "method"}
    BY <1>4 DEF LoadErrors, Errors, ClusterErrors, AuthErrors, LDAPErrors,
       KeyConflicts, GitOpsErrors, MethodErrors, BenchmarkErrors,
       PathErrors, ImpersonationErrors, OnlyAskedFor, Bad
<1>. QED
    BY <1>2, <1>3, <1>4

\* The settings a repair mends.
Named == report \cup ({process.cause} \cap Settings)

\* What is not named stays as it is.
LEMMA NotNamedStays ==
    ASSUME StartupTypeOK, Repair
    PROVE  /\ want' = want
           /\ \A s \in Settings \ Named : file'[s] = file[s] /\ env'[s] = env[s]
           /\ \A s \in Settings \ Named : Value(s)' = Value(s)
           /\ "mode" \notin Named => Mode' = Mode
           /\ "method" \notin Named => Method' = Method
<1>1. /\ want' = want
      /\ \A s \in Settings \ Named : file'[s] = file[s] /\ env'[s] = env[s]
    BY DEF Repair, Named
<1>2. ASSUME NEW s \in Settings \ Named
      PROVE  Value(s)' = Value(s)
    BY <1>1 DEF Value, EnvReaches
<1>3. {"mode", "method"} \subseteq Settings
    BY DEF Settings, DefaultedKeys
<1>4. "mode" \notin Named => Mode' = Mode
    BY <1>1, <1>2, <1>3 DEF Mode
<1>5. "method" \notin Named => Method' = Method
    BY <1>1, <1>2, <1>3 DEF Method
<1>. QED
    BY <1>1, <1>2, <1>4, <1>5

\* The settings that hide others from Validate.
Hiding == {"mode", "method", "cluster", "signingKeyID", "signingPrivateKey"}

\* What has become an error and was not named was hidden, or was one before.
LEMMA NewErrorsWereHidden ==
    ASSUME StartupTypeOK, Repair, LoadErrors = {},
           NEW s \in LoadErrors' \cup Errors', s \notin Named,
           \A t \in Named \cap Hiding : s \notin HiddenBy(t)
    PROVE  s \in Errors
<1> DEFINE same == Blank(s)' = Blank(s) /\ Wrong(s)' = Wrong(s) /\ Bad(s)' = Bad(s)
<1>1. /\ want' = want
      /\ "mode" \notin Named => Mode' = Mode
      /\ "method" \notin Named => Method' = Method
      /\ "cluster" \notin Named => file'["cluster"] = file["cluster"]
  <2>1. "cluster" \in Settings
    BY DEF Settings, ListedKeys
  <2>. QED
    BY <2>1, NotNamedStays
<1>2. GitOpsOn' = GitOpsOn
    BY <1>1 DEF GitOpsOn
<1>3. s \in Settings
    BY DEF LoadErrors, Errors, ClusterErrors, AuthErrors, LDAPErrors,
       KeyConflicts, GitOpsErrors, MethodErrors, BenchmarkErrors,
       PathErrors, ImpersonationErrors, Settings,
       ListedKeys, DefaultedKeys, KeysReadByName, PlainKeys
<1>4. "signingKeyID" \in Settings /\ "signingPrivateKey" \in Settings
    BY DEF Settings, DefaultedKeys
<1>5. Value(s)' = Value(s)
    BY <1>3, NotNamedStays
<1>6. same
    BY <1>5 DEF Blank, Wrong, Bad
<1>7. ~Wrong("syntax") /\ ~(Mode = "ldap" /\ Wrong("keyIDs"))
    BY DEF LoadErrors
<1>8. s \in HiddenBy("mode") \cup {"mode"} => Mode' = Mode
    BY <1>1 DEF Hiding
<1>9. s \in {"gitopsToken", "sshKey", "method"} => Method' = Method
    BY <1>1 DEF HiddenBy, Hiding
<1>10. s \in {"clusterToken", "gitOpsPath"} => file'["cluster"] = file["cluster"]
    BY <1>1 DEF HiddenBy, Hiding
<1>10a. s = "activeKey" => /\ Bad("signingKeyID")' = Bad("signingKeyID")
                          /\ Bad("signingPrivateKey")' = Bad("signingPrivateKey")
  <2> SUFFICES ASSUME s = "activeKey"
               PROVE  /\ Value("signingKeyID")' = Value("signingKeyID")
                      /\ Value("signingPrivateKey")' = Value("signingPrivateKey")
    BY DEF Bad, Blank, Wrong
  <2>1. "signingKeyID" \notin Named /\ "signingPrivateKey" \notin Named
    BY DEF HiddenBy, Hiding
  <2>. QED
    BY <1>4, <2>1, NotNamedStays
<1> HIDE DEF same
<1>11. CASE s \in LoadErrors'
  <2>1. s \in {"syntax", "keyIDs"}
    BY <1>11 DEF LoadErrors
  <2>. QED
    BY <1>6, <1>7, <1>8, <1>11, <2>1 DEF LoadErrors, HiddenBy, same
<1>12. CASE s \in ClusterErrors'
  <2>. QED
    BY <1>6, <1>12 DEF ClusterErrors, Errors, same
<1>13. CASE s \in AuthErrors'
  <2>1. s \in {"maxIPTracked", "mode"} \cup HiddenBy("mode")
    BY <1>13 DEF AuthErrors, LDAPErrors, KeyConflicts, HiddenBy
  <2>2. s \in AuthErrors
    <3>1. CASE s = "maxIPTracked"
      BY <1>6, <1>13, <3>1 DEF AuthErrors, LDAPErrors, KeyConflicts, same
    <3>2. CASE s # "maxIPTracked"
      <4>1. Mode' = Mode
        BY <1>8, <2>1, <3>2
      <4>2. s \in KeyConflicts' => s \in KeyConflicts
        BY <1>6, <1>10a DEF KeyConflicts, same
      <4>3. s \in LDAPErrors' => s \in LDAPErrors
        BY <1>6, <4>2 DEF LDAPErrors, same
      <4>. QED
        BY <1>6, <1>13, <3>2, <4>1, <4>3 DEF AuthErrors, same
    <3>. QED
      BY <3>1, <3>2
  <2>. QED
    BY <2>2 DEF Errors
<1>14. CASE s \in GitOpsErrors'
  <2>1. s \in {"repoURL", "timeout", "method", "gitopsToken", "sshKey"} /\ GitOpsOn
    BY <1>2, <1>14 DEF GitOpsErrors, MethodErrors
  <2>2. s \in GitOpsErrors
    BY <1>2, <1>6, <1>9, <1>14, <2>1 DEF GitOpsErrors, MethodErrors, same
  <2>. QED
    BY <2>2 DEF Errors
<1>15. CASE s \in BenchmarkErrors'
    BY <1>1, <1>6, <1>15 DEF BenchmarkErrors, Errors, same
<1>16. CASE s \in PathErrors'
    BY <1>2, <1>6, <1>10, <1>16 DEF PathErrors, Errors, same
<1>17. CASE s \in ImpersonationErrors'
  <2>1. s = "clusterToken"
    BY <1>17 DEF ImpersonationErrors
  <2>. QED
    BY <1>6, <1>8, <1>10, <1>17, <2>1
       DEF ImpersonationErrors, Impersonates, Errors, HiddenBy, same
<1>. QED
    BY <1>11, <1>12, <1>13, <1>14, <1>15, <1>16, <1>17 DEF Errors

\* What is mended is no error any more, or the configuration does not see it.
LEMMA NamedIsMended ==
    ASSUME StartupTypeOK, Repair, NEW s \in Named, s \in Settings,
           s \in {"verificationKeys", "activeKey"} => Wrong(s)
    PROVE  \/ s \in report /\ env'[s] # "unset" /\ ~EnvReaches(s)'
           \/ ~Blank(s)' /\ (Wrong(s)' => s \in OnlyAskedFor)
<1>1. /\ file[s] \in {"absent", "blank", "wrong", "right"}
      /\ env[s] \in {"unset", "wrong", "right"}
    BY DEF StartupTypeOK
<1>2. /\ env'[s] = IF MendedInEnv(s) THEN "right" ELSE env[s]
      /\ file'[s] = IF ~MendedInEnv(s) THEN "right" ELSE file[s]
    BY DEF Repair, Named
<1>3. s \in {"verificationKeys", "activeKey"} => file[s] # "absent"
    BY DEF Wrong, Value, EnvReaches, Default, DefaultedKeys, KeysReadByName
<1>4. CASE s \in ListedKeys
  <2>1. ~MendedInEnv(s) /\ ~EnvReaches(s)'
    BY <1>4 DEF MendedInEnv, EnvReaches, NamedByVariable, ListedKeys, DefaultedKeys,
       KeysReadByName, PlainKeys
  <2>. QED
    BY <1>2, <2>1 DEF Value, Blank, Wrong
<1>5. CASE s \in DefaultedKeys \cup {"vmURLs", "apiKey"}
  <2>1. EnvReaches(s) /\ EnvReaches(s)'
    BY <1>5 DEF EnvReaches, DefaultedKeys, KeysReadByName
  <2>2. Value(s)' = "right"
    BY <1>1, <1>2, <2>1 DEF Value, MendedInEnv
  <2>. QED
    BY <2>2 DEF Blank, Wrong
<1>6. CASE s \in PlainKeys \cup {"clusterToken"}
  <2>1. /\ EnvReaches(s) <=> file[s] # "absent"
        /\ EnvReaches(s)' <=> file'[s] # "absent"
    BY <1>6 DEF EnvReaches, DefaultedKeys, KeysReadByName, PlainKeys
  <2>2. CASE ~MendedInEnv(s)
    <3>1. CASE s \in {"verificationKeys", "activeKey"}
      <4>1. Value(s)' = "right"
        BY <1>1, <1>2, <1>3, <2>1, <2>2, <3>1 DEF Value, MendedInEnv
      <4>. QED
        BY <4>1 DEF Blank, Wrong
    <3>2. CASE s \notin {"verificationKeys", "activeKey"}
      <4>1. Value(s)' \in {"right", "wrong"}
        BY <1>1, <1>2, <2>1, <2>2 DEF Value
      <4>2. s \in OnlyAskedFor
        BY <1>6, <3>2 DEF PlainKeys, OnlyAskedFor
      <4>. QED
        BY <4>1, <4>2 DEF Blank
    <3>. QED
      BY <3>1, <3>2
  <2>3. CASE MendedInEnv(s) /\ file[s] # "absent"
    <3>1. Value(s)' = "right"
      BY <1>2, <2>1, <2>3 DEF Value
    <3>. QED
      BY <3>1 DEF Blank, Wrong
  <2>4. CASE MendedInEnv(s) /\ file[s] = "absent"
    <3>1. s \in report
      BY <2>1, <2>4 DEF MendedInEnv
    <3>. QED
      BY <1>2, <2>1, <2>4, <3>1
  <2>. QED
    BY <2>2, <2>3, <2>4
<1>. QED
    BY <1>4, <1>5, <1>6 DEF Settings, KeysReadByName

LEMMA RepairExcuses ==
    ASSUME StartupInv, ErrorsAreBad, ErrorsAreBad', ReportInv, Repair,
           NEW s \in LoadErrors' \cup Errors'
    PROVE  Excused(s)'
<1>1. StartupTypeOK /\ AcceptedSettingsStart /\ At("ended") /\ process.exit = "error"
    BY DEF StartupInv, Repair
<1>2. told' = told \cup report
    BY DEF Repair
<1>3. Blank(s)' \/ (Wrong(s)' /\ s \notin OnlyAskedFor)
    BY DEF ErrorsAreBad
<1>4. s \in Settings
    BY DEF LoadErrors, Errors, ClusterErrors, AuthErrors, LDAPErrors,
       KeyConflicts, GitOpsErrors, MethodErrors, BenchmarkErrors,
       PathErrors, ImpersonationErrors, Settings,
       ListedKeys, DefaultedKeys, KeysReadByName, PlainKeys
<1>5. CASE report = {}
  <2>1. LoadErrors = {} /\ Errors = {}
    BY <1>1, <1>5 DEF ReportInv
  <2>2. Named \subseteq {"connection", "level", "openshiftCA", "sshKey", "gitopsToken",
                         "repoURL"}
        /\ \A t \in Named : t = "connection" \/ Wrong(t)
    BY <1>1, <1>5 DEF AcceptedSettingsStart, Named
  <2>3. CASE s \in Named
    BY <1>1, <1>3, <1>4, <1>5, <2>2, <2>3, NamedIsMended
  <2>4. CASE s \notin Named
    BY <1>1, <2>1, <2>2, <2>4, NewErrorsWereHidden DEF Hiding
  <2>. QED
    BY <2>3, <2>4
<1>6. CASE report # {}
  <2>1. Named = report
    BY <1>6, OtherCauses DEF ReportInv, Named
  <2>2. CASE report \cap {"syntax", "keyIDs"} # {}
    <3>1. PICK t \in report : HiddenBy(t) = Settings
      BY <2>2 DEF HiddenBy
    <3>. QED
      BY <1>2, <1>4, <3>1 DEF Excused, HiddenBy
  <2>3. CASE report \cap {"syntax", "keyIDs"} = {}
    <3>1. report = Errors /\ LoadErrors = {}
      BY <1>6, <2>3 DEF ReportInv, LoadErrors
    <3>2. CASE s \in report
      <4>1. s \in {"verificationKeys", "activeKey"} => Wrong(s)
        BY <3>1, <3>2 DEF ErrorsAreBad
      <4>2. s \in report /\ env'[s] # "unset" /\ ~EnvReaches(s)'
        BY <1>1, <1>3, <1>4, <1>6, <2>1, <3>2, <4>1, NamedIsMended
      <4>. QED
        BY <1>2, <4>2 DEF Excused
    <3>3. CASE \E t \in report \cap Hiding : s \in HiddenBy(t)
      BY <1>2, <3>3 DEF Excused, HiddenBy
    <3>4. CASE s \notin report /\ \A t \in report \cap Hiding : s \notin HiddenBy(t)
      BY <1>1, <2>1, <3>1, <3>4, NewErrorsWereHidden
    <3>. QED
      BY <3>2, <3>3, <3>4
  <2>. QED
    BY <2>2, <2>3
<1>. QED
    BY <1>5, <1>6

\* Whatever leaves the settings alone changes nothing of what is an error.
LEMMA NothingNewIsTold ==
    ASSUME UNCHANGED <<want, file, env, told, starts>>, ReportInv
    PROVE  /\ LoadErrors' = LoadErrors /\ Errors' = Errors
           /\ starts' > 1 => \A s \in LoadErrors' \cup Errors' : Excused(s)'
<1>1. LoadErrors' = LoadErrors /\ Errors' = Errors
    BY SettingsStay
<1>2. \A s : Excused(s)' <=> Excused(s)
    BY DEF Excused, EnvReaches, HiddenBy
<1>. QED
    BY <1>1, <1>2 DEF ReportInv

LEMMA EndingTellsAll ==
    ASSUME StartupInv, ReportInv, NEW exit, NEW cause, EndsWith(exit, cause), ~At("ended"),
           \/ UNCHANGED report /\ (exit = "error" => LoadErrors = {} /\ Errors = {})
           \/ /\ exit = "error" /\ cause = "report" /\ report' # {}
              /\ report' = LoadErrors \/ (report' = Errors /\ LoadErrors = {})
    PROVE  ReportInv'
<1>1. /\ process' = [process EXCEPT !.step = "ended", !.exit = exit, !.cause = cause]
      /\ UNCHANGED <<want, file, env, told, starts>>
    BY DEF EndsWith, Outside
<1>2. process'.step = "ended" /\ process'.exit = exit /\ process'.cause = cause
    BY <1>1 DEF StartupInv, StartupTypeOK
<1>3. report = {}
    BY DEF ReportInv
<1>4. /\ LoadErrors' = LoadErrors /\ Errors' = Errors
      /\ starts' > 1 => \A s \in LoadErrors' \cup Errors' : Excused(s)'
    BY <1>1, NothingNewIsTold
<1>. QED
    BY <1>2, <1>3, <1>4 DEF ReportInv, At

\* A step that does not end the process tells nothing.
LEMMA GoingOnTellsNothing ==
    ASSUME ReportInv, UNCHANGED <<want, file, env, told, starts, report>>,
           \/ ~At("ended") /\ ~At("ended")'
           \/ process' = process
    PROVE  ReportInv'
<1>1. /\ LoadErrors' = LoadErrors /\ Errors' = Errors
      /\ starts' > 1 => \A s \in LoadErrors' \cup Errors' : Excused(s)'
    BY NothingNewIsTold
<1>. QED
    BY <1>1 DEF ReportInv, At

LEMMA GotoTellsNothing ==
    ASSUME StartupInv, ReportInv, NEW step, Goto(step), step # "ended", ~At("ended")
    PROVE  ReportInv'
<1>1. process'.step = step /\ UNCHANGED <<want, file, env, told, starts, report>>
    BY DEF Goto, Outside, StartupInv, StartupTypeOK
<1>. QED
    BY <1>1, GoingOnTellsNothing DEF At

LEMMA ReportStep ==
    ASSUME StartupInv, ErrorsAreBad, ErrorsAreBad', ReportInv, [StartupNext]_startupVars
    PROVE  ReportInv'
<1>1. CASE LoadConfig
    BY <1>1, EndingTellsAll, GotoTellsNothing DEF LoadConfig, Complain, At
<1>2. CASE ValidateConfig
  <2>1. LoadErrors = {}
    BY <1>2 DEF ValidateConfig, At, StartupInv, PastChecksNothingIsWrong
  <2>. QED
    BY <1>2, <2>1, EndingTellsAll, GotoTellsNothing DEF ValidateConfig, Complain, At
<1>3. ASSUME PastValidate, NEW cause, Fatal(cause) PROVE ReportInv'
    BY <1>3, EndingTellsAll DEF PastValidate, Fatal
<1>4. ASSUME PastValidate, NEW step, Goto(step), step # "ended" PROVE ReportInv'
    BY <1>4, GotoTellsNothing DEF PastValidate
<1>5. CASE BuildLogger
    BY <1>3, <1>4, <1>5, BuiltFromAcceptedSettings DEF BuildLogger, At
<1>6. CASE ConnectCluster
    BY <1>3, <1>4, <1>6, BuiltFromAcceptedSettings DEF ConnectCluster, At
<1>7. CASE DetectOpenShift
  <2>1. /\ UNCHANGED <<want, file, env, told, starts, report>> /\ ~At("ended")
        /\ process'.step \in {"clusters", "auth"}
    BY <1>7 DEF DetectOpenShift, Outside, At, StartupInv, StartupTypeOK
  <2>. QED
    BY <2>1, GoingOnTellsNothing DEF At
<1>8. CASE NewAuthManager
    BY <1>3, <1>4, <1>8, BuiltFromAcceptedSettings DEF NewAuthManager, At
<1>9. CASE NewGitOpsClient
    BY <1>3, <1>4, <1>9, BuiltFromAcceptedSettings DEF NewGitOpsClient, At
<1>10. CASE Notify
    BY <1>4, <1>10, BuiltFromAcceptedSettings DEF Notify, At
<1>11. CASE ListenFails \/ Drained \/ SignalKills
    BY <1>11, EndingTellsAll DEF ListenFails, Drained, SignalKills, At, BootSteps
<1>12. CASE Signal
    BY <1>4, <1>12, BuiltFromAcceptedSettings DEF Signal, At
<1>13. CASE DrainTimeout
  <2>1. PastValidate
    BY <1>13, BuiltFromAcceptedSettings DEF DrainTimeout, At
  <2>. QED
    BY <1>13, <2>1, EndingTellsAll DEF DrainTimeout, At, PastValidate
<1>14. CASE Listen
  <2>1. /\ UNCHANGED <<want, file, env, told, starts, report>> /\ ~At("ended")
        /\ process'.step = process.step
    BY <1>14 DEF Listen, Outside, At, StartupInv, StartupTypeOK
  <2>. QED
    BY <2>1, GoingOnTellsNothing DEF At
<1>15. CASE \/ \E c \in Calls : Accept(c) \/ Answer(c)
            \/ \E n \in 1..Sites : SiteChanges(n)
            \/ RepositoryChanges
            \/ UNCHANGED startupVars
    BY <1>15, GoingOnTellsNothing
    DEF Accept, Answer, SiteChanges, RepositoryChanges, startupVars, Outside
<1>16. CASE Repair
  <2>1. report' = {} /\ process'.step = "load"
    BY <1>16 DEF Repair
  <2>2. \A s \in LoadErrors' \cup Errors' : Excused(s)'
    BY <1>16, RepairExcuses
  <2>. QED
    BY <2>1, <2>2 DEF ReportInv, At
<1>. QED
    BY <1>1, <1>2, <1>5, <1>6, <1>7, <1>8, <1>9, <1>10, <1>11, <1>12, <1>13, <1>14,
       <1>15, <1>16 DEF StartupNext, Boot

-----------------------------------------------------------------------------
(* Theorems *)

\* Every variable of Startup keeps its type, and nothing is open in a process
\* that has ended.
THEOREM StartupTypeCorrect == StartupSpec => []StartupTypeOK
<1>1. StartupInv => StartupTypeOK
    BY DEF StartupInv
<1>2. QED
    BY <1>1, StartupInvariant, PTL

\* For any settings and any repairs between starts: past Validate the
\* constructors refuse no setting that Validate asks for.
THEOREM AcceptedIsBuilt == StartupSpec => []AcceptedSettingsStart
<1>1. StartupInv => AcceptedSettingsStart
    BY DEF StartupInv
<1>2. QED
    BY <1>1, StartupInvariant, PTL

\* For any number of requests, and whether the process is signalled or cannot
\* listen: exit code 0 means that none was cut off.
THEOREM CleanExitIsClean == StartupSpec => []CleanExitAnswersAll
<1>1. StartupInv => CleanExitAnswersAll
    BY DEF StartupInv
<1>2. QED
    BY <1>1, StartupInvariant, PTL

\* However the settings are spread over the file and the environment, and
\* however often they are repaired: a report names only what an earlier error
\* has kept Validate from looking at, or a variable that is set and not seen
\* (config/validation.go: "collected and returned together").
THEOREM NothingLeftForLater == StartupSpec => []NothingIsToldLate
<1>1. StartupInit => ReportInv
    BY DEF StartupInit, ReportInv, At
<1>2. (/\ StartupInv /\ ErrorsAreBad /\ ErrorsAreBad'
       /\ ReportInv /\ [StartupNext]_startupVars)
      => ReportInv'
    BY ReportStep
<1>3. ReportInv => NothingIsToldLate
    BY DEF ReportInv, NothingIsToldLate, Excused
<1>4. StartupInv => ErrorsAreBad
    BY OnlyBadSettingsAreErrors DEF StartupInv
<1>. QED
    BY <1>1, <1>2, <1>3, <1>4, StartupInvariant, PTL DEF StartupSpec

=============================================================================
