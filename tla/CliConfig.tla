------------------------------ MODULE CliConfig ------------------------------
(***************************************************************************)
(* The configuration file of cappctl (internal/cli) and the sessions it    *)
(* keeps.  A command reads the whole file when it starts and, if it has    *)
(* something to keep, replaces the whole file by its changed copy when it  *)
(* ends; there is no lock, and in between it may wait for a user, a        *)
(* browser or the backend.  The backend keeps no sessions: it passes       *)
(* logins and refreshes on to the identity provider, which may or may not  *)
(* rotate refresh tokens (internal/server/auth_routes.go).                 *)
(***************************************************************************)
EXTENDS Integers, Sequences

CONSTANTS
    Commands,       \* the cappctl processes, each running one command
    Contexts,       \* names of contexts
    MaxIssued,      \* how many token pairs are issued at most
    CliFaults,      \* the kinds of fault the environment may inject:
                    \*   "unheard" the backend's answer does not arrive
                    \*   "save"    the file cannot be written, or the user
                    \*             interrupts the command before it is
    NoContext       \* no context of that name; no current context

ASSUME CliConfigAssumption ==
    /\ NoContext \notin Contexts
    /\ NoContext \notin [mode: {"openshift", "ldap"}, token: Nat, refresh: Nat]
    /\ MaxIssued \in Nat \ {0}

VARIABLES
    cfgFile,        \* the file
    pairs,          \* the context for which each token pair was issued
    aged,           \* the pairs whose token is about to expire (in LDAP mode:
                    \* has expired)
    redeemable,     \* the pairs whose refresh token the provider accepts
    command,        \* the commands
    together        \* history: the commands that ran beside another one

cliVars == <<cfgFile, pairs, aged, redeemable, command, together>>

\* A passthrough context is like an openshift one with an imported token.
Modes == {"openshift", "ldap"}
Logins == {"browser", "password", "ldap", "import"}
Numbers == 1..MaxIssued

\* The tokens of a pair go by its number, and 0 is none.  The expiry of a
\* token is stored with it, except where nothing depends on it: who has a
\* refresh token, or is in LDAP mode, has the expiry as well.
Entry == [mode: Modes, token: {0} \cup Numbers, refresh: {0} \cup Numbers]
Config == [current: Contexts \cup {NoContext},
           contexts: [Contexts -> Entry \cup {NoContext}]]
Command == [kind: Logins \cup {"logout", "use", "call", "none"},
            context: Contexts \cup {NoContext},
            at: {"idle", "ask", "save", "done", "unsaved", "failed"},
            copy: Config, spends: {0} \cup Numbers]

\* What Load returns when there is no file; and what is left of the copy of a
\* command that has ended.
EmptyConfig == [current |-> NoContext, contexts |-> [c \in Contexts |-> NoContext]]

\* What is kept of a command that has not begun, or that has ended.
Rest(at, spends) ==
    [kind |-> "none", context |-> NoContext, at |-> at, copy |-> EmptyConfig,
     spends |-> spends]

Issued == 1..Len(pairs)
Running(p) == command[p].at \in {"ask", "save"}

-----------------------------------------------------------------------------
\* The user has a session in one context.
CliConfigInit ==
    \E c \in Contexts :
      /\ pairs = <<c>>
      /\ cfgFile = [current |-> c, contexts |-> [d \in Contexts |->
             IF d = c THEN [mode |-> "openshift", token |-> 1, refresh |-> 1]
             ELSE NoContext]]
      /\ aged = {}
      /\ redeemable = {1}
      /\ command = [p \in Commands |-> Rest("idle", 0)]
      /\ together = {}

-----------------------------------------------------------------------------
\* What a command does between reading the file and its first wait.

\* What may be stored for pair n.  Only the browser flow and a refresh may
\* bring a refresh token; a token may be imported in both modes.
EntriesFor(n, kind) ==
    [mode: IF kind = "ldap" THEN {"ldap"}
           ELSE IF kind = "import" THEN Modes ELSE {"openshift"},
     token: {n},
     refresh: IF kind \in {"browser", "call"} THEN {0, n} ELSE {0}]

\* Mutant of Upserted: the current context is changed, not the one that was named.
UpsertedInCurrent(copy, c, e) ==
    [copy EXCEPT !.contexts[copy.current] = e]

\* UpsertContext on a copy of the file.
Upserted(copy, c, e) == [copy EXCEPT !.contexts[c] = e]

\* maybeRefresh: within 30 seconds of a known expiry, when there is a refresh
\* token.
NeedsRefresh(e) ==
    e.mode # "ldap" /\ e.refresh # 0 /\ e.token \in aged

IsExpiredInLDAPMode(e) == e.mode = "ldap" /\ e.token \in aged

\* Mutant of LoggedOut: the context goes with its tokens.
LoggedOutByDeletion(e) == NoContext

LoggedOut(e) == [e EXCEPT !.token = 0, !.refresh = 0]

\* A second browser login finds the callback port taken.
PortIsFree ==
    \A p \in Commands : ~(command[p].kind = "browser" /\ command[p].at = "ask")

\* The command has read the file, and goes on with its copy of it.
Begin(p, kind, c, at, copy, spends) ==
    LET others == {q \in Commands \ {p} : Running(q)}
    IN  /\ command[p].at = "idle"
        /\ command' = [command EXCEPT ![p] =
              IF at \in {"ask", "save"}
              THEN [kind |-> kind, context |-> c, at |-> at, copy |-> copy,
                    spends |-> spends]
              ELSE Rest(at, 0)]
        /\ together' = IF others = {} THEN together
                       ELSE together \cup others \cup {p}
        /\ UNCHANGED <<cfgFile, aged, redeemable>>

BeginLogin(p, kind, c) ==
    /\ kind \in Logins \ {"import"}
    /\ IF kind = "browser" /\ ~PortIsFree
       THEN Begin(p, kind, c, "failed", EmptyConfig, 0)
       ELSE Begin(p, kind, c, "ask", cfgFile, 0)
    /\ UNCHANGED pairs

\* login --token: a token that was issued elsewhere.
BeginImport(p, c) ==
    /\ Len(pairs) < MaxIssued
    /\ pairs' = Append(pairs, c)
    /\ \E e \in EntriesFor(Len(pairs) + 1, "import") :
          LET copy == Upserted(cfgFile, c, e)
          IN  Begin(p, "import", c, "save", [copy EXCEPT !.current = c], 0)

BeginLogout(p, c) ==
    LET e == cfgFile.contexts[c]
    IN  /\ \/ e = NoContext /\ Begin(p, "logout", c, "failed", EmptyConfig, 0)
           \/ /\ e # NoContext
              /\ Begin(p, "logout", c, "save",
                       Upserted(cfgFile, c, LoggedOut(e)), 0)
        /\ UNCHANGED pairs

BeginUse(p, c) ==
    /\ \/ /\ cfgFile.contexts[c] = NoContext
          /\ Begin(p, "use", c, "failed", EmptyConfig, 0)
       \/ /\ cfgFile.contexts[c] # NoContext
          /\ Begin(p, "use", c, "save", [cfgFile EXCEPT !.current = c], 0)
    /\ UNCHANGED pairs

\* Any other command: it is sent with the token of its context, which is
\* refreshed first when that is possible and due.
BeginCall(p, c) ==
    LET e == cfgFile.contexts[c]
        has == e # NoContext
    IN  /\ IF ~has \/ (has /\ (e.token = 0 \/ IsExpiredInLDAPMode(e)))
           THEN Begin(p, "call", c, "failed", EmptyConfig, 0)
           ELSE IF NeedsRefresh(e) THEN Begin(p, "call", c, "ask", cfgFile, e.refresh)
           ELSE Begin(p, "call", c, "done", EmptyConfig, 0)
        /\ UNCHANGED pairs

-----------------------------------------------------------------------------
\* The backend and the identity provider behind it answer.

End(p, at) == command' = [command EXCEPT ![p] = Rest(at, @.spends)]

\* The login is refused, or the refresh token is; or the request does not
\* arrive, or the user gives up waiting for a browser.
Deny(p) ==
    /\ command[p].at = "ask"
    /\ End(p, "failed")
    /\ UNCHANGED <<cfgFile, pairs, aged, redeemable, together>>

\* Mutant of NewEntry: a refresh stores the access token only.
KeepOldRefreshToken(p, e) ==
    IF command[p].kind = "call" THEN [e EXCEPT !.refresh = command[p].spends] ELSE e

\* The entry for a pair that was granted takes the place of the old one.
NewEntry(p, e) == e

\* A login or a refresh is granted.  A refresh token that was spent may be
\* good for another time or not.  The command changes its copy of the file,
\* if it gets to hear of it.
Grant(p) ==
    LET n == Len(pairs) + 1
        c == command[p].context
        old == command[p].spends
        Heard(e) ==
            LET copy == Upserted(command[p].copy, c, NewEntry(p, e))
            IN  command' = [command EXCEPT
                    ![p].at = "save",
                    ![p].copy = IF command[p].kind = "call" THEN copy
                                ELSE [copy EXCEPT !.current = c]]
    IN  /\ command[p].at = "ask"
        /\ command[p].kind = "call" => old \in redeemable
        /\ Len(pairs) < MaxIssued
        /\ pairs' = Append(pairs, c)
        /\ \E e \in EntriesFor(n, command[p].kind), spent \in {{}, {old}} :
              /\ redeemable' = (redeemable \ spent) \cup ({e.refresh} \ {0})
              /\ Heard(e) \/ ("unheard" \in CliFaults /\ End(p, "failed"))
        /\ UNCHANGED <<cfgFile, aged, together>>

-----------------------------------------------------------------------------
\* Save: the copy takes the place of the file, by a rename.  A command that
\* cannot keep a refreshed token warns and goes on.
Save(p) ==
    /\ command[p].at = "save"
    /\ \/ /\ cfgFile' = command[p].copy
          /\ End(p, "done")
       \/ /\ "save" \in CliFaults
          /\ End(p, IF command[p].kind = "call" THEN "unsaved" ELSE "failed")
          /\ UNCHANGED cfgFile
    /\ UNCHANGED <<pairs, aged, redeemable, together>>

\* A token nears its expiry, or reaches it.
Age(n) ==
    /\ n \notin aged
    /\ aged' = aged \cup {n}
    /\ UNCHANGED <<cfgFile, pairs, redeemable, command, together>>

CliConfigNext ==
    \/ \E p \in Commands :
          \/ \E c \in Contexts : \/ \E kind \in Logins : BeginLogin(p, kind, c)
                               \/ BeginImport(p, c) \/ BeginLogout(p, c)
                               \/ BeginUse(p, c) \/ BeginCall(p, c)
          \/ Grant(p) \/ Deny(p) \/ Save(p)
    \/ \E n \in Issued : Age(n)

CliConfigSpec == CliConfigInit /\ [][CliConfigNext]_cliVars

-----------------------------------------------------------------------------
\* The current context of every version of the file is one of its contexts.
CliConfigTypeOK ==
    /\ cfgFile \in Config
    /\ pairs \in Seq(Contexts) /\ Len(pairs) <= MaxIssued
    /\ aged \subseteq Issued /\ redeemable \subseteq Issued
    /\ command \in [Commands -> Command]
    /\ together \subseteq Commands
    /\ cfgFile.current # NoContext => cfgFile.contexts[cfgFile.current] # NoContext

\* A refresh token in the file is one the provider accepts: when it has been
\* spent, a command is about to replace it, or the command that has spent it
\* could not (it was interrupted or could not write the file), or ran beside
\* others, one of which may have brought it back ("The new token pair is saved
\* back to the config file").
RefreshTokenIsAccepted ==
    \A c \in Contexts :
        LET e == cfgFile.contexts[c]
        IN  e # NoContext /\ e.refresh \notin redeemable \cup {0} =>
                \E p \in Commands : /\ command[p].spends = e.refresh
                                    /\ command[p].at # "done" \/ p \in together

\* The tokens of a context were issued to it, whichever context is current
\* and whatever was selected when they were refreshed.
PairsStayWithTheirContext ==
    \A c \in Contexts :
        LET e == cfgFile.contexts[c]
        IN  e # NoContext =>
                \A n \in {e.token, e.refresh} \ {0} : pairs[n] = c

=============================================================================
