----------------------------- MODULE LdapLogin -----------------------------
(***************************************************************************)
(* Logins and tokens in LDAP mode (internal/auth/ldap*.go).  A login asks  *)
(* the directory three times, on two connections, and the directory may    *)
(* change in between.  The token it ends with is signed by one replica and *)
(* accepted by all, without asking the directory again.  Operators rotate  *)
(* the keys of the replicas as README.md describes, one process at a time, *)
(* while old processes finish the logins they have begun.                  *)
(***************************************************************************)
EXTENDS FiniteSets, Integers

CONSTANTS
    LdapLogins,     \* the logins
    DNs,            \* entries of users in the directory
    Names,          \* user names
    Passwords, Groups,
    Replicas, Keys,
    NoUser,         \* there is no entry with that DN
    NoToken,        \* the login has not been answered with a token
    TokenTTL        \* tokenTTLSeconds, in ticks

ASSUME LdapLoginAssumption ==
    /\ TokenTTL \in Nat \ {0}
    /\ NoUser \notin [name: Names, password: Passwords, groups: SUBSET Groups]
    /\ NoToken \notin [sub: Names, groups: SUBSET Groups, kid: Keys, left: 0..TokenTTL]

VARIABLES
    directory,      \* the entries
    login,          \* the logins
    was,            \* history: what each entry has been since a login began
    token,          \* the token each login has ended with
    config          \* the keys of each replica

ldapVars == <<directory, login, was, token, config>>

User == [name: Names, password: Passwords, groups: SUBSET Groups]
Login == [at: {"idle", "search", "bind", "groups", "issued", "denied", "unavailable"},
          name: Names, password: Passwords, kid: Keys, dn: DNs, sub: Names]
Token == [sub: Names, groups: SUBSET Groups, kid: Keys, left: 0..TokenTTL]
LdapConfig == [signs: Keys, trusts: SUBSET Keys]

InLogin(l) == login[l].at \in {"search", "bind", "groups"}

LdapLoginInit ==
    /\ directory \in [DNs -> User \cup {NoUser}]
    /\ \E n \in Names, w \in Passwords, k \in Keys, d \in DNs :
          /\ login = [l \in LdapLogins |->
                [at |-> "idle", name |-> n, password |-> w, kid |-> k,
                 dn |-> d, sub |-> n]]
          /\ config = [r \in Replicas |-> [signs |-> k, trusts |-> {}]]
    /\ was = [l \in LdapLogins |-> [d \in DNs |-> {}]]
    /\ token = [l \in LdapLogins |-> NoToken]

-----------------------------------------------------------------------------
\* PasswordLogin.

Answer(l, at) == login' = [login EXCEPT ![l].at = at]

\* A login is served by the process that is there when it comes.
BeginLdapLogin(l, r, n, w) ==
    /\ login[l].at = "idle"
    /\ login' = [login EXCEPT ![l] =
          [at |-> "search", name |-> n, password |-> w,
           kid |-> config[r].signs, dn |-> @.dn, sub |-> @.sub]]
    /\ was' = [was EXCEPT ![l] = [d \in DNs |-> {directory[d]}]]
    /\ UNCHANGED <<directory, token, config>>

\* The entries the user filter matches.
Found(n) == {d \in DNs : directory[d] # NoUser /\ directory[d].name = n}

\* Exactly one entry is found, and its name is the one the token will have.
Search(l) ==
    /\ login[l].at = "search"
    /\ \/ /\ Cardinality(Found(login[l].name)) # 1
          /\ Answer(l, "denied")
       \/ \E d \in DNs :
             /\ Found(login[l].name) = {d}
             /\ login' = [login EXCEPT ![l].at = "bind", ![l].dn = d,
                                       ![l].sub = directory[d].name]
    /\ UNCHANGED <<directory, was, token, config>>

\* verifyPassword binds with the DN that was found, on another connection.
Bind(l) ==
    LET e == directory[login[l].dn]
        accepted == e # NoUser /\ e.password = login[l].password
    IN  /\ login[l].at = "bind"
        /\ Answer(l, IF accepted THEN "groups" ELSE "denied")
        /\ UNCHANGED <<directory, was, token, config>>

\* Mutant of GroupsOf: the groups are looked up by name instead of DN.
GroupsOfName(l) ==
    UNION {directory[d].groups : d \in Found(login[l].name)}

\* The groups of which the DN is a member; none is an answer as well.
GroupsOf(l) ==
    LET e == directory[login[l].dn] IN IF e = NoUser THEN {} ELSE e.groups

\* groups and issue: the token is signed as soon as the groups are known.
ResolveAndIssue(l) ==
    /\ login[l].at = "groups"
    /\ token' = [token EXCEPT ![l] =
          [sub |-> login[l].sub, groups |-> GroupsOf(l),
           kid |-> login[l].kid, left |-> TokenTTL]]
    /\ Answer(l, "issued")
    /\ UNCHANGED <<directory, was, config>>

\* The directory does not answer, or not completely, or not in time.
Unavailable(l) ==
    /\ InLogin(l)
    /\ Answer(l, "unavailable")
    /\ UNCHANGED <<directory, was, token, config>>

-----------------------------------------------------------------------------
\* The keys with which a replica verifies: newLDAPTokens adds the public half
\* of its own key to those that are configured.
TrustsConfigured(r) == config[r].trusts

VerifiesWith(r) == config[r].trusts \cup {config[r].signs}

\* ldapTokens.verify: no leeway at the expiry.
Accepts(r, t) ==
    /\ t # NoToken
    /\ t.kid \in VerifiesWith(r)
    /\ t.left > 0

-----------------------------------------------------------------------------
\* The operators.  "Distribute the new public verification key to all
\* replicas."
Distribute(r, k) ==
    /\ k \notin VerifiesWith(r)
    /\ config' = [config EXCEPT ![r].trusts = @ \cup {k}]
    /\ UNCHANGED <<directory, login, was, token>>

\* "Activate its private key and signingKeyID, retaining the retiring public
\* key."
Activate(r, k) ==
    /\ k # config[r].signs
    /\ \A s \in Replicas : k \in VerifiesWith(s)
    /\ config' = [config EXCEPT ![r] =
          [signs |-> k, trusts |-> @.trusts \cup {@.signs}]]
    /\ UNCHANGED <<directory, login, was, token>>

\* "Remove the retiring key only after the last token issued with it has
\* expired."
Remove(r, k) ==
    /\ k \in config[r].trusts
    /\ \A s \in Replicas : config[s].signs # k
    /\ \A l \in LdapLogins :
          /\ InLogin(l) => login[l].kid # k
          /\ token[l] # NoToken => token[l].kid # k \/ token[l].left = 0
    /\ config' = [config EXCEPT ![r].trusts = @ \ {k}]
    /\ UNCHANGED <<directory, login, was, token>>

\* Someone changes, adds or removes an entry.
ChangeUser(d, e) ==
    /\ e # directory[d]
    /\ directory' = [directory EXCEPT ![d] = e]
    /\ was' = [l \in LdapLogins |->
                  IF InLogin(l) THEN [was[l] EXCEPT ![d] = @ \cup {e}] ELSE was[l]]
    /\ UNCHANGED <<login, token, config>>

Older(t) ==
    IF t = NoToken \/ t.left = 0 THEN t
    ELSE [t EXCEPT !.left = @ - 1]

LdapTokensAge ==
    /\ \E l \in LdapLogins : token[l] # NoToken /\ token[l].left > 0
    /\ token' = [l \in LdapLogins |-> Older(token[l])]
    /\ UNCHANGED <<directory, login, was, config>>

LdapLoginNext ==
    \/ \E l \in LdapLogins :
          \/ \E r \in Replicas, n \in Names, w \in Passwords :
                BeginLdapLogin(l, r, n, w)
          \/ Search(l) \/ Bind(l) \/ ResolveAndIssue(l) \/ Unavailable(l)
    \/ \E r \in Replicas, k \in Keys :
          Distribute(r, k) \/ Activate(r, k) \/ Remove(r, k)
    \/ \E d \in DNs, e \in User \cup {NoUser} : ChangeUser(d, e)
    \/ LdapTokensAge

LdapLoginSpec == LdapLoginInit /\ [][LdapLoginNext]_ldapVars

-----------------------------------------------------------------------------
LdapLoginTypeOK ==
    /\ directory \in [DNs -> User \cup {NoUser}]
    /\ login \in [LdapLogins -> Login]
    /\ was \in [LdapLogins -> [DNs -> SUBSET (User \cup {NoUser})]]
    /\ token \in [LdapLogins -> Token \cup {NoToken}]
    /\ config \in [Replicas -> LdapConfig]

\* A token says of one entry what was true of it while its login ran: its
\* name, that its password was the one given, and its groups -- each at some
\* moment, not all at once, for the directory is asked three times.  A user who
\* was removed, or whose password was changed, before a login gets nothing.
TokenSaysWhatWasTrue ==
    \A l \in LdapLogins :
        token[l] # NoToken =>
            \E d \in DNs :
                /\ \E e \in was[l][d] \ {NoUser} : e.name = token[l].sub
                /\ \E e \in was[l][d] \ {NoUser} : e.password = login[l].password
                /\ \E e \in was[l][d] :
                      token[l].groups = IF e = NoUser THEN {} ELSE e.groups

\* While keys are rotated as README.md says, every replica accepts every token
\* until it expires, whichever replica and whichever of its processes has
\* issued it.
TokensSurviveRotation ==
    \A l \in LdapLogins, r \in Replicas :
        token[l] # NoToken /\ token[l].left > 0 => Accepts(r, token[l])

=============================================================================
