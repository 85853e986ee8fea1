----------------------------- MODULE OAuthLogin -----------------------------
(***************************************************************************)
(* The browser login of mode openshift: `cappctl login` of                 *)
(* internal/cli/auth on one machine, the routes authorize and callback of  *)
(* internal/server/auth_routes.go, openShiftManager of internal/auth, and  *)
(* the tabs that the commands open.  A tab outlives its command, and what  *)
(* it is redirected to is always the same port of the machine.  Replicas   *)
(* keep nothing of a login; they restart, with another client secret or    *)
(* with endpoints they could not discover.                                 *)
(*                                                                         *)
(* Time goes in ticks, each longer than the command waits for the answer   *)
(* to one request.                                                         *)
(***************************************************************************)
EXTENDS Naturals

CONSTANTS
    BrowserLogins,  \* runs of `cappctl login`
    OAuthReplicas,
    LastSecret,     \* client secrets are numbered, the oldest one is 1
    StateTTL,       \* oauthStateTTL, in ticks
    CallbackWait,   \* how long a command waits for its tab, in ticks
    NoTab           \* no callback has arrived

ClientSecrets == 1..LastSecret
Ages == 0..StateTTL + 1

\* A request is in flight for a tick at most: it may see the next one begin.
ASSUME OAuthLoginAssumption ==
    /\ LastSecret \in Nat \ {0}
    /\ StateTTL \in Nat /\ CallbackWait \in Nat \ {0}
    /\ CallbackWait + 2 <= StateTTL
    /\ NoTab \notin BrowserLogins

VARIABLES
    browserLogin,   \* the commands
    tab,            \* the tab each of them has opened, with its state
    oauthReplica,   \* the client secret and the endpoints of each replica
    registered      \* the secret the OAuth server knows for the client

oauthVars == <<browserLogin, tab, oauthReplica, registered>>

\* from: the tab whose callback the command has received.  waited: the ticks
\* that have passed in this step.
BrowserLogin ==
    [at: {"idle", "authorize", "wait", "callback",
          "ok", "refused", "denied", "failed"},
     from: BrowserLogins \cup {NoTab}, waited: 0..CallbackWait]

\* code: the user has signed in and the tab has an authorization code.
\* issuer is a history: the replica that has signed the state.
Tab == [at: {"closed", "open", "error", "code", "spent"},
        key: ClientSecrets, age: Ages, issuer: OAuthReplicas]

OAuthReplica == [secret: ClientSecrets, endpoints: {"discovered", "guessed"}]

Listening(l) == browserLogin[l].at \in {"authorize", "wait", "callback"}

OAuthLoginInit ==
    /\ browserLogin = [l \in BrowserLogins |->
          [at |-> "idle", from |-> NoTab, waited |-> 0]]
    /\ \E r \in OAuthReplicas :
          tab = [l \in BrowserLogins |->
                   [at |-> "closed", key |-> 1, age |-> 0, issuer |-> r]]
    /\ oauthReplica = [r \in OAuthReplicas |->
                         [secret |-> 1, endpoints |-> "discovered"]]
    /\ registered = 1

LoginGoesTo(l, at) ==
    browserLogin' = [browserLogin EXCEPT ![l].at = at, ![l].waited = 0]
LoginEnds(l, at) ==
    browserLogin' = [browserLogin EXCEPT ![l] =
                       [at |-> at, from |-> NoTab, waited |-> 0]]

\* startCallbackServer: the port is taken while another command listens.
StartCallbackServer(l) ==
    /\ browserLogin[l].at = "idle"
    /\ IF \E k \in BrowserLogins : Listening(k)
       THEN LoginEnds(l, "failed") ELSE LoginGoesTo(l, "authorize")
    /\ UNCHANGED <<tab, oauthReplica, registered>>

\* deriveStateKey: the same for all the replicas that have the same secret.
StateKey(r) == oauthReplica[r].secret

\* GET authorize at some replica, and the tab for the URL it answers with.
\* The URL leads nowhere when the replica has guessed it.
Authorize(l, r) ==
    /\ browserLogin[l].at = "authorize"
    /\ LoginGoesTo(l, "wait")
    /\ tab' = [tab EXCEPT ![l] =
          [at |-> IF oauthReplica[r].endpoints = "guessed" THEN "error" ELSE "open",
           key |-> StateKey(r), age |-> 0, issuer |-> r]]
    /\ UNCHANGED <<oauthReplica, registered>>

\* A request of the command fails.
RequestFails(l) ==
    /\ browserLogin[l].at \in {"authorize", "callback"}
    /\ LoginEnds(l, "failed")
    /\ UNCHANGED <<tab, oauthReplica, registered>>

\* The callback server hands on the first callback only.
Receive(t) ==
    browserLogin' = [l \in BrowserLogins |->
        IF Listening(l) /\ browserLogin[l].from = NoTab
        THEN [browserLogin[l] EXCEPT !.from = t] ELSE browserLogin[l]]

\* The user signs in, or reloads the page the tab was redirected to: whatever
\* command listens by now receives the code and the state.
Redirect(t) ==
    /\ tab[t].at \in {"open", "code", "spent"}
    /\ tab' = [tab EXCEPT ![t].at = IF @ = "open" THEN "code" ELSE @]
    /\ Receive(t)
    /\ UNCHANGED <<oauthReplica, registered>>

\* The user does not grant access, or the OAuth server fails: the tab has no
\* code.
RedirectWithError(t) ==
    /\ tab[t].at = "open"
    /\ tab' = [tab EXCEPT ![t].at = "error"]
    /\ Receive(t)
    /\ UNCHANGED <<oauthReplica, registered>>

\* awaitOAuthCallback
AwaitCallback(l) ==
    /\ browserLogin[l].at = "wait"
    /\ \/ /\ browserLogin[l].from # NoTab
          /\ IF tab[browserLogin[l].from].at = "error"
             THEN LoginEnds(l, "failed") ELSE LoginGoesTo(l, "callback")
       \/ /\ browserLogin[l].waited = CallbackWait
          /\ LoginEnds(l, "failed")
    /\ UNCHANGED <<tab, oauthReplica, registered>>

\* Mutant of ValidateState: states are kept by the replica that issued them.
ValidateStateOfOwn(r, t) == tab[t].issuer = r /\ tab[t].age <= StateTTL

\* The signature is that of a replica with the same secret, and the state has
\* not expired.
ValidateState(r, t) ==
    /\ tab[t].key = StateKey(r)
    /\ tab[t].age <= StateTTL

\* oauthTokenRequest: the OAuth server takes a code once.  "denied" is what
\* the server says of the code; the rest are internal errors.
Exchange(l, r, t) ==
    \/ /\ oauthReplica[r] = [secret |-> registered, endpoints |-> "discovered"]
       /\ \/ /\ tab[t].at = "code"
             /\ LoginEnds(l, "ok")
             /\ tab' = [tab EXCEPT ![t].at = "spent"]
          \/ LoginEnds(l, "denied") /\ tab[t].at = "spent" /\ UNCHANGED tab
    \/ /\ oauthReplica[r] # [secret |-> registered, endpoints |-> "discovered"]
       /\ LoginEnds(l, "failed")
       /\ UNCHANGED tab

\* POST callback at some replica, with the state of the tab that has called
\* back rather than the one that authorize has answered with.
Callback(l, r) ==
    LET t == browserLogin[l].from
    IN  /\ browserLogin[l].at = "callback"
        /\ \/ ValidateState(r, t) /\ Exchange(l, r, t)
           \/ ~ValidateState(r, t) /\ LoginEnds(l, "refused") /\ UNCHANGED tab
        /\ UNCHANGED <<oauthReplica, registered>>

\* newOpenShiftManager, when a replica starts again: the secret may be a
\* newer one, and the endpoints are guessed when the discovery fails.
RestartReplica(r, s, endpoints) ==
    /\ s >= oauthReplica[r].secret
    /\ [secret |-> s, endpoints |-> endpoints] # oauthReplica[r]
    /\ oauthReplica' = [oauthReplica EXCEPT ![r] =
                          [secret |-> s, endpoints |-> endpoints]]
    /\ UNCHANGED <<browserLogin, tab, registered>>

RegisterSecret ==
    /\ registered < LastSecret
    /\ registered' = registered + 1
    /\ UNCHANGED <<browserLogin, tab, oauthReplica>>

\* How many ticks may pass in the step that a command is in.
Patience(l) ==
    IF browserLogin[l].at = "wait" THEN CallbackWait
    ELSE IF Listening(l) THEN 1 ELSE 0

OAuthTick ==
    /\ \A l \in BrowserLogins :
          Listening(l) => browserLogin[l].waited < Patience(l)
    /\ browserLogin' = [l \in BrowserLogins |->
          IF Listening(l) THEN [browserLogin[l] EXCEPT !.waited = @ + 1]
                          ELSE browserLogin[l]]
    /\ tab' = [t \in BrowserLogins |->
          IF tab[t].at \notin {"closed", "error"} /\ tab[t].age <= StateTTL
          THEN [tab[t] EXCEPT !.age = @ + 1] ELSE tab[t]]
    /\ UNCHANGED <<oauthReplica, registered>>

OAuthLoginNext ==
    \/ \E l \in BrowserLogins :
          \/ StartCallbackServer(l) \/ RequestFails(l) \/ AwaitCallback(l)
          \/ Redirect(l) \/ RedirectWithError(l)
          \/ \E r \in OAuthReplicas : Authorize(l, r) \/ Callback(l, r)
    \/ \E r \in OAuthReplicas, s \in ClientSecrets,
          endpoints \in {"discovered", "guessed"} : RestartReplica(r, s, endpoints)
    \/ RegisterSecret
    \/ OAuthTick

OAuthLoginSpec == OAuthLoginInit /\ [][OAuthLoginNext]_oauthVars

-----------------------------------------------------------------------------
(* Properties. *)

\* The type invariant of the module: a command that has been called back knows
\* of a tab, and a tab that is there was opened by a command.
OAuthLoginTypeOK ==
    /\ browserLogin \in [BrowserLogins -> BrowserLogin]
    /\ tab \in [BrowserLogins -> Tab]
    /\ oauthReplica \in [OAuthReplicas -> OAuthReplica]
    /\ registered \in ClientSecrets
    /\ \A l \in BrowserLogins :
          /\ browserLogin[l].at = "callback" => browserLogin[l].from # NoTab
          /\ browserLogin[l].from # NoTab => tab[browserLogin[l].from].at # "closed"

\* docs/openshift-auth.md: the backend "keeps no session state, so multiple
\* replicas work without a shared store".  Whichever replicas serve a login,
\* whatever restarts, and however late the user signs in within the time the
\* command waits: when its own tab calls back its state is refused only if the
\* client secret is being changed.
OwnCallbackIsAccepted ==
    [][\A l \in BrowserLogins :
         (/\ browserLogin[l].at = "callback" /\ browserLogin[l].from = l
          /\ browserLogin'[l].at = "refused")
            => \E r \in OAuthReplicas : oauthReplica[r].secret # tab[l].key]_oauthVars

=============================================================================
