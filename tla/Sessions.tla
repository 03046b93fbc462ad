------------------------------ MODULE Sessions ------------------------------
(***************************************************************************)
(* Boot, login and sessions.                                               *)
(*                                                                         *)
(* The server starts once the identity provider answers its discovery, or  *)
(* gives up.  A login leaves the state and the PKCE verifier in cookies,   *)
(* sends the browser to the provider, and finishes in a callback that      *)
(* exchanges the code, reads the roles, upserts the user and then the      *)
(* user's settings, and issues a token that carries the roles for an hour. *)
(* There is no session table: what a token says is believed until it       *)
(* expires, while the provider's directory moves on.  Several logins may   *)
(* run in the tabs of one browser, which share its cookies.                *)
(*                                                                         *)
(* The clock ticks in fractions of TTL that are longer than a callback.    *)
(***************************************************************************)
EXTENDS Naturals, FiniteSets

CONSTANTS
    Subjects,       \* accounts of the identity provider
    Emails,         \* their addresses; a missing claim is one of them
    Groups,         \* the sets of groups an account may be in
    Directories,    \* the accounts as the provider starts out
    MemberValue, AdminValue,
    Browsers,
    Logins,         \* one process per login
    TTL,            \* tokenTTL, in ticks
    MaxDiscovery,   \* attempts of NewOIDCHandler
    MaxClock,       \* bound: ticks
    MaxMoves,       \* bound: changes of the directory
    MaxFaults       \* bound: crashes, failed statements, failed exchanges

ASSUME SessionBounds ==
    /\ TTL \in Nat \ {0} /\ MaxDiscovery \in Nat \ {0}
    /\ MaxClock \in Nat /\ MaxMoves \in Nat /\ MaxFaults \in Nat
    /\ MemberValue # AdminValue
    /\ Directories \subseteq [Subjects -> [groups : Groups, email : Emails]]

VARIABLES
    server,     \* where run() stands
    attempts,   \* discovery attempts that failed
    now,
    directory,  \* the provider's accounts: groups and email
    moves,      \* changes of the directory so far
    users,      \* the email of each user row, by subject
    settings,   \* the users that have a user_settings row
    cookies,    \* of each browser: state, verifier and session
    pc,         \* where each login stands
    tab,        \* the browser it runs in
    who,        \* the account that signed in at the provider
    roles,      \* the roles its callback has read
    answer,     \* what its callback answered
    crossed,    \* logins that another one of the same browser has met
    owners,     \* every account that ever had the email
    granted,    \* the last tick at which the directory gave the role
    faults

flowVars == <<pc, tab, who, roles, answer, crossed>>
bootVars == <<server, attempts>>
idpVars == <<directory, moves, owners>>
vars == <<server, attempts, now, directory, moves, users, settings, cookies, pc, tab, who,
          roles, answer, crossed, owners, granted, faults>>

None == "none"

\* NULL is nobody's subject, address or state; accounts are finitely many.
ASSUME SessionDomains ==
    /\ None \notin Subjects \cup Emails \cup Logins
    /\ IsFiniteSet(Subjects)

RoleNames == {"member", "admin"}
Session == [sub : Subjects, roles : SUBSET RoleNames, exp : Nat]
NoSession == [sub |-> None, roles |-> {}, exp |-> 0]
Jar == [state : Logins \cup {None}, verifier : Logins \cup {None},
        session : Session \cup {NoSession}]
Answers == {None, "302", "400", "401", "403", "500", "502"}

TypeOK ==
    /\ server \in {"migrate", "discover", "up", "exited"}
    /\ attempts \in 0..MaxDiscovery
    /\ now \in 0..MaxClock /\ moves \in 0..MaxMoves /\ faults \in 0..MaxFaults
    /\ directory \in [Subjects -> [groups : Groups, email : Emails]]
    /\ users \in [Subjects -> Emails \cup {None}]
    /\ settings \subseteq Subjects
    /\ cookies \in [Browsers -> Jar]
    /\ pc \in [Logins -> {"new", "atProvider", "exchange", "upsertUser",
                          "upsertSettings", "issue", "answered", "done"}]
    /\ answer \in [Logins -> Answers]
    /\ roles \in [Logins -> SUBSET RoleNames]
    /\ granted \in [Subjects -> [RoleNames -> 0..MaxClock]]

-----------------------------------------------------------------------------
(* Roles.                                                                  *)

\* DecodeRoles and ToStringSlice: admin implies member.
DecodeRoles(groups) ==
    IF AdminValue \in groups THEN {"member", "admin"}
    ELSE IF MemberValue \in groups THEN {"member"} ELSE {}

\* Mutant: the expiry is not checked.
Verify_noExpiry(s) == s # NoSession

\* TokenManager.Verify.
Verify(s) == s # NoSession /\ now < s.exp

\* RequireToken, then RequireMember or RequireAdmin, then the handler.
Guard(s, need) ==
    IF ~Verify(s) THEN "401" ELSE IF need \notin s.roles THEN "403" ELSE "200"

-----------------------------------------------------------------------------
EmptyJar == [state |-> None, verifier |-> None, session |-> NoSession]

Init ==
    /\ server = "migrate" /\ attempts = 0
    /\ now = 0 /\ moves = 0 /\ faults = 0
    /\ directory \in Directories
    /\ users = [s \in Subjects |-> None]
    /\ settings = {}
    /\ cookies = [b \in Browsers |-> EmptyJar]
    /\ pc = [p \in Logins |-> "new"]
    /\ tab \in [Logins -> Browsers]
    /\ who = [p \in Logins |-> None]
    /\ roles = [p \in Logins |-> {}]
    /\ answer = [p \in Logins |-> None]
    /\ crossed = {}
    /\ owners = [e \in Emails |-> {s \in Subjects : directory[s].email = e}]
    /\ granted = [s \in Subjects |-> [r \in RoleNames |-> 0]]

-----------------------------------------------------------------------------
(* run() and NewOIDCHandler.                                               *)

\* Configuration, migrations and the pool: an error ends the process.
Migrate ==
    /\ server = "migrate"
    /\ \/ server' = "discover" /\ UNCHANGED faults
       \/ faults < MaxFaults /\ server' = "exited" /\ faults' = faults + 1
    /\ UNCHANGED <<attempts, now, idpVars, users, settings, cookies, flowVars, granted>>

\* Mutant: the loop starts over instead of giving up.
DiscoverFails_forever ==
    /\ server = "discover"
    /\ attempts' = (attempts + 1) % MaxDiscovery
    /\ UNCHANGED <<server, now, idpVars, users, settings, cookies, flowVars, granted,
                   faults>>

\* The provider does not answer; after the last attempt the process exits.
DiscoverFails ==
    /\ server = "discover"
    /\ attempts' = attempts + 1
    /\ server' = IF attempts + 1 = MaxDiscovery THEN "exited" ELSE "discover"
    /\ UNCHANGED <<now, idpVars, users, settings, cookies, flowVars, granted, faults>>

Discover ==
    /\ server = "discover"
    /\ server' = "up" /\ attempts' = 0
    /\ UNCHANGED <<now, idpVars, users, settings, cookies, flowVars, granted, faults>>

\* The operator starts the process again.
Restart ==
    /\ server = "exited"
    /\ server' = "migrate" /\ attempts' = 0
    /\ UNCHANGED <<now, idpVars, users, settings, cookies, flowVars, granted, faults>>

-----------------------------------------------------------------------------
(* OIDCHandler.Login and Callback.                                         *)

Goto(p, label) == pc' = [pc EXCEPT ![p] = label]
Running(p) == pc[p] \notin {"new", "done"}

\* Login p starts, or its answer reaches the browser, while others of the same
\* browser are running.
Meet(p) ==
    crossed' = crossed \cup
        {q \in Logins \ {p} : tab[q] = tab[p] /\ Running(q)} \cup
        (IF \E q \in Logins \ {p} : tab[q] = tab[p] /\ Running(q) THEN {p} ELSE {})

\* Mutant: the state cookie is set only if there is none.
Login_keepsState(p) ==
    /\ server = "up" /\ pc[p] = "new"
    /\ cookies' = [cookies EXCEPT ![tab[p]].state = IF @ = None THEN p ELSE @,
                                  ![tab[p]].verifier = p]
    /\ Meet(p)
    /\ Goto(p, "atProvider")
    /\ UNCHANGED <<bootVars, now, idpVars, users, settings, tab, who, roles, answer,
                   granted, faults>>

\* Both cookies are set, over those of a login in another tab.
Login(p) ==
    /\ server = "up" /\ pc[p] = "new"
    /\ cookies' = [cookies EXCEPT ![tab[p]] = [@ EXCEPT !.state = p, !.verifier = p]]
    /\ Meet(p)
    /\ Goto(p, "atProvider")
    /\ UNCHANGED <<bootVars, now, idpVars, users, settings, tab, who, roles, answer,
                   granted, faults>>

\* The callback gives its answer a and stops.
Reply(p, a) == answer' = [answer EXCEPT ![p] = a] /\ Goto(p, "answered")

\* Account s signs in at the provider and the browser calls back: the state in
\* the URL is that of this login.
Callback(p, s) ==
    LET jar == cookies[tab[p]] IN
    /\ server = "up" /\ pc[p] = "atProvider"
    /\ IF jar.state # p \/ jar.verifier = None
       THEN answer' = [answer EXCEPT ![p] = "400"] /\ Goto(p, "done") /\ UNCHANGED who
       ELSE who' = [who EXCEPT ![p] = s] /\ Goto(p, "exchange") /\ UNCHANGED answer
    /\ UNCHANGED <<bootVars, now, idpVars, users, settings, cookies, tab, roles,
                   crossed, granted, faults>>

\* The exchange, the id token and its groups.
Exchange(p) ==
    LET held == DecodeRoles(directory[who[p]].groups) IN
    /\ pc[p] = "exchange"
    /\ roles' = [roles EXCEPT ![p] = held]
    /\ IF "member" \in held THEN Goto(p, "upsertUser") /\ UNCHANGED answer
                            ELSE Reply(p, "403")
    /\ UNCHANGED <<bootVars, now, idpVars, users, settings, cookies, tab, who, crossed,
                   granted, faults>>

\* Mutant: without ON CONFLICT (oidc_issuer, oidc_subject) DO UPDATE.
UpsertUser_insertOnly(p) ==
    LET email == directory[who[p]].email IN
    /\ pc[p] = "upsertUser"
    /\ IF users[who[p]] # None \/ \E s \in Subjects : users[s] = email
       THEN Reply(p, "500") /\ UNCHANGED users
       ELSE users' = [users EXCEPT ![who[p]] = email] /\ Goto(p, "upsertSettings")
                /\ UNCHANGED answer
    /\ UNCHANGED <<bootVars, now, idpVars, settings, cookies, tab, who, roles, crossed,
                   granted, faults>>

\* UpsertUser: uq_users_email refuses an address that another row still has.
UpsertUser(p) ==
    LET email == directory[who[p]].email IN
    /\ pc[p] = "upsertUser"
    /\ IF \E s \in Subjects \ {who[p]} : users[s] = email
       THEN Reply(p, "500") /\ UNCHANGED users
       ELSE users' = [users EXCEPT ![who[p]] = email] /\ Goto(p, "upsertSettings")
                /\ UNCHANGED answer
    /\ UNCHANGED <<bootVars, now, idpVars, settings, cookies, tab, who, roles, crossed,
                   granted, faults>>

UpsertUserSettings(p) ==
    /\ pc[p] = "upsertSettings"
    /\ settings' = settings \cup {who[p]}
    /\ Goto(p, "issue")
    /\ UNCHANGED <<bootVars, now, idpVars, users, cookies, tab, who, roles, answer,
                   crossed, granted, faults>>

Issue(p) ==
    /\ pc[p] = "issue"
    /\ Reply(p, "302")
    /\ UNCHANGED <<bootVars, now, idpVars, users, settings, cookies, tab, who, roles,
                   crossed, granted, faults>>

\* Mutant: Issue overwrites the subject the callback has set.
Deliver_noSubject(p) ==
    /\ pc[p] = "answered"
    /\ cookies' = [cookies EXCEPT ![tab[p]] =
            [state |-> None, verifier |-> None,
             session |-> IF answer[p] = "302"
                         THEN [sub |-> None, roles |-> roles[p], exp |-> now + TTL]
                         ELSE @.session]]
    /\ Meet(p)
    /\ Goto(p, "done")
    /\ who' = [who EXCEPT ![p] = None] /\ roles' = [roles EXCEPT ![p] = {}]
    /\ UNCHANGED <<bootVars, now, idpVars, users, settings, tab, answer, granted, faults>>

\* The answer reaches the browser: state and verifier are cleared, whichever
\* login they belong to by now, and a session replaces the one before.
Deliver(p) ==
    /\ pc[p] = "answered"
    /\ cookies' = [cookies EXCEPT ![tab[p]] =
            [state |-> None, verifier |-> None,
             session |-> IF answer[p] = "302"
                         THEN [sub |-> who[p], roles |-> roles[p], exp |-> now + TTL]
                         ELSE @.session]]
    /\ Meet(p)
    /\ Goto(p, "done")
    /\ who' = [who EXCEPT ![p] = None] /\ roles' = [roles EXCEPT ![p] = {}]
    /\ UNCHANGED <<bootVars, now, idpVars, users, settings, tab, answer, granted, faults>>

\* Mutant: the error of UpsertUserSettings is logged and ignored.
CallbackFails_ignored(p) ==
    /\ faults < MaxFaults
    /\ \/ pc[p] = "exchange" /\ Reply(p, "502")
       \/ pc[p] \in {"upsertUser", "issue"} /\ Reply(p, "500")
       \/ pc[p] = "upsertSettings" /\ Goto(p, "issue") /\ UNCHANGED answer
    /\ faults' = faults + 1
    /\ UNCHANGED <<bootVars, now, idpVars, users, settings, cookies, tab, who, roles,
                   crossed, granted>>

\* The exchange, the check of the id token or its claims, or a statement fails.
CallbackFails(p) ==
    /\ faults < MaxFaults
    /\ \/ pc[p] = "exchange" /\ \E a \in {"401", "500", "502"} : Reply(p, a)
       \/ pc[p] \in {"upsertUser", "upsertSettings", "issue"} /\ Reply(p, "500")
    /\ faults' = faults + 1
    /\ UNCHANGED <<bootVars, now, idpVars, users, settings, cookies, tab, who, roles,
                   crossed, granted>>

\* The process dies: callbacks in progress get no answer, the rest stays.
Crash ==
    /\ server = "up" /\ faults < MaxFaults
    /\ server' = "exited"
    /\ pc' = [p \in Logins |-> IF pc[p] \in {"new", "atProvider"} THEN pc[p] ELSE "done"]
    /\ who' = [p \in Logins |-> None] /\ roles' = [p \in Logins |-> {}]
    /\ faults' = faults + 1
    /\ UNCHANGED <<attempts, now, idpVars, users, settings, cookies, tab, answer, crossed,
                   granted>>

-----------------------------------------------------------------------------
(* The session in use.                                                     *)

\* Logout clears the cookie; nothing is kept on the server.
Logout(b) ==
    /\ server = "up" /\ cookies[b].session # NoSession
    /\ cookies' = [cookies EXCEPT ![b].session = NoSession]
    /\ UNCHANGED <<bootVars, now, idpVars, users, settings, flowVars, granted, faults>>

\* After five minutes the browser drops state and verifier.
CookiesExpire(b) ==
    /\ cookies[b].state # None \/ cookies[b].verifier # None
    /\ cookies' = [cookies EXCEPT ![b] = [@ EXCEPT !.state = None, !.verifier = None]]
    /\ crossed' = crossed \cup {p \in Logins : tab[p] = b /\ Running(p)}
    /\ UNCHANGED <<bootVars, now, idpVars, users, settings, pc, tab, who, roles, answer,
                   granted, faults>>

\* An account changes groups or address, or is closed.
MoveAccount(s, g, e) ==
    /\ moves < MaxMoves
    /\ directory' = [directory EXCEPT ![s] = [groups |-> g, email |-> e]]
    /\ owners' = [owners EXCEPT ![e] = @ \cup {s}]
    /\ granted' = [granted EXCEPT ![s] = [r \in RoleNames |->
            IF r \in DecodeRoles(directory[s].groups) \cup DecodeRoles(g) THEN now ELSE @[r]]]
    /\ moves' = moves + 1
    /\ UNCHANGED <<bootVars, now, users, settings, cookies, flowVars, faults>>

\* A tick is longer than a callback.
Advance ==
    /\ now < MaxClock
    /\ \A p \in Logins : pc[p] \in {"new", "atProvider", "done"}
    /\ now' = now + 1
    /\ granted' = [s \in Subjects |-> [r \in RoleNames |->
            IF r \in DecodeRoles(directory[s].groups) THEN now + 1 ELSE granted[s][r]]]
    /\ UNCHANGED <<bootVars, idpVars, users, settings, cookies, flowVars, faults>>

-----------------------------------------------------------------------------
Boot == Migrate \/ DiscoverFails \/ Discover

Serve(p) ==
    \/ Exchange(p) \/ UpsertUser(p) \/ UpsertUserSettings(p) \/ Issue(p) \/ Deliver(p)

\* Nobody logs in any more.
Idle == (\A p \in Logins : pc[p] = "done") /\ UNCHANGED vars

Next ==
    \/ Boot \/ Restart \/ Crash \/ Advance \/ Idle
    \/ \E p \in Logins : Login(p) \/ Serve(p) \/ CallbackFails(p)
                         \/ \E s \in Subjects : Callback(p, s)
    \/ \E b \in Browsers : Logout(b) \/ CookiesExpire(b)
    \/ \E s \in Subjects, g \in Groups, e \in Emails : MoveAccount(s, g, e)

\* run() goes on booting; the provider need not ever answer.
Spec == Init /\ [][Next]_vars /\ WF_vars(Boot)

-----------------------------------------------------------------------------
(* Properties.                                                             *)

\* A user with a session has a user row and a settings row, whatever failed
\* between the two upserts of this or an earlier login: Star and the settings
\* page rely on it.
SessionHasRows ==
    \A b \in Browsers : LET s == cookies[b].session IN
        s # NoSession => users[s.sub] # None /\ s.sub \in settings

\* A role taken away at the provider is gone from every session within TTL:
\* whoever is let in had the role at the provider less than TTL ago.
RolesAgeOut ==
    \A b \in Browsers, need \in RoleNames : LET s == cookies[b].session IN
        Guard(s, need) = "200" => now < granted[s.sub][need] + TTL

\* A callback finds its state cookie gone only if another login ran in the
\* same browser meanwhile, or five minutes went by.
StateLostOnlyWhenCrossed == \A p \in Logins : answer[p] = "400" => p \in crossed

\* Without a fault no member's login ends in an error, however often the user
\* has signed in before and changed address, unless an address has passed from
\* one account to another (accounts without the claim share the empty one).
LoginFailsOnlyOnSharedEmail ==
    \A p \in Logins : answer[p] = "500" =>
        faults > 0 \/ \E e \in Emails : Cardinality(owners[e]) > 1

\* Booting ends: the server is up or has given up.
BootSettles == (server \in {"migrate", "discover"}) ~> (server \in {"up", "exited"})
=============================================================================
